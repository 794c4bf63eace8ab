------------------------------ MODULE Overlay -------------------------------
(***************************************************************************)
(* One run of the selection overlay: the machine that turns pointer and    *)
(* key messages into a selection, the shell that runs its effects, and the *)
(* handshake by which another thread cancels the run.                      *)
(*                                                                         *)
(* A message is one transition of `model`; its effects are then run in     *)
(* order, one a step.  Most are instant.  While a slow one runs (windows   *)
(* are enumerated or rendered) the hand on the mouse goes on, and where a  *)
(* button comes up then decides who hears of it: this window, if it has    *)
(* captured the pointer or the pointer is over it, otherwise another.      *)
(*                                                                         *)
(* Regions are spans of one axis (Geometry); `across` and `row` in a       *)
(* message say what the point does on the other.  Painting, the cursor,    *)
(* hovering, the magnifier, the two views and the menu rows that do not    *)
(* touch the selection are left out, and of the window chooser this module *)
(* keeps only that a click may choose a window.                            *)
(***************************************************************************)
EXTENDS Geometry

CONSTANTS
    source,        \* the display's span
    Points,        \* where the pointer may be, outside the display too
    Edges,         \* the snap inventory, once built
    HandleRadius, DragThreshold,
    Offered,       \* the intents this run offers besides Capture
    Windows,
    WindowRects,   \* where a window's frame may be; part of it may be off the display
    Remembered,    \* regions an earlier run may have left, of another display perhaps
    MaxChoices     \* messages and interruptions in a run

ASSUME SourceAssumption == source \in Spans
ASSUME EdgesAssumption ==
    /\ Edges \in Seq(Int)
    /\ \A i \in DOMAIN Edges : Edges[i] >= source.left /\ Edges[i] <= source.right
ASSUME InputAssumption ==
    /\ Points \subseteq Int
    /\ HandleRadius \in Nat
    /\ DragThreshold \in Nat
    /\ Offered \subseteq {"Pin", "Edit", "Record"}
    /\ None \notin Windows
    /\ WindowRects \subseteq Spans
    /\ Remembered \subseteq Spans
    /\ MaxChoices \in Nat

Tools == {"FullDisplay", "Window", "Region"}
Intents == {"Capture", "Pin", "Edit", "Record"}
Slow == {"BuildSnapTargets", "UpdateWindowPreview"}

VARIABLES
    model,        \* OverlayModel
    pending,      \* effects not yet run
    inbox,        \* messages that wait for the loop
    phase,        \* the run: starting, made, published, open, closed
    button,       \* whether the primary button is down
    captured,     \* whether this window has the pointer
    persisted,    \* the region last handed to the UI-state worker
    outcome,      \* how the run ended
    hand,         \* the last move of the hand on the mouse, and whether it let go there
    cancel,       \* the thread that cancels: idle, stored, done
    choices

vars == <<model, pending, inbox, phase, button, captured, persisted, outcome, hand,
          cancel, choices>>

Over(p) == source.left <= p /\ p < source.right
Effect(name, value) == [name |-> name, value |-> value]

-----------------------------------------------------------------------------
(* The machine.  Each operator is a transition: the model it leaves and    *)
(* the effects it declares.                                                *)

Becomes(m, effects) == [model |-> m, effects |-> effects]
Stays(m) == Becomes(m, <<>>)

region_drag_active(m) == m.anchor # None \/ m.resizing # None \/ m.moving # None
WithoutDrag(m) ==
    [m EXCEPT !.anchor = None, !.dragging = FALSE, !.resizing = None, !.moving = None]

active_targets(m, ctrl) == IF m.snapOn /\ m.targets /\ ~ctrl THEN Edges ELSE <<>>

request_snap_targets(m) ==
    IF m.snapOn /\ m.tool = "Region" /\ ~m.targets
    THEN <<Effect("BuildSnapTargets", None)>> ELSE <<>>

latest_interaction_region(m) ==
    IF m.tool = "Region" /\ m.kind = "Region" THEN Or(m.selection, m.lastRegion) ELSE m.lastRegion

persist_interaction(m) ==
    Becomes([m EXCEPT !.lastRegion = latest_interaction_region(m)],
            <<Effect("PersistInteraction", latest_interaction_region(m))>>)

Closing(how, m, intent) ==
    Effect("Close", [how |-> how, rect |-> m.selection, kind |-> m.kind,
                     window |-> m.window, intent |-> intent])

Available(intent) == intent = "Capture" \/ intent \in Offered

confirm(m, intent) ==
    IF m.selection = None \/ m.kind = None \/ ~Available(intent) THEN Stays(m)
    ELSE LET p == persist_interaction(m)
         IN Becomes(p.model, Append(p.effects, Closing("Confirmed", m, intent)))

confirm_or_capture(m, intent) ==
    IF Available(intent) THEN confirm(m, intent) ELSE confirm(m, "Capture")

CancelRun(m) ==
    LET p == persist_interaction(m)
    IN Becomes(p.model, Append(p.effects, Closing("Cancelled", m, None)))

\* What the band becomes; `across` is what the drag covers on the other axis.
Band(m, p, ctrl, across) ==
    IF across = "flat" THEN Snapped(None, None)
    ELSE rect_from_points_snapped(source, m.anchor, p, active_targets(m, ctrl))

Resized(m, p, ctrl) ==
    resize_region_snapped(m.resizing.original, m.resizing.handle, p, source,
                          active_targets(m, ctrl))

Moved(m, p, ctrl) ==
    move_region_snapped(m.moving.original, m.moving.from, p, source, active_targets(m, ctrl))

\* The press is a drag once it has gone far enough on either axis; the anchor
\* is snapped then and never again.
Latched(m, msg) ==
    IF /\ ~m.dragging
       /\ Distance(m.anchor, msg.p) >= DragThreshold \/ msg.across = "far"
    THEN [m EXCEPT !.dragging = TRUE,
                   !.anchor = snap_anchor(@, active_targets(m, msg.ctrl))]
    ELSE m

pointer_moved(m, msg) ==
    CASE m.toolbarDrag -> Stays(m)
      [] ~m.toolbarDrag /\ m.resizing # None ->
           LET r == Resized(m, msg.p, msg.ctrl)
           IN Stays([m EXCEPT !.selection = r.span, !.guide = r.guide])
      [] ~m.toolbarDrag /\ m.resizing = None /\ m.moving # None ->
           LET r == Moved(m, msg.p, msg.ctrl)
           IN Stays([m EXCEPT !.selection = r.span, !.guide = r.guide])
      [] ~m.toolbarDrag /\ m.resizing = None /\ m.moving = None /\ m.anchor # None ->
           LET l == Latched(m, msg)
               r == Band(l, msg.p, msg.ctrl, msg.across)
           IN Stays(IF l.dragging
                    THEN [l EXCEPT !.selection = r.span, !.guide = r.guide,
                                   !.kind = "Region", !.window = None]
                    ELSE l)
      [] OTHER -> Stays(m)

\* Which part of the region a press meets: the top corners look left first,
\* the bottom corners and the sides right first, and the top or bottom edge
\* moves nothing on this axis.
hit_test_resize_handle(s, p, row) ==
    LET nearLeft == Distance(p, s.left) <= HandleRadius
        nearRight == Distance(p, s.right) <= HandleRadius
    IN CASE row = "top" /\ nearLeft -> "Leading"
         [] row = "top" /\ ~nearLeft /\ nearRight -> "Trailing"
         [] row \in {"bottom", "middle"} /\ nearRight -> "Trailing"
         [] row \in {"bottom", "middle"} /\ ~nearRight /\ nearLeft -> "Leading"
         [] row \in {"top", "bottom"} /\ ~nearLeft /\ ~nearRight
            /\ s.left <= p /\ p <= s.right -> "Across"
         [] OTHER -> None

Contains(s, p, row) == s.left <= p /\ p < s.right /\ row # "outside"

\* Variation: the windows are enumerated before the pointer is taken.
RegionPressedLate(m, msg) ==
    Becomes([m EXCEPT !.anchor = msg.p, !.dragging = FALSE, !.resizing = None, !.moving = None,
                      !.selection = None, !.kind = None, !.window = None],
            Append(request_snap_targets(m), Effect("CapturePointer", None)))

RegionPressed(m, msg) ==
    LET region == IF m.kind = "Region" THEN m.selection ELSE None
        handle == IF region = None THEN None ELSE hit_test_resize_handle(region, msg.p, msg.row)
        now == IF handle # None
               THEN [WithoutDrag(m) EXCEPT !.resizing = [handle |-> handle, original |-> region]]
               ELSE IF region # None /\ Contains(region, msg.p, msg.row)
               THEN [m EXCEPT !.moving = [from |-> msg.p, original |-> region],
                              !.anchor = None, !.dragging = FALSE]
               ELSE [WithoutDrag(m) EXCEPT !.anchor = msg.p,
                              !.selection = None, !.kind = None, !.window = None]
    IN Becomes(now, <<Effect("CapturePointer", None)>> \o request_snap_targets(m))

pointer_down(m, msg) ==
    LET clear == [m EXCEPT !.guide = None, !.menu = FALSE] IN
    CASE m.tool = "Window" ->
           Becomes([clear EXCEPT !.window = msg.window],
                   <<Effect("UpdateWindowPreview", msg.window)>>)
      [] m.tool = "FullDisplay" -> Stays(clear)
      [] m.tool = "Region" -> RegionPressed(clear, msg)

activate_tool(m, tool) ==
    LET bare == [WithoutDrag(m) EXCEPT !.guide = None, !.armed = FALSE]
        fresh == IF m.tool = tool THEN bare
                 ELSE [bare EXCEPT !.lastRegion = latest_interaction_region(m),
                                   !.selection = None, !.kind = None, !.window = None]
        now == [fresh EXCEPT !.tool = tool, !.menu = FALSE]
        then == CASE tool = "FullDisplay" ->
                       [now EXCEPT !.selection = source, !.kind = "FullDisplay", !.window = None]
                  [] tool = "Region" /\ m.tool # tool ->
                       [now EXCEPT !.selection = clamp_within(now.lastRegion, source),
                                   !.kind = "Region"]
                  [] OTHER -> now
    IN Becomes(then, request_snap_targets(then))

\* A row of the menu is there to press only while the menu is open.
Controls(m) ==
    {"Background", "Options", "Capture", "Pin", "Edit", "Record", "Cancel"} \cup Tools
    \cup (IF m.menu THEN {"SnapToWindows", "OtherRow"} ELSE {})

toolbar_control_pressed(m, msg) ==
    LET now == WithoutDrag(m) IN
    CASE msg.on = "Background" ->
           Becomes([now EXCEPT !.menu = FALSE, !.toolbarDrag = TRUE],
                   <<Effect("CapturePointer", None)>>)
      [] msg.on \in Tools -> activate_tool(now, msg.on)
      [] msg.on = "Options" -> Stays([now EXCEPT !.menu = ~@])
      [] msg.on = "Capture" -> confirm_or_capture(now, msg.intent)
      [] msg.on \in {"Pin", "Edit"} -> confirm(now, msg.on)
      [] msg.on = "Record" ->
           IF m.tool = "Window" /\ m.selection = None /\ "Record" \in Offered
           THEN Stays([now EXCEPT !.armed = ~@])
           ELSE confirm(now, "Record")
      [] msg.on = "SnapToWindows" ->
           LET set == [now EXCEPT !.snapOn = ~@, !.guide = None]
           IN Becomes(set, request_snap_targets(set))
      [] msg.on = "OtherRow" -> Stays(now)
      [] msg.on = "Cancel" -> CancelRun(now)

\* Variation: the release does not look at the keys.
UpWithoutKeys(m, msg) ==
    LET free == [WithoutDrag(m) EXCEPT !.guide = None]
        Commits(r) == [free EXCEPT !.selection = r.span, !.kind = "Region", !.window = None]
    IN Becomes(CASE m.resizing # None -> Commits(Resized(m, msg.p, FALSE))
                 [] m.resizing = None /\ m.moving # None -> Commits(Moved(m, msg.p, FALSE))
                 [] m.resizing = None /\ m.moving = None /\ m.anchor # None /\ m.dragging ->
                      Commits(Band(m, msg.p, FALSE, msg.across))
                 [] OTHER -> free,
               <<Effect("ReleasePointer", None)>>)

pointer_up(m, msg) ==
    LET free == [WithoutDrag(m) EXCEPT !.guide = None]
        Commits(r) == [free EXCEPT !.selection = r.span, !.kind = "Region", !.window = None]
        now == CASE m.toolbarDrag -> [m EXCEPT !.toolbarDrag = FALSE]
                 [] ~m.toolbarDrag /\ m.tool # "Region" -> m
                 [] ~m.toolbarDrag /\ m.tool = "Region" /\ m.resizing # None ->
                      Commits(Resized(m, msg.p, msg.ctrl))
                 [] ~m.toolbarDrag /\ m.tool = "Region" /\ m.resizing = None
                    /\ m.moving # None -> Commits(Moved(m, msg.p, msg.ctrl))
                 [] ~m.toolbarDrag /\ m.tool = "Region" /\ m.resizing = None
                    /\ m.moving = None /\ m.anchor # None /\ m.dragging ->
                      Commits(Band(m, msg.p, msg.ctrl, msg.across))
                 [] OTHER -> free
    IN Becomes(now, <<Effect("ReleasePointer", None)>>)

pointer_capture_lost(m) ==
    Stays([WithoutDrag(m) EXCEPT !.toolbarDrag = FALSE, !.guide = None])

nudge(m, msg) ==
    IF m.tool # "Region" \/ m.kind # "Region" \/ m.menu \/ region_drag_active(m)
       \/ m.selection = None
    THEN Stays(m)
    ELSE LET moved == IF msg.resize THEN resize_region_by(m.selection, msg.by, source)
                      ELSE translated(m.selection, msg.by)
         IN Stays([m EXCEPT !.selection = clamp_within(moved, source), !.guide = None])

window_preview_resolved(m, rect, intent) ==
    LET now == [m EXCEPT !.selection = rect, !.kind = IF rect = None THEN None ELSE "Window"]
    IN IF rect = None THEN Stays(now)
       ELSE confirm_or_capture(now, IF m.armed THEN "Record" ELSE intent)

transition(m, msg) ==
    CASE msg.kind = "Moved" -> pointer_moved(m, msg)
      [] msg.kind = "Down" ->
           IF msg.on = "Desk" THEN pointer_down(m, msg) ELSE toolbar_control_pressed(m, msg)
      [] msg.kind = "Up" -> pointer_up(m, msg)
      [] msg.kind = "Double" ->
           IF msg.on = "Desk" THEN confirm_or_capture(m, msg.intent) ELSE Stays(m)
      [] msg.kind = "CaptureLost" -> pointer_capture_lost(m)
      [] msg.kind = "Nudge" -> nudge(m, msg)
      [] msg.kind = "Enter" -> confirm(m, msg.intent)
      [] msg.kind = "Cancel" -> CancelRun(m)
      [] msg.kind = "DisplayChanged" -> Becomes(m, <<Closing("Invalidated", m, None)>>)

-----------------------------------------------------------------------------
(* The shell: a message's transition, then its effects one at a time.      *)

Idle == phase = "open" /\ pending = <<>> /\ inbox = <<>>
Busy == phase = "open" /\ pending # <<>> /\ Head(pending).name \in Slow
\* The hand has not moved since it pressed or let go; it let go where it last moved.
Still == [kind |-> "Still"]
LetGo == [kind |-> "LetGo"]
Choice == choices < MaxChoices /\ choices' = choices + 1

Sends(msg) == inbox' = Append(inbox, msg)

CaptureRuns ==
    /\ phase = "open" /\ pending # <<>>
    /\ Head(pending).name \in {"CapturePointer", "ReleasePointer"}
    /\ captured' = (Head(pending).name = "CapturePointer")
    /\ pending' = Tail(pending)
    /\ UNCHANGED <<model, inbox, phase, button, persisted, outcome, hand, cancel, choices>>

PersistRuns ==
    /\ phase = "open" /\ pending # <<>> /\ Head(pending).name = "PersistInteraction"
    /\ persisted' = Head(pending).value
    /\ pending' = Tail(pending)
    /\ UNCHANGED <<model, inbox, phase, button, captured, outcome, hand, cancel, choices>>

\* The window is destroyed; what was still to come to it is dropped.
Closes(how) ==
    /\ phase' = "closed"
    /\ outcome' = how
    /\ pending' = <<>>
    /\ inbox' = <<>>
    /\ captured' = FALSE

CloseRuns ==
    /\ phase = "open" /\ pending # <<>> /\ Head(pending).name = "Close"
    /\ Closes(Head(pending).value)
    /\ UNCHANGED <<model, button, persisted, hand, cancel, choices>>

\* A slow effect returns and its answer is a transition of its own, inside the
\* effects of the message that asked.
Answers(t) ==
    /\ model' = t.model
    /\ pending' = t.effects \o Tail(pending)
    /\ UNCHANGED <<inbox, phase, button, captured, persisted, outcome, hand, cancel, choices>>

SnapTargetsBuilt ==
    /\ Busy /\ Head(pending).name = "BuildSnapTargets"
    /\ Answers(Stays([model EXCEPT !.targets = TRUE]))

\* The window is rendered, or cannot be; the keys are read afterwards.  What is
\* selected is its frame on the desktop, which nothing clips to the display.
WindowPreviewUpdated ==
    /\ Busy /\ Head(pending).name = "UpdateWindowPreview"
    /\ \E rect \in {None} \cup (IF Head(pending).value = None THEN {} ELSE WindowRects) :
       \E t \in {window_preview_resolved(model, rect, intent) : intent \in {"Capture", "Pin"}} :
          Answers(t)

\* The loop takes what came during a slow effect, or from the cancelling thread.
Pump ==
    /\ phase = "open" /\ pending = <<>> /\ inbox # <<>>
    /\ \E t \in {transition(model, Head(inbox))} : model' = t.model /\ pending' = t.effects
    /\ inbox' = Tail(inbox)
    /\ UNCHANGED <<phase, button, captured, persisted, outcome, hand, cancel, choices>>

-----------------------------------------------------------------------------
(* The person, the other windows and the displays.                         *)

PersonPresses ==
    /\ Idle /\ ~button /\ Choice
    /\ \E p \in {q \in Points : Over(q)}, row \in {"top", "middle", "bottom", "outside"},
          w \in {None} \cup (IF model.tool = "Window" THEN Windows ELSE {}) :
          Sends([kind |-> "Down", on |-> "Desk", p |-> p, row |-> row, window |-> w])
    /\ button' = TRUE
    /\ hand' = Still
    /\ UNCHANGED <<model, pending, phase, captured, persisted, outcome, cancel>>

PersonPressesToolbar ==
    /\ Idle /\ ~button /\ Choice
    /\ \E on \in Controls(model), intent \in {"Capture", "Pin"} :
          Sends([kind |-> "Down", on |-> on, intent |-> intent])
    /\ button' = TRUE
    /\ hand' = Still
    /\ UNCHANGED <<model, pending, phase, captured, persisted, outcome, cancel>>

PersonDoubleClicks ==
    /\ Idle /\ ~button /\ Choice
    /\ \E on \in {"Desk", "Toolbar"}, intent \in {"Capture", "Pin"} :
          Sends([kind |-> "Double", on |-> on, intent |-> intent])
    /\ button' = TRUE
    /\ hand' = Still
    /\ UNCHANGED <<model, pending, phase, captured, persisted, outcome, cancel>>

\* Moves are only of interest in a drag.
PersonMoves ==
    /\ Idle /\ button /\ region_drag_active(model) /\ Choice
    /\ \E p \in Points, ctrl \in BOOLEAN, across \in {"flat", "thin", "far"} :
          /\ captured \/ Over(p)
          /\ hand' = [kind |-> "Moved", p |-> p, ctrl |-> ctrl, across |-> across]
          /\ Sends(hand')
    /\ UNCHANGED <<model, pending, phase, button, captured, persisted, outcome, cancel>>

\* A release nobody here is told of goes to the window under the pointer.
PersonReleases ==
    /\ Idle \/ Busy
    /\ button /\ Choice
    /\ \E p \in Points, ctrl \in BOOLEAN, across \in {"flat", "thin", "far"} :
          LET up == [kind |-> "Up", p |-> p, ctrl |-> ctrl, across |-> across] IN
          /\ hand' = IF hand = [up EXCEPT !.kind = "Moved"] THEN LetGo ELSE Still
          /\ IF captured \/ Over(p) THEN Sends(up) ELSE UNCHANGED inbox
    /\ button' = FALSE
    /\ UNCHANGED <<model, pending, phase, captured, persisted, outcome, cancel>>

PersonTypes ==
    /\ Idle /\ Choice
    /\ \/ \E intent \in {"Capture", "Pin", "Edit"} : Sends([kind |-> "Enter", intent |-> intent])
       \/ \E by \in {-1, 1}, resize \in BOOLEAN :
             Sends([kind |-> "Nudge", by |-> by, resize |-> resize])
       \/ Sends([kind |-> "Cancel"])
    /\ UNCHANGED <<model, pending, phase, button, captured, persisted, outcome, hand, cancel>>

\* Another window takes the pointer; the message waits for a slow effect.
CaptureStolen ==
    /\ captured /\ Choice
    /\ captured' = FALSE
    /\ Idle \/ Busy
    /\ Sends([kind |-> "CaptureLost"])
    /\ UNCHANGED <<model, pending, phase, button, persisted, outcome, hand, cancel>>

DisplayChanges ==
    /\ Idle /\ Choice
    /\ Sends([kind |-> "DisplayChanged"])
    /\ UNCHANGED <<model, pending, phase, button, captured, persisted, outcome, hand, cancel>>

-----------------------------------------------------------------------------
(* The run begins, and another thread may cancel it at any time: it stores *)
(* its flag and then reads the window's handle, while the run stores the   *)
(* handle and then reads the flag.                                         *)

NoClose == [how |-> "Cancelled", rect |-> None, kind |-> None, window |-> None, intent |-> None]

Starts ==
    /\ phase = "starting"
    /\ IF cancel # "idle" THEN phase' = "closed" /\ outcome' = NoClose
       ELSE phase' = "made" /\ UNCHANGED outcome
    /\ UNCHANGED <<model, pending, inbox, button, captured, persisted, hand, cancel, choices>>

Publishes ==
    /\ phase = "made"
    /\ phase' = "published"
    /\ UNCHANGED <<model, pending, inbox, button, captured, persisted, outcome, hand, cancel,
                   choices>>

\* Variation: a run that is about to show its window does not look at the flag.
OpensBlind ==
    /\ phase = "published"
    /\ phase' = "open"
    /\ UNCHANGED <<model, pending, inbox, button, captured, persisted, outcome, hand, cancel,
                   choices>>

Opens ==
    /\ phase = "published"
    /\ \/ cancel # "idle" /\ Closes(NoClose)
       \/ cancel = "idle" /\ phase' = "open"
          /\ UNCHANGED <<pending, inbox, captured, outcome>>
    /\ UNCHANGED <<model, button, persisted, hand, cancel, choices>>

CancelStores ==
    /\ cancel = "idle"
    /\ cancel' = "stored"
    /\ UNCHANGED <<model, pending, inbox, phase, button, captured, persisted, outcome, hand,
                   choices>>

CancelPosts ==
    /\ cancel = "stored"
    /\ cancel' = "done"
    /\ inbox' = IF phase \in {"published", "open"}
                THEN Append(inbox, [kind |-> "Cancel"]) ELSE inbox
    /\ UNCHANGED <<model, pending, phase, button, captured, persisted, outcome, hand, choices>>

\* The last run's region, the tool and the snap setting are remembered.
Init ==
    /\ \E tool \in Tools, region \in Remembered \cup {None}, snapOn \in BOOLEAN :
          LET last == IF region = None THEN default_region_for_source(source)
                      ELSE clamp_within(region, source)
          IN model = [tool |-> tool,
                      selection |-> CASE tool = "FullDisplay" -> source
                                      [] tool = "Window" -> None
                                      [] tool = "Region" -> clamp_within(last, source),
                      kind |-> IF tool = "Window" THEN None ELSE tool,
                      window |-> None, anchor |-> None, dragging |-> FALSE,
                      resizing |-> None, moving |-> None, lastRegion |-> last,
                      toolbarDrag |-> FALSE, menu |-> FALSE, armed |-> FALSE,
                      snapOn |-> snapOn, targets |-> FALSE, guide |-> None]
    /\ pending = <<>> /\ inbox = <<>> /\ phase = "starting"
    /\ button = FALSE /\ captured = FALSE
    /\ persisted = None /\ outcome = None
    /\ hand = Still
    /\ cancel = "idle" /\ choices = 0

RunSteps == \/ Starts \/ Publishes \/ Opens \/ CaptureRuns \/ PersistRuns \/ CloseRuns
            \/ SnapTargetsBuilt \/ WindowPreviewUpdated \/ Pump

Next == \/ RunSteps \/ CancelStores \/ CancelPosts
        \/ PersonPresses \/ PersonPressesToolbar \/ PersonDoubleClicks \/ PersonMoves
        \/ PersonReleases \/ PersonTypes \/ CaptureStolen \/ DisplayChanges

Spec == Init /\ [][Next]_vars

-----------------------------------------------------------------------------
(* Properties.                                                             *)

Inside(s) == s \in Spans /\ Within(s, source)

\* Whatever the drags, nudges, snaps and tool switches did, a selection has
\* pixels and its kind is the tool in use; it lies on the display, and so do the
\* region it started from and the region remembered, unless it is a window,
\* which is taken whole though part of it may be off the display; and a drag is
\* the region tool's and only one.
RegionStaysInside ==
    /\ model.selection # None => model.selection \in Spans /\ model.kind = model.tool
    /\ model.selection # None /\ model.kind # "Window" => Inside(model.selection)
    /\ model.resizing # None => Inside(model.resizing.original)
    /\ model.moving # None => Inside(model.moving.original)
    /\ Inside(model.lastRegion)
    /\ region_drag_active(model) =>
         /\ model.tool = "Region" /\ ~model.toolbarDrag
         /\ model.resizing = None \/ model.moving = None
         /\ model.anchor = None \/ (model.resizing = None /\ model.moving = None)

\* A guide line is on screen only while an edge of the selection lies on it,
\* though clamps and the minimum size may undo a snap.
GuideIsTrue ==
    model.guide # None => model.selection # None
                          /\ model.guide \in {model.selection.left, model.selection.right}

\* A drag never outlives the button: wherever it came up, and whatever was
\* being enumerated meanwhile, the window has heard of it or is about to.
NoStuckDrag ==
    Idle /\ ~button => ~region_drag_active(model)

\* Letting go where the last move was, with the same keys, commits what that
\* move showed.
ReleaseCommitsWhatWasShown ==
    [][/\ hand = LetGo /\ inbox # <<>> /\ inbox' = Tail(inbox) /\ Head(inbox).kind = "Up"
       => model'.selection = model.selection]_vars

\* A cancel is never missed: once the other thread has done its part, a run
\* that shows its window has the request before it or is closing.
CancelIsNotMissed ==
    cancel = "done" /\ phase = "open" =>
        \/ \E i \in DOMAIN inbox : inbox[i].kind = "Cancel"
        \/ \E i \in DOMAIN pending : pending[i].name = "Close"
=============================================================================
