------------------------------- MODULE Chooser -------------------------------
(***************************************************************************)
(* The window chooser of the overlay: the tiles that stand for windows, the *)
(* live previews the compositor (DWM) draws over them, the queue of windows *)
(* that still need pixels, and the messages the overlay posts to itself to  *)
(* render one batch at a time while its message pump stays alive.           *)
(*                                                                         *)
(* One thread runs all of it.  What makes it hard is what happens between   *)
(* two batches: the toolbar moves, a menu opens, the tool is switched away  *)
(* and back, windows close, and the compositor refuses a preview.           *)
(*                                                                         *)
(* Places abstract the layout: tile number i is drawn at place i, and the   *)
(* toolbar and its menu cover sets of places.  Pixels, sizes, the cached    *)
(* background, hovering, timings and what a confirmed window becomes are    *)
(* left out.  A posted message may come before or after any input.          *)
(***************************************************************************)
EXTENDS Integers, Sequences, FiniteSets, SequencesExt

CONSTANTS
    Enumerated,     \* the windows of the display, front to back
    Positions,      \* where the toolbar may stand
    BarCovers,      \* the places the toolbar and its tooltip band cover there
    MenuCovers,     \* the places its menu covers there
    Batch,          \* WINDOW_THUMBNAIL_RENDER_BATCH
    GenMod,         \* generations are counted modulo this
    MaxMoves,       \* bound on what the user and other programs do
    None            \* no list, no build

Windows == ToSet(Enumerated)
Places  == 1..Len(Enumerated)

ASSUME PlaceAssumption ==
    /\ Enumerated \in Seq(Windows)
    /\ Cardinality(Windows) = Len(Enumerated)
    /\ BarCovers \in [Positions -> SUBSET Places]
    /\ MenuCovers \in [Positions -> SUBSET Places]
ASSUME NoneAssumption ==
    None \notin [generation : Nat, pending : Seq([of : Windows, attempt : {0, 1}])]
ASSUME NumberAssumption == {Batch, GenMod} \subseteq Nat \ {0} /\ MaxMoves \in Nat

VARIABLES
    phase,      \* "opening", "open" or "closed"
    layered,    \* the compositor draws previews (Presenter::Layered)
    tool,       \* CaptureTool: "window" or "other"
    options,    \* options_open
    bar,        \* toolbar_position
    drag,       \* toolbar_drag is Some
    open,       \* the windows that still exist
    listed,     \* state.windows, asked for once
    tiles,      \* window_thumbnails
    live,       \* live_window_thumbnails: a window, and the place drawn at
    hidden,     \* the live previews are at opacity zero
    build,      \* window_overview_build
    generation, \* overview_build_generation
    posts,      \* the WM_OVERVIEW_RENDER_BATCH messages waiting
    moves       \* what the user and other programs did so far

chrome == <<tool, options, bar, drag>>
tileVars == <<tiles, live, hidden, build, generation>>
vars == <<phase, layered, chrome, open, listed, tileVars, posts, moves>>

Tile(w, pixels) == [of |-> w, pixels |-> pixels]
Render(w, attempt) == [of |-> w, attempt |-> attempt]
Build(g, queue) == [generation |-> g, pending |-> queue]

\* The elements of a sequence that are chosen, in their order: a filter, a retain.
Kept(s, chosen) ==
    LET f[i \in 0..Len(s)] ==
          IF i = 0 THEN <<>>
          ELSE IF s[i] \in chosen THEN Append(f[i - 1], s[i]) ELSE f[i - 1]
    IN  f[Len(s)]

WindowsOf(entries) == {entries[i].of : i \in DOMAIN entries}

TypeOK ==
    /\ phase \in {"opening", "open", "closed"}
    /\ {layered, options, drag, hidden} \subseteq BOOLEAN
    /\ tool \in {"window", "other"}
    /\ bar \in Positions
    /\ open \subseteq Windows
    /\ listed \in {None} \cup Seq(Windows)
    /\ tiles \in Seq([of : Windows, pixels : BOOLEAN])
    /\ live \subseteq [of : Windows, at : Places]
    /\ build = None
       \/ build \in [generation : 0..GenMod - 1,
                     pending : Seq([of : Windows, attempt : {0, 1}])]
    /\ generation \in 0..GenMod - 1
    /\ posts \in Seq(0..GenMod - 1)

\* The tool of the last interaction may be the Window tool already.
Init ==
    /\ phase = "opening"
    /\ layered \in BOOLEAN
    /\ tool \in {"window", "other"}
    /\ options = FALSE
    /\ bar \in Positions
    /\ drag = FALSE
    /\ open = Windows
    /\ listed = None
    /\ tiles = <<>>
    /\ live = {}
    /\ hidden = FALSE
    /\ build = None
    /\ generation = 0
    /\ posts = <<>>
    /\ moves = 0

-------------------------------------------------------------------------------
(* Live previews and the queue of windows that need pixels.                 *)

Covered(at, menu) == BarCovers[at] \cup (IF menu THEN MenuCovers[at] ELSE {})

\* The previews registered for these tiles: the compositor knows the window and
\* does not refuse it, and the chrome, which it would draw over, is elsewhere.
Previews(ts, refused) ==
    {[of |-> ts[i].of, at |-> i] : i \in
        {i \in DOMAIN ts : ts[i].of \in open \ refused
                           /\ i \notin Covered(bar', options')}}

Uncovered(ts, previews) ==
    LET bare == Kept(ts, {t \in ToSet(ts) : ~t.pixels
                                             /\ t.of \notin {p.of : p \in previews}})
    IN  [i \in DOMAIN bare |-> Render(bare[i].of, 0)]

\* enqueue: unless it is queued already.
WithoutQueued(renders, queue) ==
    Kept(renders, {r \in ToSet(renders) : r.of \notin WindowsOf(queue)})

\* Variation: bare tiles only join a build that is under way.
QueueUncoveredIfBuilding(b, g, bare) ==
    IF b = None THEN <<b, g>>
    ELSE <<Build(b.generation, b.pending \o WithoutQueued(bare, b.pending)), g>>

\* queue_uncovered_window_tiles, as the build and the generation it leaves.
QueueUncovered(b, g, bare) ==
    IF bare = <<>> THEN <<b, g>>
    ELSE IF b = None
      THEN LET next == (g + 1) % GenMod IN <<Build(next, bare), next>>
      ELSE <<Build(b.generation, b.pending \o WithoutQueued(bare, b.pending)), g>>

\* refresh_live_window_thumbnails, over the tiles and the build left by what
\* the caller did first.
Refresh(ts, b, g) ==
    IF layered /\ tool' = "window"
      THEN \E refused \in SUBSET Windows :
             \E previews \in {Previews(ts, refused)} :
               \E queued \in {QueueUncovered(b, g, Uncovered(ts, previews))} :
                 /\ live' = previews
                 /\ hidden' = FALSE
                 /\ build' = queued[1]
                 /\ generation' = queued[2]
      ELSE /\ live' = {}
           /\ hidden' = FALSE
           /\ build' = b
           /\ generation' = g

\* ensure_overview_batch_posted.
PostFor(waiting) ==
    posts' = IF build' = None THEN waiting
                              ELSE Append(waiting, build'.generation)

\* Variation: nothing posts a batch for the build this may have started.
RefreshChromeWithoutPost ==
    /\ Refresh(tiles, build, generation)
    /\ UNCHANGED <<tiles, posts>>

\* OverlayEffect::RefreshWindowChrome.
RefreshChrome ==
    /\ Refresh(tiles, build, generation)
    /\ PostFor(posts)
    /\ UNCHANGED tiles

NoRefresh == UNCHANGED <<tileVars, posts>>

-------------------------------------------------------------------------------
(* Starting a build.                                                        *)

\* ensure_window_inventory.
Listing ==
    listed' = IF listed = None THEN Kept(Enumerated, open)
                               ELSE listed

\* start_window_overview_build.  A window that is gone reports no size and gets
\* no tile; without the compositor every tile needs pixels.
StartBuild ==
    /\ Listing
    /\ LET sized   == Kept(listed', open)
           seeded  == [i \in DOMAIN sized |-> Tile(sized[i], FALSE)]
           wanted  == [i \in DOMAIN sized |-> Render(sized[i], 0)]
           renders == ~layered /\ sized # <<>>
           next    == (generation + 1) % GenMod
       IN  IF build = None /\ tiles = <<>>
             THEN /\ tiles' = seeded
                  /\ IF renders THEN Refresh(seeded, Build(next, wanted), next)
                                ELSE Refresh(seeded, None, generation)
             ELSE /\ tiles' = tiles
                  /\ Refresh(tiles, build, generation)
    /\ PostFor(posts)

Open ==
    /\ phase = "opening"
    /\ phase' = "open"
    /\ IF tool = "window" THEN UNCHANGED chrome /\ StartBuild
                          ELSE UNCHANGED <<chrome, listed>> /\ NoRefresh
    /\ UNCHANGED <<layered, open, moves>>

-------------------------------------------------------------------------------
(* One batch.                                                               *)

\* The chooser is shown, and the message is of its build.
Accepted ==
    /\ tool = "window"
    /\ build # None
    /\ build.generation = Head(posts)

IgnoreBatch ==
    /\ phase = "open"
    /\ posts # <<>>
    /\ ~Accepted
    /\ posts' = Tail(posts)
    /\ UNCHANGED <<phase, layered, chrome, open, listed, tileVars, moves>>

\* requeue: a retryable failure goes to the back, once.
Requeued(batch, result) ==
    LET again == Kept(batch, {r \in ToSet(batch) : result[r.of] = "retryable"
                                                  /\ r.attempt = 0})
    IN  [i \in DOMAIN again |-> Render(again[i].of, 1)]

\* The tiles of the windows that were rendered are replaced in place; a window
\* whose tile is gone gets a new one at the end.
WithPixels(ts, batch, result) ==
    LET done  == {r.of : r \in {r \in ToSet(batch) : result[r.of] = "ok"}}
        extra == Kept(batch, {r \in ToSet(batch) : r.of \in done \ WindowsOf(ts)})
    IN  [i \in DOMAIN ts |-> IF ts[i].of \in done THEN Tile(ts[i].of, TRUE)
                                                  ELSE ts[i]]
        \o [i \in DOMAIN extra |-> Tile(extra[i].of, TRUE)]

\* What a render may come to; a worker that panics is dropped like a failure.
Results(batch) ==
    {result \in [WindowsOf(batch) -> {"ok", "retryable", "failed"}] :
        \A w \in DOMAIN result : result[w] = "ok" => w \in open}

RenderBatch ==
    /\ phase = "open"
    /\ posts # <<>>
    /\ Accepted
    /\ LET size  == IF Batch < Len(build.pending) THEN Batch ELSE Len(build.pending)
           batch == SubSeq(build.pending, 1, size)
           rest  == SubSeq(build.pending, size + 1, Len(build.pending))
       IN  \E result \in Results(batch) :
             \E left \in {rest \o Requeued(batch, result)} :
               /\ tiles' = WithPixels(tiles, batch, result)
               /\ UNCHANGED chrome
               /\ IF left = <<>>
                    THEN Refresh(tiles', None, generation)
                    ELSE /\ build' = Build(build.generation, left)
                         /\ UNCHANGED <<live, hidden, generation>>
    /\ PostFor(Tail(posts))
    /\ UNCHANGED <<phase, layered, open, listed, moves>>

-------------------------------------------------------------------------------
(* The user and other programs.                                             *)

Move ==
    /\ phase = "open"
    /\ moves < MaxMoves
    /\ moves' = moves + 1
    /\ UNCHANGED layered

Choosing == tool = "window"

\* toolbar_control_pressed, Background: previews are frozen while it moves.
PressToolbar ==
    /\ Move
    /\ ~drag
    /\ drag' = TRUE
    /\ options' = FALSE
    /\ live' = IF Choosing THEN {} ELSE live
    /\ UNCHANGED <<phase, tool, bar, open, listed, tiles, hidden, build,
                   generation, posts>>

\* pointer_moved during the drag.
MoveToolbar ==
    /\ Move
    /\ drag
    /\ bar' \in Positions \ {bar}
    /\ UNCHANGED <<phase, tool, options, drag, open, listed>>
    /\ NoRefresh

\* The button goes up, or another window takes the pointer.
EndToolbarDrag ==
    /\ Move
    /\ drag
    /\ drag' = FALSE
    /\ UNCHANGED <<phase, tool, options, bar, open, listed>>
    /\ IF Choosing THEN RefreshChrome ELSE NoRefresh

\* Variation: the menu opens over the previews that are there.
ToggleOptionsOnly ==
    /\ Move
    /\ ~drag
    /\ options' = ~options
    /\ UNCHANGED <<phase, tool, bar, drag, open, listed>>
    /\ NoRefresh

ToggleOptions ==
    /\ Move
    /\ ~drag
    /\ options' = ~options
    /\ UNCHANGED <<phase, tool, bar, drag, open, listed>>
    /\ IF Choosing THEN RefreshChrome ELSE NoRefresh

\* Record pressed with nothing chosen: what the next click does is not
\* modelled, the refresh is.
ArmRecording ==
    /\ Move
    /\ Choosing
    /\ ~drag
    /\ UNCHANGED <<phase, chrome, open, listed>>
    /\ RefreshChrome

\* activate_tool, pressed again for the tool in use included.
ActivateWindowTool ==
    /\ Move
    /\ ~drag
    /\ tool' = "window"
    /\ options' = FALSE
    /\ UNCHANGED <<phase, bar, drag, open>>
    /\ StartBuild

ActivateOtherTool ==
    /\ Move
    /\ ~drag
    /\ tool' = "other"
    /\ options' = FALSE
    /\ hidden' = TRUE
    /\ UNCHANGED <<phase, bar, drag, open, listed, tiles, live, build, generation,
                   posts>>

\* The region tool's snap targets, which list the windows too.
ListForSnapping ==
    /\ Move
    /\ ~Choosing
    /\ listed = None
    /\ Listing
    /\ UNCHANGED <<phase, chrome, open>>
    /\ NoRefresh

\* A press on the overlay closes the menu; under the Window tool the window
\* pressed is captured, which ends the run unless it fails.
PressCanvas ==
    /\ Move
    /\ ~drag
    /\ options' = FALSE
    /\ UNCHANGED <<tool, bar, drag, open, listed>>
    /\ IF Choosing /\ options THEN RefreshChrome ELSE NoRefresh
    /\ \/ UNCHANGED phase
       \/ Choosing /\ WindowsOf(tiles) \cap open # {} /\ phase' = "closed"

\* Cancelled, confirmed by key under another tool, or the display changed.
Close ==
    /\ phase = "open"
    /\ phase' = "closed"
    /\ UNCHANGED <<layered, chrome, open, listed, tileVars, posts, moves>>

CloseWindow(w) ==
    /\ Move
    /\ w \in open
    /\ open' = open \ {w}
    /\ UNCHANGED <<phase, chrome, listed>>
    /\ NoRefresh

\* WM_PAINT: what stands for windows that are gone is dropped; the previews
\* left keep the places they were registered with.
Paint ==
    /\ phase = "open"
    /\ Choosing
    /\ LET dead == WindowsOf(tiles) \ open
       IN  /\ dead # {}
           /\ tiles' = Kept(tiles, {t \in ToSet(tiles) : t.of \notin dead})
           /\ live' = {p \in live : p.of \notin dead}
           /\ listed' = Kept(listed, Windows \ dead)
    /\ UNCHANGED <<phase, layered, chrome, open, hidden, build, generation, posts,
                   moves>>

Next ==
    \/ Open
    \/ IgnoreBatch \/ RenderBatch
    \/ PressToolbar \/ MoveToolbar \/ EndToolbarDrag
    \/ ToggleOptions \/ ArmRecording
    \/ ActivateWindowTool \/ ActivateOtherTool \/ ListForSnapping
    \/ PressCanvas \/ Close
    \/ \E w \in Windows : CloseWindow(w)
    \/ Paint

Spec == Init /\ [][Next]_vars

-------------------------------------------------------------------------------
(* Properties.                                                              *)

InChooser == phase = "open" /\ Choosing

\* A build nobody posts a batch for never renders anything: while the chooser
\* is shown, a message of the build's own generation waits in the queue.  Every
\* path that may start a build, or come back to one whose messages were thrown
\* away under another tool, has to post (ensure_overview_batch_posted).
BuildIsDriven ==
    InChooser /\ build # None => build.generation \in ToSet(posts)

\* A window is not left as an empty frame: with the compositor's help, once the
\* toolbar rests and no build is under way, each tile has pixels or a preview,
\* whatever moved over it, closed or was refused on the way.
NothingForgotten ==
    InChooser /\ layered /\ ~drag /\ build = None =>
        \A t \in ToSet(tiles) : t.pixels \/ t.of \in {p.of : p \in live}

\* The compositor draws over the overlay's own pixels, so a preview that can be
\* seen lies outside the toolbar and an open menu, and never shows under
\* another tool.  While the toolbar is being dragged this is not promised.
ChromeStaysVisible ==
    phase = "open" /\ live # {} /\ ~hidden /\ ~drag =>
        Choosing /\ \A p \in live : p.at \notin Covered(bar, options)
==============================================================================
