---------------------------- MODULE Overlay_proofs ----------------------------
(***************************************************************************)
(* Proofs about the region tool for every display, inventory of edges and  *)
(* sequence of messages: what each rule of Geometry returns, that whatever *)
(* a run draws, shows or remembers stays on its display, that a guide      *)
(* line is true, and that a cancel is heard.                               *)
(***************************************************************************)
EXTENDS Overlay, SequenceTheorems, WellFoundedInduction, TLAPS

-----------------------------------------------------------------------------
(* Geometry: each rule keeps a span on the display.                        *)

\* A span's ends are whole numbers in order.
LEMMA SpanShape ==
    ASSUME NEW s \in Spans
    PROVE  s.left \in Int /\ s.right \in Int /\ s.left < s.right
BY DEF Spans

\* A span is made of its two ends.
LEMMA SpanMade ==
    ASSUME NEW a \in Int, NEW b \in Int, a < b
    PROVE  Span(a, b) \in Spans /\ Span(a, b).left = a /\ Span(a, b).right = b
BY DEF Spans, Span

\* A span is no absent value.
LEMMA SpanIsSome ==
    ASSUME NEW s \in Spans
    PROVE  s # None
BY NoneAssumption DEF Spans

\* A clamp to a range that is one lands in it.
LEMMA ClampBetween ==
    ASSUME NEW v \in Int, NEW low \in Int, NEW high \in Int, low <= high
    PROVE  Clamp(v, low, high) \in Int /\ low <= Clamp(v, low, high) /\ Clamp(v, low, high) <= high
BY DEF Clamp

\* Rect::clamp_within returns a span on the display, as wide where it fits.
LEMMA ClampWithinFits ==
    ASSUME NEW s \in Spans, NEW b \in Spans
    PROVE  /\ clamp_within(s, b) \in Spans
           /\ Within(clamp_within(s, b), b)
           /\ Width(s) <= Width(b) => Width(clamp_within(s, b)) = Width(s)
<1> DEFINE width == Lesser(Width(s), Width(b))
           left == Clamp(s.left, b.left, Greater(b.right - width, b.left))
<1>1. width \in Int /\ 0 < width /\ width <= Width(b)
  BY SpanShape DEF Lesser, Width
<1>2. left \in Int /\ b.left <= left /\ left + width <= b.right
  BY <1>1, SpanShape DEF Clamp, Greater, Width
<1>3. clamp_within(s, b) = Span(left, left + width)
  BY DEF clamp_within
<1> HIDE DEF width, left
<1>4. clamp_within(s, b) \in Spans /\ Within(clamp_within(s, b), b)
      /\ Width(clamp_within(s, b)) = width
  BY <1>1, <1>2, <1>3, SpanMade DEF Within, Width
<1> QED
  BY <1>4, SpanShape DEF width, Lesser, Width

\* A band between two points anywhere is a span on the display, or none.
LEMMA DrawnFits ==
    ASSUME NEW b \in Spans, NEW p \in Int, NEW q \in Int
    PROVE  \/ rect_from_points(b, p, q) = None
           \/ rect_from_points(b, p, q) \in Spans /\ Within(rect_from_points(b, p, q), b)
<1> DEFINE left == Clamp(Lesser(p, q), b.left, b.right)
           right == Clamp(Greater(p, q), b.left, b.right)
<1>1. left \in Int /\ right \in Int /\ b.left <= left /\ right <= b.right
  BY SpanShape DEF Clamp, Lesser, Greater
<1>2. rect_from_points(b, p, q) = IF left < right THEN Span(left, right) ELSE None
  BY DEF rect_from_points
<1> HIDE DEF left, right
<1> QED
  BY <1>1, <1>2, SpanMade DEF Within

\* A resize keeps the other edge and never folds the span over.
LEMMA ResizedFits ==
    ASSUME NEW s \in Spans, NEW b \in Spans, Within(s, b), NEW handle, NEW p \in Int
    PROVE  /\ resize_region(s, handle, p, b) \in Spans
           /\ Within(resize_region(s, handle, p, b), b)
<1> USE SizeAssumption, SpanShape DEF Within
<1> DEFINE left == Clamp(p, b.left, Greater(s.right - MinSize, b.left))
           right == Clamp(p, Lesser(s.left + MinSize, b.right), b.right)
<1>1. left \in Int /\ b.left <= left /\ left < s.right
  BY DEF Clamp, Greater
<1>2. right \in Int /\ s.left < right /\ right <= b.right
  BY DEF Clamp, Lesser
<1>3. CASE handle = "Leading"
  <2>1. resize_region(s, handle, p, b) = Span(left, s.right)
    BY <1>3 DEF resize_region
  <2> QED
    BY <2>1, <1>1, SpanMade
<1>4. CASE handle = "Trailing"
  <2>1. resize_region(s, handle, p, b) = Span(s.left, right)
    BY <1>4 DEF resize_region
  <2> QED
    BY <2>1, <1>2, SpanMade
<1>5. CASE handle \notin {"Leading", "Trailing"}
  BY <1>5 DEF resize_region
<1> QED
  BY <1>3, <1>4, <1>5

\* A move keeps the size and stops at the display.
LEMMA MovedFits ==
    ASSUME NEW s \in Spans, NEW b \in Spans, Within(s, b), NEW from \in Int, NEW p \in Int
    PROVE  /\ move_region(s, from, p, b) \in Spans
           /\ Within(move_region(s, from, p, b), b)
           /\ Width(move_region(s, from, p, b)) = Width(s)
<1> DEFINE room == Greater(Width(b) - Width(s), 0)
           left == Clamp(s.left + (p - from), b.left, b.left + room)
<1>1. room \in Int /\ 0 <= room /\ room = Width(b) - Width(s) /\ Width(s) \in Int /\ 0 < Width(s)
      /\ Width(b) = b.right - b.left
  BY SpanShape DEF Greater, Width, Within
<1>2. left \in Int /\ b.left <= left /\ left <= b.left + room
  <2>1. b.left \in Int /\ s.left \in Int /\ b.left <= b.left + room
    <3> HIDE DEF room
    <3> QED BY <1>1, SpanShape
  <2> HIDE DEF room
  <2>2. s.left + (p - from) \in Int /\ b.left + room \in Int
    BY <1>1, <2>1
  <2> QED
    BY <2>1, <2>2, ClampBetween
<1>3. move_region(s, from, p, b) = Span(left, left + Width(s))
  BY DEF move_region
<1> HIDE DEF room, left
<1>4. Span(left, left + Width(s)) \in Spans
      /\ Span(left, left + Width(s)).left = left
      /\ Span(left, left + Width(s)).right = left + Width(s)
  BY <1>1, <1>2, SpanMade
<1> QED
  BY <1>1, <1>2, <1>3, <1>4, SpanShape DEF Within, Width

\* An arrow key moves the trailing edge no further than the display.
LEMMA NudgedFits ==
    ASSUME NEW s \in Spans, NEW b \in Spans, Within(s, b), NEW d \in Int
    PROVE  /\ resize_region_by(s, d, b) \in Spans
           /\ translated(s, d) \in Spans
BY SizeAssumption, SpanShape DEF resize_region_by, translated, Clamp, Lesser, Within, Spans, Span

\* The region a first run begins with is on the display.
LEMMA DefaultFits ==
    ASSUME NEW b \in Spans
    PROVE  /\ default_region_for_source(b) \in Spans
           /\ Within(default_region_for_source(b), b)
<1> DEFINE width == Greater(Width(b) \div 2, 1)
           left == b.left + ((Width(b) - width) \div 2)
<1>1. Width(b) \in Int /\ 1 <= Width(b) /\ Width(b) = b.right - b.left
  BY SpanShape DEF Width
<1>2. width \in Int /\ 1 <= width /\ width <= Width(b)
  BY <1>1 DEF Greater
<1>3. left \in Int /\ b.left <= left /\ left + width <= b.right
  BY <1>1, <1>2, SpanShape
<1>4. default_region_for_source(b) = Span(left, left + width)
  BY DEF default_region_for_source
<1> HIDE DEF width, left
<1> QED
  BY <1>2, <1>3, <1>4, SpanMade DEF Within

-----------------------------------------------------------------------------
(* Snapping: what is hit is an edge of the inventory.                      *)

\* A set of naturals has a least member.
LEMMA LeastNatural ==
    ASSUME NEW T, T \subseteq Nat, T # {}
    PROVE  \E x \in T : \A y \in T : x <= y
<1> DEFINE Before == {pair \in Nat \X Nat : pair[1] < pair[2]}
<1>1. Before = OpToRel(<, Nat)
  BY DEF OpToRel
<1>2. IsWellFoundedOn(Before, Nat)
  BY <1>1, NatLessThanWellFounded
<1>3. \A x, y \in Nat : y < x => <<y, x>> \in Before
  OBVIOUS
<1> HIDE DEF Before
<1>4. PICK x \in T : \A y \in T : <<y, x>> \notin Before
  BY <1>2, WFMin
<1>5. \A y \in T : ~ (y < x)
  BY <1>3, <1>4
<1> QED
  BY <1>4, <1>5

\* A snap names an edge of the inventory within reach, or none.
LEMMA SnapHitsTarget ==
    ASSUME NEW v \in Int, NEW targets \in Seq(Int)
    PROVE  \/ snap_coordinate(v, targets) = None
           \/ \E i \in DOMAIN targets : /\ snap_coordinate(v, targets) = targets[i]
                                        /\ Distance(targets[i], v) <= SnapRadius
                                        /\ \A j \in DOMAIN targets :
                                             Distance(targets[i], v) <= Distance(targets[j], v)
<1> DEFINE D(i) == Distance(targets[i], v)
           near == {i \in DOMAIN targets : D(i) <= SnapRadius}
           Nearer(i, j) == D(i) < D(j) \/ (D(i) = D(j) /\ i <= j)
<1>1. \A i \in DOMAIN targets : D(i) \in Nat /\ i \in Nat
  BY DEF Distance
<1>2. CASE near = {}
  BY <1>2 DEF snap_coordinate
<1>3. CASE near # {}
  <2> DEFINE reach == {D(i) : i \in near}
  <2>1. PICK d \in reach : \A e \in reach : d <= e
    <3>1. reach \subseteq Nat /\ reach # {}
      BY <1>1, <1>3
    <3> HIDE DEF reach
    <3> QED
      BY <3>1, LeastNatural
  <2> DEFINE ties == {i \in near : D(i) = d}
  <2>2. PICK k \in ties : \A j \in ties : k <= j
    <3>1. ties \subseteq Nat /\ ties # {}
      BY <1>1, <2>1
    <3> HIDE DEF ties
    <3> QED
      BY <3>1, LeastNatural
  <2>3. \A j \in near : D(j) \in Nat /\ d <= D(j)
    BY <1>1, <2>1
  <2>4. k \in near /\ \A j \in near : Nearer(k, j)
    <3>1. k \in near /\ D(k) = d
      BY <2>2
    <3>2. ASSUME NEW j \in near PROVE Nearer(k, j)
      <4> HIDE DEF D
      <4>1. d <= D(j) /\ d \in Int /\ D(j) \in Int
        BY <2>3, <1>1, <3>1
      <4>2. D(j) = d => k <= j
        BY <2>2, <3>2
      <4> QED
        BY <4>1, <4>2, <3>1
    <3> QED
      BY <3>1, <3>2
  <2> DEFINE best == CHOOSE i \in near : \A j \in near : Nearer(i, j)
  <2>5. best \in near /\ \A j \in near : Nearer(best, j)
    BY <2>4
  <2>6. snap_coordinate(v, targets) = targets[best]
    BY <1>3 DEF snap_coordinate
  <2> HIDE DEF best
  <2>7. ASSUME NEW j \in DOMAIN targets PROVE D(best) <= D(j)
    <3> HIDE DEF D
    <3>1. best \in DOMAIN targets /\ D(best) \in Nat /\ D(j) \in Nat /\ D(best) <= SnapRadius
      BY <2>5, <1>1
    <3>2. CASE j \in near
      BY SMTT(30), <3>1, <3>2, <2>5
    <3>3. CASE j \notin near
      BY <3>1, <3>3, SizeAssumption
    <3> QED
      BY <3>2, <3>3
  <2> QED
    BY <2>5, <2>6, <2>7
<1> QED
  BY <1>2, <1>3
\* What the overlay shows after an adjustment: a span on the display and a
\* guide on one of its edges, or nothing.
Shown(r) ==
    /\ r.span # None => Inside(r.span)
    /\ r.guide # None => r.span # None /\ r.guide \in {r.span.left, r.span.right}
    /\ r.guide \in Int \cup {None}

\* A guide is shown only where the span has an end.
LEMMA GuideShown ==
    ASSUME NEW s, Inside(s), NEW hit \in Int \cup {None}
    PROVE  Shown(Snapped(s, guide_for(s, hit))) /\ Snapped(s, guide_for(s, hit)).span = s
BY SpanIsSome, SpanShape DEF Shown, Snapped, guide_for, Inside

\* What a snap names is a position.
LEMMA SnapIsPosition ==
    ASSUME NEW v \in Int, NEW targets \in Seq(Int)
    PROVE  snap_coordinate(v, targets) \in Int \cup {None}
BY SnapHitsTarget

\* A snapped anchor is a position.
LEMMA AnchorIsPosition ==
    ASSUME NEW v \in Int, NEW targets \in Seq(Int)
    PROVE  snap_anchor(v, targets) \in Int
BY SnapIsPosition DEF snap_anchor, Or

\* Snap first, clamp second: a band is on the display and its guide true.
LEMMA BandShown ==
    ASSUME NEW anchor \in Int, NEW p \in Int, NEW targets \in Seq(Int)
    PROVE  Shown(rect_from_points_snapped(source, anchor, p, targets))
<1> DEFINE hit == FreeCorner(anchor, p, targets)
           span == rect_from_points(source, anchor, Or(hit, p))
           fixed == snap_coordinate(anchor, targets)
<1>1. hit \in Int \cup {None} /\ fixed \in Int \cup {None}
  BY SnapIsPosition DEF FreeCorner
<1>2. Or(hit, p) \in Int /\ Or(hit, fixed) \in Int \cup {None}
  BY <1>1 DEF Or
<1>3. span = None \/ Inside(span)
  BY <1>2, DrawnFits, SourceAssumption DEF Inside
<1>4. rect_from_points_snapped(source, anchor, p, targets)
        = Snapped(span, IF span = None THEN None ELSE guide_for(span, Or(hit, fixed)))
  BY DEF rect_from_points_snapped
<1> HIDE DEF hit, span, fixed
<1>5. CASE span = None
  BY <1>4, <1>5 DEF Snapped, Shown
<1>6. CASE span # None
  BY <1>2, <1>3, <1>4, <1>6, GuideShown
<1> QED
  BY <1>5, <1>6

\* A resize shows a region on the display, and a guide on an edge of it.
LEMMA ResizeShown ==
    ASSUME NEW s, Inside(s), NEW handle, NEW p \in Int, NEW targets \in Seq(Int)
    PROVE  LET r == resize_region_snapped(s, handle, p, source, targets)
           IN  Shown(r) /\ r.span # None
<1> DEFINE hit == IF handle = "Across" THEN None ELSE snap_coordinate(p, targets)
           span == resize_region(s, handle, Or(hit, p), source)
<1>1. hit \in Int \cup {None}
  BY SnapIsPosition
<1>2. Or(hit, p) \in Int
  BY <1>1 DEF Or
<1>3. Inside(span)
  BY <1>2, ResizedFits, SourceAssumption DEF Inside
<1>4. resize_region_snapped(s, handle, p, source, targets) = Snapped(span, guide_for(span, hit))
  BY DEF resize_region_snapped
<1> HIDE DEF hit, span
<1> QED
  BY <1>1, <1>3, <1>4, GuideShown, SpanIsSome DEF Inside

\* A move shows a region on the display, and a guide on an edge of it.
LEMMA MoveShown ==
    ASSUME NEW s, Inside(s), NEW from \in Int, NEW p \in Int, NEW targets \in Seq(Int)
    PROVE  LET r == move_region_snapped(s, from, p, source, targets)
           IN  Shown(r) /\ r.span # None /\ Width(r.span) = Width(s)
<1> DEFINE moved == move_region(s, from, p, source)
           pull == snap_translation(moved, targets)
           span == clamp_within(translated(moved, pull.by), source)
<1>1. moved \in Spans /\ Within(moved, source) /\ Width(moved) = Width(s)
  BY MovedFits, SourceAssumption DEF Inside
<1> HIDE DEF moved
<1>2. pull.by \in Int /\ pull.hit \in Int \cup {None}
  <2>1. moved.left \in Int /\ moved.right \in Int
    BY <1>1, SpanShape
  <2>2. /\ snap_coordinate(moved.left, targets) \in Int \cup {None}
        /\ snap_coordinate(moved.right, targets) \in Int \cup {None}
    BY <2>1, SnapIsPosition
  <2> QED
    BY <2>1, <2>2 DEF snap_translation
<1> HIDE DEF pull
<1>3. translated(moved, pull.by) \in Spans /\ Width(translated(moved, pull.by)) = Width(moved)
  BY <1>1, <1>2, SpanShape DEF translated, Spans, Span, Width
<1>4. Width(moved) <= Width(source)
  BY <1>1, SpanShape, SourceAssumption DEF Width, Within
<1>5. Inside(span) /\ Width(span) = Width(s)
  BY <1>1, <1>3, <1>4, ClampWithinFits, SourceAssumption DEF Inside
<1>6. move_region_snapped(s, from, p, source, targets)
        = Snapped(span, guide_for(span, pull.hit))
  BY DEF move_region_snapped, moved, pull
<1> HIDE DEF span
<1> QED
  BY ZenonT(60), <1>2, <1>5, <1>6, GuideShown, SpanIsSome DEF Inside

-----------------------------------------------------------------------------
(* The machine: the shapes of its state and messages, and what holds of    *)
(* its model between messages.                                             *)

Handles == {"Leading", "Trailing", "Across"}
Buttons == {"Background", "Options", "Capture", "Pin", "Edit", "Record", "Cancel",
            "SnapToWindows", "OtherRow"} \cup Tools

Models ==
    [tool : Tools, selection : Spans \cup {None}, kind : Tools \cup {None},
     window : Windows \cup {None}, anchor : Int \cup {None}, dragging : BOOLEAN,
     resizing : [handle : Handles, original : Spans] \cup {None},
     moving : [from : Int, original : Spans] \cup {None}, lastRegion : Spans,
     toolbarDrag : BOOLEAN, menu : BOOLEAN, armed : BOOLEAN, snapOn : BOOLEAN,
     targets : BOOLEAN, guide : Int \cup {None}]

Messages ==
    [kind : {"Moved", "Up"}, p : Int, ctrl : BOOLEAN, across : {"flat", "thin", "far"}]
    \cup [kind : {"Down"}, on : {"Desk"}, p : Int, row : {"top", "middle", "bottom", "outside"},
          window : Windows \cup {None}]
    \cup [kind : {"Down"}, on : Buttons, intent : Intents]
    \cup [kind : {"Double"}, on : {"Desk", "Toolbar"}, intent : Intents]
    \cup [kind : {"Nudge"}, by : Int, resize : BOOLEAN]
    \cup [kind : {"Enter"}, intent : Intents]
    \cup [kind : {"Cancel", "CaptureLost", "DisplayChanged"}]

\* RegionStaysInside and GuideIsTrue of a model, and what carries them through
\* a drag: a region being adjusted is the region tool's, and so is a guide.
Sound(m) ==
    /\ m.selection # None => m.selection \in Spans /\ m.kind = m.tool
    /\ m.selection # None /\ m.kind # "Window" => Inside(m.selection)
    /\ m.resizing # None => Inside(m.resizing.original) /\ m.kind = "Region"
    /\ m.moving # None => Inside(m.moving.original) /\ m.kind = "Region"
    /\ Inside(m.lastRegion)
    /\ region_drag_active(m) =>
         /\ m.tool = "Region" /\ ~m.toolbarDrag
         /\ m.resizing = None \/ m.moving = None
         /\ m.anchor = None \/ (m.resizing = None /\ m.moving = None)
    /\ m.guide # None => /\ m.tool = "Region" /\ m.selection # None
                         /\ m.guide \in {m.selection.left, m.selection.right}

ModelOK(m) == m \in Models /\ Sound(m)

Outcomes ==
    [how : {"Confirmed", "Cancelled", "Invalidated"}, rect : Spans \cup {None},
     kind : Tools \cup {None}, window : Windows \cup {None}, intent : Intents \cup {None}]

\* What the shell may be asked to do: a window is asked for by its tool only.
Effects(tool) ==
    [name : {"CapturePointer", "ReleasePointer", "BuildSnapTargets", "PersistInteraction", "Close"}
            \cup (IF tool = "Window" THEN {"UpdateWindowPreview"} ELSE {}),
     value : Spans \cup Windows \cup Outcomes \cup {None}]

\* A transition leaves a sound model, and effects fit for its tool.
Good(t) == ModelOK(t.model) /\ t.effects \in Seq(Effects(t.model.tool))

\* What a drag may snap to is the inventory or nothing.
LEMMA TargetsAreEdges ==
    ASSUME NEW m \in Models, NEW ctrl
    PROVE  active_targets(m, ctrl) \in Seq(Int)
BY EdgesAssumption DEF active_targets

\* A selection on the display may be shown with its guide in any drag.
LEMMA ShowingKeeps ==
    ASSUME NEW m, ModelOK(m), NEW r, Shown(r), r.span # None, m.tool = "Region",
           m.resizing # None \/ m.moving # None
    PROVE  ModelOK([m EXCEPT !.selection = r.span, !.guide = r.guide])
BY ZenonT(60) DEF ModelOK, Models, Sound, Shown, Inside, region_drag_active

\* A band, or none while it is flat, is a sound selection of the region tool.
LEMMA BandKeeps ==
    ASSUME NEW m, ModelOK(m), NEW r, Shown(r), m.tool = "Region",
           m.resizing = None, m.moving = None
    PROVE  ModelOK([m EXCEPT !.selection = r.span, !.guide = r.guide,
                             !.kind = "Region", !.window = None])
BY ZenonT(60) DEF ModelOK, Models, Sound, Shown, Inside, region_drag_active, Tools

\* A press that becomes a drag moves its anchor and nothing else.
LEMMA LatchedKeeps ==
    ASSUME NEW m, ModelOK(m), NEW msg, m.anchor # None
    PROVE  ModelOK(Latched(m, msg)) /\ Latched(m, msg).anchor # None
           /\ Latched(m, msg).tool = m.tool
           /\ Latched(m, msg).resizing = m.resizing /\ Latched(m, msg).moving = m.moving
<1>1. m \in Models /\ m.anchor \in Int
  BY DEF ModelOK, Models
<1>2. snap_anchor(m.anchor, active_targets(m, msg.ctrl)) \in Int
  BY <1>1, TargetsAreEdges, AnchorIsPosition
<1>3. m.tool = "Region" /\ m.resizing = None /\ m.moving = None /\ ~m.toolbarDrag
  BY DEF ModelOK, Sound, region_drag_active
<1> DEFINE snapped == snap_anchor(m.anchor, active_targets(m, msg.ctrl))
<1>4. Latched(m, msg) \in {m, [m EXCEPT !.dragging = TRUE, !.anchor = snapped]}
  BY <1>1 DEF Latched, Models
<1>5. snapped # None
  BY <1>2, NoneAssumption
<1> HIDE DEF snapped
<1>6. ModelOK([m EXCEPT !.dragging = TRUE, !.anchor = snapped])
  BY <1>1, <1>2, <1>3, <1>5 DEF snapped, ModelOK, Models, Sound, region_drag_active
<1> QED
  BY <1>1, <1>4, <1>5, <1>6 DEF Models

\* A transition that declares no effect is as good as its model.
LEMMA StaysGood ==
    ASSUME NEW m, ModelOK(m)
    PROVE  Good(Stays(m))
BY DEF Good, Stays, Becomes

\* The effects without a window fit every tool.
LEMMA EffectFits ==
    ASSUME NEW tool, NEW name, NEW value \in Spans \cup Windows \cup Outcomes \cup {None},
           name \in {"CapturePointer", "ReleasePointer", "BuildSnapTargets",
                     "PersistInteraction", "Close"}
    PROVE  <<Effect(name, value)>> \in Seq(Effects(tool))
BY DEF Effect, Effects

\* The request for snap targets fits every tool.
LEMMA RequestFits ==
    ASSUME NEW m, NEW tool
    PROVE  request_snap_targets(m) \in Seq(Effects(tool))
BY EffectFits DEF request_snap_targets

\* A move keeps the model sound, whatever is dragged.
LEMMA pointer_movedGood ==
    ASSUME NEW m, ModelOK(m), NEW msg, msg.p \in Int
    PROVE  Good(pointer_moved(m, msg))
<1>0. active_targets(m, msg.ctrl) \in Seq(Int)
  BY TargetsAreEdges DEF ModelOK
<1>1. CASE ~m.toolbarDrag /\ m.resizing # None
  <2> DEFINE r == Resized(m, msg.p, msg.ctrl)
  <2>1. Shown(r) /\ r.span # None
    BY <1>0, <1>1, ResizeShown DEF ModelOK, Sound, Resized
  <2>2. pointer_moved(m, msg) = Stays([m EXCEPT !.selection = r.span, !.guide = r.guide])
    BY <1>1 DEF pointer_moved
  <2>3. m.tool = "Region"
    BY <1>1 DEF ModelOK, Sound, region_drag_active
  <2> HIDE DEF r
  <2> QED
    BY <1>1, <2>1, <2>2, <2>3, ShowingKeeps, StaysGood
<1>2. CASE ~m.toolbarDrag /\ m.resizing = None /\ m.moving # None
  <2> DEFINE r == Moved(m, msg.p, msg.ctrl)
  <2>0. m.moving.from \in Int
    BY <1>2 DEF ModelOK, Models
  <2>1. Shown(r) /\ r.span # None
    BY <1>0, <1>2, <2>0, MoveShown DEF ModelOK, Sound, Moved
  <2>2. pointer_moved(m, msg) = Stays([m EXCEPT !.selection = r.span, !.guide = r.guide])
    BY <1>2 DEF pointer_moved
  <2>3. m.tool = "Region"
    BY <1>2 DEF ModelOK, Sound, region_drag_active
  <2> HIDE DEF r
  <2> QED
    BY <1>2, <2>1, <2>2, <2>3, ShowingKeeps, StaysGood
<1>3. CASE ~m.toolbarDrag /\ m.resizing = None /\ m.moving = None /\ m.anchor # None
  <2> DEFINE l == Latched(m, msg)
             r == Band(l, msg.p, msg.ctrl, msg.across)
  <2>1. /\ ModelOK(l) /\ l.tool = "Region" /\ l.resizing = None /\ l.moving = None
        /\ l.anchor \in Int
    BY <1>3, LatchedKeeps DEF ModelOK, Models, Sound, region_drag_active
  <2>2. pointer_moved(m, msg)
          = Stays(IF l.dragging THEN [l EXCEPT !.selection = r.span, !.guide = r.guide,
                                               !.kind = "Region", !.window = None]
                  ELSE l)
    BY <1>3 DEF pointer_moved
  <2> HIDE DEF l
  <2>3. Shown(r)
    <3>1. active_targets(l, msg.ctrl) \in Seq(Int)
      BY <2>1, TargetsAreEdges DEF ModelOK
    <3>2. CASE msg.across = "flat"
      BY <3>2 DEF Band, Shown, Snapped
    <3>3. CASE msg.across # "flat"
      BY <2>1, <3>1, <3>3, BandShown DEF Band
    <3> QED
      BY <3>2, <3>3
  <2> HIDE DEF r
  <2> QED
    BY <2>1, <2>2, <2>3, BandKeeps, StaysGood
<1>4. CASE m.toolbarDrag \/ (m.resizing = None /\ m.moving = None /\ m.anchor = None)
  BY <1>4, StaysGood DEF pointer_moved
<1> QED
  BY <1>1, <1>2, <1>3, <1>4

\* Something is being dragged: the region, or the toolbar.
Drags(m) == region_drag_active(m) \/ m.toolbarDrag

\* What the end of a drag changes, and what it leaves alone.
LEMMA WithoutDragFields ==
    ASSUME NEW m \in Models
    PROVE  LET n == WithoutDrag(m) IN
           /\ n \in Models /\ n.anchor = None /\ n.resizing = None /\ n.moving = None
           /\ n.tool = m.tool /\ n.toolbarDrag = m.toolbarDrag /\ n.kind = m.kind
           /\ n.selection = m.selection /\ n.lastRegion = m.lastRegion /\ n.guide = m.guide
BY DEF Models, WithoutDrag

\* A model whose anchor is let go is still a model.
LEMMA AnchorLetGo ==
    ASSUME NEW m \in Models
    PROVE  [m EXCEPT !.anchor = None, !.dragging = FALSE] \in Models
BY DEF Models

\* The model is as sound after the edits that touch no drag.
LEMMA ClearKeeps ==
    ASSUME NEW m, ModelOK(m)
    PROVE  /\ ModelOK(WithoutDrag(m))
           /\ ~region_drag_active(WithoutDrag(m))
           /\ WithoutDrag(m).toolbarDrag = m.toolbarDrag
           /\ WithoutDrag(m).tool = m.tool
           /\ ModelOK([m EXCEPT !.guide = None, !.menu = FALSE])
<1> DEFINE n == WithoutDrag(m)
           c == [m EXCEPT !.guide = None, !.menu = FALSE]
<1>1. /\ n \in Models /\ n.anchor = None /\ n.resizing = None /\ n.moving = None
      /\ n.tool = m.tool /\ n.toolbarDrag = m.toolbarDrag /\ n.kind = m.kind
      /\ n.selection = m.selection /\ n.lastRegion = m.lastRegion /\ n.guide = m.guide
  BY WithoutDragFields DEF ModelOK
<1>2. /\ c \in Models /\ c.anchor = m.anchor /\ c.resizing = m.resizing
      /\ c.moving = m.moving /\ c.tool = m.tool /\ c.toolbarDrag = m.toolbarDrag
      /\ c.kind = m.kind /\ c.selection = m.selection /\ c.lastRegion = m.lastRegion
      /\ c.guide = None
  BY ZenonT(60) DEF ModelOK, Models
<1> HIDE DEF n, c
<1>3. ModelOK(n) /\ ~region_drag_active(n)
  BY <1>1 DEF ModelOK, Sound, region_drag_active
<1>4. ModelOK(c)
  BY <1>2 DEF ModelOK, Sound, region_drag_active
<1> QED
  BY <1>1, <1>3, <1>4 DEF n, c

\* The region to be remembered is on the display.
LEMMA LatestInside ==
    ASSUME NEW m, ModelOK(m)
    PROVE  Inside(latest_interaction_region(m))
BY DEF latest_interaction_region, Or, ModelOK, Sound

\* A close carries an outcome of the model it ends.
LEMMA ClosingIsOutcome ==
    ASSUME NEW m \in Models, NEW intent \in Intents \cup {None},
           NEW how \in {"Confirmed", "Cancelled", "Invalidated"}, NEW tool
    PROVE  Closing(how, m, intent) \in Effects(tool) /\ Closing(how, m, intent).name = "Close"
BY DEF Closing, Effect, Effects, Outcomes, Models

\* What a transition that may close the run leaves alone.
Settles(m, t) ==
    /\ Good(t)
    /\ Drags(t.model) = Drags(m)
    /\ \A i \in DOMAIN t.effects : t.effects[i].name \in {"PersistInteraction", "Close"}

\* Remembering the region and closing leaves the drag as it was.
LEMMA PersistGood ==
    ASSUME NEW m, ModelOK(m), NEW close,
           \A tool : close \in Effects(tool), close.name = "Close"
    PROVE  LET p == persist_interaction(m)
               t == Becomes(p.model, Append(p.effects, close))
           IN  Settles(m, t) /\ \E i \in DOMAIN t.effects : t.effects[i].name = "Close"
<1> DEFINE region == latest_interaction_region(m)
           kept == [m EXCEPT !.lastRegion = region]
           first == Effect("PersistInteraction", region)
<1>1. Inside(region)
  BY LatestInside
<1>2. persist_interaction(m) = Becomes(kept, <<first>>)
  BY DEF persist_interaction
<1>3. first \in Effects(kept.tool) /\ first.name = "PersistInteraction"
  BY <1>1 DEF Effect, Effects, Inside
<1> HIDE DEF region, first
<1>4. ModelOK(kept) /\ Drags(kept) = Drags(m)
  BY <1>1 DEF ModelOK, Models, Sound, region_drag_active, Drags, Inside
<1> HIDE DEF kept
<1> DEFINE effects == Append(<<first>>, close)
           t == Becomes(kept, effects)
<1>5. /\ effects \in Seq(Effects(kept.tool)) /\ DOMAIN effects = 1..2
      /\ effects[1] = first /\ effects[2] = close
  <2>1. <<first>> \in Seq(Effects(kept.tool)) /\ Len(<<first>>) = 1 /\ <<first>>[1] = first
    BY <1>3
  <2>2. close \in Effects(kept.tool)
    OBVIOUS
  <2> QED
    BY <2>1, <2>2
<1> HIDE DEF effects
<1>6. t.model = kept /\ t.effects = effects
  BY DEF Becomes
<1>7. LET p == persist_interaction(m)
      IN  Becomes(p.model, Append(p.effects, close)) = t
  BY <1>2 DEF Becomes, effects
<1> HIDE DEF t
<1>8. Settles(m, t)
  BY <1>3, <1>4, <1>5, <1>6 DEF Settles, Good
<1>9. 2 \in DOMAIN t.effects /\ t.effects[2].name = "Close"
  BY <1>5, <1>6
<1> QED
  BY <1>7, <1>8, <1>9

\* So does doing nothing.
LEMMA StaysSettles ==
    ASSUME NEW m, ModelOK(m)
    PROVE  Settles(m, Stays(m))
BY StaysGood DEF Settles, Stays, Becomes

\* So does a confirmation, honoured or not.
LEMMA confirmSettles ==
    ASSUME NEW m, ModelOK(m), NEW intent \in Intents
    PROVE  Settles(m, confirm(m, intent)) /\ Settles(m, confirm_or_capture(m, intent))
<1>1. ASSUME NEW i \in Intents PROVE Settles(m, confirm(m, i))
  <2>1. \A tool : Closing("Confirmed", m, i) \in Effects(tool)
    BY <1>1, ClosingIsOutcome DEF ModelOK
  <2>2. Closing("Confirmed", m, i).name = "Close"
    BY <1>1, ClosingIsOutcome DEF ModelOK
  <2> QED
    BY <2>1, <2>2, PersistGood, StaysSettles DEF confirm
<1>2. "Capture" \in Intents
  BY DEF Intents
<1> QED
  BY <1>1, <1>2 DEF confirm_or_capture

\* So does a cancel, and it closes.
LEMMA CancelSettles ==
    ASSUME NEW m, ModelOK(m)
    PROVE  /\ Settles(m, CancelRun(m))
           /\ \E i \in DOMAIN CancelRun(m).effects : CancelRun(m).effects[i].name = "Close"
<1>1. \A tool : Closing("Cancelled", m, None) \in Effects(tool)
  BY ClosingIsOutcome DEF ModelOK
<1>2. Closing("Cancelled", m, None).name = "Close"
  BY ClosingIsOutcome DEF ModelOK
<1> QED
  BY <1>1, <1>2, PersistGood DEF CancelRun

\* An arrow key keeps the region on the display and its size positive.
LEMMA nudgeGood ==
    ASSUME NEW m, ModelOK(m), NEW msg, msg.by \in Int
    PROVE  Good(nudge(m, msg)) /\ Drags(nudge(m, msg).model) = Drags(m)
           /\ nudge(m, msg).effects = <<>>
<1> DEFINE active == /\ m.tool = "Region" /\ m.kind = "Region" /\ ~m.menu
                     /\ ~region_drag_active(m) /\ m.selection # None
           moved == IF msg.resize THEN resize_region_by(m.selection, msg.by, source)
                    ELSE translated(m.selection, msg.by)
           region == clamp_within(moved, source)
           now == [m EXCEPT !.selection = region, !.guide = None]
<1>1. CASE ~active
  BY <1>1, StaysGood DEF nudge, Stays, Becomes
<1>2. CASE active
  <2>1. moved \in Spans
    BY <1>2, NudgedFits, SourceAssumption DEF ModelOK, Sound, Inside
  <2> HIDE DEF moved
  <2>2. Inside(region)
    BY <2>1, ClampWithinFits, SourceAssumption DEF Inside
  <2>3. nudge(m, msg) = Stays(now)
    BY <1>2 DEF nudge, moved
  <2> HIDE DEF region
  <2>4. ModelOK(now) /\ Drags(now) = Drags(m)
    BY <1>2, <2>2 DEF ModelOK, Models, Sound, region_drag_active, Drags, Inside
  <2> HIDE DEF now
  <2> QED
    BY <2>3, <2>4, StaysGood DEF Stays, Becomes
<1> QED
  BY <1>1, <1>2

\* A lost capture ends every drag.
LEMMA pointer_capture_lostGood ==
    ASSUME NEW m, ModelOK(m)
    PROVE  Good(pointer_capture_lost(m)) /\ ~Drags(pointer_capture_lost(m).model)
           /\ pointer_capture_lost(m).effects = <<>>
<1> DEFINE now == [WithoutDrag(m) EXCEPT !.toolbarDrag = FALSE, !.guide = None]
<1>1. ModelOK(now) /\ ~Drags(now)
  BY DEF ModelOK, Models, Sound, WithoutDrag, region_drag_active, Drags
<1>2. pointer_capture_lost(m) = Stays(now)
  BY DEF pointer_capture_lost
<1> HIDE DEF now
<1> QED
  BY <1>1, <1>2, StaysGood DEF Stays, Becomes

\* Letting the pointer go is an effect of any sound model.
LEMMA ReleasedGood ==
    ASSUME NEW m, ModelOK(m)
    PROVE  Good(Becomes(m, <<Effect("ReleasePointer", None)>>))
BY EffectFits DEF Good, Becomes

\* A release ends every drag, and what it commits is on the display.
LEMMA pointer_upGood ==
    ASSUME NEW m, ModelOK(m), NEW msg, msg.p \in Int
    PROVE  Good(pointer_up(m, msg)) /\ ~Drags(pointer_up(m, msg).model)
<1> DEFINE free == [WithoutDrag(m) EXCEPT !.guide = None]
           Commits(r) == [free EXCEPT !.selection = r.span, !.kind = "Region", !.window = None]
           Ends(now) == Becomes(now, <<Effect("ReleasePointer", None)>>)
<1>0. active_targets(m, msg.ctrl) \in Seq(Int)
  BY TargetsAreEdges DEF ModelOK
<1>1. ASSUME NEW now, ModelOK(now), ~Drags(now) PROVE Good(Ends(now)) /\ ~Drags(Ends(now).model)
  BY <1>1, ReleasedGood DEF Becomes
<1>2. ASSUME NEW r, Shown(r), m.tool = "Region", ~m.toolbarDrag
      PROVE  ModelOK(Commits(r)) /\ ~Drags(Commits(r))
  BY ZenonT(60), <1>2 DEF ModelOK, Models, Sound, Shown, Inside, WithoutDrag, region_drag_active, Drags, Tools
<1>3. CASE m.toolbarDrag
  <2>1. pointer_up(m, msg) = Ends([m EXCEPT !.toolbarDrag = FALSE])
    BY <1>3 DEF pointer_up
  <2>2. ModelOK([m EXCEPT !.toolbarDrag = FALSE]) /\ ~Drags([m EXCEPT !.toolbarDrag = FALSE])
    BY ZenonT(60), <1>3 DEF ModelOK, Models, Sound, region_drag_active, Drags
  <2> QED
    BY <1>1, <2>1, <2>2
<1>4. CASE ~m.toolbarDrag /\ m.tool # "Region"
  <2>1. pointer_up(m, msg) = Ends(m)
    BY <1>4 DEF pointer_up
  <2>2. ~Drags(m)
    BY <1>4 DEF ModelOK, Sound, Drags
  <2> QED
    BY <1>1, <2>1, <2>2
<1>5. CASE ~m.toolbarDrag /\ m.tool = "Region" /\ m.resizing # None
  <2> DEFINE r == Resized(m, msg.p, msg.ctrl)
  <2>1. Shown(r)
    BY <1>0, <1>5, ResizeShown DEF ModelOK, Sound, Resized
  <2>2. pointer_up(m, msg) = Ends(Commits(r))
    BY <1>5 DEF pointer_up
  <2> HIDE DEF r, Commits, Ends
  <2> QED
    BY <1>1, <1>2, <1>5, <2>1, <2>2
<1>6. CASE ~m.toolbarDrag /\ m.tool = "Region" /\ m.resizing = None /\ m.moving # None
  <2> DEFINE r == Moved(m, msg.p, msg.ctrl)
  <2>0. m.moving.from \in Int
    BY <1>6 DEF ModelOK, Models
  <2>1. Shown(r)
    BY <1>0, <1>6, <2>0, MoveShown DEF ModelOK, Sound, Moved
  <2>2. pointer_up(m, msg) = Ends(Commits(r))
    BY <1>6 DEF pointer_up
  <2> HIDE DEF r, Commits, Ends
  <2> QED
    BY <1>1, <1>2, <1>6, <2>1, <2>2
<1>7. CASE ~m.toolbarDrag /\ m.tool = "Region" /\ m.resizing = None /\ m.moving = None
           /\ m.anchor # None /\ m.dragging
  <2> DEFINE r == Band(m, msg.p, msg.ctrl, msg.across)
  <2>1. Shown(r)
    <3>1. CASE msg.across = "flat"
      BY <3>1 DEF Band, Shown, Snapped
    <3>2. CASE msg.across # "flat"
      BY <1>0, <1>7, <3>2, BandShown DEF Band, ModelOK, Models
    <3> QED
      BY <3>1, <3>2
  <2>2. pointer_up(m, msg) = Ends(Commits(r))
    BY <1>7 DEF pointer_up
  <2> HIDE DEF r, Commits, Ends
  <2> QED
    BY <1>1, <1>2, <1>7, <2>1, <2>2
<1>8. CASE ~m.toolbarDrag /\ m.tool = "Region" /\ m.resizing = None /\ m.moving = None
           /\ ~(m.anchor # None /\ m.dragging)
  <2>1. pointer_up(m, msg) = Ends(free)
    BY <1>8 DEF pointer_up
  <2>2. ModelOK(free) /\ ~Drags(free)
    BY <1>8 DEF ModelOK, Models, Sound, WithoutDrag, region_drag_active, Drags
  <2> QED
    BY <1>1, <2>1, <2>2
<1> QED
  BY <1>3, <1>4, <1>5, <1>6, <1>7, <1>8

\* What a press may start, and with it the pointer is taken first.
Pressed(t) ==
    /\ Good(t)
    /\ Drags(t.model) => t.effects # <<>> /\ Head(t.effects).name = "CapturePointer"
    /\ \A i \in DOMAIN t.effects : t.effects[i].name # "ReleasePointer"

\* The request for snap targets asks for nothing else.
LEMMA RequestNames ==
    ASSUME NEW m
    PROVE  \A i \in DOMAIN request_snap_targets(m) :
              request_snap_targets(m)[i].name = "BuildSnapTargets"
BY DEF request_snap_targets, Effect

\* A hit test names a handle or none.
LEMMA HandleType ==
    ASSUME NEW s, NEW p, NEW row
    PROVE  hit_test_resize_handle(s, p, row) \in Handles \cup {None}
BY DEF hit_test_resize_handle, Handles

\* One effect and then others: the first leads, and nothing else joins.
LEMMA ConcatFacts ==
    ASSUME NEW S, NEW a \in Seq(S), NEW b \in Seq(S), Len(a) = 1
    PROVE  /\ a \o b \in Seq(S) /\ a \o b # <<>> /\ Head(a \o b) = a[1]
           /\ \A i \in DOMAIN (a \o b) :
                 (a \o b)[i] = a[1] \/ \E j \in DOMAIN b : (a \o b)[i] = b[j]
<1> DEFINE c == a \o b
<1>1. /\ c \in Seq(S) /\ Len(c) = 1 + Len(b) /\ DOMAIN c = 1..(1 + Len(b)) /\ Len(b) \in Nat
      /\ \A i \in 1..(1 + Len(b)) : c[i] = IF i <= 1 THEN a[i] ELSE b[i - 1]
  <2>1. /\ c \in Seq(S) /\ Len(c) = Len(a) + Len(b)
        /\ \A i \in 1..(Len(a) + Len(b)) : c[i] = IF i <= Len(a) THEN a[i] ELSE b[i - Len(a)]
    BY ConcatProperties
  <2> HIDE DEF c
  <2> QED
    BY <2>1
<1> HIDE DEF c
<1>2. c # <<>> /\ Head(c) = a[1]
  BY <1>1
<1>3. ASSUME NEW i \in DOMAIN c PROVE c[i] = a[1] \/ \E j \in DOMAIN b : c[i] = b[j]
  <2>1. CASE i <= 1
    BY <1>1, <2>1
  <2>2. CASE ~(i <= 1)
    <3>1. i - 1 \in DOMAIN b /\ c[i] = b[i - 1]
      BY <1>1, <2>2
    <3> QED
      BY <3>1
  <2> QED
    BY <2>1, <2>2
<1> QED
  BY <1>1, <1>2, <1>3 DEF c

\* A press that takes the pointer first is handled as a press must be.
LEMMA CaptureThenRequest ==
    ASSUME NEW m, ModelOK(m), NEW asked
    PROVE  Pressed(Becomes(m, <<Effect("CapturePointer", None)>> \o request_snap_targets(asked)))
<1> DEFINE first == <<Effect("CapturePointer", None)>>
           rest == request_snap_targets(asked)
<1>1. first \in Seq(Effects(m.tool)) /\ rest \in Seq(Effects(m.tool))
  BY EffectFits, RequestFits
<1>2. Len(first) = 1 /\ first[1].name = "CapturePointer"
  BY DEF Effect
<1>3. \A i \in DOMAIN rest : rest[i].name # "ReleasePointer"
  BY RequestNames
<1> HIDE DEF first, rest
<1>4. /\ first \o rest \in Seq(Effects(m.tool))
      /\ first \o rest # <<>> /\ Head(first \o rest) = first[1]
      /\ \A i \in DOMAIN (first \o rest) :
            (first \o rest)[i] = first[1] \/ \E j \in DOMAIN rest : (first \o rest)[i] = rest[j]
  BY <1>1, <1>2, ConcatFacts
<1> QED
  BY <1>2, <1>3, <1>4 DEF Pressed, Good, Becomes, first, rest

\* A press in the region tool takes the pointer before windows are enumerated.
LEMMA RegionPressedGood ==
    ASSUME NEW m, ModelOK(m), m.tool = "Region", ~Drags(m), m.guide = None,
           NEW msg, msg.p \in Int
    PROVE  Pressed(RegionPressed(m, msg))
<1> DEFINE region == IF m.kind = "Region" THEN m.selection ELSE None
           handle == IF region = None THEN None ELSE hit_test_resize_handle(region, msg.p, msg.row)
           resizes == [WithoutDrag(m) EXCEPT !.resizing = [handle |-> handle, original |-> region]]
           moves == [m EXCEPT !.moving = [from |-> msg.p, original |-> region],
                              !.anchor = None, !.dragging = FALSE]
           draws == [WithoutDrag(m) EXCEPT !.anchor = msg.p,
                              !.selection = None, !.kind = None, !.window = None]
           now == IF handle # None THEN resizes
                  ELSE IF region # None /\ Contains(region, msg.p, msg.row) THEN moves ELSE draws
<1>1. RegionPressed(m, msg)
        = Becomes(now, <<Effect("CapturePointer", None)>> \o request_snap_targets(m))
  BY DEF RegionPressed
<1>2. handle \in Handles \cup {None}
  BY HandleType
<1>3. region # None => Inside(region) /\ m.kind = "Region"
  BY DEF ModelOK, Sound
<1>4. handle # None => region # None
  OBVIOUS
<1> HIDE DEF handle, region
<1> DEFINE free == WithoutDrag(m)
<1>10. /\ free \in Models /\ free.anchor = None /\ free.resizing = None /\ free.moving = None
       /\ free.tool = m.tool /\ free.toolbarDrag = m.toolbarDrag /\ free.kind = m.kind
       /\ free.selection = m.selection /\ free.lastRegion = m.lastRegion
       /\ free.guide = m.guide
  BY WithoutDragFields DEF ModelOK
<1> DEFINE inside == region # None /\ Contains(region, msg.p, msg.row)
<1>8. /\ handle # None => now = resizes
      /\ handle = None /\ inside => now = moves
      /\ handle = None /\ ~inside => now = draws
  OBVIOUS
<1> HIDE DEF now
<1>9. ASSUME ModelOK(now) PROVE Pressed(RegionPressed(m, msg))
  BY <1>1, <1>9, CaptureThenRequest
<1>5. CASE handle # None
  <2>1. /\ resizes \in Models /\ resizes.resizing = [handle |-> handle, original |-> region]
        /\ resizes.anchor = None /\ resizes.moving = None /\ resizes.toolbarDrag = m.toolbarDrag
        /\ resizes.tool = m.tool /\ resizes.kind = m.kind /\ resizes.selection = m.selection
        /\ resizes.lastRegion = m.lastRegion /\ resizes.guide = m.guide
    <3>1. handle \in Handles /\ region \in Spans
      BY <1>2, <1>3, <1>4, <1>5 DEF Inside
    <3>2. resizes = [free EXCEPT !.resizing = [handle |-> handle, original |-> region]]
      OBVIOUS
    <3> HIDE DEF resizes, free
    <3> QED
      BY <1>10, <3>1, <3>2 DEF Models
  <2> HIDE DEF resizes
  <2>2. ModelOK(resizes)
    BY <1>3, <1>4, <1>5, <2>1 DEF ModelOK, Sound, region_drag_active, Drags
  <2> QED
    BY <2>2, <1>8, <1>9, <1>5 DEF resizes
<1>6. CASE handle = None /\ region # None /\ Contains(region, msg.p, msg.row)
  <2>1. /\ moves \in Models /\ moves.moving = [from |-> msg.p, original |-> region]
        /\ moves.anchor = None /\ moves.resizing = m.resizing /\ moves.toolbarDrag = m.toolbarDrag
        /\ moves.tool = m.tool /\ moves.kind = m.kind /\ moves.selection = m.selection
        /\ moves.lastRegion = m.lastRegion /\ moves.guide = m.guide
    <3>1. region \in Spans /\ m \in Models
      BY <1>3, <1>6 DEF Inside, ModelOK
    <3> DEFINE held == [from |-> msg.p, original |-> region]
    <3>2. held \in [from : Int, original : Spans]
      BY <3>1
    <3>3. moves = [m EXCEPT !.moving = held, !.anchor = None, !.dragging = FALSE]
      OBVIOUS
    <3> HIDE DEF held, moves
    <3>4. moves \in Models
      <4> DEFINE now1 == [m EXCEPT !.anchor = None, !.dragging = FALSE]
      <4>1. now1 \in Models
        BY <3>1, AnchorLetGo
      <4>2. moves = [now1 EXCEPT !.moving = held]
        BY <3>1, <3>3 DEF Models
      <4> HIDE DEF now1
      <4> QED
        BY <4>1, <4>2, <3>2 DEF Models
    <3>5. /\ moves.moving = held /\ moves.anchor = None /\ moves.resizing = m.resizing
          /\ moves.toolbarDrag = m.toolbarDrag /\ moves.tool = m.tool /\ moves.kind = m.kind
          /\ moves.selection = m.selection /\ moves.lastRegion = m.lastRegion
          /\ moves.guide = m.guide
      BY <3>1, <3>3 DEF Models
    <3> QED
      BY <3>4, <3>5 DEF held
  <2> HIDE DEF moves
  <2>2. ModelOK(moves)
    BY <1>3, <1>6, <2>1 DEF ModelOK, Sound, region_drag_active, Drags
  <2> QED
    BY <2>2, <1>8, <1>9, <1>6 DEF moves
<1>7. CASE handle = None /\ ~(region # None /\ Contains(region, msg.p, msg.row))
  <2>1. /\ draws \in Models /\ draws.selection = None /\ draws.moving = None
        /\ draws.resizing = None /\ draws.toolbarDrag = m.toolbarDrag /\ draws.tool = m.tool
        /\ draws.lastRegion = m.lastRegion /\ draws.guide = m.guide
    <3>1. draws = [free EXCEPT !.anchor = msg.p, !.selection = None, !.kind = None, !.window = None]
      OBVIOUS
    <3> HIDE DEF draws, free
    <3> QED
      BY <1>10, <3>1 DEF Models
  <2> HIDE DEF draws
  <2>2. ModelOK(draws)
    BY <2>1 DEF ModelOK, Sound, region_drag_active, Drags
  <2> QED
    BY <2>2, <1>8, <1>9, <1>7 DEF draws
<1> QED
  BY <1>5, <1>6, <1>7

\* So does a press on the desk in any tool.
LEMMA pointer_downGood ==
    ASSUME NEW m, ModelOK(m), ~Drags(m), NEW msg, msg.p \in Int,
           msg.window \in Windows \cup {None}
    PROVE  Pressed(pointer_down(m, msg))
<1> DEFINE clear == [m EXCEPT !.guide = None, !.menu = FALSE]
<1>1. ModelOK(clear) /\ ~Drags(clear) /\ clear.tool = m.tool /\ clear.guide = None
  BY ClearKeeps DEF ModelOK, Models, region_drag_active, Drags
<1>2. m.tool \in Tools
  BY DEF ModelOK, Models
<1>3. CASE m.tool = "Window"
  <2> DEFINE now == [clear EXCEPT !.window = msg.window]
  <2>1. pointer_down(m, msg) = Becomes(now, <<Effect("UpdateWindowPreview", msg.window)>>)
    BY <1>3 DEF pointer_down
  <2> HIDE DEF clear
  <2>2. ModelOK(now) /\ ~Drags(now) /\ now.tool = "Window"
    BY <1>1, <1>3 DEF ModelOK, Models, Sound, region_drag_active, Drags
  <2> HIDE DEF now
  <2>3. <<Effect("UpdateWindowPreview", msg.window)>> \in Seq(Effects(now.tool))
    BY <2>2 DEF Effect, Effects
  <2> QED
    BY <2>1, <2>2, <2>3 DEF Pressed, Good, Becomes, Effect
<1>4. CASE m.tool = "FullDisplay"
  <2>1. pointer_down(m, msg) = Stays(clear)
    BY <1>4 DEF pointer_down
  <2> HIDE DEF clear
  <2> QED
    BY <1>1, <2>1, StaysGood DEF Pressed, Stays, Becomes
<1>5. CASE m.tool = "Region"
  <2>1. pointer_down(m, msg) = RegionPressed(clear, msg)
    BY <1>5 DEF pointer_down
  <2> HIDE DEF clear
  <2> QED
    BY <1>1, <1>5, <2>1, RegionPressedGood
<1> QED
  BY <1>2, <1>3, <1>4, <1>5 DEF Tools

\* A button leaves no drag, and asks for nothing but the enumeration.
LEMMA RequestGood ==
    ASSUME NEW m, ModelOK(m), ~Drags(m), NEW asked
    PROVE  Pressed(Becomes(m, request_snap_targets(asked)))
BY RequestFits, RequestNames DEF Pressed, Good, Becomes

\* A tool switch leaves a sound model and no drag.
LEMMA activate_toolGood ==
    ASSUME NEW m, ModelOK(m), ~Drags(m), NEW tool \in Tools
    PROVE  Pressed(activate_tool(m, tool))
<1> DEFINE bare == [WithoutDrag(m) EXCEPT !.guide = None, !.armed = FALSE]
           fresh == IF m.tool = tool THEN bare
                    ELSE [bare EXCEPT !.lastRegion = latest_interaction_region(m),
                                      !.selection = None, !.kind = None, !.window = None]
           now == [fresh EXCEPT !.tool = tool, !.menu = FALSE]
           then == CASE tool = "FullDisplay" ->
                          [now EXCEPT !.selection = source, !.kind = "FullDisplay", !.window = None]
                     [] tool = "Region" /\ m.tool # tool ->
                          [now EXCEPT !.selection = clamp_within(now.lastRegion, source),
                                      !.kind = "Region"]
                     [] OTHER -> now
<1>1. activate_tool(m, tool) = Becomes(then, request_snap_targets(then))
  BY DEF activate_tool
<1>2. Inside(latest_interaction_region(m))
  BY LatestInside
<1>3. /\ bare \in Models /\ bare.anchor = None /\ bare.resizing = None /\ bare.moving = None
      /\ bare.tool = m.tool /\ bare.toolbarDrag = m.toolbarDrag /\ bare.kind = m.kind
      /\ bare.selection = m.selection /\ bare.lastRegion = m.lastRegion /\ bare.guide = None
  <2> DEFINE free == WithoutDrag(m)
  <2>1. /\ free \in Models /\ free.anchor = None /\ free.resizing = None /\ free.moving = None
        /\ free.tool = m.tool /\ free.toolbarDrag = m.toolbarDrag /\ free.kind = m.kind
        /\ free.selection = m.selection /\ free.lastRegion = m.lastRegion
    BY WithoutDragFields DEF ModelOK
  <2> HIDE DEF free
  <2> QED
    BY <2>1 DEF Models, free
<1> HIDE DEF bare
<1>4. /\ now \in Models /\ now.tool = tool /\ now.guide = None /\ Inside(now.lastRegion)
      /\ ~Drags(now) /\ now.resizing = None /\ now.moving = None
      /\ m.tool = tool => Sound(now)
      /\ m.tool # tool => now.selection = None
  <2>1. /\ now \in Models /\ now.tool = tool /\ now.guide = None /\ now.anchor = None
        /\ now.resizing = None /\ now.moving = None /\ now.toolbarDrag = m.toolbarDrag
        /\ m.tool = tool => /\ now.selection = m.selection /\ now.kind = m.kind
                            /\ now.lastRegion = m.lastRegion
        /\ m.tool # tool => /\ now.selection = None
                            /\ now.lastRegion = latest_interaction_region(m)
    <3>1. CASE m.tool = tool
      <4>1. now = [bare EXCEPT !.tool = tool, !.menu = FALSE]
        BY <3>1
      <4> HIDE DEF now
      <4> QED
        BY ZenonT(60), <1>3, <3>1, <4>1 DEF Models
    <3>2. CASE m.tool # tool
      BY <1>2, <1>3, <3>2 DEF Models, Inside
    <3> QED
      BY <3>1, <3>2
  <2> HIDE DEF now
  <2>2. Inside(now.lastRegion) /\ (m.tool = tool => Sound(now))
    BY <1>2, <2>1 DEF ModelOK, Sound, region_drag_active
  <2> QED
    BY <2>1, <2>2 DEF Drags, region_drag_active
<1> HIDE DEF now
<1>5. Inside(source) /\ Inside(clamp_within(now.lastRegion, source))
  BY <1>4, ClampWithinFits, SourceAssumption, SpanShape DEF Inside, Within
<1>6. ModelOK(then) /\ ~Drags(then)
  <2>1. CASE tool = "FullDisplay"
    BY ZenonT(60), <1>4, <1>5, <2>1
    DEF ModelOK, Models, Sound, region_drag_active, Drags, Inside
  <2>2. CASE tool = "Region" /\ m.tool # tool
    BY <1>4, <1>5, <2>2 DEF ModelOK, Models, Sound, region_drag_active, Drags, Inside
  <2>3. CASE tool = "Window" \/ (tool = "Region" /\ m.tool = tool)
    BY <1>4, <2>3 DEF ModelOK, Models, Sound, region_drag_active, Drags, Inside
  <2> QED
    BY <2>1, <2>2, <2>3 DEF Tools
<1> HIDE DEF then
<1> QED
  BY <1>1, <1>6, RequestGood

\* A switch is thrown: the region and its guide are as they were, or the guide goes.
SameRegion(n, m) ==
    /\ n \in Models /\ n.selection = m.selection /\ n.kind = m.kind /\ n.tool = m.tool
    /\ n.anchor = m.anchor /\ n.resizing = m.resizing /\ n.moving = m.moving
    /\ n.lastRegion = m.lastRegion /\ n.toolbarDrag = m.toolbarDrag
    /\ n.guide \in {m.guide, None}

\* A model whose region is the same is as sound.
LEMMA SameRegionKeeps ==
    ASSUME NEW m, ModelOK(m), NEW n, SameRegion(n, m)
    PROVE  ModelOK(n) /\ Drags(n) = Drags(m)
BY DEF SameRegion, ModelOK, Sound, Drags, region_drag_active

\* A button that settles the run is handled as a press must be.
LEMMA SettledIsPressed ==
    ASSUME NEW m, ~Drags(m), NEW t, Settles(m, t)
    PROVE  Pressed(t)
BY DEF Settles, Pressed

\* So is every button of the toolbar and row of its menu.
LEMMA toolbar_control_pressedGood ==
    ASSUME NEW m, ModelOK(m), ~Drags(m), NEW msg, msg.on \in Buttons, msg.intent \in Intents
    PROVE  Pressed(toolbar_control_pressed(m, msg))
<1> DEFINE now == WithoutDrag(m)
<1>1. ModelOK(now) /\ ~Drags(now)
  BY ClearKeeps DEF Drags
<1>2. "Pin" \in Intents /\ "Edit" \in Intents /\ "Record" \in Intents
  BY DEF Intents
<1> DEFINE shut == [now EXCEPT !.menu = FALSE, !.toolbarDrag = TRUE]
           menu == [now EXCEPT !.menu = ~@]
           armed == [now EXCEPT !.armed = ~@]
           set == [now EXCEPT !.snapOn = ~@, !.guide = None]
           t == toolbar_control_pressed(m, msg)
<1>3. /\ msg.on = "Background" => t = Becomes(shut, <<Effect("CapturePointer", None)>>)
      /\ msg.on \in Tools => t = activate_tool(now, msg.on)
      /\ msg.on = "Options" => t = Stays(menu)
      /\ msg.on = "Capture" => t = confirm_or_capture(now, msg.intent)
      /\ msg.on \in {"Pin", "Edit"} => t = confirm(now, msg.on)
      /\ msg.on = "Record" => t \in {Stays(armed), confirm(now, "Record")}
      /\ msg.on = "SnapToWindows" => t = Becomes(set, request_snap_targets(set))
      /\ msg.on = "OtherRow" => t = Stays(now)
      /\ msg.on = "Cancel" => t = CancelRun(now)
  BY DEF toolbar_control_pressed, Tools
<1> HIDE DEF now
<1> HIDE DEF menu, armed, set, shut
<1>4. /\ ModelOK(menu) /\ ~Drags(menu)
      /\ ModelOK(armed) /\ ~Drags(armed)
      /\ ModelOK(set) /\ ~Drags(set)
  <2>1. ModelOK(menu) /\ ~Drags(menu)
    <3>1. SameRegion(menu, now)
      <4> DEFINE turned == ~now.menu
      <4>1. menu = [now EXCEPT !.menu = turned] /\ turned \in BOOLEAN
        BY DEF menu
      <4> HIDE DEF turned
      <4> QED
        BY <1>1, <4>1 DEF SameRegion, ModelOK, Models
    <3> QED
      BY <1>1, <3>1, SameRegionKeeps
  <2>2. ModelOK(armed) /\ ~Drags(armed)
    <3>1. SameRegion(armed, now)
      <4> DEFINE turned == ~now.armed
      <4>1. armed = [now EXCEPT !.armed = turned] /\ turned \in BOOLEAN
        BY DEF armed
      <4> HIDE DEF turned
      <4> QED
        BY <1>1, <4>1 DEF SameRegion, ModelOK, Models
    <3> QED
      BY <1>1, <3>1, SameRegionKeeps
  <2>3. ModelOK(set) /\ ~Drags(set)
    <3>1. SameRegion(set, now)
      <4> DEFINE turned == ~now.snapOn
      <4>1. set = [now EXCEPT !.snapOn = turned, !.guide = None] /\ turned \in BOOLEAN
        BY DEF set
      <4> HIDE DEF turned
      <4> QED
        <5>1. now \in Models
          BY <1>1 DEF ModelOK
        <5>2. set \in Models
          BY ZenonT(60), <4>1, <5>1 DEF Models
        <5> QED
          BY <4>1, <5>1, <5>2 DEF SameRegion, Models
    <3> QED
      BY <1>1, <3>1, SameRegionKeeps
  <2> QED
    BY <2>1, <2>2, <2>3
<1>5. ASSUME NEW n, ModelOK(n), ~Drags(n) PROVE Pressed(Stays(n))
  BY <1>5, StaysGood DEF Pressed, Stays, Becomes
<1>6. CASE msg.on = "Background"
  <2>1. ModelOK(shut)
    BY ZenonT(60), <1>1 DEF ModelOK, Models, Sound, region_drag_active, Drags, shut
  <2> DEFINE only == <<Effect("CapturePointer", None)>>
  <2>2. only \in Seq(Effects(shut.tool))
    BY EffectFits
  <2>3. only # <<>> /\ Head(only).name = "CapturePointer" /\ DOMAIN only = {1}
        /\ only[1].name = "CapturePointer"
    BY DEF Effect
  <2> HIDE DEF only
  <2>4. Pressed(Becomes(shut, only))
    BY <2>1, <2>2, <2>3 DEF Pressed, Good, Becomes
  <2> QED
    BY <1>3, <1>6, <2>4 DEF only
<1>7. CASE msg.on \in Tools
  BY <1>1, <1>3, <1>7, activate_toolGood
<1>8. CASE msg.on \in {"Options", "OtherRow"}
  BY <1>1, <1>3, <1>4, <1>5, <1>8
<1>9. CASE msg.on \in {"Capture", "Pin", "Edit", "Record"}
  BY <1>1, <1>2, <1>3, <1>4, <1>5, <1>9, confirmSettles, SettledIsPressed
<1>10. CASE msg.on = "SnapToWindows"
  BY <1>3, <1>4, <1>10, RequestGood
<1>11. CASE msg.on = "Cancel"
  BY <1>1, <1>3, <1>11, CancelSettles, SettledIsPressed
<1> QED
  BY <1>6, <1>7, <1>8, <1>9, <1>10, <1>11 DEF Buttons

\* A window that was rendered, or was not, is a sound selection.
LEMMA window_preview_resolvedGood ==
    ASSUME NEW m, ModelOK(m), m.tool = "Window", NEW rect \in {None} \cup WindowRects,
           NEW intent \in Intents
    PROVE  Good(window_preview_resolved(m, rect, intent))
           /\ Drags(window_preview_resolved(m, rect, intent).model) = Drags(m)
           /\ LET e == window_preview_resolved(m, rect, intent).effects
              IN  \A i \in DOMAIN e : e[i].name \in {"PersistInteraction", "Close"}
<1> DEFINE now == [m EXCEPT !.selection = rect, !.kind = IF rect = None THEN None ELSE "Window"]
           wanted == IF m.armed THEN "Record" ELSE intent
<1>1. rect # None => rect \in Spans
  BY InputAssumption
<1>2. ModelOK(now) /\ Drags(now) = Drags(m) /\ now.armed = m.armed
  BY ZenonT(60), <1>1 DEF ModelOK, Models, Sound, region_drag_active, Drags, Inside, Tools
<1>3. wanted \in Intents
  BY DEF Intents
<1>4. window_preview_resolved(m, rect, intent)
        \in {Stays(now), confirm_or_capture(now, wanted)}
  BY <1>2 DEF window_preview_resolved
<1> HIDE DEF now, wanted
<1> QED
  BY <1>2, <1>3, <1>4, confirmSettles, StaysSettles DEF Settles

\* What any message does to a sound model: it stays sound; a drag goes on only
\* if it was on, or begins with a press that takes the pointer; the pointer is
\* let go with no drag on; a cancel closes the run.
Answered(m, msg, t) ==
    /\ Good(t)
    /\ Drags(t.model) =>
         \/ Drags(m) /\ msg.kind \notin {"Up", "CaptureLost", "Down"}
         \/ msg.kind = "Down" /\ t.effects # <<>> /\ Head(t.effects).name = "CapturePointer"
    /\ Drags(t.model) => \A i \in DOMAIN t.effects : t.effects[i].name # "ReleasePointer"
    /\ msg.kind = "Cancel" => \E i \in DOMAIN t.effects : t.effects[i].name = "Close"

\* Every message gets a sound answer: a drag is on after it only if it was
\* on before or this press takes the pointer, and a cancel closes.
LEMMA transitionAnswers ==
    ASSUME NEW m, ModelOK(m), NEW msg \in Messages, msg.kind = "Down" => ~Drags(m)
    PROVE  Answered(m, msg, transition(m, msg))
<1>1. CASE msg.kind = "Moved"
  <2>1. msg.p \in Int
    BY <1>1 DEF Messages
  <2>2. /\ Drags(pointer_moved(m, msg).model) => Drags(m)
        /\ pointer_moved(m, msg).effects = <<>>
    BY LatchedKeeps DEF pointer_moved, Stays, Becomes, Drags, region_drag_active, ModelOK, Models
  <2>3. transition(m, msg) = pointer_moved(m, msg)
    BY <1>1 DEF transition
  <2> QED
    BY <1>1, <2>1, <2>2, <2>3, pointer_movedGood DEF Answered
<1>2. CASE msg.kind = "Down" /\ msg.on = "Desk"
  <2>1. msg.p \in Int /\ msg.window \in Windows \cup {None}
    BY <1>2 DEF Messages, Buttons, Tools
  <2>2. transition(m, msg) = pointer_down(m, msg)
    BY <1>2 DEF transition
  <2> QED
    BY <1>2, <2>1, <2>2, pointer_downGood DEF Answered, Pressed
<1>3. CASE msg.kind = "Down" /\ msg.on # "Desk"
  <2>1. msg.on \in Buttons /\ msg.intent \in Intents
    BY <1>3 DEF Messages
  <2>2. transition(m, msg) = toolbar_control_pressed(m, msg)
    BY <1>3 DEF transition
  <2> QED
    BY <1>3, <2>1, <2>2, toolbar_control_pressedGood DEF Answered, Pressed
<1>4. CASE msg.kind = "Up"
  <2>1. msg.p \in Int
    BY <1>4 DEF Messages
  <2>2. transition(m, msg) = pointer_up(m, msg)
    BY <1>4 DEF transition
  <2> QED
    BY <1>4, <2>1, <2>2, pointer_upGood DEF Answered
<1>5. CASE msg.kind \in {"Double", "Enter"}
  <2>1. msg.intent \in Intents
    BY <1>5 DEF Messages
  <2>2. transition(m, msg) \in {Stays(m), confirm(m, msg.intent), confirm_or_capture(m, msg.intent)}
    BY <1>5 DEF transition
  <2>3. Settles(m, transition(m, msg))
    BY <2>1, <2>2, confirmSettles, StaysSettles
  <2> QED
    BY <1>5, <2>3 DEF Answered, Settles
<1>6. CASE msg.kind = "CaptureLost"
  <2>1. transition(m, msg) = pointer_capture_lost(m)
    BY <1>6 DEF transition
  <2> QED
    BY <1>6, <2>1, pointer_capture_lostGood DEF Answered
<1>7. CASE msg.kind = "Nudge"
  <2>1. msg.by \in Int
    BY <1>7 DEF Messages
  <2>2. transition(m, msg) = nudge(m, msg)
    BY <1>7 DEF transition
  <2> QED
    BY <1>7, <2>1, <2>2, nudgeGood DEF Answered
<1>8. CASE msg.kind = "Cancel"
  <2>1. transition(m, msg) = CancelRun(m)
    BY <1>8 DEF transition
  <2> QED
    BY <1>8, <2>1, CancelSettles DEF Answered, Settles
<1>9. CASE msg.kind = "DisplayChanged"
  <2>1. transition(m, msg) = Becomes(m, <<Closing("Invalidated", m, None)>>)
    BY <1>9 DEF transition
  <2>2. /\ Closing("Invalidated", m, None) \in Effects(m.tool)
        /\ Closing("Invalidated", m, None).name = "Close"
    BY ClosingIsOutcome DEF ModelOK
  <2> QED
    BY <1>9, <2>1, <2>2 DEF Answered, Good, Becomes
<1> QED
  BY <1>1, <1>2, <1>3, <1>4, <1>5, <1>6, <1>7, <1>8, <1>9 DEF Messages

-----------------------------------------------------------------------------
(* The run.  A drag is on only while the press has taken or is about to    *)
(* take the pointer, or its end waits in the inbox; a press is handled     *)
(* before anything else and with no drag on; and the pointer is let go     *)
(* with none on.                                                           *)

Shapes ==
    /\ ModelOK(model)
    /\ pending \in Seq(Effects(model.tool))
    /\ inbox \in Seq(Messages)
    /\ phase \in {"starting", "made", "published", "open", "closed"}
    /\ button \in BOOLEAN

Fresh == phase \in {"starting", "made", "published"} => ~Drags(model) /\ pending = <<>>

EndWaits == \E i \in DOMAIN inbox : inbox[i].kind \in {"Up", "CaptureLost"}

DragIsHeld ==
    Drags(model) /\ phase = "open" =>
        \/ button /\ pending # <<>> /\ Head(pending).name = "CapturePointer"
        \/ button /\ captured
        \/ EndWaits

PressComesFirst ==
    \A i \in DOMAIN inbox :
        inbox[i].kind = "Down" => i = 1 /\ pending = <<>> /\ button /\ ~Drags(model)

ReleaseIsLast ==
    \A i \in DOMAIN pending : pending[i].name = "ReleasePointer" => ~Drags(model)

IInv == Shapes /\ Fresh /\ DragIsHeld /\ PressComesFirst /\ ReleaseIsLast

\* A run begins with what was remembered, clamped to the display, and no drag.
LEMMA InitHolds == ASSUME Init PROVE IInv
<1>1. PICK tool \in Tools, region \in Remembered \cup {None}, snapOn \in BOOLEAN :
        LET last == IF region = None THEN default_region_for_source(source)
                    ELSE clamp_within(region, source)
        IN model = [tool |-> tool,
                    selection |-> CASE tool = "FullDisplay" -> source
                                    [] tool = "Window" -> None
                                    [] tool = "Region" -> clamp_within(last, source),
                    kind |-> IF tool = "Window" THEN None ELSE tool,
                    window |-> None, anchor |-> None, dragging |-> FALSE,
                    resizing |-> None, moving |-> None, lastRegion |-> last,
                    toolbarDrag |-> FALSE, menu |-> FALSE, armed |-> FALSE,
                    snapOn |-> snapOn, targets |-> FALSE, guide |-> None]
  BY DEF Init
<1> DEFINE last == IF region = None THEN default_region_for_source(source)
                   ELSE clamp_within(region, source)
<1>2. Inside(last)
  BY DefaultFits, ClampWithinFits, SourceAssumption, InputAssumption DEF Inside
<1>3. Inside(source) /\ Inside(clamp_within(last, source))
  BY <1>2, ClampWithinFits, SourceAssumption, SpanShape DEF Inside, Within
<1> HIDE DEF last
<1>4. ModelOK(model) /\ ~Drags(model)
  <2> DEFINE chosen == CASE tool = "FullDisplay" -> source
                         [] tool = "Window" -> None
                         [] tool = "Region" -> clamp_within(last, source)
  <2>1. chosen = None \/ (Inside(chosen) /\ tool # "Window")
    BY <1>3 DEF Tools
  <2>2. model = [tool |-> tool, selection |-> chosen,
                 kind |-> IF tool = "Window" THEN None ELSE tool,
                 window |-> None, anchor |-> None, dragging |-> FALSE,
                 resizing |-> None, moving |-> None, lastRegion |-> last,
                 toolbarDrag |-> FALSE, menu |-> FALSE, armed |-> FALSE,
                 snapOn |-> snapOn, targets |-> FALSE, guide |-> None]
    BY <1>1 DEF last
  <2> HIDE DEF chosen
  <2> QED
    BY <1>2, <2>1, <2>2 DEF ModelOK, Models, Sound, Drags, region_drag_active, Inside
<1>5. /\ pending = <<>> /\ inbox = <<>> /\ phase = "starting" /\ button = FALSE
  BY DEF Init
<1>6. Shapes
  <2>1. ASSUME NEW S PROVE <<>> \in Seq(S)
    OBVIOUS
  <2>2. pending \in Seq(Effects(model.tool)) /\ inbox \in Seq(Messages)
    BY <1>5, <2>1
  <2> QED
    BY <1>4, <1>5, <2>2 DEF Shapes
<1>7. Fresh /\ DragIsHeld /\ PressComesFirst /\ ReleaseIsLast
  BY <1>4, <1>5 DEF Fresh, DragIsHeld, PressComesFirst, ReleaseIsLast
<1> QED
  BY <1>6, <1>7 DEF IInv

\* A message joins the inbox.  If the button or the capture changed with it, it
\* is the news of that; a press is sent only when nothing is on.
LEMMA SendKeeps ==
    ASSUME IInv, NEW msg \in Messages, inbox' = Append(inbox, msg),
           UNCHANGED <<model, pending, phase>>, button' \in BOOLEAN,
           inbox = <<>> \/ pending # <<>> \/ button' = button,
           \/ button' = button /\ captured' = captured
           \/ msg.kind \in {"Up", "CaptureLost"}
           \/ ~Drags(model),
           msg.kind = "Down" => inbox = <<>> /\ pending = <<>> /\ button' /\ ~Drags(model)
    PROVE  IInv'
<1> USE DEF IInv
<1>1. /\ inbox' \in Seq(Messages) /\ Len(inbox') = Len(inbox) + 1
      /\ inbox'[Len(inbox) + 1] = msg
      /\ \A i \in DOMAIN inbox : i \in DOMAIN inbox' /\ inbox'[i] = inbox[i]
      /\ \A i \in DOMAIN inbox' : i \in DOMAIN inbox \/ i = Len(inbox) + 1
      /\ Len(inbox) + 1 \in DOMAIN inbox'
  BY DEF Shapes
<1>2. Shapes'
  BY <1>1 DEF Shapes
<1>3. Fresh' /\ ReleaseIsLast'
  BY DEF Fresh, ReleaseIsLast
<1>4. DragIsHeld'
  <2>1. EndWaits \/ msg.kind \in {"Up", "CaptureLost"} => EndWaits'
    BY <1>1 DEF EndWaits
  <2> QED
    BY <2>1 DEF DragIsHeld
<1>5. PressComesFirst'
  <2> SUFFICES ASSUME NEW i \in DOMAIN inbox', inbox'[i].kind = "Down"
               PROVE  i = 1 /\ pending = <<>> /\ button' /\ ~Drags(model)
    BY DEF PressComesFirst
  <2>1. CASE i \in DOMAIN inbox
    <3>1. i = 1 /\ pending = <<>> /\ button /\ ~Drags(model)
      BY <1>1, <2>1 DEF PressComesFirst
    <3>2. inbox # <<>>
      BY <2>1
    <3> QED
      BY <3>1, <3>2
  <2>2. CASE i = Len(inbox) + 1
    BY <1>1, <2>2
  <2> QED
    BY <1>1, <2>1, <2>2
<1> QED
  BY <1>2, <1>3, <1>4, <1>5

\* When the window waits and the button is up, nothing is dragged.
LEMMA IdleIsFree ==
    ASSUME IInv, Idle, ~button
    PROVE  ~Drags(model)
BY DEF IInv, Idle, DragIsHeld, EndWaits

\* The person presses only with no drag on, and moves only in one.
LEMMA PersonKeeps ==
    ASSUME IInv, \/ PersonPresses \/ PersonPressesToolbar \/ PersonDoubleClicks
                 \/ PersonMoves \/ PersonTypes \/ DisplayChanges
    PROVE  IInv'
<1> USE DEF Idle, Sends, InputAssumption
<1>0. Idle /\ ~button => ~Drags(model)
  BY IdleIsFree
<1>1. CASE PersonPresses
  <2>1. PICK p \in Points, row \in {"top", "middle", "bottom", "outside"}, w \in Windows \cup {None} :
          inbox' = Append(inbox, [kind |-> "Down", on |-> "Desk", p |-> p, row |-> row,
                                  window |-> w])
    BY <1>1 DEF PersonPresses
  <2> DEFINE msg == [kind |-> "Down", on |-> "Desk", p |-> p, row |-> row, window |-> w]
  <2>2. msg \in Messages /\ msg.kind = "Down"
    BY InputAssumption DEF Messages
  <2> HIDE DEF msg
  <2>3. inbox' = Append(inbox, msg)
    BY <2>1 DEF msg
  <2> QED
    BY <1>0, <1>1, <2>2, <2>3, SendKeeps DEF PersonPresses
<1>2. CASE PersonPressesToolbar
  <2>1. PICK on \in Controls(model), intent \in {"Capture", "Pin"} :
          inbox' = Append(inbox, [kind |-> "Down", on |-> on, intent |-> intent])
    BY <1>2 DEF PersonPressesToolbar
  <2> DEFINE msg == [kind |-> "Down", on |-> on, intent |-> intent]
  <2>2. msg \in Messages /\ msg.kind = "Down"
    BY DEF Messages, Controls, Buttons, Intents
  <2> HIDE DEF msg
  <2>3. inbox' = Append(inbox, msg)
    BY <2>1 DEF msg
  <2> QED
    BY <1>0, <1>2, <2>2, <2>3, SendKeeps DEF PersonPressesToolbar
<1>3. CASE PersonDoubleClicks
  <2>1. PICK on \in {"Desk", "Toolbar"}, intent \in {"Capture", "Pin"} :
          inbox' = Append(inbox, [kind |-> "Double", on |-> on, intent |-> intent])
    BY <1>3 DEF PersonDoubleClicks
  <2> DEFINE msg == [kind |-> "Double", on |-> on, intent |-> intent]
  <2>2. msg \in Messages /\ msg.kind = "Double"
    BY DEF Messages, Intents
  <2> HIDE DEF msg
  <2>3. inbox' = Append(inbox, msg)
    BY <2>1 DEF msg
  <2> QED
    BY <1>0, <1>3, <2>2, <2>3, SendKeeps DEF PersonDoubleClicks
<1>4. CASE PersonMoves
  <2>1. PICK p \in Points, ctrl \in BOOLEAN, across \in {"flat", "thin", "far"} :
          inbox' = Append(inbox, [kind |-> "Moved", p |-> p, ctrl |-> ctrl, across |-> across])
    BY <1>4 DEF PersonMoves
  <2> DEFINE msg == [kind |-> "Moved", p |-> p, ctrl |-> ctrl, across |-> across]
  <2>2. msg \in Messages /\ msg.kind = "Moved"
    BY InputAssumption DEF Messages
  <2> HIDE DEF msg
  <2>3. inbox' = Append(inbox, msg)
    BY <2>1 DEF msg
  <2> QED
    BY <1>4, <2>2, <2>3, SendKeeps DEF PersonMoves, IInv, Shapes
<1>5. CASE PersonTypes \/ DisplayChanges
  <2>1. PICK msg \in Messages : inbox' = Append(inbox, msg) /\ msg.kind # "Down"
    <3>1. \A intent \in {"Capture", "Pin", "Edit"} : [kind |-> "Enter", intent |-> intent] \in Messages
      BY DEF Messages, Intents
    <3>2. \A by \in {-1, 1}, resize \in BOOLEAN :
             [kind |-> "Nudge", by |-> by, resize |-> resize] \in Messages
      BY DEF Messages
    <3>3. [kind |-> "Cancel"] \in Messages /\ [kind |-> "DisplayChanged"] \in Messages
      BY DEF Messages
    <3> QED
      BY <1>5, <3>1, <3>2, <3>3 DEF PersonTypes, DisplayChanges
  <2> QED
    BY <1>5, <2>1, SendKeeps DEF PersonTypes, DisplayChanges, IInv, Shapes
<1> QED
  BY <1>1, <1>2, <1>3, <1>4, <1>5

\* A button let go is heard of here, unless nothing here was dragged.
LEMMA ReleaseKeeps ==
    ASSUME IInv, PersonReleases
    PROVE  IInv'
<1> USE DEF Sends
<1>1. PICK p \in Points, ctrl \in BOOLEAN, across \in {"flat", "thin", "far"} :
        IF captured \/ Over(p)
        THEN inbox' = Append(inbox, [kind |-> "Up", p |-> p, ctrl |-> ctrl, across |-> across])
        ELSE UNCHANGED inbox
  BY DEF PersonReleases
<1>2. /\ UNCHANGED <<model, pending, phase, captured>> /\ button' = FALSE
      /\ Idle \/ Busy
  BY DEF PersonReleases
<1>3. inbox = <<>> \/ pending # <<>>
  BY <1>2 DEF Idle, Busy
<1>4. CASE captured \/ Over(p)
  <2> DEFINE msg == [kind |-> "Up", p |-> p, ctrl |-> ctrl, across |-> across]
  <2>1. msg \in Messages /\ msg.kind = "Up"
    BY InputAssumption DEF Messages
  <2> HIDE DEF msg
  <2>2. inbox' = Append(inbox, msg)
    BY <1>1, <1>4 DEF msg
  <2> QED
    BY <1>2, <1>3, <2>1, <2>2, SendKeeps
<1>5. CASE ~(captured \/ Over(p))
  <2>1. UNCHANGED inbox /\ ~captured
    BY <1>1, <1>5
  <2>2. ~(pending # <<>> /\ Head(pending).name = "CapturePointer")
    BY <1>2 DEF Idle, Busy, Slow
  <2>3. Shapes' /\ Fresh' /\ ReleaseIsLast'
    BY <1>2, <2>1 DEF IInv, Shapes, Fresh, ReleaseIsLast
  <2>4. DragIsHeld'
    BY <1>2, <2>1, <2>2 DEF IInv, DragIsHeld, EndWaits
  <2>5. PressComesFirst'
    BY <1>2, <1>3, <2>1 DEF IInv, PressComesFirst
  <2> QED
    BY <2>3, <2>4, <2>5 DEF IInv
<1> QED
  BY <1>4, <1>5

\* Another window takes the pointer, and another thread cancels.
LEMMA OthersKeep ==
    ASSUME IInv, CaptureStolen \/ CancelPosts \/ CancelStores \/ Publishes
    PROVE  IInv'
<1>1. CASE CaptureStolen
  <2>1. [kind |-> "CaptureLost"] \in Messages
    BY DEF Messages
  <2> QED
    BY <1>1, <2>1, SendKeeps DEF CaptureStolen, Sends, IInv, Shapes
<1>2. CASE CancelPosts
  <2>1. [kind |-> "Cancel"] \in Messages
    BY DEF Messages
  <2>2. CASE phase \in {"published", "open"}
    BY <1>2, <2>1, <2>2, SendKeeps DEF CancelPosts, IInv, Shapes
  <2>3. CASE phase \notin {"published", "open"}
    BY <1>2, <2>3
    DEF CancelPosts, IInv, Shapes, Fresh, DragIsHeld, PressComesFirst, ReleaseIsLast, EndWaits
  <2> QED
    BY <2>2, <2>3
<1>3. CASE CancelStores \/ Publishes
  BY <1>3 DEF CancelStores, Publishes, IInv, Shapes, Fresh, DragIsHeld, PressComesFirst,
              ReleaseIsLast, EndWaits
<1> QED
  BY <1>1, <1>2, <1>3

\* An effect that is done leaves the ones after it, in their order.
LEMMA TailFacts ==
    ASSUME NEW S, NEW s \in Seq(S), s # <<>>
    PROVE  /\ Tail(s) \in Seq(S) /\ Head(s) = s[1] /\ Head(s) \in S
           /\ \A i \in DOMAIN Tail(s) : i + 1 \in DOMAIN s /\ Tail(s)[i] = s[i + 1]
           /\ \A i \in DOMAIN s : i = 1 \/ (i - 1 \in DOMAIN Tail(s) /\ Tail(s)[i - 1] = s[i])
           /\ 1 \in DOMAIN s
OBVIOUS

\* The pointer is taken for the drag that asked, and let go after it.
LEMMA EffectKeeps ==
    ASSUME IInv, CaptureRuns \/ PersistRuns
    PROVE  IInv'
<1>1. /\ phase = "open" /\ pending # <<>> /\ pending' = Tail(pending)
      /\ UNCHANGED <<model, inbox, phase, button>>
      /\ \/ Head(pending).name = "CapturePointer" /\ captured'
         \/ Head(pending).name = "ReleasePointer"
         \/ Head(pending).name = "PersistInteraction" /\ captured' = captured
  BY DEF CaptureRuns, PersistRuns
<1>2. /\ pending' \in Seq(Effects(model.tool)) /\ Head(pending) = pending[1]
      /\ 1 \in DOMAIN pending
      /\ \A i \in DOMAIN pending' : i + 1 \in DOMAIN pending /\ pending'[i] = pending[i + 1]
  BY <1>1, TailFacts DEF IInv, Shapes
<1>3. Head(pending).name = "ReleasePointer" => ~Drags(model)
  BY <1>2 DEF IInv, ReleaseIsLast
<1>4. Shapes' /\ Fresh'
  BY <1>1, <1>2 DEF IInv, Shapes, Fresh
<1>5. DragIsHeld'
  BY <1>1, <1>3 DEF IInv, DragIsHeld, EndWaits
<1>6. PressComesFirst'
  BY <1>1 DEF IInv, PressComesFirst
<1>7. ReleaseIsLast'
  BY <1>1, <1>2 DEF IInv, ReleaseIsLast
<1> QED
  BY <1>4, <1>5, <1>6, <1>7 DEF IInv

\* A slow effect answers with a transition that touches no drag.
LEMMA AnswerKeeps ==
    ASSUME IInv, Busy, NEW t, Answers(t), Good(t), t.model.tool = model.tool,
           Drags(t.model) = Drags(model),
           \A i \in DOMAIN t.effects : t.effects[i].name # "ReleasePointer"
    PROVE  IInv'
<1>1. /\ phase = "open" /\ pending # <<>> /\ model' = t.model
      /\ pending' = t.effects \o Tail(pending)
      /\ UNCHANGED <<inbox, phase, button, captured>>
      /\ Head(pending).name # "CapturePointer"
  BY DEF Busy, Answers, Slow
<1>2. /\ Tail(pending) \in Seq(Effects(model.tool))
      /\ \A i \in DOMAIN Tail(pending) : i + 1 \in DOMAIN pending
                                         /\ Tail(pending)[i] = pending[i + 1]
  BY <1>1, TailFacts DEF IInv, Shapes
<1>3. t.effects \in Seq(Effects(model.tool))
  BY DEF Good
<1>4. /\ pending' \in Seq(Effects(model.tool))
      /\ \A i \in DOMAIN pending' :
            \/ i \in DOMAIN t.effects /\ pending'[i] = t.effects[i]
            \/ i - Len(t.effects) \in DOMAIN Tail(pending)
               /\ pending'[i] = Tail(pending)[i - Len(t.effects)]
  BY <1>1, <1>2, <1>3
<1>5. Shapes' /\ Fresh'
  BY <1>1, <1>4 DEF IInv, Shapes, Fresh, Good
<1>6. DragIsHeld'
  BY <1>1 DEF IInv, DragIsHeld, EndWaits
<1>7. PressComesFirst'
  BY <1>1 DEF IInv, PressComesFirst
<1>8. ReleaseIsLast'
  BY <1>1, <1>2, <1>4 DEF IInv, ReleaseIsLast
<1> QED
  BY <1>5, <1>6, <1>7, <1>8 DEF IInv

\* The inventory of edges is all that changes when it is built.
LEMMA TargetsBuilt ==
    ASSUME NEW m \in Models
    PROVE  LET n == [m EXCEPT !.targets = TRUE] IN
           /\ n \in Models /\ n.tool = m.tool /\ n.selection = m.selection /\ n.kind = m.kind
           /\ n.resizing = m.resizing /\ n.moving = m.moving /\ n.anchor = m.anchor
           /\ n.lastRegion = m.lastRegion /\ n.toolbarDrag = m.toolbarDrag
           /\ n.guide = m.guide
BY DEF Models

\* What a slow effect answers with: the same tool, the same drag.
Answer(t) ==
    /\ Good(t) /\ t.model.tool = model.tool /\ Drags(t.model) = Drags(model)
    /\ \A i \in DOMAIN t.effects : t.effects[i].name # "ReleasePointer"

\* Windows are enumerated or rendered with the drag as it was.
LEMMA SlowAnswers ==
    ASSUME IInv, SnapTargetsBuilt \/ WindowPreviewUpdated
    PROVE  \E t : Busy /\ Answers(t) /\ Answer(t)
<1>1. CASE SnapTargetsBuilt
  <2> DEFINE now == [model EXCEPT !.targets = TRUE]
  <2>1. ModelOK(now) /\ now.tool = model.tool /\ Drags(now) = Drags(model)
    <3>1. model \in Models /\ Sound(model)
      BY DEF IInv, Shapes, ModelOK
    <3>2. /\ now \in Models /\ now.tool = model.tool /\ now.selection = model.selection
          /\ now.kind = model.kind /\ now.resizing = model.resizing
          /\ now.moving = model.moving /\ now.anchor = model.anchor
          /\ now.lastRegion = model.lastRegion /\ now.toolbarDrag = model.toolbarDrag
          /\ now.guide = model.guide
      BY <3>1, TargetsBuilt
    <3> HIDE DEF now
    <3> QED
      BY <3>1, <3>2 DEF ModelOK, Sound, region_drag_active, Drags
  <2>2. Busy /\ Answers(Stays(now))
    BY <1>1 DEF SnapTargetsBuilt
  <2> HIDE DEF now
  <2>3. Good(Stays(now)) /\ Stays(now).model = now /\ Stays(now).effects = <<>>
    BY <2>1, StaysGood DEF Stays, Becomes
  <2> QED
    BY <2>1, <2>2, <2>3 DEF Answer
<1>2. CASE WindowPreviewUpdated
  <2>1. PICK rect \in {None} \cup WindowRects, intent \in {"Capture", "Pin"} :
          Busy /\ Answers(window_preview_resolved(model, rect, intent))
    BY <1>2 DEF WindowPreviewUpdated
  <2>2. Head(pending) \in Effects(model.tool) /\ Head(pending).name = "UpdateWindowPreview"
    BY <1>2, <2>1, TailFacts DEF WindowPreviewUpdated, Busy, IInv, Shapes
  <2>3. model.tool = "Window"
    BY <2>2 DEF Effects
  <2> DEFINE t == window_preview_resolved(model, rect, intent)
  <2>4. /\ Good(t) /\ Drags(t.model) = Drags(model)
        /\ \A i \in DOMAIN t.effects : t.effects[i].name # "ReleasePointer"
    <3>1. intent \in Intents
      BY DEF Intents
    <3>2. LET e == t.effects
          IN \A i \in DOMAIN e : e[i].name \in {"PersistInteraction", "Close"}
      BY <2>3, <3>1, window_preview_resolvedGood DEF IInv, Shapes
    <3> QED
      BY <2>3, <3>1, <3>2, window_preview_resolvedGood DEF IInv, Shapes
  <2>5. t.model.tool = model.tool
    <3> DEFINE now == [model EXCEPT !.selection = rect,
                                    !.kind = IF rect = None THEN None ELSE "Window"]
    <3>1. now.tool = model.tool
      BY DEF IInv, Shapes, ModelOK, Models
    <3>2. \A i : confirm(now, i).model.tool = now.tool
      BY DEF confirm, persist_interaction, Becomes, Stays, IInv, Shapes, ModelOK, Models
    <3> QED
      BY <3>1, <3>2 DEF window_preview_resolved, confirm_or_capture, Stays, Becomes
  <2> HIDE DEF t
  <2> QED
    BY <2>1, <2>4, <2>5 DEF t, Answer
<1> QED
  BY <1>1, <1>2

\* So a slow effect keeps the invariant.
LEMMA SlowKeeps ==
    ASSUME IInv, SnapTargetsBuilt \/ WindowPreviewUpdated
    PROVE  IInv'
BY SlowAnswers, AnswerKeeps DEF Answer

\* The loop handles one message that waited.
LEMMA PumpKeeps ==
    ASSUME IInv, Pump
    PROVE  IInv'
<1> DEFINE msg == Head(inbox)
           t == transition(model, msg)
<1>1. /\ phase = "open" /\ pending = <<>> /\ inbox # <<>>
      /\ model' = t.model /\ pending' = t.effects /\ inbox' = Tail(inbox)
      /\ UNCHANGED <<phase, button, captured>>
  BY DEF Pump
<1>2. /\ inbox' \in Seq(Messages) /\ msg = inbox[1] /\ msg \in Messages /\ 1 \in DOMAIN inbox
      /\ \A i \in DOMAIN inbox' : i + 1 \in DOMAIN inbox /\ inbox'[i] = inbox[i + 1] /\ i \in 1..Len(inbox')
      /\ \A i \in DOMAIN inbox : i = 1 \/ (i - 1 \in DOMAIN inbox' /\ inbox'[i - 1] = inbox[i])
  BY <1>1, TailFacts DEF IInv, Shapes
<1>3. msg.kind = "Down" => button /\ ~Drags(model)
  BY <1>2 DEF IInv, PressComesFirst
<1>4. Answered(model, msg, t)
  BY <1>2, <1>3, transitionAnswers DEF IInv, Shapes
<1> HIDE DEF msg, t
<1>5. Shapes' /\ Fresh' /\ ReleaseIsLast'
  BY <1>1, <1>2, <1>4 DEF IInv, Shapes, Fresh, ReleaseIsLast, Answered, Good
<1>6. DragIsHeld'
  <2>1. CASE Drags(model) /\ msg.kind \notin {"Up", "CaptureLost", "Down"}
    <3>1. (button /\ captured) \/ EndWaits
      BY <1>1, <2>1 DEF IInv, DragIsHeld
    <3>2. EndWaits => EndWaits'
      BY <1>2, <2>1 DEF EndWaits
    <3> QED
      BY <1>1, <3>1, <3>2 DEF DragIsHeld
  <2>2. CASE msg.kind = "Down" /\ t.effects # <<>> /\ Head(t.effects).name = "CapturePointer"
    BY <1>1, <1>3, <2>2 DEF DragIsHeld
  <2> QED
    BY <1>1, <1>4, <2>1, <2>2 DEF Answered, DragIsHeld
<1>7. PressComesFirst'
  <2> SUFFICES ASSUME NEW i \in DOMAIN inbox' PROVE inbox'[i].kind # "Down"
    BY DEF PressComesFirst
  <2>1. i + 1 # 1 /\ i + 1 \in DOMAIN inbox /\ inbox'[i] = inbox[i + 1]
    BY <1>2
  <2> QED
    BY <2>1 DEF IInv, PressComesFirst
<1> QED
  BY <1>5, <1>6, <1>7 DEF IInv

\* A run that closes holds nothing.
LEMMA ClosesKeeps ==
    ASSUME IInv, NEW how, Closes(how), UNCHANGED <<model, button>>
    PROVE  IInv'
BY DEF Closes, IInv, Shapes, Fresh, DragIsHeld, PressComesFirst, ReleaseIsLast

\* A run opens with no drag on.
LEMMA OpenKeeps ==
    ASSUME IInv, Starts \/ Opens \/ CloseRuns
    PROVE  IInv'
<1>1. CASE Starts
  BY <1>1 DEF Starts, IInv, Shapes, Fresh, DragIsHeld, PressComesFirst, ReleaseIsLast, EndWaits
<1>2. CASE Opens
  <2>1. CASE cancel # "idle" /\ Closes(NoClose)
    BY <1>2, <2>1, ClosesKeeps DEF Opens
  <2>2. CASE cancel = "idle" /\ phase' = "open" /\ UNCHANGED <<pending, inbox, captured, outcome>>
    BY <1>2, <2>2
    DEF Opens, IInv, Shapes, Fresh, DragIsHeld, PressComesFirst, ReleaseIsLast, EndWaits
  <2> QED
    BY <1>2, <2>1, <2>2 DEF Opens
<1>3. CASE CloseRuns
  BY <1>3, ClosesKeeps DEF CloseRuns
<1> QED
  BY <1>1, <1>2, <1>3

\* Every step keeps the invariant.
LEMMA NextKeeps ==
    ASSUME IInv, [Next]_vars
    PROVE  IInv'
<1>1. CASE UNCHANGED vars
  BY <1>1 DEF vars, IInv, Shapes, Fresh, DragIsHeld, PressComesFirst, ReleaseIsLast, EndWaits
<1>2. CASE Next
  BY <1>2, PersonKeeps, ReleaseKeeps, OthersKeep, EffectKeeps, SlowKeeps, PumpKeeps, OpenKeeps
  DEF Next, RunSteps
<1> QED
  BY <1>1, <1>2

\* The request to cancel waits in the inbox, or has become the close to come.
Requested ==
    \/ \E i \in DOMAIN inbox : inbox[i].kind = "Cancel"
    \/ \E i \in DOMAIN pending : pending[i].name = "Close"

\* A message that joins the inbox overtakes nothing there.
LEMMA MoreKeepRequest ==
    ASSUME IInv, UNCHANGED pending, NEW msg,
           inbox' = Append(inbox, msg) \/ inbox' = inbox
    PROVE  /\ Requested => Requested'
           /\ inbox' = Append(inbox, msg) /\ msg.kind = "Cancel" => Requested'
<1>1. CASE inbox' = Append(inbox, msg)
  <2>1. /\ \A i \in DOMAIN inbox : i \in DOMAIN inbox' /\ inbox'[i] = inbox[i]
        /\ Len(inbox) + 1 \in DOMAIN inbox' /\ inbox'[Len(inbox) + 1] = msg
    <3> DEFINE S == Messages \cup {msg}
    <3>1. inbox \in Seq(S) /\ msg \in S
      BY DEF IInv, Shapes
    <3> HIDE DEF S
    <3> QED
      BY <1>1, <3>1
  <2> QED
    BY <2>1 DEF Requested
<1>2. CASE inbox' = inbox
  BY <1>2 DEF Requested
<1> QED
  BY <1>1, <1>2

\* An effect other than the close leaves the close where it waits.
LEMMA EffectKeepsRequest ==
    ASSUME IInv, UNCHANGED inbox, pending # <<>>, Head(pending).name # "Close",
           NEW more \in Seq(Effects(model'.tool)), pending' = more \o Tail(pending),
           model'.tool = model.tool
    PROVE  Requested => Requested'
<1> DEFINE S == Effects(model.tool)
<1>1. pending \in Seq(S) /\ more \in Seq(S)
  BY DEF IInv, Shapes
<1> HIDE DEF S
<1>2. /\ Tail(pending) \in Seq(S) /\ Head(pending) = pending[1]
      /\ \A i \in DOMAIN pending :
            i = 1 \/ (i - 1 \in DOMAIN Tail(pending) /\ Tail(pending)[i - 1] = pending[i])
  BY <1>1, TailFacts
<1>3. \A j \in DOMAIN Tail(pending) : /\ Len(more) + j \in DOMAIN pending'
                                      /\ pending'[Len(more) + j] = Tail(pending)[j]
  BY <1>1, <1>2
<1>4. ASSUME NEW i \in DOMAIN pending, pending[i].name = "Close" PROVE Requested'
  <2>1. i # 1
    BY <1>2, <1>4
  <2>2. i - 1 \in DOMAIN Tail(pending) /\ Tail(pending)[i - 1] = pending[i]
    BY <1>2, <2>1
  <2> QED
    BY <1>3, <1>4, <2>2 DEF Requested
<1> QED
  BY <1>4 DEF Requested

\* The loop turns a waiting cancel into a close.
LEMMA PumpKeepsRequest ==
    ASSUME IInv, Pump
    PROVE  Requested => Requested'
<1> DEFINE msg == Head(inbox)
           t == transition(model, msg)
<1>1. /\ pending = <<>> /\ inbox # <<>> /\ model' = t.model /\ pending' = t.effects
      /\ inbox' = Tail(inbox)
  BY DEF Pump
<1>2. /\ msg = inbox[1] /\ msg \in Messages /\ 1 \in DOMAIN inbox
      /\ \A i \in DOMAIN inbox : i = 1 \/ (i - 1 \in DOMAIN inbox' /\ inbox'[i - 1] = inbox[i])
  BY <1>1, TailFacts DEF IInv, Shapes
<1>3. msg.kind = "Down" => ~Drags(model)
  BY <1>2 DEF IInv, PressComesFirst
<1>4. msg.kind = "Cancel" => Requested'
  BY <1>1, <1>2, <1>3, transitionAnswers DEF IInv, Shapes, Answered, Requested
<1> HIDE DEF msg, t
<1>5. ASSUME NEW i \in DOMAIN inbox, inbox[i].kind = "Cancel" PROVE Requested'
  <2>1. CASE i = 1
    BY <1>2, <1>4, <1>5, <2>1
  <2>2. CASE i # 1
    BY <1>2, <1>5, <2>2 DEF Requested
  <2> QED
    BY <2>1, <2>2
<1>6. \A i \in DOMAIN pending : FALSE
  BY <1>1
<1> QED
  BY <1>5, <1>6 DEF Requested

\* The person and the displays send; the cancelling thread sends what it must.
LEMMA SendersKeepRequest ==
    ASSUME IInv, Requested,
           \/ PersonPresses \/ PersonPressesToolbar \/ PersonDoubleClicks \/ PersonMoves
           \/ PersonReleases \/ PersonTypes \/ CaptureStolen \/ DisplayChanges
    PROVE  Requested'
<1>1. UNCHANGED pending /\ \E msg : inbox' = Append(inbox, msg) \/ inbox' = inbox
  BY DEF PersonPresses, PersonPressesToolbar, PersonDoubleClicks, PersonMoves, PersonReleases,
         PersonTypes, CaptureStolen, DisplayChanges, Sends
<1> QED
  BY <1>1, MoreKeepRequest

\* A cancel made while the window is published or shown is in its inbox, one
\* made before is read by Starts or Opens, and nothing drops it but the close.
LEMMA CancelKeeps ==
    ASSUME IInv, CancelIsNotMissed, [Next]_vars
    PROVE  CancelIsNotMissed'
<1>1. CancelIsNotMissed = (cancel = "done" /\ phase = "open" => Requested)
  BY DEF CancelIsNotMissed, Requested
<1>2. CancelIsNotMissed' = (cancel' = "done" /\ phase' = "open" => Requested')
  BY DEF CancelIsNotMissed, Requested
<1>3. CASE UNCHANGED vars
  BY <1>1, <1>2, <1>3 DEF vars, Requested
<1>4. CASE \/ PersonPresses \/ PersonPressesToolbar \/ PersonDoubleClicks \/ PersonMoves
           \/ PersonReleases \/ PersonTypes \/ CaptureStolen \/ DisplayChanges
  <2>1. UNCHANGED <<phase, cancel>>
    BY <1>4 DEF PersonPresses, PersonPressesToolbar, PersonDoubleClicks, PersonMoves,
                PersonReleases, PersonTypes, CaptureStolen, DisplayChanges
  <2> QED
    BY <1>1, <1>2, <1>4, <2>1, SendersKeepRequest
<1>5. CASE CancelStores \/ CancelPosts
  <2>1. CASE CancelStores
    BY <1>2, <2>1 DEF CancelStores
  <2>2. CASE CancelPosts
    <3> DEFINE msg == [kind |-> "Cancel"]
    <3>1. phase' = phase /\ UNCHANGED pending /\ msg.kind = "Cancel"
      BY <2>2 DEF CancelPosts
    <3>2. CASE phase \in {"published", "open"}
      <4>1. inbox' = Append(inbox, msg)
        BY <2>2, <3>2 DEF CancelPosts
      <4> HIDE DEF msg
      <4> QED
        BY <1>2, <3>1, <4>1, MoreKeepRequest
    <3>3. CASE phase \notin {"published", "open"}
      BY <1>2, <3>1, <3>3
    <3> QED
      BY <3>2, <3>3
  <2> QED
    BY <1>5, <2>1, <2>2
<1>6. CASE Starts \/ Publishes \/ Opens \/ CloseRuns
  BY <1>2, <1>6 DEF Starts, Publishes, Opens, CloseRuns, Closes
<1>7. CASE CaptureRuns \/ PersistRuns
  <2>1. /\ pending # <<>> /\ Head(pending).name # "Close" /\ pending' = Tail(pending)
        /\ UNCHANGED <<model, inbox, phase, cancel>>
    BY <1>7 DEF CaptureRuns, PersistRuns
  <2>2. /\ Tail(pending) \in Seq(Effects(model.tool)) /\ <<>> \in Seq(Effects(model'.tool))
        /\ Tail(pending) = <<>> \o Tail(pending)
    BY <2>1, TailFacts DEF IInv, Shapes
  <2> QED
    BY <1>1, <1>2, <2>1, <2>2, EffectKeepsRequest
<1>8. CASE SnapTargetsBuilt \/ WindowPreviewUpdated
  <2>1. PICK t : Busy /\ Answers(t) /\ Answer(t)
    BY <1>8, SlowAnswers
  <2>2. /\ pending # <<>> /\ Head(pending).name # "Close" /\ UNCHANGED <<inbox, phase, cancel>>
        /\ pending' = t.effects \o Tail(pending) /\ model' = t.model
    BY <2>1 DEF Busy, Slow, Answers
  <2>3. t.effects \in Seq(Effects(model'.tool)) /\ model'.tool = model.tool
    BY <2>1, <2>2 DEF Answer, Good
  <2> QED
    BY <1>1, <1>2, <2>2, <2>3, EffectKeepsRequest
<1>9. CASE Pump
  <2>1. UNCHANGED <<phase, cancel>>
    BY <1>9 DEF Pump
  <2> QED
    BY <1>1, <1>2, <1>9, <2>1, PumpKeepsRequest
<1> QED
  BY <1>3, <1>4, <1>5, <1>6, <1>7, <1>8, <1>9 DEF Next, RunSteps

\* Every state of a run is one the invariant allows.
THEOREM Inductive == Spec => []IInv
<1> QED
  BY InitHolds, NextKeeps, PTL DEF Spec

\* A selection, the region a drag started from and the region remembered have
\* pixels and lie on the display, whatever the drags, snaps and nudges did.
THEOREM StaysInside == Spec => []RegionStaysInside
<1>1. IInv => RegionStaysInside
  BY DEF IInv, Shapes, ModelOK, Sound, RegionStaysInside
<1> QED
  BY <1>1, Inductive, PTL

\* A guide line is drawn only along an edge of the selection.
THEOREM GuideStaysTrue == Spec => []GuideIsTrue
<1>1. IInv => GuideIsTrue
  BY DEF IInv, Shapes, ModelOK, Sound, GuideIsTrue
<1> QED
  BY <1>1, Inductive, PTL

\* No drag goes on with the button up, wherever it came up and whatever was
\* being enumerated at the time.
THEOREM NoDragOutlivesButton == Spec => []NoStuckDrag
<1>1. IInv => NoStuckDrag
  BY IdleIsFree DEF NoStuckDrag, Drags
<1> QED
  BY <1>1, Inductive, PTL

\* A request to cancel is never missed: a run that shows its window after the
\* other thread has done its part has it before it, or is closing.
THEOREM CancelIsHeard == Spec => []CancelIsNotMissed
<1>1. Init => CancelIsNotMissed
  BY DEF Init, CancelIsNotMissed
<1>2. IInv /\ CancelIsNotMissed /\ [Next]_vars => CancelIsNotMissed'
  BY CancelKeeps
<1> QED
  BY <1>1, <1>2, Inductive, PTL DEF Spec

-----------------------------------------------------------------------------
(* What a release commits.  Between the last move and the release the      *)
(* model may change, but not in what the release would make of it.         *)

\* The selection a release at `up` leaves.
Committed(m, up) ==
    IF m.toolbarDrag \/ m.tool # "Region" THEN m.selection
    ELSE IF m.resizing # None THEN Resized(m, up.p, up.ctrl).span
    ELSE IF m.moving # None THEN Moved(m, up.p, up.ctrl).span
    ELSE IF m.anchor # None /\ m.dragging THEN Band(m, up.p, up.ctrl, up.across).span
    ELSE m.selection

\* A release at `up` would leave the selection as it is.
Agrees(m, up) == Committed(m, up) = m.selection

\* pointer_up commits just that.
LEMMA ReleaseCommits ==
    ASSUME NEW m \in Models, NEW up
    PROVE  pointer_up(m, up).model.selection = Committed(m, up)
<1> DEFINE free == [WithoutDrag(m) EXCEPT !.guide = None]
           Commits(r) == [free EXCEPT !.selection = r.span, !.kind = "Region", !.window = None]
<1>1. /\ free.selection = m.selection /\ [m EXCEPT !.toolbarDrag = FALSE].selection = m.selection
      /\ \A r : Commits(r).selection = r.span
  BY DEF WithoutDrag, Models
<1>2. pointer_up(m, up).model =
        CASE m.toolbarDrag -> [m EXCEPT !.toolbarDrag = FALSE]
          [] ~m.toolbarDrag /\ m.tool # "Region" -> m
          [] ~m.toolbarDrag /\ m.tool = "Region" /\ m.resizing # None ->
               Commits(Resized(m, up.p, up.ctrl))
          [] ~m.toolbarDrag /\ m.tool = "Region" /\ m.resizing = None
             /\ m.moving # None -> Commits(Moved(m, up.p, up.ctrl))
          [] ~m.toolbarDrag /\ m.tool = "Region" /\ m.resizing = None
             /\ m.moving = None /\ m.anchor # None /\ m.dragging ->
               Commits(Band(m, up.p, up.ctrl, up.across))
          [] OTHER -> free
  BY DEF pointer_up, Becomes
<1> HIDE DEF free, Commits
<1> QED
  BY <1>1, <1>2 DEF Committed

\* With no drag of the region on, a release commits nothing.
LEMMA FreeAgrees ==
    ASSUME NEW m, ~region_drag_active(m), NEW up
    PROVE  Agrees(m, up)
BY DEF Agrees, Committed, region_drag_active

\* What a release commits depends on the drag, the tool and the targets.
LEMMA SameDragAgrees ==
    ASSUME NEW m, NEW n, NEW up, Agrees(m, up),
           n.toolbarDrag = m.toolbarDrag, n.tool = m.tool, n.selection = m.selection,
           n.resizing = m.resizing, n.moving = m.moving, n.anchor = m.anchor,
           n.dragging = m.dragging, n.snapOn = m.snapOn, n.targets = m.targets
    PROVE  Agrees(n, up)
<1>1. active_targets(n, up.ctrl) = active_targets(m, up.ctrl)
  BY DEF active_targets
<1>2. /\ Resized(n, up.p, up.ctrl) = Resized(m, up.p, up.ctrl)
      /\ Moved(n, up.p, up.ctrl) = Moved(m, up.p, up.ctrl)
      /\ Band(n, up.p, up.ctrl, up.across) = Band(m, up.p, up.ctrl, up.across)
  BY <1>1 DEF Resized, Moved, Band
<1> QED
  BY <1>2 DEF Agrees, Committed

\* Where the hand was last, with the keys it held, and a release there.
Moves == [kind : {"Moved"}, p : Points, ctrl : BOOLEAN, across : {"flat", "thin", "far"}]
ReleaseAt(move) == [kind |-> "Up", p |-> move.p, ctrl |-> move.ctrl, across |-> move.across]

\* A move shows what a release there commits.
LEMMA MoveAgrees ==
    ASSUME NEW m, ModelOK(m), NEW move
    PROVE  Agrees(pointer_moved(m, move).model, ReleaseAt(move))
<1> DEFINE up == ReleaseAt(move)
<1>0. up.p = move.p /\ up.ctrl = move.ctrl /\ up.across = move.across
  BY DEF ReleaseAt
<1> HIDE DEF up
<1> USE DEF ModelOK
<1>1. CASE m.toolbarDrag
  BY <1>1 DEF pointer_moved, Stays, Becomes, Agrees, Committed
<1>2. CASE ~m.toolbarDrag /\ m.resizing # None
  <2> DEFINE r == Resized(m, move.p, move.ctrl)
             n == [m EXCEPT !.selection = r.span, !.guide = r.guide]
  <2>1. pointer_moved(m, move).model = n
    BY <1>2 DEF pointer_moved, Stays, Becomes
  <2>2. /\ n.selection = r.span /\ n.resizing = m.resizing /\ n.snapOn = m.snapOn
        /\ n.targets = m.targets
    BY DEF Models
  <2> HIDE DEF n
  <2>3. Resized(n, up.p, up.ctrl) = r
    BY <1>0, <2>2 DEF Resized, active_targets
  <2> QED
    BY <1>2, <2>1, <2>2, <2>3 DEF Agrees, Committed, up
<1>3. CASE ~m.toolbarDrag /\ m.resizing = None /\ m.moving # None
  <2> DEFINE r == Moved(m, move.p, move.ctrl)
             n == [m EXCEPT !.selection = r.span, !.guide = r.guide]
  <2>1. pointer_moved(m, move).model = n
    BY <1>3 DEF pointer_moved, Stays, Becomes
  <2>2. /\ n.selection = r.span /\ n.resizing = m.resizing /\ n.moving = m.moving
        /\ n.snapOn = m.snapOn /\ n.targets = m.targets
    BY DEF Models
  <2> HIDE DEF n
  <2>3. Moved(n, up.p, up.ctrl) = r
    BY <1>0, <2>2 DEF Moved, active_targets
  <2> QED
    BY <1>3, <2>1, <2>2, <2>3 DEF Agrees, Committed, up
<1>4. CASE ~m.toolbarDrag /\ m.resizing = None /\ m.moving = None /\ m.anchor # None
  <2> DEFINE l == Latched(m, move)
             r == Band(l, move.p, move.ctrl, move.across)
             n == [l EXCEPT !.selection = r.span, !.guide = r.guide,
                            !.kind = "Region", !.window = None]
  <2>1. pointer_moved(m, move).model = IF l.dragging THEN n ELSE l
    BY <1>4 DEF pointer_moved, Stays, Becomes
  <2>2. l \in Models /\ l.resizing = None /\ l.moving = None
    BY <1>4, LatchedKeeps
  <2> HIDE DEF l
  <2>3. /\ n.selection = r.span /\ n.resizing = None /\ n.moving = None /\ n.anchor = l.anchor
        /\ n.snapOn = l.snapOn /\ n.targets = l.targets
    BY <2>2 DEF Models
  <2> HIDE DEF n
  <2>4. Band(n, up.p, up.ctrl, up.across) = r
    BY <1>0, <2>3 DEF Band, active_targets
  <2>5. CASE l.dragging
    BY <2>1, <2>3, <2>4, <2>5 DEF Agrees, Committed, up
  <2>6. CASE ~l.dragging
    BY <2>1, <2>2, <2>6 DEF Agrees, Committed
  <2> QED
    BY <2>5, <2>6
<1>5. CASE ~m.toolbarDrag /\ m.resizing = None /\ m.moving = None /\ m.anchor = None
  BY <1>5 DEF pointer_moved, Stays, Becomes, Agrees, Committed
<1> QED
  BY <1>1, <1>2, <1>3, <1>4, <1>5

\* What may come between the last move and the release.
Quiet == {"Nudge", "Enter", "Cancel", "CaptureLost", "DisplayChanged"}

\* A key, a lost capture or a change of displays leaves what a release would
\* commit, or ends the drag; and it asks for nothing slow.
LEMMA QuietAgrees ==
    ASSUME NEW m, ModelOK(m), NEW msg \in Messages, msg.kind \in Quiet, NEW up
    PROVE  LET t == transition(m, msg) IN
           /\ Agrees(m, up) => Agrees(t.model, up)
           /\ \A i \in DOMAIN t.effects : t.effects[i].name \notin Slow
<1> DEFINE kept == [m EXCEPT !.lastRegion = latest_interaction_region(m)]
<1>1. Agrees(m, up) => Agrees(kept, up)
  <2>1. /\ kept.toolbarDrag = m.toolbarDrag /\ kept.tool = m.tool
        /\ kept.selection = m.selection /\ kept.resizing = m.resizing
        /\ kept.moving = m.moving /\ kept.anchor = m.anchor /\ kept.dragging = m.dragging
        /\ kept.snapOn = m.snapOn /\ kept.targets = m.targets
    BY DEF ModelOK, Models
  <2> HIDE DEF kept
  <2> QED
    BY <2>1, SameDragAgrees
<1>2. \A t : Settles(m, t) => \A i \in DOMAIN t.effects : t.effects[i].name \notin Slow
  BY DEF Settles, Slow
<1>3. CASE msg.kind = "Nudge"
  <2> DEFINE t == nudge(m, msg)
  <2>1. transition(m, msg) = t
    BY <1>3 DEF transition
  <2>2. msg.by \in Int
    BY <1>3 DEF Messages
  <2>3. t.effects = <<>>
    BY <2>2, nudgeGood
  <2>4. t.model = m \/ ~region_drag_active(t.model)
    BY DEF nudge, Stays, Becomes, region_drag_active, ModelOK, Models
  <2> HIDE DEF t
  <2> QED
    BY <2>1, <2>3, <2>4, FreeAgrees
<1>4. CASE msg.kind = "Enter"
  <2> DEFINE t == confirm(m, msg.intent)
  <2>1. transition(m, msg) = t
    BY <1>4 DEF transition
  <2>2. msg.intent \in Intents
    BY <1>4 DEF Messages
  <2>3. Settles(m, t)
    BY <2>2, confirmSettles
  <2>4. t.model \in {m, kept}
    BY DEF confirm, persist_interaction, Stays, Becomes
  <2> HIDE DEF t, kept
  <2> QED
    BY <1>1, <1>2, <2>1, <2>3, <2>4
<1>5. CASE msg.kind = "Cancel"
  <2> DEFINE t == CancelRun(m)
  <2>1. transition(m, msg) = t
    BY <1>5 DEF transition
  <2>2. Settles(m, t)
    BY CancelSettles
  <2>3. t.model = kept
    BY DEF CancelRun, persist_interaction, Becomes
  <2> HIDE DEF t, kept
  <2> QED
    BY <1>1, <1>2, <2>1, <2>2, <2>3
<1>6. CASE msg.kind = "CaptureLost"
  <2> DEFINE t == pointer_capture_lost(m)
  <2>1. transition(m, msg) = t
    BY <1>6 DEF transition
  <2>2. ~region_drag_active(t.model) /\ t.effects = <<>>
    BY pointer_capture_lostGood DEF Drags
  <2> HIDE DEF t
  <2> QED
    BY <2>1, <2>2, FreeAgrees
<1>7. CASE msg.kind = "DisplayChanged"
  <2> DEFINE close == Closing("Invalidated", m, None)
             t == Becomes(m, <<close>>)
  <2>1. transition(m, msg) = t
    BY <1>7 DEF transition
  <2>2. t.model = m /\ t.effects = <<close>> /\ close.name = "Close"
    BY DEF Becomes, Closing, Effect
  <2> HIDE DEF t, close
  <2> QED
    BY <2>1, <2>2 DEF Slow
<1> QED
  BY <1>3, <1>4, <1>5, <1>6, <1>7 DEF Quiet

\* The hand is still, has moved or has let go there, and is still before the
\* window is shown.
HandIsKnown ==
    /\ hand \in {Still, LetGo} \cup Moves
    /\ phase \in {"starting", "made", "published"} => hand = Still

\* The last move is the first thing that waits, or the model agrees with it.
AfterMove ==
    hand.kind = "Moved" =>
        /\ button
        /\ \A i \in DOMAIN inbox :
              inbox[i].kind \in Quiet \/ (i = 1 /\ inbox[1] = hand /\ pending = <<>>)
        /\ \A i \in DOMAIN pending : pending[i].name \notin Slow
        /\ (inbox # <<>> /\ inbox[1] = hand) \/ Agrees(model, ReleaseAt(hand))

\* A release where the last move was is the first thing that waits, and the
\* model agrees with it.
AfterRelease ==
    hand = LetGo =>
        /\ ~button
        /\ \A i \in DOMAIN inbox :
              inbox[i].kind = "Up" => i = 1 /\ pending = <<>> /\ Agrees(model, inbox[1])

HandFollows == HandIsKnown /\ AfterMove /\ AfterRelease

\* A quiet message joins what waits.
LEMMA QuietSendKeeps ==
    ASSUME IInv, HandFollows, NEW msg \in Messages, msg.kind \in Quiet,
           inbox' = Append(inbox, msg), UNCHANGED <<model, pending, phase, button, hand>>
    PROVE  HandFollows'
<1>1. /\ Len(inbox) \in Nat /\ inbox \in Seq(Messages)
      /\ \A i \in DOMAIN inbox' : \/ i \in DOMAIN inbox /\ inbox'[i] = inbox[i]
                                  \/ i = Len(inbox) + 1 /\ inbox'[i] = msg
      /\ inbox # <<>> => inbox' # <<>> /\ inbox'[1] = inbox[1]
  BY DEF IInv, Shapes
<1>2. HandIsKnown'
  BY DEF HandFollows, HandIsKnown
<1>3. AfterMove'
  BY <1>1 DEF HandFollows, AfterMove
<1>4. AfterRelease'
  BY <1>1 DEF HandFollows, AfterRelease, Quiet
<1> QED
  BY <1>2, <1>3, <1>4 DEF HandFollows

\* So does every step of the person, the displays and the cancelling thread.
LEMMA SendersFollow ==
    ASSUME IInv, HandFollows,
           \/ PersonTypes \/ CaptureStolen \/ DisplayChanges \/ CancelPosts \/ CancelStores
    PROVE  HandFollows'
<1>1. CASE PersonTypes \/ CaptureStolen \/ DisplayChanges
           \/ (CancelPosts /\ phase \in {"published", "open"})
  <2>1. PICK msg \in Messages : inbox' = Append(inbox, msg) /\ msg.kind \in Quiet
    <3>1. \A intent \in {"Capture", "Pin", "Edit"} : [kind |-> "Enter", intent |-> intent] \in Messages
      BY DEF Messages, Intents
    <3>2. \A by \in {-1, 1}, resize \in BOOLEAN :
             [kind |-> "Nudge", by |-> by, resize |-> resize] \in Messages
      BY DEF Messages
    <3>3. /\ [kind |-> "Cancel"] \in Messages /\ [kind |-> "DisplayChanged"] \in Messages
          /\ [kind |-> "CaptureLost"] \in Messages
      BY DEF Messages
    <3>4. CASE PersonTypes
      BY <3>1, <3>2, <3>3, <3>4 DEF PersonTypes, Sends, Quiet
    <3>5. CASE CaptureStolen
      BY <3>3, <3>5 DEF CaptureStolen, Sends, Quiet
    <3>6. CASE DisplayChanges
      BY <3>3, <3>6 DEF DisplayChanges, Sends, Quiet
    <3>7. CASE CancelPosts /\ phase \in {"published", "open"}
      BY <3>3, <3>7 DEF CancelPosts, Quiet
    <3> QED
      BY <1>1, <3>4, <3>5, <3>6, <3>7
  <2>2. UNCHANGED <<model, pending, phase, button, hand>>
    BY <1>1 DEF PersonTypes, CaptureStolen, DisplayChanges, CancelPosts
  <2> QED
    BY <2>1, <2>2, QuietSendKeeps
<1>2. CASE CancelStores \/ (CancelPosts /\ phase \notin {"published", "open"})
  <2>1. UNCHANGED <<model, pending, inbox, phase, button, hand>>
    BY <1>2 DEF CancelStores, CancelPosts
  <2> QED
    BY <2>1 DEF HandFollows, HandIsKnown, AfterMove, AfterRelease
<1> QED
  BY <1>1, <1>2

\* A press begins with the hand still; a move is sent; a release agrees with
\* the move it ends, since nothing slow runs after that one.
LEMMA HandKeeps ==
    ASSUME IInv, HandFollows,
           \/ PersonPresses \/ PersonPressesToolbar \/ PersonDoubleClicks
           \/ PersonMoves \/ PersonReleases
    PROVE  HandFollows'
<1>0. phase = "open" /\ phase' = phase
  BY DEF PersonPresses, PersonPressesToolbar, PersonDoubleClicks, PersonMoves,
         PersonReleases, Idle, Busy
<1>1. CASE hand' = Still
  BY <1>0, <1>1 DEF HandFollows, HandIsKnown, AfterMove, AfterRelease, Still, LetGo
<1>2. CASE PersonMoves
  <2>1. /\ hand' \in Moves /\ inbox' = <<hand'>> /\ pending' = <<>> /\ button'
    BY <1>2 DEF PersonMoves, Moves, Sends, Idle
  <2>2. hand'.kind = "Moved" /\ hand' # LetGo
    BY <2>1 DEF Moves, LetGo
  <2>3. HandIsKnown'
    BY <1>0, <2>1 DEF HandIsKnown
  <2>4. AfterMove'
    BY <2>1 DEF AfterMove
  <2>5. AfterRelease'
    BY <2>2 DEF AfterRelease
  <2> QED
    BY <2>3, <2>4, <2>5 DEF HandFollows
<1>3. CASE PersonReleases /\ hand' # Still
  <2>1. PICK p \in Points, ctrl \in BOOLEAN, across \in {"flat", "thin", "far"} :
          LET up == [kind |-> "Up", p |-> p, ctrl |-> ctrl, across |-> across] IN
          /\ hand' = IF hand = [up EXCEPT !.kind = "Moved"] THEN LetGo ELSE Still
          /\ IF captured \/ Over(p) THEN Sends(up) ELSE UNCHANGED inbox
    BY <1>3 DEF PersonReleases
  <2> DEFINE up == [kind |-> "Up", p |-> p, ctrl |-> ctrl, across |-> across]
  <2>2. hand = [kind |-> "Moved", p |-> p, ctrl |-> ctrl, across |-> across]
    BY <1>3, <2>1
  <2>3. hand.kind = "Moved" /\ ReleaseAt(hand) = up
    BY <2>2 DEF ReleaseAt
  <2>4. hand' = LetGo
    BY <1>3, <2>1
  <2>5. ~Busy
    <3>1. pending # <<>> => Head(pending) = pending[1] /\ 1 \in DOMAIN pending
      BY DEF IInv, Shapes
    <3> QED
      BY <2>3, <3>1 DEF Busy, HandFollows, AfterMove
  <2>6. inbox = <<>> /\ pending = <<>> /\ UNCHANGED <<model, pending>> /\ button' = FALSE
    BY <1>3, <2>5 DEF PersonReleases, Idle
  <2>7. Agrees(model, up)
    BY <2>3, <2>6 DEF HandFollows, AfterMove
  <2>8. inbox' = <<up>> \/ inbox' = <<>>
    BY <2>1, <2>6 DEF Sends
  <2> HIDE DEF up
  <2>9. AfterRelease'
    BY <2>6, <2>7, <2>8 DEF AfterRelease
  <2>10. HandIsKnown' /\ AfterMove'
    BY <1>0, <2>4 DEF HandIsKnown, AfterMove, LetGo
  <2> QED
    BY <2>9, <2>10 DEF HandFollows
<1>4. CASE PersonPresses \/ PersonPressesToolbar \/ PersonDoubleClicks
  BY <1>1, <1>4 DEF PersonPresses, PersonPressesToolbar, PersonDoubleClicks
<1> QED
  BY <1>1, <1>2, <1>3, <1>4

\* An effect that runs leaves the move agreed with, and no slow one comes
\* between it and the release.
LEMMA EffectFollows ==
    ASSUME IInv, HandFollows,
           CaptureRuns \/ PersistRuns \/ SnapTargetsBuilt \/ WindowPreviewUpdated
    PROVE  HandFollows'
<1>1. /\ pending # <<>> /\ Head(pending) = pending[1] /\ 1 \in DOMAIN pending
      /\ \A i \in DOMAIN Tail(pending) : /\ i + 1 \in DOMAIN pending
                                         /\ Tail(pending)[i] = pending[i + 1]
      /\ UNCHANGED <<inbox, phase, button, hand>>
  <2>1. pending # <<>> /\ UNCHANGED <<inbox, phase, button, hand>>
    BY DEF CaptureRuns, PersistRuns, SnapTargetsBuilt, WindowPreviewUpdated, Busy, Answers
  <2> QED
    BY <2>1, TailFacts DEF IInv, Shapes
<1>2. HandIsKnown'
  BY <1>1 DEF HandFollows, HandIsKnown
<1>3. AfterMove'
  <2>1. CASE CaptureRuns \/ PersistRuns
    <3>1. pending' = Tail(pending) /\ model' = model
      BY <2>1 DEF CaptureRuns, PersistRuns
    <3> QED
      BY <1>1, <3>1 DEF HandFollows, AfterMove
  <2>2. CASE SnapTargetsBuilt \/ WindowPreviewUpdated
    <3>1. Head(pending).name \in Slow
      BY <2>2 DEF SnapTargetsBuilt, WindowPreviewUpdated, Busy
    <3> QED
      BY <1>1, <3>1 DEF HandFollows, AfterMove
  <2> QED
    BY <2>1, <2>2
<1>4. AfterRelease'
  BY <1>1 DEF HandFollows, AfterRelease
<1> QED
  BY <1>2, <1>3, <1>4 DEF HandFollows

\* The loop shows the move that waits, or handles what a release agrees with.
LEMMA PumpFollows ==
    ASSUME IInv, HandFollows, Pump
    PROVE  HandFollows'
<1> DEFINE msg == Head(inbox)
           t == transition(model, msg)
<1>1. /\ phase = "open" /\ pending = <<>> /\ inbox # <<>>
      /\ model' = t.model /\ pending' = t.effects /\ inbox' = Tail(inbox)
      /\ UNCHANGED <<phase, button, hand>>
  BY DEF Pump
<1>2. /\ msg = inbox[1] /\ msg \in Messages /\ 1 \in DOMAIN inbox
      /\ \A i \in DOMAIN inbox' : i + 1 # 1 /\ i + 1 \in DOMAIN inbox
                                  /\ inbox'[i] = inbox[i + 1]
  BY <1>1, TailFacts DEF IInv, Shapes
<1>3. ModelOK(model)
  BY DEF IInv, Shapes
<1>4. /\ msg.kind = "Moved" => t = pointer_moved(model, msg)
      /\ pointer_moved(model, msg).effects = <<>>
  BY DEF transition, pointer_moved, Stays, Becomes
<1>5. HandIsKnown'
  BY <1>1 DEF HandFollows, HandIsKnown
<1>6. AfterMove'
  <2> SUFFICES ASSUME hand.kind = "Moved"
               PROVE  /\ button
                      /\ \A i \in DOMAIN inbox' : inbox'[i].kind \in Quiet
                      /\ \A i \in DOMAIN t.effects : t.effects[i].name \notin Slow
                      /\ Agrees(t.model, ReleaseAt(hand))
    BY <1>1 DEF AfterMove
  <2>1. button /\ \A i \in DOMAIN inbox' : inbox'[i].kind \in Quiet
    BY <1>2 DEF HandFollows, AfterMove
  <2>2. CASE msg = hand
    <3>1. Agrees(pointer_moved(model, hand).model, ReleaseAt(hand))
      BY <1>3, MoveAgrees
    <3> QED
      BY <1>4, <2>1, <2>2, <3>1
  <2>3. CASE msg # hand
    <3>1. msg.kind \in Quiet /\ Agrees(model, ReleaseAt(hand))
      BY <1>2, <2>3 DEF HandFollows, AfterMove
    <3> HIDE DEF msg
    <3> QED
      BY <1>2, <1>3, <2>1, <3>1, QuietAgrees
  <2> QED
    BY <2>2, <2>3
<1>7. AfterRelease'
  BY <1>1, <1>2 DEF HandFollows, AfterRelease
<1> QED
  BY <1>5, <1>6, <1>7 DEF HandFollows

\* A run that opens has a still hand; one that closes drops what waited.
LEMMA RunFollows ==
    ASSUME IInv, HandFollows, Starts \/ Publishes \/ Opens \/ CloseRuns
    PROVE  HandFollows'
<1>1. CASE hand = Still
  <2>1. hand' = Still
    BY <1>1 DEF Starts, Publishes, Opens, CloseRuns
  <2> QED
    BY <2>1 DEF HandFollows, HandIsKnown, AfterMove, AfterRelease, Still, LetGo
<1>2. CASE hand # Still
  <2>1. CloseRuns
    BY <1>2 DEF Starts, Publishes, Opens, HandFollows, HandIsKnown
  <2>2. /\ pending # <<>> /\ phase' = "closed" /\ inbox' = <<>> /\ pending' = <<>>
        /\ UNCHANGED <<model, button, hand>>
    BY <2>1 DEF CloseRuns, Closes
  <2>3. HandIsKnown'
    BY <2>2 DEF HandFollows, HandIsKnown
  <2>4. AfterMove'
    <3>1. inbox # <<>> => 1 \in DOMAIN inbox
      BY DEF IInv, Shapes
    <3>2. \A x \in Quiet : x # "Moved"
      BY DEF Quiet
    <3> QED
      BY <2>2, <3>1, <3>2 DEF HandFollows, AfterMove
  <2>5. AfterRelease'
    BY <2>2 DEF HandFollows, AfterRelease
  <2> QED
    BY <2>3, <2>4, <2>5 DEF HandFollows
<1> QED
  BY <1>1, <1>2

\* Every step keeps what is known of the hand.
LEMMA NextFollows ==
    ASSUME IInv, HandFollows, [Next]_vars
    PROVE  HandFollows'
<1>1. CASE UNCHANGED vars
  BY <1>1 DEF vars, HandFollows, HandIsKnown, AfterMove, AfterRelease
<1>2. CASE Next
  BY <1>2, SendersFollow, HandKeeps, EffectFollows, PumpFollows, RunFollows
  DEF Next, RunSteps
<1> QED
  BY <1>1, <1>2

\* The only step that takes a release from the inbox and changes the model
\* is the loop's, and there the model agrees with the release.
LEMMA TakenReleaseAgrees ==
    ASSUME IInv, HandFollows, [Next]_vars, hand = LetGo, inbox # <<>>,
           inbox' = Tail(inbox), Head(inbox).kind = "Up"
    PROVE  model'.selection = model.selection
<1>1. Head(inbox) = inbox[1] /\ 1 \in DOMAIN inbox /\ Tail(inbox) # inbox
  BY DEF IInv, Shapes
<1>2. CASE Pump
  <2> DEFINE up == inbox[1]
  <2>1. model' = pointer_up(model, up).model
    BY <1>1, <1>2 DEF Pump, transition
  <2>2. Agrees(model, up)
    BY <1>1 DEF HandFollows, AfterRelease
  <2>3. model \in Models
    BY DEF IInv, Shapes, ModelOK
  <2> HIDE DEF up
  <2> QED
    BY <2>1, <2>2, <2>3, ReleaseCommits DEF Agrees
<1>3. CASE SnapTargetsBuilt \/ WindowPreviewUpdated
  BY <1>1, <1>3 DEF SnapTargetsBuilt, WindowPreviewUpdated, Answers
<1>4. CASE ~Pump /\ ~SnapTargetsBuilt /\ ~WindowPreviewUpdated
  <2>1. model' = model
    BY <1>4 DEF Next, RunSteps, vars, Starts, Publishes, Opens, CaptureRuns, PersistRuns,
                CloseRuns, CancelStores, CancelPosts, PersonPresses, PersonPressesToolbar,
                PersonDoubleClicks, PersonMoves, PersonReleases, PersonTypes, CaptureStolen,
                DisplayChanges
  <2> QED
    BY <2>1
<1> QED
  BY <1>2, <1>3, <1>4

\* Letting go where the last move was commits what that move showed, whatever
\* keys, losses of the pointer and changes of displays came in between.
THEOREM ReleaseCommitsWhatItShowed == Spec => ReleaseCommitsWhatWasShown
<1>1. Init => HandFollows
  BY DEF Init, HandFollows, HandIsKnown, AfterMove, AfterRelease, Still, LetGo
<1>2. IInv /\ HandFollows /\ [Next]_vars => HandFollows'
  BY NextFollows
<1>3. IInv /\ HandFollows /\ [Next]_vars =>
        [hand = LetGo /\ inbox # <<>> /\ inbox' = Tail(inbox) /\ Head(inbox).kind = "Up"
         => model'.selection = model.selection]_vars
  BY TakenReleaseAgrees
<1> QED
  BY <1>1, <1>2, <1>3, Inductive, PTL DEF Spec, ReleaseCommitsWhatWasShown
=============================================================================
