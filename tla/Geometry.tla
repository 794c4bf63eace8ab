------------------------------ MODULE Geometry ------------------------------
(***************************************************************************)
(* The arithmetic of the region tool along one axis.  A rectangle is the   *)
(* product of two half-open spans and every rule below treats the axes     *)
(* alike and apart, so one axis is modelled; where the code joins them (a  *)
(* band flat on either axis is none) the caller says what the other did.   *)
(* Coordinates are integers: the code computes in i64 what a display's i32 *)
(* coordinates cannot overflow.                                            *)
(***************************************************************************)
EXTENDS Integers, Sequences

CONSTANTS
    None,          \* no span, no position
    MinSize,       \* MIN_REGION_SIZE
    SnapRadius     \* snap_threshold

ASSUME SizeAssumption == MinSize \in Nat \ {0} /\ SnapRadius \in Nat
ASSUME NoneAssumption == None \notin Int /\ None \notin [left : Int, right : Int]

Span(left, right) == [left |-> left, right |-> right]
Spans == {s \in [left : Int, right : Int] : s.left < s.right}
Within(s, bounds) == bounds.left <= s.left /\ s.right <= bounds.right
Width(s) == s.right - s.left

Lesser(a, b) == IF a < b THEN a ELSE b
Greater(a, b) == IF a < b THEN b ELSE a
Distance(a, b) == IF a < b THEN b - a ELSE a - b

\* i64::clamp, which panics on an inverted range.
Clamp(v, low, high) == IF v < low THEN low ELSE IF v > high THEN high ELSE v

\* Moved, and shrunk only where it cannot fit.
clamp_within(s, bounds) ==
    LET width == Lesser(Width(s), Width(bounds))
        left == Clamp(s.left, bounds.left, Greater(bounds.right - width, bounds.left))
    IN Span(left, left + width)

-----------------------------------------------------------------------------
(* Drawing, resizing, moving and nudging.                                  *)

rect_from_points(bounds, p, q) ==
    LET left == Clamp(Lesser(p, q), bounds.left, bounds.right)
        right == Clamp(Greater(p, q), bounds.left, bounds.right)
    IN IF left < right THEN Span(left, right) ELSE None

\* Variation: the floor under the size is not capped at the display.
ResizeUncapped(original, handle, p, bounds) ==
    CASE handle = "Leading" ->
           Span(Clamp(p, bounds.left, original.right - MinSize), original.right)
      [] handle = "Trailing" ->
           Span(original.left, Greater(Clamp(p, bounds.left, bounds.right), original.left + MinSize))
      [] OTHER -> original

\* A handle moves the leading edge, the trailing one, or only the other axis.
resize_region(original, handle, p, bounds) ==
    CASE handle = "Leading" ->
           Span(Clamp(p, bounds.left, Greater(original.right - MinSize, bounds.left)),
                original.right)
      [] handle = "Trailing" ->
           Span(original.left,
                Clamp(p, Lesser(original.left + MinSize, bounds.right), bounds.right))
      [] OTHER -> original

move_region(original, from, p, bounds) ==
    LET room == Greater(Width(bounds) - Width(original), 0)
        left == Clamp(original.left + (p - from), bounds.left, bounds.left + room)
    IN Span(left, left + Width(original))

translated(s, d) == Span(s.left + d, s.right + d)

resize_region_by(s, d, bounds) ==
    Span(s.left, Clamp(s.right + d, Lesser(s.left + MinSize, bounds.right), bounds.right))

default_region_for_source(bounds) ==
    LET width == Greater(Width(bounds) \div 2, 1)
        left == bounds.left + ((Width(bounds) - width) \div 2)
    IN Span(left, left + width)

-----------------------------------------------------------------------------
(* Snapping.  `targets` is the inventory's edges in its order, front       *)
(* window first; an empty one stands for snapping that is off.             *)

\* The nearest edge in reach; of two as near, the earlier.
snap_coordinate(v, targets) ==
    LET near == {i \in DOMAIN targets : Distance(targets[i], v) <= SnapRadius}
        Nearer(i, j) == \/ Distance(targets[i], v) < Distance(targets[j], v)
                        \/ Distance(targets[i], v) = Distance(targets[j], v) /\ i <= j
    IN IF near = {} THEN None
       ELSE targets[CHOOSE i \in near : \A j \in near : Nearer(i, j)]

Or(a, b) == IF a # None THEN a ELSE b

\* Variation: whatever was hit keeps its guide line.
GuideForHit(s, hit) == hit

\* A hit is a guide only where the finished span has an edge on it.
guide_for(s, hit) == IF hit \in {s.left, s.right} THEN hit ELSE None

Snapped(s, guide) == [span |-> s, guide |-> guide]

snap_anchor(anchor, targets) == Or(snap_coordinate(anchor, targets), anchor)

\* How far a span moves so that its nearer edge lands on a target.
snap_translation(s, targets) ==
    LET leading == snap_coordinate(s.left, targets)
        trailing == snap_coordinate(s.right, targets)
    IN IF /\ trailing # None
          /\ leading # None => Distance(trailing, s.right) < Distance(leading, s.left)
       THEN [by |-> trailing - s.right, hit |-> trailing]
       ELSE IF leading # None THEN [by |-> leading - s.left, hit |-> leading]
       ELSE [by |-> 0, hit |-> None]

\* The free corner, unless the snap would put it on the fixed one.
FreeCorner(anchor, p, targets) ==
    LET hit == snap_coordinate(p, targets)
    IN IF hit = anchor THEN None ELSE hit

rect_from_points_snapped(bounds, anchor, p, targets) ==
    LET hit == FreeCorner(anchor, p, targets)
        span == rect_from_points(bounds, anchor, Or(hit, p))
    IN Snapped(span, IF span = None THEN None
                     ELSE guide_for(span, Or(hit, snap_coordinate(anchor, targets))))

resize_region_snapped(original, handle, p, bounds, targets) ==
    LET hit == IF handle = "Across" THEN None ELSE snap_coordinate(p, targets)
        span == resize_region(original, handle, Or(hit, p), bounds)
    IN Snapped(span, guide_for(span, hit))

move_region_snapped(original, from, p, bounds, targets) ==
    LET moved == move_region(original, from, p, bounds)
        pull == snap_translation(moved, targets)
        span == clamp_within(translated(moved, pull.by), bounds)
    IN Snapped(span, guide_for(span, pull.hit))
=============================================================================
