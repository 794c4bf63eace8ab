--------------------------- MODULE Chooser_proofs ----------------------------
(***************************************************************************)
(* Proofs about Chooser for every set of windows, places and positions and *)
(* any number of moves: a build is always driven by a message of its own,  *)
(* no preview that can be seen covers the toolbar or its menu, and no tile *)
(* is left bare.                                                           *)
(***************************************************************************)
EXTENDS Chooser, SequenceTheorems, WellFoundedInduction, TLAPS

Numbers == 0..GenMod - 1

Generations ==
    /\ generation \in Numbers
    /\ build # None => build.generation \in Numbers
    /\ posts \in Seq(Numbers)
    /\ phase = "opening" => build = None /\ live = {} /\ ~drag

\* A preview left from the chooser is transparent under another tool.
HiddenElsewhere == live # {} /\ ~Choosing => hidden

IInv == Generations /\ BuildIsDriven /\ HiddenElsewhere /\ ChromeStaysVisible

-----------------------------------------------------------------------------
\* overview_build_generation wraps around and stays a number of its width.
LEMMA NextNumber ==
    ASSUME NEW g \in Numbers
    PROVE  (g + 1) % GenMod \in Numbers
BY NumberAssumption DEF Numbers

\* What a refresh leaves: a build numbered like those before it, or none, and
\* previews beside the chrome, or none.
LEMMA RefreshLeaves ==
    ASSUME NEW ts, NEW b, NEW g \in Numbers, b # None => b.generation \in Numbers,
           Refresh(ts, b, g)
    PROVE  /\ generation' \in Numbers
           /\ build' # None => build'.generation \in Numbers
           /\ hidden' = FALSE
           /\ live' # {} => /\ Choosing'
                            /\ \A p \in live' : p.at \notin Covered(bar', options')
<1>1. CASE layered /\ tool' = "window"
  <2>1. PICK refused \in SUBSET Windows :
          /\ live' = Previews(ts, refused) /\ hidden' = FALSE
          /\ build' = QueueUncovered(b, g, Uncovered(ts, live'))[1]
          /\ generation' = QueueUncovered(b, g, Uncovered(ts, live'))[2]
    BY <1>1 DEF Refresh
  <2>3. \A p \in live' : p.at \notin Covered(bar', options')
    BY <2>1 DEF Previews
  <2> DEFINE bare == Uncovered(ts, live')
  <2>4. build' = QueueUncovered(b, g, bare)[1] /\ generation' = QueueUncovered(b, g, bare)[2]
    BY <2>1
  <2> HIDE DEF bare
  <2>5. generation' \in Numbers /\ (build' # None => build'.generation \in Numbers)
    BY <2>4, NextNumber DEF QueueUncovered, Build
  <2> QED
    BY <1>1, <2>1, <2>3, <2>5 DEF Choosing
<1>2. CASE ~(layered /\ tool' = "window")
  BY <1>2 DEF Refresh
<1> QED
  BY <1>1, <1>2

\* Whoever posts for the build it leaves drives it.
LEMMA PostDrives ==
    ASSUME NEW waiting \in Seq(Numbers), build' # None => build'.generation \in Numbers,
           PostFor(waiting)
    PROVE  posts' \in Seq(Numbers) /\ BuildIsDriven'
<1>1. CASE build' = None
  BY <1>1 DEF PostFor, BuildIsDriven
<1>2. CASE build' # None
  <2>1. posts' = Append(waiting, build'.generation)
    BY <1>2 DEF PostFor
  <2>2. posts' \in Seq(Numbers) /\ Len(posts') = Len(waiting) + 1
        /\ posts'[Len(waiting) + 1] = build'.generation
    BY <1>2, <2>1
  <2>3. Len(waiting) + 1 \in DOMAIN posts'
    BY <2>2
  <2>4. build'.generation \in ToSet(posts')
    BY <2>2, <2>3 DEF ToSet
  <2> QED
    BY <2>2, <2>4 DEF BuildIsDriven
<1> QED
  BY <1>1, <1>2

\* A refresh followed by a post re-establishes the invariant whatever the chrome
\* did, as long as the chrome is shown for the previews it leaves.
LEMMA RefreshAndPost ==
    ASSUME NEW ts, NEW b, NEW g \in Numbers, b # None => b.generation \in Numbers,
           NEW waiting \in Seq(Numbers), Refresh(ts, b, g), PostFor(waiting),
           phase' # "opening"
    PROVE  IInv'
<1>1. /\ generation' \in Numbers /\ (build' # None => build'.generation \in Numbers)
      /\ hidden' = FALSE
      /\ live' # {} => Choosing' /\ \A p \in live' : p.at \notin Covered(bar', options')
  BY RefreshLeaves
<1>2. posts' \in Seq(Numbers) /\ BuildIsDriven'
  BY <1>1, PostDrives
<1> QED
  BY <1>1, <1>2 DEF IInv, Generations, HiddenElsewhere, ChromeStaysVisible

\* A batch that is taken out of the queue was not of the build, or is replaced.
LEMMA TailKeepsOthers ==
    ASSUME NEW s \in Seq(Numbers), s # <<>>, NEW n \in ToSet(s), n # Head(s)
    PROVE  Tail(s) \in Seq(Numbers) /\ n \in ToSet(Tail(s))
<1>1. PICK i \in 1..Len(s) : s[i] = n
  BY DEF ToSet
<1>2. i # 1 /\ Len(Tail(s)) = Len(s) - 1 /\ Tail(s) \in Seq(Numbers)
  BY <1>1
<1>3. i - 1 \in 1..Len(Tail(s)) /\ Tail(s)[i - 1] = n
  BY <1>1, <1>2
<1>4. DOMAIN Tail(s) = 1..Len(Tail(s))
  BY <1>2
<1> QED
  BY <1>2, <1>3, <1>4 DEF ToSet

\* A start adds what needs pixels to no build, or goes on with the one there is.
LEMMA StartKeeps ==
    ASSUME IInv, StartBuild, phase' # "opening"
    PROVE  IInv'
<1> USE DEF IInv, Generations
<1> DEFINE sized   == Kept(listed', open)
           seeded  == [i \in DOMAIN sized |-> Tile(sized[i], FALSE)]
           wanted  == [i \in DOMAIN sized |-> Render(sized[i], 0)]
           renders == ~layered /\ sized # <<>>
           next    == (generation + 1) % GenMod
<1>1. next \in Numbers /\ Build(next, wanted).generation = next
  BY NextNumber DEF Build
<1>2. \/ Refresh(seeded, Build(next, wanted), next)
      \/ Refresh(seeded, None, generation)
      \/ Refresh(tiles, build, generation)
  BY DEF StartBuild
<1>3. PostFor(posts)
  BY DEF StartBuild
<1> HIDE DEF seeded, wanted, next
<1> QED
  BY <1>1, <1>2, <1>3, RefreshAndPost

\* RefreshWindowChrome after anything the user did to the chrome.
LEMMA ChromeKeeps ==
    ASSUME IInv, RefreshChrome, phase' # "opening"
    PROVE  IInv'
BY RefreshAndPost DEF IInv, Generations, RefreshChrome

-----------------------------------------------------------------------------
\* An overlay that is being opened has no build and no preview.
LEMMA Initial == Init => IInv
BY NumberAssumption
DEF Init, IInv, Generations, Numbers, BuildIsDriven, HiddenElsewhere, ChromeStaysVisible,
    InChooser, Choosing

\* Every operation of the chooser keeps the invariant: one step for each.
LEMMA Step == ASSUME IInv, Next PROVE IInv'
<1> USE DEF IInv, Generations
<1>1. CASE Open
  <2>1. phase' = "open"
    BY <1>1 DEF Open
  <2>2. CASE tool = "window"
    <3>1. StartBuild
      BY <1>1, <2>2 DEF Open
    <3> QED
      BY <2>1, <3>1, StartKeeps
  <2>3. CASE tool # "window"
    BY <1>1, <2>1, <2>3 DEF Open, NoRefresh, tileVars, BuildIsDriven, HiddenElsewhere,
       ChromeStaysVisible, InChooser, Choosing, chrome
  <2> QED
    BY <2>2, <2>3
<1>2. CASE IgnoreBatch
  <2>1. posts' = Tail(posts) /\ posts # <<>> /\ phase = "open" /\ ~Accepted
        /\ UNCHANGED <<phase, chrome, tileVars>>
    BY <1>2 DEF IgnoreBatch
  <2>2. Tail(posts) \in Seq(Numbers)
    BY <2>1
  <2>3. BuildIsDriven'
    BY <2>1, TailKeepsOthers DEF Accepted, BuildIsDriven, InChooser, Choosing, chrome, tileVars
  <2> QED
    BY <2>1, <2>2, <2>3 DEF HiddenElsewhere, ChromeStaysVisible, Choosing, chrome, tileVars
<1>3. CASE RenderBatch
  <2>1. Tail(posts) \in Seq(Numbers) /\ phase' = "open" /\ PostFor(Tail(posts))
        /\ build # None /\ tool = "window" /\ UNCHANGED chrome
    BY <1>3 DEF RenderBatch, Accepted
  <2>2. \/ Refresh(tiles', None, generation)
        \/ /\ build' # None => build'.generation = build.generation
           /\ UNCHANGED <<live, hidden, generation>>
    BY <1>3 DEF RenderBatch, Build
  <2>3. CASE Refresh(tiles', None, generation)
    BY <2>1, <2>3, RefreshAndPost
  <2>4. CASE /\ build' # None => build'.generation = build.generation
             /\ UNCHANGED <<live, hidden, generation>>
    <3>1. posts' \in Seq(Numbers) /\ BuildIsDriven'
      BY <2>1, <2>4, PostDrives
    <3> QED
      BY <1>3, <2>1, <2>4, <3>1 DEF RenderBatch, HiddenElsewhere, ChromeStaysVisible, Choosing,
         chrome
  <2> QED
    BY <2>2, <2>3, <2>4
<1>4. CASE PressToolbar
  BY <1>4 DEF PressToolbar, Move, BuildIsDriven, HiddenElsewhere, ChromeStaysVisible,
              InChooser, Choosing
<1>5. CASE MoveToolbar
  BY <1>5 DEF MoveToolbar, Move, NoRefresh, tileVars, BuildIsDriven, HiddenElsewhere,
              ChromeStaysVisible, InChooser, Choosing
<1>6. CASE EndToolbarDrag
  BY <1>6, ChromeKeeps DEF EndToolbarDrag, Move, BuildIsDriven, HiddenElsewhere,
              ChromeStaysVisible, InChooser, Choosing, NoRefresh, tileVars, chrome
<1>7. CASE ToggleOptions
  BY <1>7, ChromeKeeps DEF ToggleOptions, Move, BuildIsDriven, HiddenElsewhere,
              ChromeStaysVisible, InChooser, Choosing, NoRefresh, tileVars, chrome
<1>8. CASE ArmRecording
  BY <1>8, ChromeKeeps DEF ArmRecording, Move
<1>9. CASE ActivateWindowTool
  BY <1>9, StartKeeps DEF ActivateWindowTool, Move
<1>10. CASE ActivateOtherTool
  BY <1>10 DEF ActivateOtherTool, Move, BuildIsDriven, HiddenElsewhere,
              ChromeStaysVisible, InChooser, Choosing, NoRefresh, tileVars, chrome
<1>11. CASE ListForSnapping \/ Close
  BY <1>11 DEF ListForSnapping, Close, Move, BuildIsDriven, HiddenElsewhere,
              ChromeStaysVisible, InChooser, Choosing, NoRefresh, tileVars, chrome
<1>12. CASE PressCanvas
  <2>1. /\ phase = "open" /\ phase' \in {"open", "closed"} /\ ~options' /\ ~drag'
        /\ UNCHANGED <<tool, bar>>
    BY <1>12 DEF PressCanvas, Move
  <2>2. CASE Choosing /\ options
    BY <1>12, <2>1, <2>2, ChromeKeeps DEF PressCanvas
  <2>3. CASE ~(Choosing /\ options)
    <3>1. NoRefresh
      BY <1>12, <2>3 DEF PressCanvas
    <3>2. Choosing => Covered(bar', options') = Covered(bar, options)
      BY <2>1, <2>3 DEF Covered
    <3>3. Choosing' <=> Choosing
      BY <2>1 DEF Choosing
    <3>4. BuildIsDriven'
      BY <2>1, <3>1, <3>3 DEF NoRefresh, tileVars, BuildIsDriven, InChooser
    <3>5. HiddenElsewhere'
      BY <3>1, <3>3 DEF NoRefresh, tileVars, HiddenElsewhere
    <3>6. ChromeStaysVisible'
      <4> SUFFICES ASSUME phase' = "open", live' # {}, ~hidden'
                   PROVE  Choosing' /\ \A p \in live' : p.at \notin Covered(bar', options')
        BY DEF ChromeStaysVisible
      <4>1. live = live' /\ ~hidden
        BY <3>1 DEF NoRefresh, tileVars
      <4>2. Choosing /\ \A p \in live : p.at \notin Covered(bar, options)
        BY <1>12, <2>1, <4>1 DEF ChromeStaysVisible, PressCanvas
      <4> QED
        BY <3>2, <3>3, <4>1, <4>2
    <3> QED
      BY <2>1, <3>1, <3>4, <3>5, <3>6 DEF NoRefresh, tileVars
  <2> QED
    BY <2>2, <2>3
<1>13. ASSUME NEW w \in Windows, CloseWindow(w) PROVE IInv'
  BY <1>13 DEF CloseWindow, Move, BuildIsDriven, HiddenElsewhere,
              ChromeStaysVisible, InChooser, Choosing, NoRefresh, tileVars, chrome
<1>14. CASE Paint
  BY <1>14 DEF Paint, BuildIsDriven, HiddenElsewhere,
              ChromeStaysVisible, InChooser, Choosing, NoRefresh, tileVars, chrome
<1> QED
  BY <1>1, <1>2, <1>3, <1>4, <1>5, <1>6, <1>7, <1>8, <1>9, <1>10, <1>11, <1>12, <1>13,
     <1>14 DEF Next

-----------------------------------------------------------------------------
\* Generations, the build and its messages, the opacity of what is left of the
\* chooser and the cover of the chrome hold together in every state: what the
\* render messages and RefreshWindowChrome rely on (render_next_overview_batch,
\* refresh_live_window_thumbnails).
THEOREM ChooserInvariant == Spec => []IInv
<1>1. IInv /\ [Next]_vars => IInv'
  <2> SUFFICES ASSUME IInv, [Next]_vars PROVE IInv'
    OBVIOUS
  <2>1. CASE UNCHANGED vars
    BY <2>1 DEF vars, IInv, Generations, BuildIsDriven, HiddenElsewhere,
              ChromeStaysVisible, InChooser, Choosing, NoRefresh, tileVars, chrome
  <2> QED
    BY <2>1, Step
<1> QED
  BY <1>1, Initial, PTL DEF Spec

\* While the chooser is shown a build has a message of its own in the queue, for
\* every list of windows and every sequence of moves (ensure_overview_batch_posted).
THEOREM BuildIsAlwaysDriven == Spec => []BuildIsDriven
<1>1. IInv => BuildIsDriven
  BY DEF IInv
<1> QED
  BY <1>1, ChooserInvariant, PTL

\* A preview that can be seen lies beside the toolbar and its menu, for every
\* layout (live_thumbnail_overlaps_chrome and the refreshes around it).
THEOREM ChromeIsAlwaysVisible == Spec => []ChromeStaysVisible
<1>1. IInv => ChromeStaysVisible
  BY DEF IInv
<1> QED
  BY <1>1, ChooserInvariant, PTL

-----------------------------------------------------------------------------
(* What a filter keeps.  Kept is a recursive function, so this is an        *)
(* induction; the least counterexample stands in for its predicate.         *)

\* A nonempty set of numbers has a least element.
LEMMA Least ==
    ASSUME NEW T \in SUBSET Nat, T # {}
    PROVE  \E n \in T : \A m \in T : n <= m
<1>1. \E n \in T : \A m \in T : <<m, n>> \notin OpToRel(<, Nat)
  BY NatLessThanWellFounded, WFMin
<1>2. \A m, n \in Nat : <<m, n>> \in OpToRel(<, Nat) <=> m < n
  BY DEF OpToRel
<1>3. PICK n \in T : \A m \in T : <<m, n>> \notin OpToRel(<, Nat)
  BY <1>1
<1>4. n \in T /\ \A m \in T : n <= m
  <2>1. ASSUME NEW m \in T PROVE n <= m
    <3>1. m \in Nat /\ n \in Nat /\ ~(m < n)
      BY <1>2, <1>3
    <3> QED
      BY <3>1
  <2> QED
    BY <2>1
<1> QED
  BY <1>4

\* One step of the filter, and what it is to have followed it to the n-th entry.
Filtered(s, chosen, g, i) ==
    IF i = 0 THEN <<>> ELSE IF s[i] \in chosen THEN Append(g[i - 1], s[i]) ELSE g[i - 1]

Filters(s, chosen, n, g) == g = [i \in 0..n |-> Filtered(s, chosen, g, i)]

\* The recursion of Kept defines something, for every sequence and every set.
LEMMA FilterExists ==
    ASSUME NEW s, NEW chosen, NEW n \in Nat
    PROVE  \E g : Filters(s, chosen, n, g)
<1> DEFINE T == {k \in Nat : ~ \E g : Filters(s, chosen, k, g)}
<1>1. SUFFICES ASSUME T # {} PROVE FALSE
  OBVIOUS
<1>2. PICK m \in T : \A k \in T : m <= k
  BY <1>1, Least
<1>3. m # 0
  <2>1. Filters(s, chosen, 0, [i \in 0..0 |-> <<>>])
    BY DEF Filters, Filtered
  <2> QED  BY <2>1
<1>4. m - 1 \in Nat /\ m - 1 \notin T
  BY <1>2, <1>3
<1>5. PICK g : Filters(s, chosen, m - 1, g)
  BY <1>4
<1> DEFINE h == [i \in 0..m |-> IF i = m THEN Filtered(s, chosen, g, m) ELSE g[i]]
<1>6. Filters(s, chosen, m, h)
  <2>1. ASSUME NEW i \in 0..m PROVE h[i] = Filtered(s, chosen, h, i)
    <3>1. CASE i = 0
      BY <1>3, <1>5, <3>1 DEF Filters, Filtered
    <3>2. CASE i # 0 /\ i # m
      <4>1. i \in 0..(m - 1) /\ i - 1 \in 0..(m - 1) /\ i # m /\ i - 1 # m /\ i - 1 \in 0..m
        BY <3>2
      <4>2. h[i] = g[i] /\ h[i - 1] = g[i - 1]
        BY <4>1
      <4>3. g[i] = Filtered(s, chosen, g, i)
        BY <1>5, <4>1 DEF Filters
      <4> QED  BY <3>2, <4>2, <4>3 DEF Filtered
    <3>3. CASE i = m
      <4>1. h[m] = Filtered(s, chosen, g, m) /\ h[m - 1] = g[m - 1]
        BY <1>3
      <4> QED  BY <1>3, <3>3, <4>1 DEF Filtered
    <3> QED  BY <3>1, <3>2, <3>3
  <2> QED  BY <2>1 DEF Filters
<1> QED  BY <1>2, <1>6

\* A sequence's elements, once one is added.
LEMMA AppendSet ==
    ASSUME NEW S, NEW s \in Seq(S), NEW e \in S
    PROVE  Append(s, e) \in Seq(S) /\ ToSet(Append(s, e)) = ToSet(s) \cup {e}
<1>1. /\ Append(s, e) \in Seq(S) /\ DOMAIN Append(s, e) = 1..(Len(s) + 1)
      /\ Len(s) \in Nat /\ DOMAIN s = 1..Len(s)
      /\ Append(s, e)[Len(s) + 1] = e
      /\ \A i \in 1..Len(s) : Append(s, e)[i] = s[i]
  OBVIOUS
<1>2. ASSUME NEW x PROVE x \in ToSet(Append(s, e)) <=> x \in ToSet(s) \/ x = e
  BY <1>1 DEF ToSet
<1> QED  BY <1>1, <1>2

\* Kept keeps the chosen elements and no others.
LEMMA KeptHas ==
    ASSUME NEW S, NEW s \in Seq(S), NEW chosen
    PROVE  Kept(s, chosen) \in Seq(S) /\ ToSet(Kept(s, chosen)) = ToSet(s) \cap chosen
<1> DEFINE f == CHOOSE g : g = [i \in 0..Len(s) |->
                  IF i = 0 THEN <<>>
                  ELSE IF s[i] \in chosen THEN Append(g[i - 1], s[i]) ELSE g[i - 1]]
<1>1. Kept(s, chosen) = f[Len(s)]
  BY DEF Kept
<1>2. Filters(s, chosen, Len(s), f)
  <2>1. Len(s) \in Nat
    OBVIOUS
  <2>2. \E g : Filters(s, chosen, Len(s), g)
    BY <2>1, FilterExists
  <2> QED  BY <2>2 DEF Filters, Filtered
<1> HIDE DEF f
<1> DEFINE Right(i) == f[i] \in Seq(S) /\ ToSet(f[i]) = {s[k] : k \in 1..i} \cap chosen
           T == {i \in 0..Len(s) : ~Right(i)}
<1>3. T = {}
  <2>1. SUFFICES ASSUME T # {} PROVE FALSE
    OBVIOUS
  <2>2. PICK m \in T : \A k \in T : m <= k
    <3>1. T \in SUBSET Nat
      OBVIOUS
    <3> QED  BY <2>1, <3>1, Least
  <2>0. ~Right(m) /\ m \in 0..Len(s) /\ \A k \in 0..Len(s) : ~Right(k) => m <= k
    <3> HIDE DEF Right
    <3> QED  BY <2>2
  <2>3. f[m] = Filtered(s, chosen, f, m) /\ m \in Nat
    BY <1>2, <2>0 DEF Filters
  <2>4. m # 0
    <3>1. SUFFICES ASSUME m = 0 PROVE FALSE
      OBVIOUS
    <3>2. f[m] = <<>> /\ {s[k] : k \in 1..m} = {}
      BY <2>3, <3>1 DEF Filtered
    <3>3. <<>> \in Seq(S) /\ ToSet(<<>>) = {}
      BY DEF ToSet
    <3>4. Right(m)
      BY <3>2, <3>3
    <3> QED  BY <2>0, <3>4
  <2>5. Right(m - 1) /\ m - 1 \in Nat /\ m \in 1..Len(s)
    <3>1. m - 1 \in 0..Len(s) /\ ~(m <= m - 1) /\ m - 1 \in Nat /\ m \in 1..Len(s)
      BY <2>0, <2>3, <2>4
    <3> HIDE DEF Right
    <3> QED  BY <2>0, <3>1
  <2>6. {s[k] : k \in 1..m} = {s[k] : k \in 1..(m - 1)} \cup {s[m]} /\ s[m] \in S
    BY <2>5
  <2>7. CASE s[m] \in chosen
    <3>1. f[m] = Append(f[m - 1], s[m])
      BY <2>3, <2>4, <2>7 DEF Filtered
    <3>2. f[m] \in Seq(S) /\ ToSet(f[m]) = ToSet(f[m - 1]) \cup {s[m]}
      BY <2>5, <2>6, <3>1, AppendSet
    <3>3. Right(m)
      BY <2>5, <2>6, <2>7, <3>2
    <3> QED  BY <2>0, <3>3
  <2>8. CASE s[m] \notin chosen
    <3>1. f[m] = f[m - 1]
      BY <2>3, <2>4, <2>8 DEF Filtered
    <3>2. Right(m)
      BY <2>5, <2>6, <2>8, <3>1
    <3> QED  BY <2>0, <3>2
  <2> QED  BY <2>7, <2>8
<1>4. Right(Len(s))
  <2>1. Len(s) \in 0..Len(s)
    OBVIOUS
  <2> QED  BY <1>3, <2>1
<1>5. ToSet(s) = {s[k] : k \in 1..Len(s)}
  BY DEF ToSet
<1> QED  BY <1>1, <1>4, <1>5

-----------------------------------------------------------------------------
(* No tile is left bare.                                                    *)

Tiles   == [of : Windows, pixels : BOOLEAN]
Renders == [of : Windows, attempt : {0, 1}]
Builds  == [generation : Numbers, pending : Seq(Renders)]

\* The lists are lists of windows, of their tiles and of what is to be rendered.
Inventory ==
    /\ listed # None \/ tiles # <<>> \/ build # None => listed \in Seq(Windows)
    /\ tiles \in Seq(Tiles)
    /\ build # None => build \in Builds

Remembered == Inventory /\ NothingForgotten

\* A function on 1..n is a sequence.
LEMMA ListOf ==
    ASSUME NEW S, NEW n \in Nat, NEW f \in [1..n -> S]
    PROVE  f \in Seq(S)
OBVIOUS

\* What a tile or a render of a window is.
LEMMA EntriesOf ==
    /\ \A w \in Windows : Tile(w, FALSE) \in Tiles /\ Tile(w, TRUE) \in Tiles
    /\ \A w \in Windows, n \in {0, 1} : Render(w, n) \in Renders
    /\ \A t \in Tiles : t.of \in Windows
    /\ \A r \in Renders : r.of \in Windows
BY DEF Tile, Tiles, Render, Renders

\* A build is something.
LEMMA BuildIsSome ==
    ASSUME NEW g \in Numbers, NEW queue \in Seq(Renders)
    PROVE  Build(g, queue) \in Builds /\ Build(g, queue) # None
<1>1. Build(g, queue) \in Builds
  BY DEF Build, Builds
<1>2. Builds \subseteq [generation : Nat, pending : Seq([of : Windows, attempt : {0, 1}])]
  BY NumberAssumption DEF Builds, Renders, Numbers
<1> QED
  BY <1>1, <1>2, NoneAssumption

\* If nothing is to be rendered, every tile has its pixels or its preview.
LEMMA UncoveredHas ==
    ASSUME NEW ts \in Seq(Tiles), NEW previews
    PROVE  /\ Uncovered(ts, previews) \in Seq(Renders)
           /\ Uncovered(ts, previews) = <<>> =>
                \A t \in ToSet(ts) : t.pixels \/ t.of \in {p.of : p \in previews}
           /\ ts = <<>> => Uncovered(ts, previews) = <<>>
<1> DEFINE chosen == {t \in ToSet(ts) : ~t.pixels /\ t.of \notin {p.of : p \in previews}}
           bare == Kept(ts, chosen)
<1>1. bare \in Seq(Tiles) /\ ToSet(bare) = ToSet(ts) \cap chosen
  BY KeptHas
<1>2. Uncovered(ts, previews) = [i \in DOMAIN bare |-> Render(bare[i].of, 0)]
  BY DEF Uncovered
<1> HIDE DEF bare
<1>3. DOMAIN bare = 1..Len(bare) /\ Len(bare) \in Nat /\ \A i \in 1..Len(bare) : bare[i] \in Tiles
  BY <1>1
<1>4. \A i \in 1..Len(bare) : Render(bare[i].of, 0) \in Renders
  BY <1>3 DEF Render, Tiles, Renders
<1>5. Uncovered(ts, previews) \in Seq(Renders)
  BY <1>2, <1>3, <1>4
<1>6. ASSUME Uncovered(ts, previews) = <<>> PROVE chosen = {}
  <2>1. DOMAIN bare = {}
    BY <1>2, <1>6
  <2>2. ToSet(bare) = {}
    BY <2>1 DEF ToSet
  <2> QED
    BY <1>1, <2>2
<1>7. ASSUME ts = <<>> PROVE Uncovered(ts, previews) = <<>>
  <2>1. ToSet(bare) = {}
    BY <1>1, <1>7 DEF ToSet
  <2>2. DOMAIN bare = {}
    BY <2>1 DEF ToSet
  <2> QED
    BY <1>2, <1>5, <2>2
<1> QED
  BY <1>5, <1>6, <1>7

\* What joins a queue is a list of renders.
LEMMA QueueHas ==
    ASSUME NEW renders \in Seq(Renders), NEW queue \in Seq(Renders)
    PROVE  queue \o WithoutQueued(renders, queue) \in Seq(Renders)
<1>1. WithoutQueued(renders, queue) \in Seq(Renders)
  BY KeptHas DEF WithoutQueued
<1> QED
  BY <1>1

\* A refresh leaves no build only if it left no tile bare.
LEMMA RefreshCovers ==
    ASSUME NEW ts \in Seq(Tiles), NEW b, b # None => b \in Builds, NEW g \in Numbers,
           Refresh(ts, b, g), tiles' = ts, UNCHANGED layered
    PROVE  /\ build' # None => build' \in Builds /\ (b # None \/ ts # <<>>)
           /\ NothingForgotten'
<1>1. CASE layered /\ tool' = "window"
  <2>1. PICK refused \in SUBSET Windows :
          build' = QueueUncovered(b, g, Uncovered(ts, live'))[1]
    BY <1>1 DEF Refresh
  <2> DEFINE bare == Uncovered(ts, live')
  <2>2. build' = QueueUncovered(b, g, bare)[1]
    BY <2>1
  <2>3. bare \in Seq(Renders)
        /\ (bare = <<>> => \A t \in ToSet(ts) : t.pixels \/ t.of \in {p.of : p \in live'})
        /\ (ts = <<>> => bare = <<>>)
    BY UncoveredHas
  <2> HIDE DEF bare
  <2>4. CASE bare = <<>>
    BY <2>2, <2>3, <2>4 DEF QueueUncovered, NothingForgotten
  <2>5. CASE bare # <<>> /\ b = None
    <3>1. build' = Build((g + 1) % GenMod, bare) /\ (g + 1) % GenMod \in Numbers
      BY <2>2, <2>5, NextNumber DEF QueueUncovered
    <3>2. build' \in Builds /\ build' # None
      BY <2>3, <3>1, BuildIsSome
    <3> QED
      BY <2>3, <2>5, <3>2 DEF NothingForgotten
  <2>6. CASE bare # <<>> /\ b # None
    <3>1. build' = Build(b.generation, b.pending \o WithoutQueued(bare, b.pending))
      BY <2>2, <2>6 DEF QueueUncovered
    <3>2. b.generation \in Numbers /\ b.pending \in Seq(Renders)
      BY <2>6 DEF Builds
    <3>3. build' \in Builds /\ build' # None
      BY <2>3, <3>1, <3>2, BuildIsSome, QueueHas
    <3> QED
      BY <2>6, <3>3 DEF NothingForgotten
  <2> QED
    BY <2>4, <2>5, <2>6
<1>2. CASE ~(layered /\ tool' = "window")
  BY <1>2 DEF Refresh, NothingForgotten, InChooser, Choosing
<1> QED
  BY <1>1, <1>2

\* A start lists what is open, and gives each window a tile.
LEMMA StartRemembers ==
    ASSUME IInv, Remembered, StartBuild, UNCHANGED <<layered, open>>
    PROVE  Remembered'
<1> USE DEF Remembered, Inventory
<1>1. listed' \in Seq(Windows)
  <2>1. Enumerated \in Seq(Windows) /\ Kept(Enumerated, open) \in Seq(Windows)
    <3>1. Enumerated \in Seq(Windows)
      BY PlaceAssumption
    <3> QED
      BY <3>1, KeptHas
  <2> QED
    BY <2>1 DEF StartBuild, Listing
<1> DEFINE sized   == Kept(listed', open)
           seeded  == [i \in DOMAIN sized |-> Tile(sized[i], FALSE)]
           wanted  == [i \in DOMAIN sized |-> Render(sized[i], 0)]
           next    == (generation + 1) % GenMod
<1>2. sized \in Seq(Windows)
  BY <1>1, KeptHas
<1>3. \/ tiles' = seeded /\ Refresh(seeded, Build(next, wanted), next)
      \/ tiles' = seeded /\ Refresh(seeded, None, generation)
      \/ tiles' = tiles /\ Refresh(tiles, build, generation)
  BY DEF StartBuild
<1> HIDE DEF sized
<1>4. seeded \in Seq(Tiles) /\ wanted \in Seq(Renders)
  <2>1. DOMAIN sized = 1..Len(sized) /\ Len(sized) \in Nat
        /\ \A i \in 1..Len(sized) : sized[i] \in Windows
    BY <1>2
  <2>2. \A i \in 1..Len(sized) : Tile(sized[i], FALSE) \in Tiles /\ Render(sized[i], 0) \in Renders
    BY <2>1, EntriesOf
  <2>3. seeded \in [1..Len(sized) -> Tiles] /\ wanted \in [1..Len(sized) -> Renders]
    BY <2>1, <2>2
  <2> HIDE DEF seeded, wanted
  <2> QED
    BY <2>1, <2>3, ListOf
<1>5. generation \in Numbers /\ next \in Numbers
  BY NextNumber DEF IInv, Generations
<1>6. Build(next, wanted) \in Builds
  BY <1>4, <1>5, BuildIsSome
<1> HIDE DEF seeded, wanted, next
<1> QED
  BY <1>1, <1>3, <1>4, <1>5, <1>6, RefreshCovers

\* RefreshWindowChrome looks at every tile again.
LEMMA ChromeRemembers ==
    ASSUME IInv, Remembered, RefreshChrome, UNCHANGED <<layered, listed>>
    PROVE  Remembered'
BY RefreshCovers DEF IInv, Generations, Remembered, Inventory, RefreshChrome

\* A batch gives tiles pixels, and the last one has the rest looked at.
LEMMA BatchRemembers ==
    ASSUME IInv, Remembered, RenderBatch
    PROVE  Remembered'
<1> DEFINE size  == IF Batch < Len(build.pending) THEN Batch ELSE Len(build.pending)
           batch == SubSeq(build.pending, 1, size)
           rest  == SubSeq(build.pending, size + 1, Len(build.pending))
<1>1. /\ build.pending \in Seq(Renders) /\ build.generation \in Numbers
      /\ tiles \in Seq(Tiles) /\ generation \in Numbers
  BY DEF RenderBatch, Accepted, Remembered, Inventory, Builds, IInv, Generations
<1>2. batch \in Seq(Renders) /\ rest \in Seq(Renders)
  <2>1. size \in Nat /\ size <= Len(build.pending) /\ Len(build.pending) \in Nat
    BY <1>1, NumberAssumption
  <2> QED
    BY <1>1, <2>1
<1>3. PICK result \in Results(batch) :
        /\ tiles' = WithPixels(tiles, batch, result)
        /\ IF rest \o Requeued(batch, result) = <<>>
             THEN Refresh(tiles', None, generation)
             ELSE build' = Build(build.generation, rest \o Requeued(batch, result))
  BY DEF RenderBatch
<1> DEFINE left == rest \o Requeued(batch, result)
<1> HIDE DEF batch, rest
<1>4. left \in Seq(Renders)
  <2> DEFINE chosen == {r \in ToSet(batch) : result[r.of] = "retryable" /\ r.attempt = 0}
             again == Kept(batch, chosen)
  <2>1. again \in Seq(Renders)
    BY <1>2, KeptHas
  <2>2. Requeued(batch, result) = [i \in DOMAIN again |-> Render(again[i].of, 1)]
    BY DEF Requeued
  <2> HIDE DEF again
  <2>3. DOMAIN again = 1..Len(again) /\ Len(again) \in Nat
        /\ \A i \in 1..Len(again) : Render(again[i].of, 1) \in Renders
    BY <2>1, EntriesOf
  <2>4. Requeued(batch, result) \in Seq(Renders)
    <3>1. Requeued(batch, result) \in [1..Len(again) -> Renders]
      BY <2>2, <2>3
    <3> QED
      BY <2>3, <3>1, ListOf
  <2> QED
    BY <1>2, <2>4
<1>5. tiles' \in Seq(Tiles)
  <2> DEFINE done  == {r.of : r \in {r \in ToSet(batch) : result[r.of] = "ok"}}
             extra == Kept(batch, {r \in ToSet(batch) : r.of \in done \ WindowsOf(tiles)})
             same  == [i \in DOMAIN tiles |-> IF tiles[i].of \in done THEN Tile(tiles[i].of, TRUE)
                                                                      ELSE tiles[i]]
             new   == [i \in DOMAIN extra |-> Tile(extra[i].of, TRUE)]
  <2>1. extra \in Seq(Renders)
    BY <1>2, KeptHas
  <2>2. tiles' = same \o new
    BY <1>3 DEF WithPixels
  <2> HIDE DEF done, extra
  <2>3. same \in Seq(Tiles)
    <3>1. DOMAIN tiles = 1..Len(tiles) /\ Len(tiles) \in Nat
          /\ \A i \in 1..Len(tiles) : tiles[i] \in Tiles /\ Tile(tiles[i].of, TRUE) \in Tiles
      <4>1. DOMAIN tiles = 1..Len(tiles) /\ Len(tiles) \in Nat /\ \A i \in 1..Len(tiles) : tiles[i] \in Tiles
        BY <1>1
      <4>2. ASSUME NEW t \in Tiles PROVE Tile(t.of, TRUE) \in Tiles
        BY EntriesOf
      <4> QED
        BY <4>1, <4>2
    <3>2. same \in [1..Len(tiles) -> Tiles]
      BY <3>1
    <3> HIDE DEF same
    <3> QED
      BY <3>1, <3>2, ListOf
  <2>4. new \in Seq(Tiles)
    <3>1. DOMAIN extra = 1..Len(extra) /\ Len(extra) \in Nat
          /\ \A i \in 1..Len(extra) : Tile(extra[i].of, TRUE) \in Tiles
      <4>1. DOMAIN extra = 1..Len(extra) /\ Len(extra) \in Nat /\ \A i \in 1..Len(extra) : extra[i] \in Renders
        BY <2>1
      <4>2. ASSUME NEW r \in Renders PROVE Tile(r.of, TRUE) \in Tiles
        BY EntriesOf
      <4> QED
        BY <4>1, <4>2
    <3>2. new \in [1..Len(extra) -> Tiles]
      BY <3>1
    <3> HIDE DEF new
    <3> QED
      BY <3>1, <3>2, ListOf
  <2> HIDE DEF same, new
  <2> QED
    BY <2>2, <2>3, <2>4
<1>6. UNCHANGED <<layered, listed>> /\ listed \in Seq(Windows)
  BY DEF RenderBatch, Accepted, Remembered, Inventory
<1> HIDE DEF left
<1>7. CASE left = <<>>
  <2>1. Refresh(tiles', None, generation)
    BY <1>3, <1>7 DEF left
  <2>2. (build' # None => build' \in Builds) /\ NothingForgotten'
    BY <1>1, <1>5, <1>6, <2>1, RefreshCovers
  <2> QED
    BY <1>5, <1>6, <2>2 DEF Remembered, Inventory
<1>8. CASE left # <<>>
  <2>1. build' = Build(build.generation, left)
    BY <1>3, <1>8 DEF left
  <2>2. build' \in Builds /\ build' # None
    BY <1>1, <1>4, <2>1, BuildIsSome
  <2> QED
    BY <1>5, <1>6, <2>2 DEF Remembered, Inventory, NothingForgotten
<1> QED
  BY <1>7, <1>8

\* A paint drops tiles and previews of the same windows, those that are gone.
LEMMA PaintRemembers ==
    ASSUME Remembered, Paint
    PROVE  Remembered'
<1> DEFINE dead == WindowsOf(tiles) \ open
           alive == {t \in ToSet(tiles) : t.of \notin dead}
<1> HIDE DEF dead
<1>1. /\ tiles' = Kept(tiles, alive) /\ live' = {p \in live : p.of \notin dead}
      /\ listed' = Kept(listed, Windows \ dead)
      /\ UNCHANGED <<phase, layered, tool, drag, build>>
  BY DEF Paint, dead, chrome
<1>2. tiles \in Seq(Tiles) /\ (listed = None \/ listed \in Seq(Windows))
      /\ (build # None => build \in Builds)
  BY DEF Remembered, Inventory
<1>3. tiles' \in Seq(Tiles) /\ ToSet(tiles') = ToSet(tiles) \cap alive
  BY <1>1, <1>2, KeptHas
<1>4. listed \in Seq(Windows)
  <2>1. WindowsOf(tiles) # {}
    BY DEF Paint
  <2>2. tiles # <<>>
    BY <2>1 DEF WindowsOf
  <2> QED
    BY <2>2 DEF Remembered, Inventory
<1>5. NothingForgotten'
  BY <1>1, <1>3 DEF Remembered, NothingForgotten, InChooser, Choosing
<1> QED
  BY <1>1, <1>2, <1>3, <1>4, <1>5, KeptHas DEF Remembered, Inventory

-----------------------------------------------------------------------------
\* Every operation of the chooser keeps it: one step for each.
LEMMA StepRemembers == ASSUME IInv, Remembered, Next PROVE Remembered'
<1> USE DEF Remembered, Inventory, NothingForgotten, InChooser, Choosing
<1>1. CASE Open
  <2>1. CASE tool = "window"
    BY <1>1, <2>1, StartRemembers DEF Open
  <2>2. CASE tool # "window"
    BY <1>1, <2>2 DEF Open, NoRefresh, tileVars, chrome
  <2> QED
    BY <2>1, <2>2
<1>2. CASE IgnoreBatch
  BY <1>2 DEF IgnoreBatch, tileVars, chrome
<1>3. CASE RenderBatch
  BY <1>3, BatchRemembers
<1>4. CASE PressToolbar
  BY <1>4 DEF PressToolbar, Move
<1>5. CASE MoveToolbar
  BY <1>5 DEF MoveToolbar, Move, NoRefresh, tileVars
<1>6. CASE EndToolbarDrag
  BY <1>6, ChromeRemembers DEF EndToolbarDrag, Move, NoRefresh, tileVars
<1>7. CASE ToggleOptions
  BY <1>7, ChromeRemembers DEF ToggleOptions, Move, NoRefresh, tileVars
<1>8. CASE ArmRecording
  BY <1>8, ChromeRemembers DEF ArmRecording, Move
<1>9. CASE ActivateWindowTool
  BY <1>9, StartRemembers DEF ActivateWindowTool, Move
<1>10. CASE ActivateOtherTool
  BY <1>10 DEF ActivateOtherTool, Move
<1>11. CASE ListForSnapping
  <2>1. listed' \in Seq(Windows)
    BY <1>11, PlaceAssumption, KeptHas DEF ListForSnapping, Listing
  <2> QED
    BY <1>11, <2>1 DEF ListForSnapping, Move, NoRefresh, tileVars, chrome
<1>12. CASE PressCanvas
  <2>1. UNCHANGED <<layered, listed, tool, drag>> /\ phase = "open"
    BY <1>12 DEF PressCanvas, Move
  <2>2. CASE Choosing /\ options
    BY <1>12, <2>1, <2>2, ChromeRemembers DEF PressCanvas
  <2>3. CASE ~(Choosing /\ options)
    BY <1>12, <2>1, <2>3 DEF PressCanvas, NoRefresh, tileVars
  <2> QED
    BY <2>2, <2>3
<1>13. CASE Close
  BY <1>13 DEF Close, tileVars, chrome
<1>14. ASSUME NEW w \in Windows, CloseWindow(w) PROVE Remembered'
  BY <1>14 DEF CloseWindow, Move, NoRefresh, tileVars, chrome
<1>15. CASE Paint
  BY <1>15, PaintRemembers
<1> QED
  BY <1>1, <1>2, <1>3, <1>4, <1>5, <1>6, <1>7, <1>8, <1>9, <1>10, <1>11, <1>12, <1>13,
     <1>14, <1>15 DEF Next

\* A window is never left as an empty frame once the toolbar rests and no build
\* is under way, for every list of windows and every sequence of moves
\* (queue_uncovered_window_tiles and every path to it).
THEOREM NothingIsForgotten == Spec => []NothingForgotten
<1>1. Init => Remembered
  <2> SUFFICES ASSUME Init PROVE Remembered
    OBVIOUS
  <2>1. <<>> \in Seq(Tiles)
    OBVIOUS
  <2> QED
    BY <2>1 DEF Init, Remembered, Inventory, NothingForgotten, InChooser
<1>2. IInv /\ Remembered /\ [Next]_vars => Remembered'
  <2> SUFFICES ASSUME IInv, Remembered, [Next]_vars PROVE Remembered'
    OBVIOUS
  <2>1. CASE UNCHANGED vars
    BY <2>1 DEF vars, Remembered, Inventory, NothingForgotten, InChooser, Choosing, tileVars, chrome
  <2> QED
    BY <2>1, StepRemembers
<1>3. Remembered => NothingForgotten
  BY DEF Remembered
<1> QED
  BY <1>1, <1>2, <1>3, ChooserInvariant, PTL DEF Spec
=============================================================================
