--------------------------- MODULE MCWindowRender ---------------------------
(* WindowRender on small sets, for TLC.                                    *)
EXTENDS WindowRender, TLC

CONSTANTS a, b, c, w, x, y

\* Which windows the calls draw, up to a renaming of calls and windows: all
\* different, or two the same.
Targets ==
    { (a :> w) @@ (b :> x) @@ (c :> y), (a :> w) @@ (b :> w) @@ (c :> x) }

MCInit == target \in Targets /\ Init
MCSpec == MCInit /\ [][Next]_vars /\ Scheduled
=============================================================================
