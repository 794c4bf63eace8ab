----------------------------- MODULE MCChooser ------------------------------
EXTENDS Chooser
CONSTANTS a, b

\* Two windows; the toolbar stands over one of them and its menu opens over the
\* other.
MCEnumerated == <<a, b>>
MCPositions == {"left", "right"}
MCBarCovers == [p \in MCPositions |-> IF p = "left" THEN {1} ELSE {2}]
MCMenuCovers == [p \in MCPositions |-> IF p = "left" THEN {2} ELSE {1}]
=============================================================================
