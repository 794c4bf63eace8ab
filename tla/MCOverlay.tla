----------------------------- MODULE MCOverlay ------------------------------
EXTENDS Overlay, TLC
CONSTANTS w1

\* A display of five pixels with a window's edge in the middle; the pointer may
\* be on another display, and a window's frame may reach over the edge.
MCSource == Span(0, 5)
MCPoints == {-1, 0, 1, 3, 6}
MCRemembered == {Span(1, 2), Span(4, 9)}
MCWindowRects == {Span(1, 3), Span(3, 8)}
MCEdges == <<3, 0, 5>>
=============================================================================
