------------------------------ MODULE MCRepaint -----------------------------
\* Two windows of a column of five cells; the second is animated.
EXTENDS Repaint

MCFrames == <<[y |-> 1, h |-> 1], [y |-> 2, h |-> 2]>>
=============================================================================
