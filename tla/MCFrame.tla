------------------------------ MODULE MCFrame ------------------------------
(* Small instances of Frame for TLC. *)
EXTENDS FrameInv, TLC

CONSTANTS p1, p2, e1, e2, panel, tiny, frontend, probe

\* A panel blob costs one unit, the blob of a 1x1 probe nothing.
MCSize == [g \in Geometry |-> IF g = panel THEN 1 ELSE 0]
MCAsks == [x \in Handler |-> IF x = probe THEN tiny ELSE panel]

\* A photo's first ETag goes by its name; e1 and e2 are those of later versions.
MCFirstETag == [p \in Photo |-> p]
AllButFirst == ETag \ {p1}

PhotoSymmetry == Permutations(Photo)
=============================================================================
