---------------------------- MODULE MCCloudSync -----------------------------
(* One device may ask twice and the other once; contents are interchangeable. *)
EXTENDS CloudSync, TLC

CONSTANTS d1, d2
MCOps == {<<d1, 1>>, <<d1, 2>>, <<d2, 1>>}
RebornOps == {<<d1, 1>>, <<d2, 1>>, <<d2, 2>>, <<d2, 3>>}

Symmetry == Permutations(Contents)

\* A request whose receipt was not read is over: no later step asks whether it was.
View == <<asked, saves, game, marker, view, conflict, phase, op, found, open, seen, mistaken, made>>
=============================================================================
