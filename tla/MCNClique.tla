------------------------------ MODULE MCNClique ------------------------------
(* Every graph over four nodes; with elements of two bytes a common           *)
(* neighbourhood of two nodes fills a slot exactly.  Graphs over five nodes,  *)
(* the last adjacent to all, whose slots begin inside the words of others and *)
(* in which a register is stored behind a slot.  And a graph over eight in    *)
(* which, with elements of four bytes, a common neighbourhood exceeds a slot. *)
EXTENDS NClique

Pairs(S) == kSubset(2, S)

AllOfFour == {<<4, g>> : g \in SUBSET Pairs(0 .. 3)}

SomeOfFive ==
  {<<5, g \cup {{u, 4} : u \in 0 .. 3}>> : g \in SUBSET (Pairs(0 .. 3) \ {{0, 3}})}

OfFourOrFive == AllOfFour \cup SomeOfFive

CliqueInEight == {<<8, Pairs(0 .. 4) \cup {{0, 5}, {0, 6}, {0, 7}}>>}
==============================================================================
