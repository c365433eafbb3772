----------------------------- MODULE MCGraphLoad -----------------------------
(* Every edge file of up to MaxLines lines over Ids.  With Words smaller than *)
(* the largest id there are ids that edge_set cannot tell apart.              *)
EXTENDS GraphLoad

CONSTANTS Ids, MaxLines

MCFiles == UNION {[1 .. n -> Ids \X Ids \X {0, 1}] : n \in 1 .. MaxLines}

\* A node that is given twice, and one that may have no edge.
MCNodeFiles == {<< >>, <<<<1, 7>>, <<5, 8>>, <<1, 9>>>>}
==============================================================================
