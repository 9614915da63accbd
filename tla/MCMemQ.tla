------------------------------- MODULE MCMemQ -------------------------------
(* Small instances of MemQ for TLC.                                        *)
EXTENDS MemQ, TLC

\* Names that differ in more than case: each has a stream of its own.
DistinctNames == [q \in Queues |-> q]

\* Names that ToUpper maps to the same stream.
AliasedNames == [q \in Queues |-> CHOOSE s \in Streams : TRUE]

Symmetry == Permutations(Handlers) \cup Permutations(Queues) \cup Permutations(Msgs)
HandlerSymmetry == Permutations(Handlers) \cup Permutations(Msgs)
=============================================================================
