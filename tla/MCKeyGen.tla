------------------------------ MODULE MCKeyGen ------------------------------
(* Small instances of KeyGen for TLC.                                      *)
EXTENDS KeyGen, TLC

Counted == [ZeroConfig EXCEPT !.enable = TRUE, !.num = 2, !.exit = TRUE]
Timed   == [ZeroConfig EXCEPT !.enable = TRUE, !.timed = TRUE, !.exit = TRUE]
FromMemQ == [ZeroConfig EXCEPT !.enable = TRUE, !.queue = TRUE, !.server = TRUE]

\* For two PUTs: from here or from a queue, or nothing at all.
Modes == {FromMemQ, [FromMemQ EXCEPT !.queue = FALSE],
          [FromMemQ EXCEPT !.enable = FALSE, !.queue = FALSE]}

\* For two workloads: each way to end, and with it the process.
Limits == {Counted, Timed, [FromMemQ EXCEPT !.exit = TRUE]}

\* A limited and an unlimited one while the process goes on.
Endings == {[Counted EXCEPT !.num = 1, !.exit = FALSE], FromMemQ}

Symmetry == Permutations(Puts) \cup Permutations(Workers)
=============================================================================
