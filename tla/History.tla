------------------------------- MODULE History -------------------------------
(***************************************************************************)
(* The bounded history that pkg/keygen and pkg/debugprobe keep: entries    *)
(* with consecutive ids, of which the last maxHistory are kept.  An entry  *)
(* is modelled by its id; ids are ints and wrap around.                    *)
(***************************************************************************)
EXTENDS Integers, Sequences

CONSTANTS
    MaxHistory,  \* maxHistory (20 in both packages)
    IntModulus   \* 2^w for the width of int

ASSUME HistoryAssumption ==
    /\ MaxHistory \in Nat
    /\ IntModulus \in Nat
    /\ IntModulus > MaxHistory

Ids == 0 .. IntModulus - 1

\* Mutant: an id that is not an int.
SuccTooFar(id) == (id % IntModulus) + 1

\* id + 1 on an int
Succ(id) == (id + 1) % IntModulus

\* Mutant: the oldest entries are kept.
RecordFirst(s, id) ==
    LET t == Append(s, id)
    IN  IF Len(t) > MaxHistory THEN SubSeq(t, 1, MaxHistory) ELSE t

\* append, then cut to the last MaxHistory entries
Record(s, id) ==
    LET t == Append(s, id)
    IN  IF Len(t) > MaxHistory THEN SubSeq(t, Len(t) - MaxHistory + 1, Len(t)) ELSE t

\* s is the end of the sequence of ids that starts with first and goes on with
\* next: its ids follow one another, none is missing at its end, and none at
\* its beginning unless it is full.
Window(s, first, next) ==
    /\ Len(s) <= MaxHistory
    /\ \A i \in 1 .. Len(s) - 1 : s[i + 1] = Succ(s[i])
    /\ Len(s) > 0 => Succ(s[Len(s)]) = next
    /\ Len(s) < MaxHistory => next = first + Len(s)
=============================================================================
