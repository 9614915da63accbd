-------------------------------- MODULE Probe --------------------------------
(***************************************************************************)
(* The liveness and readiness probes of kuard, pkg/debugprobe.  A client   *)
(* puts failNext; the probe then fails that often, or forever.  Handlers   *)
(* run under p.mu, so each is one step; APIPut is SetConfig followed by    *)
(* APIGet, which changes nothing.                                          *)
(***************************************************************************)
EXTENDS History

CONSTANT FailNexts  \* the values of failNext that clients put

ASSUME FailNextsAssumption == FailNexts \subseteq Int

VARIABLES
    failNext,  \* p.c.FailNext
    lastID,    \* p.lastID
    history,   \* p.history
    \* history, read by no action
    told,      \* the failNext last put
    failed,    \* failures since, if they were to be counted
    passed     \* an answer since was a success

vars == <<failNext, lastID, history, told, failed, passed>>

TypeOK ==
    /\ failNext \in Int
    /\ lastID \in Ids
    /\ history \in Seq(Ids)
    /\ told \in Int
    /\ failed \in Nat
    /\ passed \in BOOLEAN

\* New: the zero configuration, no request recorded.
Init ==
    /\ failNext = 0
    /\ lastID = 0
    /\ history = <<>>
    /\ told = 0
    /\ failed = 0
    /\ passed = FALSE

\* A body that does not decode is answered 400 and changes nothing.
SetConfig(n) ==
    /\ failNext' = n
    /\ told' = n
    /\ failed' = 0
    /\ passed' = FALSE
    /\ UNCHANGED <<lastID, history>>

\* Mutant: the entry is recorded with the id of the one before.
RecordRequestLate ==
    /\ lastID' = Succ(lastID)
    /\ history' = Record(history, lastID)

RecordRequest ==
    /\ lastID' = Succ(lastID)
    /\ history' = Record(history, Succ(lastID))

\* Mutant: zero is a failure too.
HandleAtZero ==
    /\ \/ /\ failNext >= 0
          /\ failNext' = failNext - 1
          /\ failed' = failed + 1
          /\ UNCHANGED passed
       \/ failNext < 0 /\ UNCHANGED <<failNext, failed, passed>>
    /\ RecordRequest
    /\ UNCHANGED told

\* One probe: 500 and one failure less, 500 for ever, or 200.
Handle ==
    /\ \/ /\ failNext > 0
          /\ failNext' = failNext - 1
          /\ failed' = failed + 1
          /\ UNCHANGED passed
       \/ failNext < 0 /\ UNCHANGED <<failNext, failed, passed>>
       \/ failNext = 0 /\ passed' = TRUE /\ UNCHANGED <<failNext, failed>>
    /\ RecordRequest
    /\ UNCHANGED told

Next == Handle \/ \E n \in FailNexts : SetConfig(n)

Spec == Init /\ [][Next]_vars

-----------------------------------------------------------------------------
(* Properties.                                                             *)

\* config.go:26: told to fail n > 0 times, the probe fails exactly the next n
\* requests and none after; told a negative number it never passes again.
FailsAsTold ==
    /\ told >= 0 => /\ failed <= told
                    /\ failed + failNext = told
                    /\ passed => failed = told
    /\ told < 0 => ~passed

\* The history is the end of one sequence of ids that started at 1.
HistoryInOrder == Window(history, 1, Succ(lastID))
=============================================================================
