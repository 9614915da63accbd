------------------------------- MODULE KeyGen -------------------------------
(***************************************************************************)
(* The key generation workload of kuard, pkg/keygen: LoadConfig replaces   *)
(* the configuration and restarts the workload; a workload is a goroutine  *)
(* that generates keys until a limit is reached (workload.go) or works off *)
(* a MemQ queue (memq.go).  kg.mu guards Restart, WorkloadOutput and       *)
(* APIGet, but LoadConfig writes kg.config without it: the configuration   *)
(* is written field by field while others may read it.                     *)
(***************************************************************************)
EXTENDS History, FiniteSets

CONSTANTS
    Puts,       \* goroutines in LoadConfig: APIPut requests, and main at its start
    Workers,    \* bound: workload goroutines that exist at the same time
    Configs,    \* the configurations clients put
    None

Fields == {"enable", "queue", "server", "num", "timed", "exit"}

\* Config: queue and server stand for a non-empty MemQQueue and MemQServer,
\* timed for a positive TimeToRun; num is NumToGen.
ConfigType == [enable : BOOLEAN, queue : BOOLEAN, server : BOOLEAN,
               num : Nat, timed : BOOLEAN, exit : BOOLEAN]

ZeroConfig == [enable |-> FALSE, queue |-> FALSE, server |-> FALSE,
               num |-> 0, timed |-> FALSE, exit |-> FALSE]

ASSUME KeyGenAssumption ==
    /\ Configs \subseteq ConfigType
    /\ Configs \ {ZeroConfig} # {}
    /\ None \notin Workers \cup Puts

VARIABLES
    config,     \* kg.config
    history,    \* kg.history
    nextID,     \* kg.nextHistoryID
    current,    \* the workload that kg.cancelFunc cancels, or None
    active,     \* the gauge keygenActive
    mu,         \* the goroutine in Restart that holds kg.mu, or None
    put,        \* put[p]: where LoadConfig or APIPut p is
    worker,     \* worker[w]: a workload goroutine
    exited      \* os.Exit was called

vars == <<config, history, nextID, current, active, mu, put, worker,
          exited>>

PutPCs == {"idle", "write", "restart", "mode", "spawn", "get"}

WorkerPCs == {"stopped", "start", "check", "limit", "generate", "dequeue",
              "answered", "sleep", "exit"}

\* What a Dequeue ends with.
Answers == {"item", "empty", "error"}

IdlePut == [pc |-> "idle", c |-> ZeroConfig, left |-> {}, memq |-> FALSE]

\* A free slot, and what a finished workload is.
Stopped == [pc |-> "stopped", c |-> ZeroConfig, memq |-> FALSE, generated |-> 0,
            fired |-> FALSE, cancelled |-> FALSE, late |-> 0, answer |-> "none"]

TypeOK ==
    /\ config \in ConfigType
    /\ history \in Seq(Ids)
    /\ nextID \in Ids
    /\ current \in Workers \cup {None}
    /\ active \in BOOLEAN
    /\ mu \in Puts \cup {None}
    /\ put \in [Puts -> [pc : PutPCs, c : ConfigType, left : SUBSET Fields,
                         memq : BOOLEAN]]
    /\ worker \in [Workers -> [pc : WorkerPCs,
                               c : ConfigType,        \* its copy of the configuration
                               memq : BOOLEAN,        \* a memQWorker
                               generated : Nat,
                               fired : BOOLEAN,       \* its timer has expired
                               cancelled : BOOLEAN,   \* its context is cancelled
                               late : Nat,            \* keys made after that
                               answer : Answers \cup {"none"}]]  \* to its Dequeue
    /\ exited \in BOOLEAN

\* New: the zero configuration, nothing running.
Init ==
    /\ config = ZeroConfig
    /\ history = <<>>
    /\ nextID = 0
    /\ current = None
    /\ active = FALSE
    /\ mu = None
    /\ put = [p \in Puts |-> IdlePut]
    /\ worker = [w \in Workers |-> Stopped]
    /\ exited = FALSE

-----------------------------------------------------------------------------
\* WorkloadOutput, under kg.mu.  Its counter of keys is left out.
Output ==
    /\ mu = None
    /\ history' = Record(history, nextID)
    /\ nextID' = Succ(nextID)

Silent == UNCHANGED <<history, nextID>>

-----------------------------------------------------------------------------
(* LoadConfig and APIPut.                                                  *)

\* The fields a write can change: in the others all configurations agree with the
\* one kuard starts with.
Varying == {f \in Fields : \E c \in Configs : c[f] # ZeroConfig[f]}

\* A PUT with a valid configuration arrives, or main calls LoadConfig; a body
\* that does not decode is answered 400 and changes nothing.
BeginPut(p, c) ==
    /\ put[p].pc = "idle"
    /\ put' = [put EXCEPT ![p] = [IdlePut EXCEPT !.pc = "write", !.c = c, !.left = Varying]]
    /\ UNCHANGED <<config, history, nextID, current, active, mu, worker>>

\* kg.config = c, without kg.mu: the words of the struct are written in turn.
WriteField(p, f) ==
    /\ put[p].pc = "write"
    /\ f \in put[p].left
    /\ config' = [config EXCEPT ![f] = put[p].c[f]]
    /\ put' = [put EXCEPT ![p].left = @ \ {f},
                          ![p].pc = IF put[p].left = {f} THEN "restart" ELSE "write"]
    /\ UNCHANGED <<history, nextID, current, active, mu, worker>>

\* bound: a new workload needs a slot.
FreeSlot == \E w \in Workers : worker[w].pc = "stopped"

\* Mutant: Restart forgets the running workload instead of cancelling it.
RestartWithoutCancel(p) ==
    /\ put[p].pc = "restart"
    /\ mu = None
    /\ config.enable => FreeSlot
    /\ current' = None
    /\ active' = config.enable
    /\ IF config.enable
         THEN /\ mu' = p
              /\ put' = [put EXCEPT ![p].pc = "mode"]
         ELSE /\ mu' = None
              /\ put' = [put EXCEPT ![p].pc = "get"]
    /\ UNCHANGED <<config, history, nextID, worker>>

\* Restart takes kg.mu, cancels the running workload and reads Enable.
Restart(p) ==
    /\ put[p].pc = "restart"
    /\ mu = None
    /\ config.enable => FreeSlot
    /\ current' = None
    /\ worker' = [w \in Workers |->
                    IF w = current /\ worker[w].pc # "stopped"
                      THEN [worker[w] EXCEPT !.cancelled = TRUE] ELSE worker[w]]
    /\ active' = config.enable
    /\ IF config.enable
         THEN /\ mu' = p
              /\ put' = [put EXCEPT ![p].pc = "mode"]
         ELSE /\ mu' = None
              /\ put' = [put EXCEPT ![p].pc = "get"]
    /\ UNCHANGED <<config, history, nextID>>

\* Mutant: one of the two variables is enough.
ChooseModeByEither(p) ==
    /\ put[p].pc = "mode"
    /\ put' = [put EXCEPT ![p].pc = "spawn", ![p].memq = config.queue \/ config.server]
    /\ UNCHANGED <<config, history, nextID, current, active, mu, worker>>

\* It reads MemQQueue and MemQServer ...
ChooseMode(p) ==
    /\ put[p].pc = "mode"
    /\ put' = [put EXCEPT ![p].pc = "spawn", ![p].memq = config.queue /\ config.server]
    /\ UNCHANGED <<config, history, nextID, current, active, mu, worker>>

\* ... and copies the configuration into a new workload.
Spawn(p, w) ==
    /\ put[p].pc = "spawn"
    /\ worker[w].pc = "stopped"
    /\ worker' = [worker EXCEPT ![w] =
                    [Stopped EXCEPT !.pc = "start", !.c = config, !.memq = put[p].memq]]
    /\ current' = w
    /\ mu' = None
    /\ put' = [put EXCEPT ![p].pc = "get", ![p].memq = FALSE]
    /\ UNCHANGED <<config, history, nextID, active>>

\* APIGet reads configuration and history under kg.mu.
Get(p) ==
    /\ put[p].pc = "get"
    /\ mu = None
    /\ put' = [put EXCEPT ![p] = IdlePut]
    /\ UNCHANGED <<config, history, nextID, current, active, mu, worker>>

-----------------------------------------------------------------------------
(* A workload.                                                             *)

Becomes(w, l) == worker' = [worker EXCEPT ![w].pc = l]

Stop(w) == worker' = [worker EXCEPT ![w] = Stopped]

\* What no step of a workload changes.
Rest == UNCHANGED <<config, current, active, mu, put>>

\* done(FALSE): the process exits after the last line, if it is asked to.
Complete(w) ==
    /\ Output
    /\ IF worker[w].c.exit THEN Becomes(w, "exit") ELSE Stop(w)

Begin(w) ==
    /\ worker[w].pc = "start"
    /\ Output
    /\ Becomes(w, "check")
    /\ Rest

\* time.After: only the local workload has a timer.
Fire(w) ==
    /\ worker[w].pc \notin {"stopped", "start", "exit"}
    /\ ~worker[w].memq /\ worker[w].c.timed /\ ~worker[w].fired
    /\ worker' = [worker EXCEPT ![w].fired = TRUE]
    /\ Silent /\ Rest

\* Mutant: the context is not looked at.
CheckTimerOnly(w) ==
    /\ worker[w].pc = "check"
    /\ \/ worker[w].fired /\ Complete(w)
       \/ ~worker[w].fired /\ Silent
          /\ Becomes(w, IF worker[w].memq THEN "dequeue" ELSE "limit")
    /\ Rest

\* The select of isDone: when the context and the timer are both ready, either
\* branch may be taken.
Check(w) ==
    /\ worker[w].pc = "check"
    /\ \/ worker[w].cancelled /\ Output /\ Stop(w)
       \/ worker[w].fired /\ Complete(w)
       \/ /\ ~worker[w].cancelled /\ ~worker[w].fired
          /\ Silent
          /\ Becomes(w, IF worker[w].memq THEN "dequeue" ELSE "limit")
    /\ Rest

AtLimit(w) == worker[w].c.num > 0 /\ worker[w].generated >= worker[w].c.num

\* Mutant: one key too many.
LimitOffByOne(w) ==
    /\ worker[w].pc = "limit"
    /\ IF worker[w].c.num > 0 /\ worker[w].generated > worker[w].c.num
         THEN Complete(w) ELSE Silent /\ Becomes(w, "generate")
    /\ Rest

Limit(w) ==
    /\ worker[w].pc = "limit"
    /\ IF AtLimit(w) THEN Complete(w) ELSE Silent /\ Becomes(w, "generate")
    /\ Rest

\* Mutant: an item is done and not counted.
ItemNotCounted(k) == [k EXCEPT !.pc = "check",
                               !.late = IF k.cancelled THEN @ + 1 ELSE @,
                               !.answer = "none"]

\* itemDone.  Without NumToGen nothing depends on generated.
ItemDone(k) == [k EXCEPT !.pc = "check",
                         !.generated = IF k.c.num > 0 /\ ~k.memq THEN @ + 1 ELSE @,
                         !.late = IF k.cancelled THEN @ + 1 ELSE @,
                         !.answer = "none"]

\* generateKey and itemDone.
Generate(w) ==
    /\ worker[w].pc = "generate"
    /\ Output
    /\ worker' = [worker EXCEPT ![w] = ItemDone(@)]
    /\ Rest

\* The answer to Dequeue.  The client has no timeout: it may never come.
Dequeue(w) ==
    /\ worker[w].pc = "dequeue"
    /\ \E a \in Answers :
         worker' = [worker EXCEPT ![w].pc = "answered", ![w].answer = a]
    /\ Silent /\ Rest

\* Mutant: an error is taken for an empty queue.
ReactToAnyFailure(w) ==
    /\ worker[w].pc = "answered"
    /\ \/ worker[w].answer = "item" /\ Silent /\ Becomes(w, "generate")
       \/ worker[w].answer # "item" /\ worker[w].c.exit /\ Silent /\ Becomes(w, "exit")
       \/ worker[w].answer # "item" /\ ~worker[w].c.exit /\ Output /\ Becomes(w, "sleep")
    /\ Rest

\* An item is worked off, an error and an empty queue are asked about again, but
\* an empty queue ends a worker that exits on completion.
React(w) ==
    /\ worker[w].pc = "answered"
    /\ \/ worker[w].answer = "item" /\ Silent /\ Becomes(w, "generate")
       \/ worker[w].answer = "error" /\ Output /\ Becomes(w, "sleep")
       \/ worker[w].answer = "empty" /\ worker[w].c.exit /\ Silent /\ Becomes(w, "exit")
       \/ worker[w].answer = "empty" /\ ~worker[w].c.exit /\ Output /\ Becomes(w, "sleep")
    /\ Rest

\* One second later.
Wake(w) ==
    /\ worker[w].pc = "sleep"
    /\ Silent
    /\ worker' = [worker EXCEPT ![w].pc = "check", ![w].answer = "none"]
    /\ Rest

\* os.Exit ends the process and with it every goroutine.
Exit(w) ==
    /\ worker[w].pc = "exit"
    /\ exited' = TRUE
    /\ UNCHANGED <<config, history, nextID, current, active, mu, put, worker>>

-----------------------------------------------------------------------------
Load(p) ==
    \/ \E f \in Varying : WriteField(p, f)
    \/ Restart(p) \/ ChooseMode(p) \/ Get(p)
    \/ \E w \in Workers : Spawn(p, w)

\* What a workload does by itself, and what it waits for.
Work(w) == Begin(w) \/ Check(w) \/ Limit(w) \/ Generate(w) \/ React(w) \/ Wake(w)
Awaited(w) == Fire(w) \/ Dequeue(w)

Running ==
    /\ ~exited
    /\ \/ \E p \in Puts : Load(p) \/ \E c \in Configs : BeginPut(p, c)
       \/ \E w \in Workers : Work(w) \/ Awaited(w)
    /\ UNCHANGED exited

Next == Running \/ \E w \in Workers : ~exited /\ Exit(w)

Spec == Init /\ [][Next]_vars

(***************************************************************************)
(* Fairness: the scheduler lets every goroutine run that can, kg.mu is a   *)
(* sync.Mutex and so hands over to a waiter, and timers fire.  The server  *)
(* a memQWorker calls need not answer.                                     *)
(***************************************************************************)
LiveSpec ==
    /\ Spec
    /\ \A p \in Puts : SF_vars(~exited /\ Load(p) /\ UNCHANGED exited)
    /\ \A w \in Workers : /\ SF_vars(~exited /\ Work(w) /\ UNCHANGED exited)
                          /\ WF_vars(~exited /\ Fire(w) /\ UNCHANGED exited)
                          /\ WF_vars(~exited /\ Exit(w))

-----------------------------------------------------------------------------
(* Properties.                                                             *)

Runs(w) == worker[w].pc # "stopped"

\* However PUTs interleave, a workload that is not cancelled is the one that
\* kg.cancelFunc cancels: none runs on that a later PUT could not stop.
OnlyOneLive ==
    \A w \in Workers : Runs(w) /\ ~worker[w].cancelled => w = current

InFlight(p) == put[p].pc \notin {"idle", "get"}

\* Although kg.config is written without the lock and may be read half-written,
\* once no LoadConfig is under way the workload and the gauge are those of
\* kg.config: the last Restart reads it after the last write.
SettledConfig ==
    (\A p \in Puts : ~InFlight(p)) =>
        /\ active = config.enable
        /\ current # None <=> config.enable
        /\ \A w \in Workers : w = current /\ Runs(w) =>
             worker[w].c = config /\ worker[w].memq = (config.queue /\ config.server)

\* A workload makes at most one key after its cancellation: the one it was
\* working on, or the item it was waiting for.
OneLateKey == \A w \in Workers : worker[w].late <= 1

\* The process exits only for a workload that is asked to and is complete: it
\* made exactly NumToGen keys, its time is up, or the server told it that its
\* queue is empty.  No error of the server ends the process, nor does a limit that
\* is not reached, whatever restarts and cancellations come between.
CompleteAtExit ==
    \A w \in Workers : worker[w].pc = "exit" =>
        /\ worker[w].c.exit
        /\ worker[w].memq => worker[w].answer = "empty"
        /\ ~worker[w].memq =>
             \/ worker[w].fired
             \/ worker[w].generated = worker[w].c.num /\ worker[w].c.num > 0

\* Outputs of several workloads interleave, but the history always is the end
\* of one sequence of ids without gap or repetition.
HistoryInOrder == Window(history, 0, nextID)

\* A local workload with a limit ends, or the process does: neither restarts nor
\* the lock keep it from noticing.
LimitedWorkloadEnds ==
    \A w \in Workers :
        Runs(w) /\ ~worker[w].memq /\ (worker[w].c.num > 0 \/ worker[w].c.timed)
            ~> ~Runs(w) \/ exited

\* A cancelled workload ends, unless the process does or the server never
\* answers its Dequeue.
CancelledEnds ==
    \A w \in Workers :
        worker[w].cancelled
            ~> \/ ~worker[w].cancelled
               \/ exited
               \/ [](worker[w].pc = "dequeue")
=============================================================================
