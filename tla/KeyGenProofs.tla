---------------------------- MODULE KeyGenProofs ----------------------------
(***************************************************************************)
(* Theorems about the key generation workload, for any number of PUTs and  *)
(* workloads, any configurations, history length and width of int.         *)
(***************************************************************************)
EXTENDS KeyGen, HistoryProofs, TLAPS

\* The bound of the history makes TypeOK inductive: Record cuts off one entry.
TypeInv == TypeOK /\ HistoryInOrder

\* A goroutine is between the two halves of Restart exactly while it holds
\* kg.mu; the workload that was running is cancelled then.
LockInv ==
    /\ \A p \in Puts : mu = p <=> put[p].pc \in {"mode", "spawn"}
    /\ mu # None => current = None /\ active

Unsettled(p) == put[p].pc \in {"write", "restart"}

\* Before the last write is followed by a Restart nothing is known.  Then the
\* gauge is right, and the workload of the configuration is current or about to
\* be started by the goroutine that holds kg.mu.
ConfigInv ==
    (\A p \in Puts : ~Unsettled(p)) =>
        /\ active = config.enable
        /\ mu = None => (current # None <=> config.enable)
        /\ \A p \in Puts : put[p].pc = "spawn" =>
             put[p].memq = (config.queue /\ config.server)
        /\ \A w \in Workers : w = current /\ Runs(w) =>
             worker[w].c = config /\ worker[w].memq = (config.queue /\ config.server)

-----------------------------------------------------------------------------
(* Types.                                                                  *)

\* An output records the next id and keeps the window.
LEMMA OutputInv == TypeInv /\ (Output \/ Silent) =>
                     /\ history' \in Seq(Ids) /\ nextID' \in Ids
                     /\ HistoryInOrder'
<1> SUFFICES ASSUME TypeInv, Output \/ Silent
             PROVE  /\ history' \in Seq(Ids) /\ nextID' \in Ids
                    /\ HistoryInOrder'
  OBVIOUS
<1> USE DEF TypeInv, TypeOK
<1>1. CASE Output
  <2>1. history' = Record(history, nextID) /\ nextID' = Succ(nextID)
    BY <1>1 DEF Output
  <2>2. history' \in Seq(Ids) /\ nextID' \in Ids
    BY <2>1, RecordShape, SuccType DEF HistoryInOrder, Window
  <2>3. Window(history', 0, nextID')
    BY <2>1, RecordWindow DEF HistoryInOrder
  <2> QED
    BY <2>2, <2>3 DEF HistoryInOrder
<1>2. CASE Silent
  BY <1>2 DEF Silent, HistoryInOrder, Window, Succ
<1> QED
  BY <1>1, <1>2

WorkerType == [pc : WorkerPCs, c : ConfigType, memq : BOOLEAN, generated : Nat,
               fired : BOOLEAN, cancelled : BOOLEAN, late : Nat,
               answer : Answers \cup {"none"}]

PutType == [pc : PutPCs, c : ConfigType, left : SUBSET Fields, memq : BOOLEAN]

\* The configuration New starts with, and free slots, have their types.
LEMMA ConstantTypes == ZeroConfig \in ConfigType /\ Stopped \in WorkerType /\ IdlePut \in PutType
BY DEF ZeroConfig, ConfigType, Stopped, WorkerType, WorkerPCs, IdlePut, PutType, PutPCs

\* Writing one field of a configuration gives a configuration.
LEMMA FieldType ==
    ASSUME NEW c \in ConfigType, NEW d \in ConfigType, NEW f \in Fields
    PROVE  [c EXCEPT ![f] = d[f]] \in ConfigType
BY DEF Fields, ConfigType

\* New starts in the invariant.
LEMMA InitTypeInv == Init => TypeInv
<1> SUFFICES ASSUME Init PROVE TypeInv
  OBVIOUS
<1>1. 0 \in Ids /\ <<>> \in Seq(Ids) /\ Len(<<>>) = 0
  BY HistoryAssumption DEF Ids
<1>2. HistoryInOrder
  BY <1>1, HistoryAssumption DEF Init, HistoryInOrder, Window
<1>3. put \in [Puts -> PutType] /\ worker \in [Workers -> WorkerType]
  BY ConstantTypes DEF Init
<1>4. active \in BOOLEAN /\ exited \in BOOLEAN
  BY DEF Init
<1>5. config \in ConfigType /\ mu = None /\ current = None
  BY ConstantTypes DEF Init
<1> QED
  BY <1>1, <1>2, <1>3, <1>4, <1>5 DEF Init, TypeInv, TypeOK, WorkerType, PutType

\* A workload that has made an item is a workload.
LEMMA ItemDoneType == ASSUME NEW k \in WorkerType PROVE ItemDone(k) \in WorkerType
<1> DEFINE g == IF k.c.num > 0 /\ ~k.memq THEN k.generated + 1 ELSE k.generated
           l == IF k.cancelled THEN k.late + 1 ELSE k.late
<1>1. g \in Nat /\ l \in Nat
  BY DEF WorkerType
<1>2. ItemDone(k) = [k EXCEPT !.pc = "check", !.generated = g, !.late = l, !.answer = "none"]
  BY Zenon DEF ItemDone
<1> HIDE DEF g, l
<1> QED
  BY <1>1, <1>2 DEF WorkerType, WorkerPCs

\* So is one that has heard or forgotten an answer.
LEMMA AnswerType ==
    ASSUME NEW k \in WorkerType, NEW l \in WorkerPCs, NEW a \in Answers \cup {"none"}
    PROVE  [k EXCEPT !.pc = l, !.answer = a] \in WorkerType
BY DEF WorkerType

\* A workload's own steps keep the types.
LEMMA WorkTypeInv ==
    ASSUME TypeInv, NEW w \in Workers, Work(w) \/ Awaited(w) \/ Exit(w)
    PROVE  worker' \in [Workers -> WorkerType]
<1>1. worker \in [Workers -> WorkerType]
  BY DEF TypeInv, TypeOK, WorkerType
<1>2. ASSUME NEW l \in WorkerPCs, Becomes(w, l) PROVE worker' \in [Workers -> WorkerType]
  BY <1>1, <1>2 DEF Becomes, WorkerType
<1>3. ASSUME Stop(w) PROVE worker' \in [Workers -> WorkerType]
  BY <1>1, <1>3, ConstantTypes DEF Stop
<1>4. ASSUME Complete(w) PROVE worker' \in [Workers -> WorkerType]
  BY <1>2, <1>3, <1>4 DEF Complete, WorkerPCs
<1>5. CASE Begin(w)
  BY <1>1, <1>2, <1>5 DEF Begin, WorkerPCs
<1>6. CASE Fire(w)
  BY <1>1, <1>6 DEF Fire, WorkerType
<1>7. CASE Check(w)
  BY <1>1, <1>2, <1>3, <1>4, <1>7 DEF Check, WorkerPCs
<1>8. CASE Limit(w)
  BY <1>1, <1>2, <1>4, <1>8 DEF Limit, WorkerPCs
<1>9. CASE Generate(w)
  <2>1. ItemDone(worker[w]) \in WorkerType
    BY <1>1, ItemDoneType
  <2> QED
    BY <1>1, <1>9, <2>1 DEF Generate
<1>10. CASE Dequeue(w)
  <2>1. PICK a \in Answers : worker' = [worker EXCEPT ![w].pc = "answered", ![w].answer = a]
    BY <1>10 DEF Dequeue
  <2>2. [worker[w] EXCEPT !.pc = "answered", !.answer = a] \in WorkerType
    BY <1>1, AnswerType DEF WorkerPCs
  <2> QED
    BY <1>1, <2>1, <2>2
<1>11. CASE React(w)
  BY <1>2, <1>11 DEF React, WorkerPCs
<1>12. CASE Wake(w)
  <2>1. [worker[w] EXCEPT !.pc = "check", !.answer = "none"] \in WorkerType
    BY <1>1, AnswerType DEF WorkerPCs
  <2> QED
    BY <1>1, <1>12, <2>1 DEF Wake
<1>13. CASE Exit(w)
  BY <1>1, <1>13 DEF Exit
<1> QED
  BY <1>5, <1>6, <1>7, <1>8, <1>9, <1>10, <1>11, <1>12, <1>13 DEF Work, Awaited

\* What LoadConfig, APIPut and APIGet do keeps the types.
LEMMA LoadTypeInv ==
    ASSUME TypeInv, NEW p \in Puts, Load(p) \/ \E c \in Configs : BeginPut(p, c),
           UNCHANGED exited
    PROVE  TypeInv'
<1> USE DEF TypeInv
<1>1. /\ put \in [Puts -> PutType] /\ worker \in [Workers -> WorkerType]
      /\ config \in ConfigType /\ mu \in Puts \cup {None}
      /\ current \in Workers \cup {None} /\ active \in BOOLEAN
  BY DEF TypeOK, PutType, WorkerType
<1>2. Silent
  BY DEF Load, WriteField, Restart, ChooseMode, Get, Spawn, BeginPut, Silent
<1>3. history' \in Seq(Ids) /\ nextID' \in Ids /\ HistoryInOrder'
  BY <1>2, OutputInv
<1>4. SUFFICES /\ put' \in [Puts -> PutType] /\ worker' \in [Workers -> WorkerType]
               /\ config' \in ConfigType /\ mu' \in Puts \cup {None}
               /\ current' \in Workers \cup {None} /\ active' \in BOOLEAN
  BY <1>2, <1>3 DEF TypeOK, PutType, WorkerType
<1>5. ASSUME NEW c \in Configs, BeginPut(p, c)
      PROVE  /\ put' \in [Puts -> PutType]
             /\ UNCHANGED <<worker, config, mu, current, active>>
  <2>1. c \in ConfigType /\ Varying \subseteq Fields
    BY KeyGenAssumption DEF Varying
  <2>2. [IdlePut EXCEPT !.pc = "write", !.c = c, !.left = Varying] \in PutType
    BY <2>1, ConstantTypes DEF PutType, PutPCs
  <2> QED
    BY <1>1, <1>5, <2>2 DEF BeginPut
<1>6. ASSUME NEW f \in Varying, WriteField(p, f)
      PROVE  /\ put' \in [Puts -> PutType] /\ config' \in ConfigType
             /\ UNCHANGED <<worker, mu, current, active>>
  <2>1. put[p].c \in ConfigType /\ f \in Fields
    BY <1>1 DEF PutType, Varying
  <2>2. config' \in ConfigType
    BY <1>1, <1>6, <2>1, FieldType DEF WriteField
  <2>3. put' \in [Puts -> PutType]
    BY <1>1, <1>6 DEF WriteField, PutType, PutPCs
  <2> QED
    BY <1>6, <2>2, <2>3 DEF WriteField
<1>7. ASSUME Restart(p)
      PROVE  /\ put' \in [Puts -> PutType] /\ worker' \in [Workers -> WorkerType]
             /\ mu' \in Puts \cup {None} /\ current' = None /\ active' \in BOOLEAN
             /\ UNCHANGED <<config>>
  <2>1. worker' \in [Workers -> WorkerType]
    <3>1. ASSUME NEW k \in WorkerType PROVE [k EXCEPT !.cancelled = TRUE] \in WorkerType
      BY DEF WorkerType
    <3> QED
      BY <1>1, <1>7, <3>1 DEF Restart
  <2>2. put' \in [Puts -> PutType] /\ mu' \in Puts \cup {None}
    BY <1>1, <1>7 DEF Restart, PutType, PutPCs
  <2>3. active' \in BOOLEAN
    BY <1>1, <1>7 DEF Restart, ConfigType
  <2> QED
    BY <1>7, <2>1, <2>2, <2>3 DEF Restart
<1>8. ASSUME ChooseMode(p)
      PROVE  /\ put' \in [Puts -> PutType]
             /\ UNCHANGED <<worker, config, mu, current, active>>
  <2> DEFINE b == config.queue /\ config.server
  <2>1. b \in BOOLEAN
    OBVIOUS
  <2>2. put' = [put EXCEPT ![p].pc = "spawn", ![p].memq = b]
    BY <1>8 DEF ChooseMode
  <2> HIDE DEF b
  <2>3. put' \in [Puts -> PutType]
    BY <1>1, <2>1, <2>2 DEF PutType, PutPCs
  <2> QED
    BY <1>8, <2>3 DEF ChooseMode
<1>9. ASSUME NEW w \in Workers, Spawn(p, w)
      PROVE  /\ put' \in [Puts -> PutType] /\ worker' \in [Workers -> WorkerType]
             /\ mu' = None /\ current' = w
             /\ UNCHANGED <<config, active>>
  <2>1. [Stopped EXCEPT !.pc = "start", !.c = config, !.memq = put[p].memq] \in WorkerType
    BY <1>1, ConstantTypes DEF WorkerType, WorkerPCs, PutType
  <2>2. worker' \in [Workers -> WorkerType]
    BY <1>1, <1>9, <2>1 DEF Spawn
  <2>3. put' \in [Puts -> PutType]
    BY <1>1, <1>9 DEF Spawn, PutType, PutPCs
  <2> QED
    BY <1>9, <2>2, <2>3 DEF Spawn
<1>10. ASSUME Get(p)
       PROVE  /\ put' \in [Puts -> PutType]
              /\ UNCHANGED <<worker, config, mu, current, active>>
  BY <1>1, <1>10, ConstantTypes DEF Get
<1> QED
  BY <1>1, <1>5, <1>6, <1>7, <1>8, <1>9, <1>10 DEF Load

\* Every step keeps the types and the history in order.
LEMMA NextTypeInv == TypeInv /\ [Next]_vars => TypeInv'
<1> SUFFICES ASSUME TypeInv, [Next]_vars PROVE TypeInv'
  OBVIOUS
<1>1. ASSUME NEW p \in Puts, Load(p) \/ \E c \in Configs : BeginPut(p, c),
             UNCHANGED exited
      PROVE  TypeInv'
  BY <1>1, LoadTypeInv
<1>2. ASSUME NEW w \in Workers, Work(w) \/ Awaited(w) \/ Exit(w), exited' \in BOOLEAN
      PROVE  TypeInv'
  <2>1. UNCHANGED <<config, current, active, mu, put>> /\ (Output \/ Silent)
    BY <1>2 DEF Work, Awaited, Begin, Check, Limit, Generate, React, Wake, Fire, Dequeue,
                Exit, Complete, Rest, Silent
  <2>2. worker' \in [Workers -> WorkerType]
    BY <1>2, WorkTypeInv
  <2>3. history' \in Seq(Ids) /\ nextID' \in Ids /\ HistoryInOrder'
    BY <2>1, OutputInv
  <2> QED
    BY <1>2, <2>1, <2>2, <2>3 DEF TypeInv, TypeOK, WorkerType
<1>3. CASE UNCHANGED vars
  <2>1. HistoryInOrder'
    BY <1>3 DEF vars, TypeInv, HistoryInOrder, Window, Succ
  <2> QED
    BY <1>3, <2>1 DEF vars, TypeInv, TypeOK
<1>4. ASSUME NEW w \in Workers, Exit(w) PROVE exited' \in BOOLEAN
  BY <1>4 DEF Exit
<1>5. exited \in BOOLEAN
  BY DEF TypeInv, TypeOK
<1> QED
  BY <1>1, <1>2, <1>3, <1>4, <1>5 DEF Next, Running

\* In every reachable state the types are right and the history is in order.
THEOREM TypeInvariant == Spec => []TypeInv
BY InitTypeInv, NextTypeInv, PTL DEF Spec

\* Configuration, history, workloads and handlers keep their types; ids and
\* the history stay within the bounds keygen.go gives them.
THEOREM TypeCorrect == Spec => []TypeOK
<1>1. TypeInv => TypeOK
  BY DEF TypeInv
<1> QED
  BY <1>1, TypeInvariant, PTL

\* Any number of workloads may interleave their outputs: the history is the end
\* of one sequence of ids without gap or repetition.
THEOREM KeyGenHistory == Spec => []HistoryInOrder
<1>1. TypeInv => HistoryInOrder
  BY DEF TypeInv
<1> QED
  BY <1>1, TypeInvariant, PTL

-----------------------------------------------------------------------------
(* Restarting.                                                             *)

\* A workload's own steps end it or keep its configuration and its context.
LEMMA WorkKeeps ==
    ASSUME TypeInv, NEW w \in Workers, Work(w) \/ Awaited(w) \/ Exit(w)
    PROVE  /\ UNCHANGED <<config, current, active, mu, put>>
           /\ Runs(w)
           /\ \A v \in Workers : v # w => worker'[v] = worker[v]
           /\ \/ worker'[w] = Stopped
              \/ /\ worker'[w].c = worker[w].c
                 /\ worker'[w].memq = worker[w].memq
                 /\ worker'[w].cancelled = worker[w].cancelled
<1>1. worker \in [Workers -> WorkerType]
  BY DEF TypeInv, TypeOK, WorkerType
<1> DEFINE Kept == /\ \A v \in Workers : v # w => worker'[v] = worker[v]
                   /\ \/ worker'[w] = Stopped
                      \/ /\ worker'[w].c = worker[w].c
                         /\ worker'[w].memq = worker[w].memq
                         /\ worker'[w].cancelled = worker[w].cancelled
<1>2. ASSUME NEW l, Becomes(w, l) PROVE Kept
  BY <1>1, <1>2 DEF Becomes, WorkerType
<1>3. ASSUME Stop(w) PROVE Kept
  BY <1>1, <1>3 DEF Stop
<1>4. ASSUME Complete(w) PROVE Kept
  BY <1>2, <1>3, <1>4 DEF Complete
<1>5. Kept
  <2>1. CASE Fire(w) \/ Dequeue(w) \/ Wake(w)
    BY <1>1, <2>1 DEF Fire, Dequeue, Wake, WorkerType
  <2>2. CASE Generate(w)
    BY <1>1, <2>2 DEF Generate, ItemDone, WorkerType
  <2>3. CASE Exit(w)
    BY <2>3 DEF Exit
  <2> HIDE DEF Kept
  <2>4. CASE Begin(w)
    BY <1>2, <2>4 DEF Begin
  <2>5. CASE Check(w)
    BY <1>2, <1>3, <1>4, <2>5 DEF Check
  <2>6. CASE Limit(w)
    BY <1>2, <1>4, <2>6 DEF Limit
  <2>7. CASE React(w)
    BY <1>2, <2>7 DEF React
  <2> QED
    BY <2>1, <2>2, <2>3, <2>4, <2>5, <2>6, <2>7 DEF Work, Awaited
<1>6. UNCHANGED <<config, current, active, mu, put>> /\ Runs(w)
  BY DEF Work, Awaited, Begin, Check, Limit, Generate, React, Wake, Fire, Dequeue, Exit, Rest, Runs
<1> QED
  BY <1>5, <1>6

\* Nothing runs at first and no LoadConfig is under way.
LEMMA InitRestart == Init => LockInv /\ OnlyOneLive /\ ConfigInv
<1> SUFFICES ASSUME Init PROVE LockInv /\ OnlyOneLive /\ ConfigInv
  OBVIOUS
<1>1. \A w \in Workers : ~Runs(w)
  BY DEF Init, Runs, Stopped
<1>2. \A p \in Puts : put[p].pc = "idle" /\ mu # p
  BY KeyGenAssumption DEF Init, IdlePut
<1>3. active = config.enable /\ ~config.enable
  BY DEF Init, ZeroConfig
<1> QED
  BY <1>1, <1>2, <1>3 DEF Init, LockInv, OnlyOneLive, ConfigInv

\* The steps of LoadConfig, APIPut and APIGet keep the lock invariant.
LEMMA LoadLockInv ==
    ASSUME TypeInv, LockInv, NEW p \in Puts, Load(p) \/ \E c \in Configs : BeginPut(p, c)
    PROVE  LockInv'
<1>1. /\ put \in [Puts -> PutType] /\ mu \in Puts \cup {None} /\ None \notin Puts
  BY KeyGenAssumption DEF TypeInv, TypeOK, PutType
<1> USE DEF LockInv
<1>2. ASSUME NEW c \in Configs, BeginPut(p, c) PROVE LockInv'
  BY <1>1, <1>2 DEF BeginPut, IdlePut, PutType
<1>3. ASSUME NEW f \in Varying, WriteField(p, f) PROVE LockInv'
  BY <1>1, <1>3 DEF WriteField, PutType
<1>4. CASE Restart(p)
  BY <1>1, <1>4 DEF Restart, PutType
<1>5. CASE ChooseMode(p)
  <2>1. /\ UNCHANGED <<mu, current, active>> /\ put[p].pc = "mode"
        /\ \E b : put' = [put EXCEPT ![p].pc = "spawn", ![p].memq = b]
    BY <1>5, Zenon DEF ChooseMode
  <2> QED
    BY <1>1, <2>1 DEF PutType
<1>6. ASSUME NEW w \in Workers, Spawn(p, w) PROVE LockInv'
  BY <1>1, <1>6 DEF Spawn, PutType
<1>7. CASE Get(p)
  BY <1>1, <1>7 DEF Get, IdlePut, PutType
<1> QED
  BY <1>2, <1>3, <1>4, <1>5, <1>6, <1>7 DEF Load

\* Restart cancels what is current, and only then a new workload starts.
LEMMA LoadOnlyOneLive ==
    ASSUME TypeInv, LockInv, OnlyOneLive, NEW p \in Puts,
           Load(p) \/ \E c \in Configs : BeginPut(p, c)
    PROVE  OnlyOneLive'
<1>1. /\ worker \in [Workers -> WorkerType] /\ None \notin Workers
  BY KeyGenAssumption DEF TypeInv, TypeOK, WorkerType
<1> USE DEF OnlyOneLive, Runs
<1>2. CASE Restart(p)
  BY <1>1, <1>2 DEF Restart, WorkerType
<1>3. ASSUME NEW w \in Workers, Spawn(p, w) PROVE OnlyOneLive'
  <2>1. \A v \in Workers : Runs(v) => worker[v].cancelled
    BY <1>1, <1>3, KeyGenAssumption DEF Spawn, LockInv
  <2>2. /\ current' = w
        /\ \A v \in Workers : v # w => worker'[v] = worker[v]
    BY <1>1, <1>3 DEF Spawn
  <2> QED
    BY <2>1, <2>2
<1>4. CASE UNCHANGED <<worker, current>>
  BY <1>4
<1> QED
  BY <1>2, <1>3, <1>4 DEF Load, BeginPut, WriteField, ChooseMode, Get

\* The Restart after the last write establishes what the others keep.
LEMMA LoadConfigInv ==
    ASSUME TypeInv, LockInv, ConfigInv, NEW p \in Puts,
           Load(p) \/ \E c \in Configs : BeginPut(p, c)
    PROVE  ConfigInv'
<1>1. /\ put \in [Puts -> PutType] /\ worker \in [Workers -> WorkerType]
      /\ mu \in Puts \cup {None} /\ None \notin Workers /\ None \notin Puts
      /\ config \in ConfigType
  BY KeyGenAssumption DEF TypeInv, TypeOK, PutType, WorkerType
<1> USE DEF Unsettled
<1>2. ASSUME NEW c \in Configs, BeginPut(p, c) PROVE ConfigInv'
  <2>1. put'[p].pc = "write"
    BY <1>1, <1>2 DEF BeginPut, IdlePut
  <2> QED
    BY <2>1 DEF ConfigInv
<1>3. ASSUME NEW f \in Varying, WriteField(p, f) PROVE ConfigInv'
  <2>1. put'[p].pc \in {"write", "restart"}
    BY <1>1, <1>3 DEF WriteField, PutType
  <2> QED
    BY <2>1 DEF ConfigInv
<1>4. CASE Restart(p)
  <2>1. /\ active' = config'.enable /\ current' = None
        /\ mu' = None => ~config'.enable
    BY <1>1, <1>4 DEF Restart
  <2>2. \A q \in Puts : put'[q].pc # "spawn"
    BY <1>1, <1>4 DEF Restart, LockInv, PutType
  <2> QED
    BY <1>1, <2>1, <2>2 DEF ConfigInv
<1>5. CASE ChooseMode(p)
  <2> DEFINE b == config.queue /\ config.server
  <2>1. /\ UNCHANGED <<config, worker, mu, current, active>> /\ put[p].pc = "mode"
        /\ put' = [put EXCEPT ![p].pc = "spawn", ![p].memq = b]
    BY <1>5 DEF ChooseMode
  <2>2. /\ put'[p].pc = "spawn" /\ put'[p].memq = b
        /\ \A q \in Puts : q # p => put'[q] = put[q]
    <3> HIDE DEF b
    <3> QED
      BY <1>1, <2>1 DEF PutType
  <2> HIDE DEF b
  <2>3. (\A q \in Puts : ~Unsettled(q)') => \A q \in Puts : ~Unsettled(q)
    BY <2>1, <2>2
  <2>4. b = (config.queue /\ config.server)
    BY DEF b
  <2>5. CASE \E q \in Puts : Unsettled(q)'
    BY <2>5 DEF ConfigInv
  <2>6. CASE \A q \in Puts : ~Unsettled(q)'
    <3>1. \A q \in Puts : put'[q].pc = "spawn" => put'[q].memq = (config'.queue /\ config'.server)
      <4>1. \A q \in Puts : put[q].pc = "spawn" => put[q].memq = (config.queue /\ config.server)
        BY <2>3, <2>6, Zenon DEF ConfigInv
      <4>2. config' = config
        BY <2>1
      <4> QED
        BY <2>2, <2>4, <4>1, <4>2, Zenon
    <3> QED
      BY <2>1, <2>3, <2>6, <3>1 DEF ConfigInv, Runs
  <2> QED
    BY <2>5, <2>6
<1>6. ASSUME NEW w \in Workers, Spawn(p, w) PROVE ConfigInv'
  <2>1. /\ mu = p /\ active
        /\ put[p].pc = "spawn"
        /\ mu' = None /\ current' = w /\ UNCHANGED <<config, active>>
    BY <1>1, <1>6 DEF Spawn, LockInv
  <2>2. worker'[w].c = config /\ worker'[w].memq = put[p].memq
    BY <1>1, <1>6 DEF Spawn, Stopped
  <2>3. /\ put'[p].pc = "get"
        /\ \A q \in Puts : q # p => put'[q] = put[q]
    BY <1>1, <1>6 DEF Spawn, PutType
  <2>4. (\A q \in Puts : ~Unsettled(q)') => \A q \in Puts : ~Unsettled(q)
    BY <2>1, <2>3
  <2>5. \A q \in Puts : put'[q].pc # "spawn"
    BY <1>1, <2>1, <2>3 DEF LockInv
  <2>6. (\A q \in Puts : ~Unsettled(q)) =>
          active = config.enable /\ put[p].memq = (config.queue /\ config.server)
    BY <2>1 DEF ConfigInv
  <2> QED
    BY <1>1, <2>1, <2>2, <2>4, <2>5, <2>6 DEF ConfigInv
<1>7. CASE Get(p)
  <2>1. /\ UNCHANGED <<config, worker, mu, current, active>>
        /\ put[p].pc = "get" /\ put'[p].pc = "idle"
        /\ \A q \in Puts : q # p => put'[q] = put[q]
    BY <1>1, <1>7 DEF Get, IdlePut, PutType
  <2> QED
    BY <2>1 DEF ConfigInv, Runs
<1> QED
  BY <1>2, <1>3, <1>4, <1>5, <1>6, <1>7 DEF Load

\* No step of a workload disturbs the lock, the current workload or its context.
LEMMA WorkRestart ==
    ASSUME TypeInv, LockInv, OnlyOneLive, ConfigInv,
           NEW w \in Workers, Work(w) \/ Awaited(w) \/ Exit(w)
    PROVE  LockInv' /\ OnlyOneLive' /\ ConfigInv'
<1>1. /\ UNCHANGED <<config, current, active, mu, put>> /\ Runs(w)
      /\ \A v \in Workers : v # w => worker'[v] = worker[v]
      /\ \/ worker'[w] = Stopped
         \/ /\ worker'[w].c = worker[w].c
            /\ worker'[w].memq = worker[w].memq
            /\ worker'[w].cancelled = worker[w].cancelled
  BY WorkKeeps
<1>2. \A v \in Workers : Runs(v)' => /\ Runs(v)
                                     /\ worker'[v].c = worker[v].c
                                     /\ worker'[v].memq = worker[v].memq
                                     /\ worker'[v].cancelled = worker[v].cancelled
  BY <1>1 DEF Runs, Stopped
<1>3. LockInv'
  BY <1>1 DEF LockInv
<1>4. OnlyOneLive'
  BY <1>1, <1>2 DEF OnlyOneLive
<1>5. ConfigInv'
  BY <1>1, <1>2 DEF ConfigInv, Unsettled
<1> QED
  BY <1>3, <1>4, <1>5

\* Every step keeps the three invariants of restarting.
LEMMA NextRestart ==
    TypeInv /\ LockInv /\ OnlyOneLive /\ ConfigInv /\ [Next]_vars
        => LockInv' /\ OnlyOneLive' /\ ConfigInv'
<1> SUFFICES ASSUME TypeInv, LockInv, OnlyOneLive, ConfigInv, [Next]_vars
             PROVE  LockInv' /\ OnlyOneLive' /\ ConfigInv'
  OBVIOUS
<1>1. CASE UNCHANGED vars
  BY <1>1 DEF vars, LockInv, OnlyOneLive, ConfigInv, Unsettled, Runs
<1> QED
  BY <1>1, LoadLockInv, LoadOnlyOneLive, LoadConfigInv, WorkRestart DEF Next, Running

\* The three invariants hold in every reachable state.
THEOREM RestartInvariant == Spec => [](LockInv /\ OnlyOneLive /\ ConfigInv)
BY InitRestart, NextRestart, TypeInvariant, PTL DEF Spec

\* However many LoadConfigs interleave, a workload that is not cancelled is the
\* one kg.cancelFunc cancels.
THEOREM NoWorkloadEscapes == Spec => []OnlyOneLive
BY RestartInvariant, PTL

\* Once no LoadConfig is under way, gauge and workload are those of kg.config,
\* although LoadConfig writes kg.config without the lock.
THEOREM ConfigSettles == Spec => []SettledConfig
<1>1. TypeInv /\ LockInv /\ ConfigInv => SettledConfig
  <2> SUFFICES ASSUME TypeInv, LockInv, ConfigInv, \A p \in Puts : ~InFlight(p)
               PROVE  /\ active = config.enable
                      /\ current # None <=> config.enable
                      /\ \A w \in Workers : w = current /\ Runs(w) =>
                           /\ worker[w].c = config
                           /\ worker[w].memq = (config.queue /\ config.server)
    BY DEF SettledConfig
  <2>1. \A p \in Puts : put[p].pc \in {"idle", "get"}
    BY DEF InFlight
  <2>2. mu = None
    BY <2>1 DEF TypeInv, TypeOK, LockInv
  <2> QED
    BY <2>1, <2>2 DEF ConfigInv, Unsettled
<1> QED
  BY <1>1, TypeInvariant, RestartInvariant, PTL
-----------------------------------------------------------------------------
(* One workload.                                                           *)

\* A workload counts no further than its limit, and passes the check of its
\* context once more at most after it is cancelled.
WorkloadOK(k) ==
    /\ k.late <= 1
    /\ k.late = 1 => k.cancelled /\ k.pc \in {"check", "exit"}
    /\ k.pc \in {"dequeue", "answered"} => k.memq
    /\ ~k.memq /\ k.c.num > 0 =>
         /\ k.generated <= k.c.num
         /\ k.pc = "generate" => k.generated < k.c.num
    /\ k.pc = "exit" =>
         /\ k.c.exit
         /\ k.memq => k.answer = "empty"
         /\ ~k.memq => \/ k.fired
                       \/ k.generated = k.c.num /\ k.c.num > 0
    \* A queue's worker has neither timer nor limit: it only reacts to answers.
    /\ k.memq => ~k.fired /\ k.pc # "limit"

WorkloadInv == \A w \in Workers : WorkloadOK(worker[w])

LEMMA InitWorkload == Init => WorkloadInv
BY DEF Init, Stopped, ZeroConfig, WorkloadInv, WorkloadOK

\* The steps of LoadConfig start a workload afresh or cancel one.
LEMMA LoadWorkload ==
    ASSUME TypeInv, WorkloadInv, NEW p \in Puts, Load(p) \/ \E c \in Configs : BeginPut(p, c)
    PROVE  WorkloadInv'
<1>t. worker \in [Workers -> WorkerType] /\ config \in ConfigType
  BY DEF TypeInv, TypeOK, WorkerType
<1>1. CASE Restart(p)
  <2>1. \A w \in Workers : \/ worker'[w] = worker[w]
                           \/ worker'[w] = [worker[w] EXCEPT !.cancelled = TRUE]
    BY <1>1 DEF Restart
  <2>2. ASSUME NEW k \in WorkerType, WorkloadOK(k) PROVE WorkloadOK([k EXCEPT !.cancelled = TRUE])
    BY <2>2 DEF WorkerType, WorkloadOK
  <2> QED
    BY <1>t, <2>1, <2>2 DEF WorkloadInv
<1>2. ASSUME NEW w \in Workers, Spawn(p, w) PROVE WorkloadInv'
  <2>1. /\ worker'[w].late = 0 /\ worker'[w].generated = 0 /\ worker'[w].pc = "start"
        /\ worker'[w].c = config /\ ~worker'[w].fired
        /\ \A v \in Workers \ {w} : worker'[v] = worker[v]
    BY <1>2, <1>t DEF Spawn, Stopped
  <2>2. WorkloadOK(worker'[w])
    BY <1>t, <2>1 DEF WorkloadOK, ConfigType
  <2> QED
    BY <2>1, <2>2 DEF WorkloadInv
<1>3. CASE UNCHANGED worker
  BY <1>3 DEF WorkloadInv
<1> QED
  BY <1>1, <1>2, <1>3 DEF Load, BeginPut, WriteField, ChooseMode, Get

\* A workload that has not been cancelled, or is at work when it is, makes an item.
LEMMA ItemWorkload ==
    ASSUME NEW k \in WorkerType, WorkloadOK(k), k.pc = "generate"
    PROVE  WorkloadOK(ItemDone(k))
<1> DEFINE g == IF k.c.num > 0 /\ ~k.memq THEN k.generated + 1 ELSE k.generated
           l == IF k.cancelled THEN k.late + 1 ELSE k.late
<1>1. ItemDone(k) = [k EXCEPT !.pc = "check", !.generated = g, !.late = l, !.answer = "none"]
  BY Zenon DEF ItemDone
<1>2. /\ g \in Nat /\ l \in Nat /\ k.late = 0
      /\ ~k.memq /\ k.c.num > 0 => g <= k.c.num
      /\ l = 0 \/ (l = 1 /\ k.cancelled)
  BY DEF WorkerType, ConfigType, WorkloadOK
<1> HIDE DEF g, l
<1> QED
  BY <1>1, <1>2 DEF WorkerType, WorkloadOK

LEMMA WorkWorkload ==
    ASSUME TypeInv, WorkloadInv, NEW w \in Workers, Work(w) \/ Awaited(w) \/ Exit(w)
    PROVE  WorkloadInv'
<1>t. worker \in [Workers -> WorkerType] /\ worker[w].c \in ConfigType /\ WorkloadOK(worker[w])
  BY DEF TypeInv, TypeOK, WorkerType, WorkloadInv
<1>o. \A v \in Workers \ {w} : worker'[v] = worker[v]
  BY WorkKeeps
<1> SUFFICES WorkloadOK(worker'[w])
  BY <1>o DEF WorkloadInv
\* Going on: to the exit only when complete, to work only without a cancellation.
<1>b. ASSUME NEW l, Becomes(w, l), worker[w].late = 1 => l \in {"check", "exit"},
             l = "generate" => ~AtLimit(w) \/ worker[w].memq,
             l = "dequeue" => worker[w].memq,
             l = "limit" => ~worker[w].memq,
             l # "answered",
             l = "exit" => /\ worker[w].c.exit
                           /\ worker[w].memq => worker[w].answer = "empty"
                           /\ ~worker[w].memq => worker[w].fired \/ AtLimit(w)
      PROVE  WorkloadOK(worker'[w])
  <2> DEFINE k == worker[w]
  <2>1. worker'[w] = [k EXCEPT !.pc = l]
    BY <1>b, <1>t DEF Becomes
  <2>2. /\ k \in WorkerType /\ k.c.num \in Nat /\ k.generated \in Nat
        /\ WorkloadOK(k)
    BY <1>t DEF WorkerType, ConfigType
  <2>3. AtLimit(w) <=> k.c.num > 0 /\ k.generated >= k.c.num
    BY DEF AtLimit
  <2> HIDE DEF k
  <2>4. l = "exit" /\ ~k.memq => \/ k.fired
                                 \/ k.generated = k.c.num /\ k.c.num > 0
    BY <1>b, <2>2, <2>3 DEF k, WorkloadOK
  <2>5. l = "generate" /\ ~k.memq /\ k.c.num > 0 => k.generated < k.c.num
    BY <1>b, <2>2, <2>3 DEF k, WorkloadOK
  <2>6. /\ l = "exit" => k.c.exit /\ (k.memq => k.answer = "empty")
        /\ l \in {"dequeue", "answered"} => k.memq
        /\ l = "limit" => ~k.memq
        /\ k.late = 1 => l \in {"check", "exit"}
    BY <1>b DEF k
  <2> QED
    BY <2>1, <2>2, <2>4, <2>5, <2>6 DEF WorkloadOK, WorkerType
<1>s. ASSUME Stop(w) PROVE WorkloadOK(worker'[w])
  BY <1>s, <1>t DEF Stop, Stopped, ZeroConfig, WorkloadOK
<1>c. ASSUME Complete(w), ~worker[w].memq, worker[w].fired \/ AtLimit(w)
      PROVE  WorkloadOK(worker'[w])
  BY <1>b, <1>c, <1>s DEF Complete
<1>1. CASE Begin(w)
  BY <1>1, <1>b, <1>t DEF Begin, WorkloadOK
<1>2. CASE Check(w)
  BY <1>2, <1>b, <1>c, <1>s, <1>t DEF Check, WorkloadOK
<1>3. CASE Limit(w)
  BY <1>3, <1>b, <1>c, <1>t DEF Limit, WorkloadOK
<1>4. CASE Generate(w)
  <2>1. worker[w].pc = "generate" /\ worker'[w] = ItemDone(worker[w])
    BY <1>4, <1>t DEF Generate
  <2> QED
    BY <1>t, <2>1, ItemWorkload
<1>5. CASE Wake(w)
  <2>1. /\ worker[w].pc = "sleep"
        /\ worker'[w] = [worker[w] EXCEPT !.pc = "check", !.answer = "none"]
    BY <1>5, <1>t DEF Wake
  <2> QED
    BY <1>t, <2>1 DEF WorkloadOK, WorkerType
<1>6. CASE Fire(w)
  <2>1. /\ worker'[w] = [worker[w] EXCEPT !.fired = TRUE]
        /\ worker[w].pc # "exit" /\ ~worker[w].memq
    BY <1>6, <1>t DEF Fire
  <2> QED
    BY <1>t, <2>1 DEF WorkloadOK, WorkerType
<1>7. CASE Dequeue(w)
  <2>1. PICK a \in Answers : worker' = [worker EXCEPT ![w].pc = "answered", ![w].answer = a]
    BY <1>7 DEF Dequeue
  <2>2. /\ worker[w].pc = "dequeue"
        /\ worker'[w] = [worker[w] EXCEPT !.pc = "answered", !.answer = a]
    BY <1>7, <1>t, <2>1 DEF Dequeue
  <2> QED
    BY <1>t, <2>2 DEF WorkloadOK, WorkerType
<1>8. CASE React(w)
  BY <1>8, <1>b, <1>t DEF React, WorkloadOK
<1>9. CASE Exit(w)
  BY <1>9, <1>t DEF Exit
<1> QED
  BY <1>1, <1>2, <1>3, <1>4, <1>5, <1>6, <1>7, <1>8, <1>9 DEF Work, Awaited

LEMMA NextWorkload == TypeInv /\ WorkloadInv /\ [Next]_vars => WorkloadInv'
<1> SUFFICES ASSUME TypeInv, WorkloadInv, [Next]_vars PROVE WorkloadInv'
  OBVIOUS
<1>1. CASE UNCHANGED vars
  BY <1>1 DEF vars, WorkloadInv
<1> QED
  BY <1>1, LoadWorkload, WorkWorkload DEF Next, Running

\* A workload makes one key at most after its cancellation, whatever it was doing.
THEOREM LateKey == Spec => []OneLateKey
<1>1. WorkloadInv => OneLateKey
  BY DEF WorkloadInv, WorkloadOK, OneLateKey
<1> QED
  BY <1>1, InitWorkload, NextWorkload, TypeInvariant, PTL DEF Spec

\* The process exits only for a workload that was asked to and is complete: with
\* exactly NumToGen keys, after its time, or, if it works off a queue, with the
\* server's answer that it is empty.
THEOREM ExitIsComplete == Spec => []CompleteAtExit
<1>1. WorkloadInv => CompleteAtExit
  BY DEF WorkloadInv, WorkloadOK, CompleteAtExit
<1> QED
  BY <1>1, InitWorkload, NextWorkload, TypeInvariant, PTL DEF Spec
=============================================================================
