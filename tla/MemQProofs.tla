----------------------------- MODULE MemQProofs -----------------------------
(***************************************************************************)
(* Proofs about MemQ for any number of handlers, queues, messages, faults  *)
(* and restarts: types, nb.mu, the map of queues and its streams; and the  *)
(* lemmas that say how a request moves and what it does to JetStream.      *)
(***************************************************************************)
EXTENDS MemQ, FiniteSetTheorems, TLAPS

(* TypeOK is not inductive: that a counter is incremented needs that the    *)
(* qStats a handler looked up is still in the map, and that a request is    *)
(* well-formed needs that handlers past their entry have a queue.           *)
CallOK(h) ==
    /\ pc[h] # "idle" => call[h].queue \in Queues \/ call[h].op = "stats"
    /\ pc[h] \notin {"idle", "rlock", "statsInfo"} => call[h].op # "stats"
    /\ pc[h] = "rlock" /\ call[h].op = "put" => call[h].msg \in Msgs
    /\ pc[h] \in {"publish", "countPut", "ack", "countGet"} => call[h].msg \in Msgs
    /\ call[h].live => call[h].queue \in Registered

TypeInv == TypeOK /\ \A h \in Handlers : CallOK(h)

-----------------------------------------------------------------------------
\* The number of messages in a stream is a number.
LEMMA ContentsNat ==
    ASSUME NEW q
    PROVE  Cardinality(Contents(q)) \in Nat
<1>1. Contents(q) \subseteq Msgs
  BY DEF Contents
<1> QED
  BY <1>1, NamesAssumption, FS_Subset, FS_CardinalityType

\* What a goroutine's counter update does to the map.
LEMMA CountType ==
    ASSUME TypeInv, NEW h \in Handlers, NEW c \in Counters, NEW n \in Nat,
           Count(h, c, n)
    PROVE  /\ queues' \in [Queues -> [Counters -> Nat] \cup {None}]
           /\ Registered' = Registered
<1> DEFINE q == call[h].queue
<1>1. CASE ~call[h].live
  BY <1>1 DEF Count, TypeInv, TypeOK, Registered
<1>2. CASE call[h].live
  <2>1. q \in Queues /\ queues[q] \in [Counters -> Nat]
    BY <1>2 DEF TypeInv, TypeOK, CallOK, Registered
  <2>2. [queues[q] EXCEPT ![c] = @ + n] \in [Counters -> Nat]
    BY <2>1
  <2>3. queues' = [queues EXCEPT ![q] = [queues[q] EXCEPT ![c] = @ + n]]
    BY <1>2 DEF Count
  <2>4. queues' \in [Queues -> [Counters -> Nat] \cup {None}]
    BY <2>1, <2>2, <2>3 DEF TypeInv, TypeOK
  <2>5. \A r \in Queues : queues'[r] # None <=> queues[r] # None
    BY <2>1, <2>2, <2>3, MemQAssumption DEF TypeInv, TypeOK
  <2> QED
    BY <2>4, <2>5 DEF Registered
<1> QED
  BY <1>1, <1>2

LEMMA TypeInit == Init => TypeInv
BY MemQAssumption, NamesAssumption
   DEF Init, JSInit, Start, TypeInv, TypeOK, JSTypeOK, CallOK, NoCall, Calls, PCs,
       Replies, BoxStates, AllOps, Registered

-----------------------------------------------------------------------------
\* Whatever JetStream executes keeps its state well-typed.
LEMMA JSType ==
    ASSUME JSTypeOK, NEW q \in Queues, NEW m \in Msgs \cup {None},
           \/ JSAdd(q) \/ JSDelete(q) \/ JSPurge(q) \/ JSPublish(q, m)
           \/ JSDeliver(m) \/ JSAck(m) \/ JSRedeliver(m) \/ UNCHANGED jsVars
    PROVE  JSTypeOK'
BY NamesAssumption
   DEF JSTypeOK, JSAdd, JSDelete, JSPurge, Empty, JSPublish, JSDeliver, JSAck,
       JSRedeliver, jsVars, BoxStates

\* An answered handler is idle with an empty call; the others are as before.
LEMMA AnswerType ==
    ASSUME TypeInv, NEW h \in Handlers, NEW r \in Replies, Answer(h, r)
    PROVE  /\ pc' \in [Handlers -> PCs]
           /\ call' \in [Handlers -> Calls]
           /\ reply' \in [Handlers -> Replies]
           /\ pc'[h] = "idle" /\ ~call'[h].live
           /\ \A g \in Handlers \ {h} : pc'[g] = pc[g] /\ call'[g] = call[g]
BY DEF Answer, Goto, TypeInv, TypeOK, NoCall, Calls, PCs

\* The late requests stay well-typed.
LEMMA RequestType ==
    ASSUME TypeInv, NEW h \in Handlers, pc[h] \in Calling
    PROVE  Request(h) \in LateCalls
BY DEF TypeInv, TypeOK, CallOK, Request, LateCalls, Calls, Calling

LEMMA UnansweredType ==
    ASSUME TypeInv, NEW h \in Handlers, pc[h] \in Calling, Unanswered(h)
    PROVE  faults' \in Nat /\ late' \subseteq LateCalls /\ JSTypeOK'
BY RequestType, NamesAssumption
   DEF Unanswered, TypeInv, TypeOK, JSTypeOK, jsVars

-----------------------------------------------------------------------------
\* TypeInv is preserved by each step.
LEMMA TypeStep == TypeInv /\ [Next]_vars => TypeInv'
<1> SUFFICES ASSUME TypeInv, [Next]_vars PROVE TypeInv'
  OBVIOUS
<1> USE DEF TypeInv, TypeOK
<1>1. ASSUME NEW h \in Handlers, NEW op \in Ops, NEW q \in Queues \cup {None},
             NEW m \in Unsent \cup {None}, Receive(h, op, q, m)
      PROVE  TypeInv'
  <2>1. [NoCall EXCEPT !.op = op, !.queue = q, !.msg = m] \in Calls
    BY MemQAssumption DEF NoCall, Calls, Unsent
  <2>2. JSTypeOK'
    BY <1>1 DEF Receive, JSTypeOK, jsVars
  <2>3. TypeOK'
    BY <1>1, <2>1, <2>2 DEF Receive, Goto, PCs, Replies, srv
  <2>4. \A g \in Handlers : CallOK(g)'
    BY <1>1, NamesAssumption
       DEF Receive, Goto, CallOK, NoCall, Calls, Registered, srv, Unsent
  <2> QED
    BY <2>3, <2>4
<1>2. ASSUME NEW h \in Handlers, RefuseEmptyName(h) PROVE TypeInv'
  BY <1>2 DEF RefuseEmptyName, JSTypeOK, jsVars, srv, hist, Replies, CallOK, Registered
<1>3. ASSUME NEW h \in Handlers, NEW op \in Ops, PanicOnNilBackend(h, op) PROVE TypeInv'
  BY <1>3 DEF PanicOnNilBackend, JSTypeOK, jsVars, srv, hist, Replies, CallOK, Registered
<1>4. ASSUME NEW h \in Handlers, AnnounceWriter(h) PROVE TypeInv'
  BY <1>4 DEF AnnounceWriter, Goto, JSTypeOK, jsVars, hist, PCs, CallOK, Registered
<1>5. ASSUME NEW h \in Handlers, EnterWriter(h) PROVE TypeInv'
  <2>1. CASE Answer(h, "error") /\ Unlock
    BY <1>5, <2>1, AnswerType
       DEF EnterWriter, Unlock, JSTypeOK, jsVars, hist, Replies, CallOK, Registered
  <2>2. CASE /\ Goto(h, IF call[h].op = "create" THEN "addStream" ELSE "deleteStream")
             /\ UNCHANGED <<call, reply, writer>>
    BY <1>5, <2>2
       DEF EnterWriter, Goto, JSTypeOK, jsVars, hist, PCs, Writing, Calling, CallOK, Registered
  <2> QED
    BY <1>5, <2>1, <2>2 DEF EnterWriter
<1>6. ASSUME NEW h \in Handlers, LookUp(h) PROVE TypeInv'
  <2>1. CASE Answer(h, "error") /\ call[h].queue \notin Registered
    BY <1>6, <2>1, AnswerType
       DEF LookUp, JSTypeOK, jsVars, srv, hist, Replies, CallOK, Registered
  <2>2. CASE call[h].queue \in Registered
    <3>1. PICK l \in {"info", "publish", "subscribe"} :
             Goto(h, l) /\ (l = "publish" => call[h].op = "put")
      BY <1>6, <2>2 DEF LookUp
    <3>2. /\ call' = [call EXCEPT ![h].live = TRUE]
          /\ pc[h] = "rlock" /\ call[h].op # "stats"
          /\ UNCHANGED <<jsVars, srv, reply, late, faults, crashes, hist>>
      BY <1>6, <2>2 DEF LookUp
    <3>3. call' \in [Handlers -> Calls]
      BY <3>2 DEF Calls
    <3>4. TypeOK'
      BY <3>1, <3>2, <3>3 DEF Goto, JSTypeOK, jsVars, srv, hist, PCs, Calling
    <3>5. \A g \in Handlers : CallOK(g)'
      <4> SUFFICES ASSUME NEW g \in Handlers PROVE CallOK(g)'
        OBVIOUS
      <4>1. CASE g = h
        BY <2>2, <3>1, <3>2, <4>1 DEF Goto, CallOK, Calls, Registered, srv
      <4>2. CASE g # h
        BY <3>1, <3>2, <4>2 DEF Goto, CallOK, Registered, srv
      <4> QED
        BY <4>1, <4>2
    <3> QED
      BY <3>4, <3>5
  <2> QED
    BY <1>6, <2>1, <2>2 DEF LookUp
<1>7. ASSUME NEW h \in Handlers, AddStream(h) PROVE TypeInv'
  <2>1. call[h].queue \in Queues
    BY <1>7 DEF AddStream, CallOK
  <2>2. CASE JSAdd(call[h].queue) /\ UNCHANGED <<writer, call, reply, late, faults>>
             /\ Goto(h, IF CanAdd(call[h].queue) THEN "register" ELSE "registerDup")
    BY <1>7, <2>1, <2>2, JSType
       DEF AddStream, Goto, hist, PCs, Writing, CallOK, Registered
  <2>3. CASE Unanswered(h) /\ Answer(h, "error") /\ Unlock
    BY <1>7, <2>3, AnswerType, UnansweredType
       DEF AddStream, Unlock, hist, Calling, Replies, CallOK, Registered
  <2> QED
    BY <1>7, <2>2, <2>3 DEF AddStream
<1>8. ASSUME NEW h \in Handlers, Register(h) PROVE TypeInv'
  <2>1. NewStats \in [Counters -> Nat]
    BY DEF NewStats
  <2>2. Registered \subseteq Registered'
    BY <1>8, <2>1, MemQAssumption DEF Register, Registered
  <2>3. (IF pc[h] = "register" THEN "ok" ELSE "error") \in Replies
    BY DEF Replies
  <2> QED
    BY <1>8, <2>1, <2>2, <2>3, AnswerType
       DEF Register, Unlock, JSTypeOK, jsVars, hist, CallOK
<1>9. ASSUME NEW h \in Handlers, DeleteStream(h) PROVE TypeInv'
  <2>1. call[h].queue \in Queues
    BY <1>9 DEF DeleteStream, CallOK
  <2>2. CASE JSDelete(call[h].queue) /\ Goto(h, "unregister")
             /\ UNCHANGED <<writer, call, reply, late, faults>>
    BY <1>9, <2>1, <2>2, JSType
       DEF DeleteStream, Goto, hist, PCs, Writing, CallOK, Registered
  <2>3. CASE Unanswered(h) /\ Answer(h, "error") /\ Unlock
    BY <1>9, <2>3, AnswerType, UnansweredType
       DEF DeleteStream, Unlock, hist, Calling, Replies, CallOK, Registered
  <2>4. CASE Answer(h, "error") /\ Unlock /\ UNCHANGED <<jsVars, late, faults>>
    BY <1>9, <2>4, AnswerType
       DEF DeleteStream, Unlock, JSTypeOK, jsVars, hist, Replies, CallOK, Registered
  <2> QED
    BY <1>9, <2>2, <2>3, <2>4 DEF DeleteStream
<1>10. ASSUME NEW h \in Handlers, Unregister(h) PROVE TypeInv'
  <2>1. TypeOK'
    <3>1. call' \in [Handlers -> Calls]
      <4>1. NoCall \in Calls
        BY DEF NoCall, Calls
      <4>2. \A g \in Handlers : [call[g] EXCEPT !.live = FALSE] \in Calls
        BY DEF Calls
      <4> QED
        BY <1>10, <4>1, <4>2 DEF Unregister
    <3> QED
      BY <1>10, <3>1 DEF Unregister, Unlock, Goto, JSTypeOK, jsVars, hist, PCs, Replies
  <2>2. \A g \in Handlers : CallOK(g)'
    <3> SUFFICES ASSUME NEW g \in Handlers PROVE CallOK(g)'
      OBVIOUS
    <3>1. CASE g = h
      BY <1>10, <3>1 DEF Unregister, Goto, CallOK, NoCall
    <3>2. CASE g # h /\ call[g].queue = call[h].queue
      BY <1>10, <3>2 DEF Unregister, Goto, CallOK, Calls
    <3>3. CASE g # h /\ call[g].queue # call[h].queue
      BY <1>10, <3>3 DEF Unregister, Goto, CallOK, Registered
    <3> QED
      BY <3>1, <3>2, <3>3
  <2> QED
    BY <2>1, <2>2
<1>11. ASSUME NEW h \in Handlers, DrainInfo(h) PROVE TypeInv'
  <2>1. queues' \in [Queues -> [Counters -> Nat] \cup {None}] /\ Registered' = Registered
    BY <1>11, CountType, ContentsNat DEF DrainInfo, Counters, Registered
  <2>2. JSTypeOK' /\ late' \subseteq LateCalls /\ faults' \in Nat
    BY <1>11 DEF DrainInfo, UnansweredRead, JSTypeOK, jsVars
  <2> QED
    BY <1>11, <2>1, <2>2 DEF DrainInfo, Goto, hist, PCs, Calling, CallOK
<1>12. ASSUME NEW h \in Handlers, Purge(h) PROVE TypeInv'
  <2>1. call[h].queue \in Queues
    BY <1>12 DEF Purge, CallOK
  <2>2. \E r \in {"ok", "error"} : Answer(h, r)
    BY <1>12 DEF Purge
  <2>3. JSTypeOK' /\ late' \subseteq LateCalls /\ faults' \in Nat
    BY <1>12, <2>1, JSType, UnansweredType DEF Purge, Calling, JSTypeOK, jsVars
  <2> QED
    BY <1>12, <2>2, <2>3, AnswerType DEF Purge, srv, hist, Replies, CallOK, Registered
<1>13. ASSUME NEW h \in Handlers, Publish(h) PROVE TypeInv'
  <2>1. call[h].queue \in Queues /\ call[h].msg \in Msgs
    BY <1>13 DEF Publish, CallOK
  <2>2. \/ Answer(h, "error")
        \/ Goto(h, "countPut") /\ UNCHANGED <<call, reply>>
    BY <1>13 DEF Publish
  <2>3. JSTypeOK' /\ late' \subseteq LateCalls /\ faults' \in Nat
    BY <1>13, <2>1, JSType, UnansweredType DEF Publish, Calling, JSTypeOK, jsVars
  <2>4. CASE Answer(h, "error")
    BY <1>13, <2>3, <2>4, AnswerType DEF Publish, srv, hist, Replies, CallOK, Registered
  <2>5. CASE Goto(h, "countPut") /\ UNCHANGED <<call, reply>>
    BY <1>13, <2>1, <2>3, <2>5 DEF Publish, Goto, srv, hist, PCs, CallOK, Registered
  <2> QED
    BY <2>2, <2>4, <2>5
<1>14. ASSUME NEW h \in Handlers, CountPut(h) PROVE TypeInv'
  <2>1. queues' \in [Queues -> [Counters -> Nat] \cup {None}] /\ Registered' = Registered
    BY <1>14, CountType DEF CountPut, Counters
  <2>2. accepted' \subseteq Msgs
    BY <1>14 DEF CountPut, CallOK
  <2> QED
    BY <1>14, <2>1, <2>2, AnswerType DEF CountPut, JSTypeOK, jsVars, Replies, CallOK
<1>15. ASSUME NEW h \in Handlers, Subscribe(h) PROVE TypeInv'
  <2>1. JSTypeOK' /\ late' \subseteq LateCalls /\ faults' \in Nat
    BY <1>15 DEF Subscribe, UnansweredRead, JSTypeOK, jsVars
  <2>2. CASE Answer(h, "error")
    BY <1>15, <2>1, <2>2, AnswerType DEF Subscribe, srv, hist, Replies, CallOK, Registered
  <2>3. CASE Goto(h, "fetch") /\ UNCHANGED <<call, reply>>
    BY <1>15, <2>1, <2>3 DEF Subscribe, Goto, srv, hist, PCs, Calling, CallOK, Registered
  <2> QED
    BY <1>15, <2>2, <2>3 DEF Subscribe
<1>16. ASSUME NEW h \in Handlers, Fetch(h) PROVE TypeInv'
  <2>1. call[h].queue \in Queues
    BY <1>16 DEF Fetch, CallOK
  <2>2. CASE \E r \in {"empty", "error"} : Answer(h, r)
                /\ (Unanswered(h) \/ UNCHANGED <<jsVars, late, faults>>)
    <3>1. JSTypeOK' /\ late' \subseteq LateCalls /\ faults' \in Nat
      BY <1>16, <2>2, UnansweredType DEF Fetch, Calling, JSTypeOK, jsVars
    <3> QED
      BY <1>16, <2>2, <3>1, AnswerType DEF Fetch, srv, hist, Replies, CallOK, Registered
  <2>3. CASE \E m \in Ready(call[h].queue) :
               /\ JSDeliver(m)
               /\ call' = [call EXCEPT ![h].msg = m]
               /\ Goto(h, "ack")
               /\ UNCHANGED <<reply, late, faults>>
    <3>1. PICK m \in Msgs : /\ JSDeliver(m)
                            /\ call' = [call EXCEPT ![h].msg = m]
                            /\ Goto(h, "ack")
                            /\ UNCHANGED <<reply, late, faults>>
      BY <2>3 DEF Ready
    <3>2. JSTypeOK'
      BY <3>1, <2>1, JSType
    <3>3. TypeOK'
      BY <1>16, <3>1, <3>2 DEF Fetch, Goto, srv, hist, PCs, Calls
    <3> QED
      BY <1>16, <3>1, <3>3 DEF Fetch, Goto, srv, Calls, CallOK, Registered
  <2> QED
    BY <1>16, <2>2, <2>3 DEF Fetch
<1>17. ASSUME NEW h \in Handlers, Ack(h) PROVE TypeInv'
  <2>1. call[h].msg \in Msgs /\ call[h].queue \in Queues
    BY <1>17 DEF Ack, CallOK
  <2>2. JSTypeOK' /\ late' \subseteq LateCalls /\ faults' \in Nat
    BY <1>17, <2>1, JSType DEF Ack, UnansweredRead, JSTypeOK
  <2> QED
    BY <1>17, <2>1, <2>2 DEF Ack, Goto, srv, hist, PCs, CallOK, Registered
<1>18. ASSUME NEW h \in Handlers, CountGet(h) PROVE TypeInv'
  <2>1. queues' \in [Queues -> [Counters -> Nat] \cup {None}] /\ Registered' = Registered
    BY <1>18, CountType DEF CountGet, Counters
  <2>2. handouts' \in [Msgs -> Nat]
    BY <1>18 DEF CountGet, CallOK
  <2> QED
    BY <1>18, <2>1, <2>2, AnswerType DEF CountGet, JSTypeOK, jsVars, Replies, CallOK
<1>19. ASSUME NEW h \in Handlers, BeginStats(h) PROVE TypeInv'
  BY <1>19 DEF BeginStats, Goto, JSTypeOK, jsVars, hist, PCs, Calls, CallOK, Registered
<1>20. ASSUME NEW h \in Handlers, StatsInfo(h) PROVE TypeInv'
  BY <1>20 DEF StatsInfo, JSTypeOK, jsVars, srv, hist, Calls, CallOK, Registered
<1>21. ASSUME NEW h \in Handlers, EndStats(h) PROVE TypeInv'
  BY <1>21, AnswerType DEF EndStats, JSTypeOK, jsVars, hist, Replies, CallOK, Registered
<1>22. ASSUME NEW r \in late, LateCall(r) PROVE TypeInv'
  <2>1. r.queue \in Queues /\ r.msg \in Msgs \cup {None} /\ r.at \in Calling
    BY DEF LateCalls
  <2>2. JSTypeOK'
    BY <1>22, <2>1, JSType DEF LateCall, Calling, Ready
  <2> QED
    BY <1>22, <2>2 DEF LateCall, srv, hist, CallOK, Registered
<1>23. ASSUME NEW r \in late, LoseCall(r) PROVE TypeInv'
  BY <1>23 DEF LoseCall, JSTypeOK, jsVars, srv, hist, CallOK, Registered
<1>24. ASSUME NEW m \in Msgs, Redeliver(m) PROVE TypeInv'
  BY <1>24 DEF Redeliver, JSRedeliver, JSTypeOK, BoxStates, srv, hist, CallOK, Registered
<1>25. CASE Crash
  <2>1. late' \subseteq LateCalls
    BY <1>25, RequestType DEF Crash
  <2>2. NoCall \in Calls /\ "none" \in Replies /\ "idle" \in PCs
    BY DEF NoCall, Calls, Replies, PCs
  <2>3. TypeOK'
    BY <1>25, <2>1, <2>2, MemQAssumption DEF Crash, JSTypeOK, jsVars, hist
  <2> QED
    BY <1>25, <2>3 DEF Crash, CallOK, NoCall
<1>26. CASE UNCHANGED vars
  BY <1>26 DEF vars, JSTypeOK, CallOK, Registered
<1> QED
  BY <1>1, <1>2, <1>3, <1>4, <1>5, <1>6, <1>7, <1>8, <1>9, <1>10, <1>11, <1>12, <1>13,
     <1>14, <1>15, <1>16, <1>17, <1>18, <1>19, <1>20, <1>21, <1>22, <1>23, <1>24,
     <1>25, <1>26
     DEF Next, Client, Serve

\* Every variable of the queue service has its type in every reachable state.
THEOREM TypeCorrect == Spec => []TypeOK
<1>1. TypeInv => TypeOK
  BY DEF TypeInv
<1> QED
  BY <1>1, TypeInit, TypeStep, PTL DEF Spec

-----------------------------------------------------------------------------
(* nb.mu works: the writer is the one handler in a write section, readers   *)
(* are the handlers in Stats, and a write section excludes them.            *)

LockInv ==
    /\ \A h \in Handlers : writer = h <=> pc[h] \in {"readersOut"} \cup Writing
    /\ \A h \in Handlers : h \in readers <=> pc[h] = "statsInfo"
    /\ \A h \in Handlers : pc[h] \in Writing => readers = {}

LEMMA LockInit == Init => LockInv
BY MemQAssumption DEF Init, Start, LockInv, Writing

LEMMA LockStep == TypeInv /\ LockInv /\ [Next]_vars => LockInv'
<1> SUFFICES ASSUME TypeInv, LockInv, [Next]_vars PROVE LockInv'
  OBVIOUS
<1> USE DEF LockInv, Writing
<1>t. pc \in [Handlers -> PCs] /\ readers \subseteq Handlers /\ TypeInv
  BY DEF TypeInv, TypeOK
\* Steps that leave the lock alone and move outside the sections it guards.
<1>a. ASSUME NEW h \in Handlers, UNCHANGED <<writer, readers>>,
             pc[h] \notin {"readersOut", "statsInfo"} \cup Writing,
             \/ UNCHANGED pc
             \/ \E l \in PCs \ ({"readersOut", "statsInfo"} \cup Writing) : Goto(h, l)
      PROVE  LockInv'
  BY <1>a, <1>t DEF Goto
\* An answer given outside those sections.
<1>b. ASSUME NEW h \in Handlers, UNCHANGED <<writer, readers>>,
             pc[h] \notin {"readersOut", "statsInfo"} \cup Writing,
             NEW r \in Replies, Answer(h, r)
      PROVE  LockInv'
  BY <1>b, <1>t DEF Answer, Goto
\* A writer that returns releases the lock.
<1>c. ASSUME NEW h \in Handlers, pc[h] \in {"readersOut"} \cup Writing,
             Goto(h, "idle"), writer' = None, UNCHANGED readers
      PROVE  LockInv'
  BY <1>c, <1>t, MemQAssumption DEF Goto
\* A writer that goes on.
<1>d. ASSUME NEW h \in Handlers, pc[h] \in {"readersOut"} \cup Writing,
             NEW l \in Writing, Goto(h, l), UNCHANGED <<writer, readers>>, readers = {}
      PROVE  LockInv'
  BY <1>d, <1>t DEF Goto
<1>1. ASSUME NEW h \in Handlers, NEW op \in Ops, NEW q \in Queues \cup {None},
             NEW m \in Unsent \cup {None}, Receive(h, op, q, m)
      PROVE  LockInv'
  BY <1>1, <1>a DEF Receive, PCs, srv
<1>2. ASSUME NEW h \in Handlers, RefuseEmptyName(h) PROVE LockInv'
  BY <1>2, <1>a DEF RefuseEmptyName, srv
<1>3. ASSUME NEW h \in Handlers, NEW op \in Ops, PanicOnNilBackend(h, op) PROVE LockInv'
  BY <1>3, <1>a DEF PanicOnNilBackend, srv
<1>4. ASSUME NEW h \in Handlers, AnnounceWriter(h) PROVE LockInv'
  BY <1>4, <1>t, MemQAssumption DEF AnnounceWriter, Goto
<1>5. ASSUME NEW h \in Handlers, EnterWriter(h) PROVE LockInv'
  <2>1. CASE Answer(h, "error") /\ Unlock
    BY <1>5, <2>1, <1>c DEF EnterWriter, ReadersGone, Unlock, Answer
  <2>2. CASE /\ Goto(h, IF call[h].op = "create" THEN "addStream" ELSE "deleteStream")
             /\ UNCHANGED <<call, reply, writer>>
    BY <1>5, <2>2, <1>d DEF EnterWriter, ReadersGone, Unlock
  <2> QED
    BY <1>5, <2>1, <2>2 DEF EnterWriter
<1>6. ASSUME NEW h \in Handlers, LookUp(h) PROVE LockInv'
  <2>1. CASE Answer(h, "error")
    BY <1>6, <2>1, <1>b DEF LookUp, Replies, srv
  <2>2. CASE \E l \in {"info", "publish", "subscribe"} : Goto(h, l)
    BY <1>6, <2>2, <1>a DEF LookUp, PCs, Calling, srv
  <2> QED
    BY <1>6, <2>1, <2>2 DEF LookUp
<1>7. ASSUME NEW h \in Handlers, AddStream(h) PROVE LockInv'
  BY <1>7, <1>c, <1>d DEF AddStream, Unlock, Answer
<1>8. ASSUME NEW h \in Handlers, Register(h) PROVE LockInv'
  BY <1>8, <1>c DEF Register, Unlock, Answer
<1>9. ASSUME NEW h \in Handlers, DeleteStream(h) PROVE LockInv'
  BY <1>9, <1>c, <1>d DEF DeleteStream, Unlock, Answer
<1>10. ASSUME NEW h \in Handlers, Unregister(h) PROVE LockInv'
  BY <1>10, <1>c DEF Unregister, Unlock
<1>11. ASSUME NEW h \in Handlers, DrainInfo(h) PROVE LockInv'
  BY <1>11, <1>a DEF DrainInfo, PCs, Calling
<1>12. ASSUME NEW h \in Handlers, Purge(h) PROVE LockInv'
  BY <1>12, <1>b DEF Purge, Replies, srv
<1>13. ASSUME NEW h \in Handlers, Publish(h) PROVE LockInv'
  BY <1>13, <1>a, <1>b DEF Publish, Replies, PCs, srv
<1>14. ASSUME NEW h \in Handlers, CountPut(h) PROVE LockInv'
  BY <1>14, <1>b DEF CountPut, Replies
<1>15. ASSUME NEW h \in Handlers, Subscribe(h) PROVE LockInv'
  BY <1>15, <1>a, <1>b DEF Subscribe, Replies, PCs, Calling, srv
<1>16. ASSUME NEW h \in Handlers, Fetch(h) PROVE LockInv'
  BY <1>16, <1>a, <1>b DEF Fetch, Replies, PCs, srv
<1>17. ASSUME NEW h \in Handlers, Ack(h) PROVE LockInv'
  BY <1>17, <1>a DEF Ack, PCs, srv
<1>18. ASSUME NEW h \in Handlers, CountGet(h) PROVE LockInv'
  BY <1>18, <1>b DEF CountGet, Replies
<1>19. ASSUME NEW h \in Handlers, BeginStats(h) PROVE LockInv'
  BY <1>19, <1>t, MemQAssumption DEF BeginStats, Goto
<1>20. ASSUME NEW h \in Handlers, StatsInfo(h) PROVE LockInv'
  BY <1>20 DEF StatsInfo, srv
<1>21. ASSUME NEW h \in Handlers, EndStats(h) PROVE LockInv'
  BY <1>21, <1>t DEF EndStats, Answer, Goto
<1>22. ASSUME NEW r \in late, LateCall(r) \/ LoseCall(r) PROVE LockInv'
  BY <1>22 DEF LateCall, LoseCall, srv
<1>23. ASSUME NEW m \in Msgs, Redeliver(m) PROVE LockInv'
  BY <1>23 DEF Redeliver, srv
<1>24. CASE Crash
  BY <1>24, MemQAssumption DEF Crash
<1>25. CASE UNCHANGED vars
  BY <1>25 DEF vars
<1> QED
  BY <1>1, <1>2, <1>3, <1>4, <1>5, <1>6, <1>7, <1>8, <1>9, <1>10, <1>11, <1>12, <1>13,
     <1>14, <1>15, <1>16, <1>17, <1>18, <1>19, <1>20, <1>21, <1>22, <1>23, <1>24, <1>25
     DEF Next, Client, Serve

-----------------------------------------------------------------------------
(* The map of queues changes only in Register, Unregister and a restart.   *)

LEMMA MapStep ==
    ASSUME TypeInv, [Next]_vars
    PROVE  \/ Registered' = Registered
           \/ \E h \in Handlers : Register(h) \/ Unregister(h)
           \/ Crash
<1>1. CASE UNCHANGED queues
  BY <1>1 DEF Registered
<1>2. ASSUME NEW h \in Handlers, DrainInfo(h) \/ CountPut(h) \/ CountGet(h)
      PROVE  Registered' = Registered
  BY <1>2, CountType, ContentsNat DEF DrainInfo, CountPut, CountGet, Counters, Registered
<1>3. ASSUME NEW h \in Handlers, Client(h) PROVE UNCHANGED queues
  BY <1>3 DEF Client, Receive, RefuseEmptyName, PanicOnNilBackend, srv
<1>4. ASSUME NEW h \in Handlers,
             \/ AnnounceWriter(h) \/ EnterWriter(h) \/ LookUp(h) \/ AddStream(h)
             \/ DeleteStream(h) \/ Purge(h) \/ Publish(h) \/ Subscribe(h) \/ Fetch(h)
             \/ Ack(h) \/ BeginStats(h) \/ StatsInfo(h) \/ EndStats(h)
      PROVE  UNCHANGED queues
  BY <1>4
     DEF AnnounceWriter, EnterWriter, LookUp, AddStream, DeleteStream, Purge, Publish,
         Subscribe, Fetch, Ack, BeginStats, StatsInfo, EndStats, srv
<1>5. ASSUME NEW r \in late, LateCall(r) \/ LoseCall(r) PROVE UNCHANGED queues
  BY <1>5 DEF LateCall, LoseCall, srv
<1>6. ASSUME NEW m \in Msgs, Redeliver(m) PROVE UNCHANGED queues
  BY <1>6 DEF Redeliver, srv
<1>7. CASE UNCHANGED vars
  BY <1>1, <1>7 DEF vars
<1> QED
  BY <1>1, <1>2, <1>3, <1>4, <1>5, <1>6, <1>7 DEF Next, Serve

\* nb.queues gains or loses a key only under the write lock with no reader
\* inside, or by a restart: the loop of Stats ranges over a map that stands still.
THEOREM MapExclusive == Spec => MapChangesExclusively
<1>1. TypeInv /\ LockInv /\ [Next]_vars =>
        [Registered' # Registered =>
           (writer # None /\ readers = {}) \/ crashes' # crashes]_vars
  <2> SUFFICES ASSUME TypeInv, LockInv, [Next]_vars, Registered' # Registered
               PROVE  (writer # None /\ readers = {}) \/ crashes' # crashes
    OBVIOUS
  <2>1. CASE Crash
    BY <2>1 DEF Crash, TypeInv, TypeOK
  <2>2. ASSUME NEW h \in Handlers, Register(h) \/ Unregister(h)
        PROVE  writer # None /\ readers = {}
    <3>1. pc[h] \in Writing
      BY <2>2 DEF Register, Unregister, Writing
    <3> QED
      BY <3>1, MemQAssumption DEF LockInv
  <2> QED
    BY <2>1, <2>2, MapStep
<1> QED
  BY <1>1, TypeInit, TypeStep, LockInit, LockStep, PTL DEF Spec, MapChangesExclusively

-----------------------------------------------------------------------------
(* What Stats has still to visit: it starts with the whole map and shrinks. *)

LEMMA TodoStep ==
    ASSUME TypeInv, [Next]_vars, NEW h \in Handlers, pc'[h] = "statsInfo"
    PROVE  \/ pc[h] = "statsInfo" /\ call'[h].todo \subseteq call[h].todo
           \/ call'[h].todo = Registered /\ UNCHANGED queues
<1>t. pc \in [Handlers -> PCs] /\ call \in [Handlers -> Calls]
  BY DEF TypeInv, TypeOK
<1>1. CASE UNCHANGED <<pc, call>>
  BY <1>1
<1>2. ASSUME NEW g \in Handlers, NEW r \in Replies, Answer(g, r)
      PROVE  pc[h] = "statsInfo" /\ call'[h].todo = call[h].todo
  BY <1>2, <1>t DEF Answer, Goto
<1>3. ASSUME NEW g \in Handlers, NEW l \in PCs \ {"statsInfo"}, Goto(g, l),
             UNCHANGED call
      PROVE  pc[h] = "statsInfo" /\ call'[h].todo = call[h].todo
  BY <1>3, <1>t DEF Goto
<1>4. ASSUME NEW g \in Handlers, BeginStats(g)
      PROVE  \/ pc[h] = "statsInfo" /\ call'[h].todo \subseteq call[h].todo
             \/ call'[h].todo = Registered /\ UNCHANGED queues
  BY <1>4, <1>t DEF BeginStats, Goto, Calls
<1>5. ASSUME NEW g \in Handlers, StatsInfo(g)
      PROVE  pc[h] = "statsInfo" /\ call'[h].todo \subseteq call[h].todo
  BY <1>5, <1>t DEF StatsInfo, Calls
<1>6. ASSUME NEW g \in Handlers, NEW op \in Ops, NEW q \in Queues \cup {None},
             NEW m \in Unsent \cup {None}, Receive(g, op, q, m)
      PROVE  pc[h] = "statsInfo" /\ call'[h].todo = call[h].todo
  BY <1>6, <1>t DEF Receive, Goto
<1>7. ASSUME NEW g \in Handlers, LookUp(g)
      PROVE  pc[h] = "statsInfo" /\ call'[h].todo = call[h].todo
  <2>1. CASE Answer(g, "error")
    BY <2>1, <1>2 DEF Replies
  <2>2. CASE /\ call' = [call EXCEPT ![g].live = TRUE]
             /\ \E l \in {"info", "publish", "subscribe"} : Goto(g, l)
    BY <2>2, <1>t DEF Goto, Calls
  <2> QED
    BY <1>7, <2>1, <2>2 DEF LookUp
<1>8. ASSUME NEW g \in Handlers, Unregister(g)
      PROVE  pc[h] = "statsInfo" /\ call'[h].todo = call[h].todo
  BY <1>8, <1>t DEF Unregister, Goto, Calls
<1>9. ASSUME NEW g \in Handlers, Fetch(g)
      PROVE  pc[h] = "statsInfo" /\ call'[h].todo = call[h].todo
  <2>1. CASE \E r \in {"empty", "error"} : Answer(g, r)
    BY <2>1, <1>2 DEF Replies
  <2>2. CASE \E m \in Msgs : call' = [call EXCEPT ![g].msg = m] /\ Goto(g, "ack")
    BY <2>2, <1>t DEF Goto, Calls
  <2> QED
    BY <1>9, <2>1, <2>2 DEF Fetch, Ready
<1>10. CASE Crash
  BY <1>10 DEF Crash
<1>11. ASSUME NEW g \in Handlers,
              \/ AnnounceWriter(g) \/ EnterWriter(g) \/ AddStream(g) \/ Register(g)
              \/ DeleteStream(g) \/ DrainInfo(g) \/ Purge(g) \/ Publish(g)
              \/ CountPut(g) \/ Subscribe(g) \/ Ack(g) \/ CountGet(g) \/ EndStats(g)
       PROVE  pc[h] = "statsInfo" /\ call'[h].todo = call[h].todo
  <2>1. \/ \E r \in Replies : Answer(g, r)
        \/ UNCHANGED call /\ \E l \in PCs \ {"statsInfo"} : Goto(g, l)
    BY <1>11
       DEF AnnounceWriter, EnterWriter, AddStream, Register, DeleteStream, DrainInfo,
           Purge, Publish, CountPut, Subscribe, Ack, CountGet, EndStats, Replies, PCs,
           Writing, Calling
  <2> QED
    BY <2>1, <1>2, <1>3
<1> QED
  BY <1>1, <1>4, <1>5, <1>6, <1>7, <1>8, <1>9, <1>10, <1>11
     DEF Next, Client, Serve, vars, RefuseEmptyName, PanicOnNilBackend, LateCall,
         LoseCall, Redeliver

\* Stats never visits a queue whose deletion was answered: what it has still to
\* visit is registered as long as it holds the read lock.
THEOREM StatsSafe == Spec => []StatsSeesRegisteredQueues
<1>1. Init => StatsSeesRegisteredQueues
  BY DEF Init, Start, StatsSeesRegisteredQueues
<1>2. TypeInv /\ LockInv /\ StatsSeesRegisteredQueues /\ [Next]_vars
        => StatsSeesRegisteredQueues'
  <2> SUFFICES ASSUME TypeInv, LockInv, StatsSeesRegisteredQueues, [Next]_vars,
                      NEW h \in Handlers, pc'[h] = "statsInfo"
               PROVE  call'[h].todo \subseteq Registered'
    BY DEF StatsSeesRegisteredQueues
  <2>1. CASE Registered' = Registered
    BY <2>1, TodoStep DEF StatsSeesRegisteredQueues
  <2>2. ASSUME NEW g \in Handlers, Register(g) \/ Unregister(g) PROVE FALSE
    <3>1. pc[g] \in Writing /\ pc[g] # "statsInfo" /\ readers = {}
      BY <2>2 DEF Register, Unregister, Writing, LockInv
    <3>2. pc[h] # "statsInfo"
      BY <3>1 DEF LockInv
    <3>3. queues' # queues \/ Registered' = Registered
      BY DEF Registered
    <3>4. pc'[h] # "statsInfo"
      BY <2>2, <3>2 DEF Register, Unregister, Answer, Goto, TypeInv, TypeOK
    <3> QED
      BY <3>4
  <2>3. CASE Crash
    BY <2>3 DEF Crash
  <2> QED
    BY <2>1, <2>2, <2>3, MapStep
<1> QED
  BY <1>1, <1>2, TypeInit, TypeStep, LockInit, LockStep, PTL DEF Spec

-----------------------------------------------------------------------------
(* The map and JetStream stay together.  StreamInv adds to the property     *)
(* what makes it inductive: a stream has the subject of a queue that maps   *)
(* to it; a queue about to be registered has its stream; and no request is  *)
(* executed behind the back of its caller.                                  *)

Injective == \A p, q \in Queues : StreamName[p] = StreamName[q] => p = q

Reliable == faults = 0 /\ crashes = 0

StreamInv ==
    /\ \A s \in Streams : stream[s] # None => StreamName[stream[s]] = s
    /\ \A h \in Handlers : pc[h] # "registerDup"
    /\ Reliable => /\ late = {}
                   /\ \A h \in Handlers : pc[h] = "register" => HasStream(call[h].queue)
                   /\ \A q \in Registered : HasStream(q) \/ At("unregister", q)

\* The pcs of which StreamInv says something.
Bound == {"register", "registerDup", "unregister"}

LEMMA StreamInit == Init => StreamInv
BY DEF Init, JSInit, Start, StreamInv, Registered

\* With a stream name of its own, a queue finds its stream absent or its own.
LEMMA OwnStream ==
    ASSUME TypeInv, StreamInv, Injective, NEW q \in Queues
    PROVE  StreamOf(q) \in {None, q}
BY NamesAssumption DEF StreamInv, StreamOf, TypeInv, TypeOK, JSTypeOK, Injective

LEMMA StreamStep ==
    ASSUME Injective
    PROVE  TypeInv /\ LockInv /\ StreamInv /\ [Next]_vars => StreamInv'
<1> SUFFICES ASSUME TypeInv, LockInv, StreamInv, [Next]_vars PROVE StreamInv'
  OBVIOUS
<1>t. /\ pc \in [Handlers -> PCs] /\ call \in [Handlers -> Calls]
      /\ stream \in [Streams -> Queues \cup {None}]
      /\ faults \in Nat /\ crashes \in Nat
  BY DEF TypeInv, TypeOK, JSTypeOK
\* A handler that moves among the other pcs and leaves map and streams alone.
<1>a. ASSUME NEW h \in Handlers,
             pc[h] \notin Bound, pc'[h] \notin Bound,
             \A g \in Handlers \ {h} : pc'[g] = pc[g] /\ call'[g].queue = call[g].queue,
             UNCHANGED <<stream, crashes>>, Registered' = Registered,
             UNCHANGED <<late, faults>> \/ faults' = faults + 1
      PROVE  StreamInv'
  <2>1. Reliable' => Reliable /\ late' = late
    BY <1>a, <1>t DEF Reliable
  <2>2. \A q \in Queues : HasStream(q)' <=> HasStream(q)
    BY <1>a DEF HasStream, StreamOf
  <2>3. \A q : At("unregister", q) => At("unregister", q)'
    BY <1>a DEF At, Bound
  <2>4. \A g \in Handlers : pc'[g] = "register" =>
            pc[g] = "register" /\ call'[g].queue = call[g].queue
    BY <1>a DEF Bound
  <2>5. Reliable' => \A g \in Handlers : pc'[g] = "register" => HasStream(call[g].queue)'
    BY <1>a, <2>1, <2>4 DEF StreamInv, HasStream, StreamOf
  <2>6. Reliable' => \A q \in Registered' : HasStream(q)' \/ At("unregister", q)'
    BY <1>a, <2>1, <2>2, <2>3 DEF StreamInv, Registered
  <2>7. \A g \in Handlers : pc'[g] # "registerDup"
    BY <1>a DEF StreamInv, Bound
  <2> QED
    BY <1>a, <2>1, <2>5, <2>6, <2>7 DEF StreamInv
<1>b. ASSUME NEW h \in Handlers, NEW r \in Replies, Answer(h, r)
      PROVE  /\ pc'[h] \notin Bound
             /\ \A g \in Handlers \ {h} : pc'[g] = pc[g] /\ call'[g].queue = call[g].queue
  BY <1>b, <1>t DEF Answer, Goto, Bound
<1>c. ASSUME NEW h \in Handlers, NEW l \in PCs \ Bound, Goto(h, l),
             \A g \in Handlers \ {h} : call'[g].queue = call[g].queue
      PROVE  /\ pc'[h] \notin Bound
             /\ \A g \in Handlers \ {h} : pc'[g] = pc[g] /\ call'[g].queue = call[g].queue
  BY <1>c, <1>t DEF Goto
<1>d. ASSUME UNCHANGED <<stream, pc, call, crashes, faults>>, Registered' = Registered,
             late' \subseteq late
      PROVE  StreamInv'
  BY <1>d DEF StreamInv, Reliable, HasStream, StreamOf, At
<1>e. ASSUME UNCHANGED queues PROVE Registered' = Registered
  BY <1>e DEF Registered
<1>1. ASSUME NEW h \in Handlers, NEW op \in Ops, NEW q \in Queues \cup {None},
             NEW m \in Unsent \cup {None}, Receive(h, op, q, m)
      PROVE  StreamInv'
  <2>1. \E l \in PCs \ Bound : Goto(h, l)
    BY <1>1 DEF Receive, PCs, Bound
  <2>2. \A g \in Handlers \ {h} : call'[g].queue = call[g].queue
    BY <1>1, <1>t DEF Receive
  <2> QED
    BY <1>1, <2>1, <2>2, <1>a, <1>c, <1>e DEF Receive, Bound, srv, jsVars
<1>2. ASSUME NEW h \in Handlers, RefuseEmptyName(h) PROVE StreamInv'
  BY <1>2, <1>d, <1>e DEF RefuseEmptyName, srv, jsVars
<1>3. ASSUME NEW h \in Handlers, NEW op \in Ops, PanicOnNilBackend(h, op) PROVE StreamInv'
  BY <1>3, <1>d, <1>e DEF PanicOnNilBackend, srv, jsVars
<1>4. ASSUME NEW h \in Handlers, AnnounceWriter(h) PROVE StreamInv'
  BY <1>4, <1>a, <1>c, <1>e DEF AnnounceWriter, PCs, Bound, jsVars
<1>5. ASSUME NEW h \in Handlers, EnterWriter(h) PROVE StreamInv'
  <2>1. \/ Answer(h, "error")
        \/ UNCHANGED call /\ \E l \in PCs \ Bound : Goto(h, l)
    BY <1>5 DEF EnterWriter, PCs, Writing, Calling, Bound
  <2> QED
    BY <1>5, <2>1, <1>a, <1>b, <1>c, <1>e DEF EnterWriter, Replies, Bound, jsVars
<1>6. ASSUME NEW h \in Handlers, LookUp(h) PROVE StreamInv'
  <2>1. CASE Answer(h, "error")
    BY <1>6, <2>1, <1>a, <1>b, <1>e DEF LookUp, Replies, Bound, jsVars, srv
  <2>2. CASE /\ call' = [call EXCEPT ![h].live = TRUE]
             /\ \E l \in {"info", "publish", "subscribe"} : Goto(h, l)
    <3>1. \A g \in Handlers \ {h} : call'[g].queue = call[g].queue
      BY <2>2, <1>t
    <3> QED
      BY <1>6, <2>2, <3>1, <1>a, <1>c, <1>e
         DEF LookUp, PCs, Calling, Bound, jsVars, srv
  <2> QED
    BY <1>6, <2>1, <2>2 DEF LookUp
<1>7. ASSUME NEW h \in Handlers, AddStream(h) PROVE StreamInv'
  <2> DEFINE q == call[h].queue
  <2>1. q \in Queues /\ pc[h] = "addStream"
    BY <1>7 DEF AddStream, TypeInv, CallOK
  <2>2. CASE JSAdd(q) /\ Goto(h, "register") /\ UNCHANGED <<call, late, faults>>
    <3>1. stream' = [stream EXCEPT ![StreamName[q]] = q]
      BY <2>1, <2>2, OwnStream DEF JSAdd, CanAdd
    <3>2. \A r \in Queues : HasStream(r) => HasStream(r)'
      BY <2>1, <3>1, NamesAssumption, <1>t DEF HasStream, StreamOf, Injective
    <3>3. HasStream(q)'
      BY <2>1, <2>2, <3>1, NamesAssumption, <1>t DEF HasStream, StreamOf
    <3>4. \A g \in Handlers : pc'[g] = "register" => g = h
      BY <2>1, <2>2, <1>t DEF Goto, LockInv, Writing
    <3>5. \A s \in Streams : stream'[s] # None => StreamName[stream'[s]] = s
      BY <2>1, <3>1, <1>t, NamesAssumption DEF StreamInv
    <3>6. \A r : At("unregister", r) => At("unregister", r)'
      BY <2>1, <2>2, <1>t DEF At, Goto
    <3>7. Registered' = Registered /\ Reliable' = Reliable
      BY <1>7, <2>2, <1>e DEF AddStream, Reliable
    <3>8. \A g \in Handlers : pc'[g] # "registerDup"
      BY <2>2, <1>t DEF Goto, StreamInv
    <3>9. Registered \subseteq Queues
      BY DEF Registered
    <3> QED
      BY <2>2, <3>2, <3>3, <3>4, <3>5, <3>6, <3>7, <3>8, <3>9 DEF StreamInv
  <2>3. CASE Unanswered(h) /\ Answer(h, "error")
    BY <1>7, <2>3, <1>a, <1>b, <1>e DEF AddStream, Unanswered, Replies, Bound, jsVars
  <2>4. CanAdd(q)
    BY <2>1, OwnStream DEF CanAdd
  <2> QED
    BY <1>7, <2>2, <2>3, <2>4 DEF AddStream
<1>8. ASSUME NEW h \in Handlers, Register(h) PROVE StreamInv'
  <2> DEFINE q == call[h].queue
  <2>1. q \in Queues /\ pc[h] = "register"
    BY <1>8 DEF Register, TypeInv, CallOK, StreamInv
  <2>2. Registered' \subseteq Registered \cup {q}
    BY <1>8, <2>1 DEF Register, Registered, TypeInv, TypeOK
  <2>3. \A g \in Handlers : pc'[g] \notin Bound
    BY <1>8, <2>1, <1>b, <1>t DEF Register, LockInv, Writing, Bound, Replies
  <2>4. \A r \in Queues : ~At("unregister", r)
    BY <2>1, <1>t DEF At, LockInv, Writing
  <2>5. \A r \in Queues : HasStream(r)' <=> HasStream(r)
    BY <1>8 DEF Register, jsVars, HasStream, StreamOf
  <2>6. Reliable => HasStream(q)
    BY <2>1 DEF StreamInv
  <2>7. Reliable' = Reliable /\ UNCHANGED <<late, stream>>
    BY <1>8 DEF Register, Reliable, jsVars
  <2>8. Registered \subseteq Queues
    BY DEF Registered
  <2> HIDE DEF q
  <2> QED
    BY <2>1, <2>2, <2>3, <2>4, <2>5, <2>6, <2>7, <2>8 DEF StreamInv, Bound
<1>9. ASSUME NEW h \in Handlers, DeleteStream(h) PROVE StreamInv'
  <2>1. PICK q \in Queues : q = call[h].queue /\ pc[h] = "deleteStream"
    BY <1>9 DEF DeleteStream, TypeInv, CallOK
  <2>2. CASE JSDelete(q) /\ Goto(h, "unregister") /\ UNCHANGED <<call, late, faults>>
    <3>1. stream' = [stream EXCEPT ![StreamName[q]] = None]
      BY <2>2 DEF JSDelete
    <3>2. \A r \in Queues \ {q} : HasStream(r) => HasStream(r)'
      BY <2>1, <3>1, NamesAssumption, <1>t DEF HasStream, StreamOf, Injective
    <3>3. At("unregister", q)' /\ \A r : At("unregister", r) => At("unregister", r)'
      BY <2>1, <2>2, <1>t DEF At, Goto
    <3>4. \A g \in Handlers : pc'[g] \notin {"register", "registerDup"}
      BY <2>1, <2>2, <1>t DEF Goto, LockInv, Writing
    <3>5. \A s \in Streams : stream'[s] # None => StreamName[stream'[s]] = s
      BY <3>1, <1>t DEF StreamInv
    <3>6. Registered' = Registered /\ Reliable' = Reliable
      BY <1>9, <2>2, <1>e DEF DeleteStream, Reliable
    <3>7. Registered \subseteq Queues
      BY DEF Registered
    <3>8. Reliable' => \A r \in Registered' : HasStream(r)' \/ At("unregister", r)'
      BY <3>2, <3>3, <3>6, <3>7 DEF StreamInv
    <3>9. Reliable' => late' = {}
      BY <2>2, <3>6 DEF StreamInv
    <3> QED
      BY <3>4, <3>5, <3>8, <3>9 DEF StreamInv
  <2>3. CASE Answer(h, "error") /\ (Unanswered(h) \/ UNCHANGED <<jsVars, late, faults>>)
    BY <1>9, <2>1, <2>3, <1>a, <1>b, <1>e DEF DeleteStream, Unanswered, Replies, Bound, jsVars
  <2> QED
    BY <1>9, <2>1, <2>2, <2>3 DEF DeleteStream
<1>10. ASSUME NEW h \in Handlers, Unregister(h) PROVE StreamInv'
  <2> DEFINE q == call[h].queue
  <2>1. q \in Queues /\ pc[h] = "unregister"
    BY <1>10 DEF Unregister, TypeInv, CallOK
  <2>2. Registered' = Registered \ {q}
    BY <1>10, <2>1 DEF Unregister, Registered, TypeInv, TypeOK
  <2>3. \A g \in Handlers : pc'[g] \notin Bound
    BY <1>10, <2>1, <1>t DEF Unregister, Goto, LockInv, Writing, Bound
  <2>4. \A r \in Queues \ {q} : ~At("unregister", r)
    BY <2>1, <1>t DEF At, LockInv, Writing
  <2>5. \A r \in Queues : HasStream(r)' <=> HasStream(r)
    BY <1>10 DEF Unregister, jsVars, HasStream, StreamOf
  <2>6. Reliable' = Reliable /\ UNCHANGED <<late, stream>>
    BY <1>10 DEF Unregister, Reliable, jsVars
  <2>7. Registered \subseteq Queues
    BY DEF Registered
  <2> HIDE DEF q
  <2> QED
    BY <2>2, <2>3, <2>4, <2>5, <2>6, <2>7 DEF StreamInv, Bound
<1>11. ASSUME NEW h \in Handlers, DrainInfo(h) PROVE StreamInv'
  <2>1. Registered' = Registered
    BY <1>11, <1>e, CountType, ContentsNat DEF DrainInfo, Counters
  <2> QED
    BY <1>11, <2>1, <1>a, <1>c DEF DrainInfo, UnansweredRead, PCs, Calling, Bound, jsVars
<1>12. ASSUME NEW h \in Handlers, Purge(h) PROVE StreamInv'
  <2>1. \E r \in {"ok", "error"} : Answer(h, r)
    BY <1>12 DEF Purge
  <2> QED
    BY <1>12, <2>1, <1>a, <1>b, <1>e
       DEF Purge, JSPurge, Unanswered, Replies, Bound, jsVars, srv
<1>13. ASSUME NEW h \in Handlers, Publish(h) PROVE StreamInv'
  <2>1. \/ Answer(h, "error")
        \/ Goto(h, "countPut") /\ UNCHANGED call
    BY <1>13 DEF Publish
  <2>2. UNCHANGED stream /\ (UNCHANGED <<late, faults>> \/ faults' = faults + 1)
    BY <1>13 DEF Publish, JSPublish, Unanswered, jsVars
  <2> QED
    BY <1>13, <2>1, <2>2, <1>a, <1>b, <1>c, <1>e DEF Publish, Replies, Bound, PCs, srv
<1>14. ASSUME NEW h \in Handlers, CountPut(h) PROVE StreamInv'
  <2>1. Registered' = Registered
    BY <1>14, CountType DEF CountPut, Counters
  <2> QED
    BY <1>14, <2>1, <1>a, <1>b DEF CountPut, Replies, Bound, jsVars
<1>15. ASSUME NEW h \in Handlers, Subscribe(h) PROVE StreamInv'
  <2>1. \/ Answer(h, "error")
        \/ Goto(h, "fetch") /\ UNCHANGED call
    BY <1>15 DEF Subscribe
  <2> QED
    BY <1>15, <2>1, <1>a, <1>b, <1>c, <1>e
       DEF Subscribe, UnansweredRead, Replies, Bound, PCs, Calling, jsVars, srv
<1>16. ASSUME NEW h \in Handlers, Fetch(h) PROVE StreamInv'
  <2>1. UNCHANGED stream /\ (UNCHANGED <<late, faults>> \/ faults' = faults + 1)
    BY <1>16 DEF Fetch, JSDeliver, Unanswered, jsVars
  <2>2. CASE \E r \in {"empty", "error"} : Answer(h, r)
    BY <1>16, <2>1, <2>2, <1>a, <1>b, <1>e DEF Fetch, Replies, Bound, srv
  <2>3. CASE \E m \in Msgs : call' = [call EXCEPT ![h].msg = m] /\ Goto(h, "ack")
    <3>1. \A g \in Handlers \ {h} : call'[g].queue = call[g].queue
      BY <2>3, <1>t
    <3> QED
      BY <1>16, <2>1, <2>3, <3>1, <1>a, <1>c, <1>e DEF Fetch, PCs, Bound, srv
  <2> QED
    BY <1>16, <2>2, <2>3 DEF Fetch, Ready
<1>17. ASSUME NEW h \in Handlers, Ack(h) PROVE StreamInv'
  <2>1. UNCHANGED stream /\ (UNCHANGED <<late, faults>> \/ faults' = faults + 1)
    BY <1>17 DEF Ack, JSAck, UnansweredRead
  <2> QED
    BY <1>17, <2>1, <1>a, <1>c, <1>e DEF Ack, PCs, Bound, srv
<1>18. ASSUME NEW h \in Handlers, CountGet(h) PROVE StreamInv'
  <2>1. Registered' = Registered
    BY <1>18, CountType DEF CountGet, Counters
  <2> QED
    BY <1>18, <2>1, <1>a, <1>b DEF CountGet, Replies, Bound, jsVars
<1>19. ASSUME NEW h \in Handlers, BeginStats(h) PROVE StreamInv'
  <2>1. \A g \in Handlers \ {h} : call'[g].queue = call[g].queue
    BY <1>19, <1>t DEF BeginStats
  <2> QED
    BY <1>19, <2>1, <1>a, <1>c, <1>e DEF BeginStats, PCs, Bound, jsVars
<1>20. ASSUME NEW h \in Handlers, StatsInfo(h) PROVE StreamInv'
  <2>1. \A g \in Handlers : call'[g].queue = call[g].queue
    BY <1>20, <1>t DEF StatsInfo
  <2> QED
    BY <1>20, <2>1, <1>a, <1>e DEF StatsInfo, Bound, srv, jsVars
<1>21. ASSUME NEW h \in Handlers, EndStats(h) PROVE StreamInv'
  BY <1>21, <1>a, <1>b, <1>e DEF EndStats, Replies, Bound, jsVars
<1>22. ASSUME NEW r \in late, LateCall(r) PROVE StreamInv'
  <2>1. r.queue \in Queues /\ r.at \in Calling
    BY DEF TypeInv, TypeOK, LateCalls
  <2>2. ~Reliable /\ ~Reliable'
    BY <1>22 DEF StreamInv, LateCall, Reliable
  <2>3. \/ stream' = stream
        \/ stream' = [stream EXCEPT ![StreamName[r.queue]] = r.queue]
        \/ stream' = [stream EXCEPT ![StreamName[r.queue]] = None]
    BY <1>22, <2>1
       DEF LateCall, Calling, JSAdd, JSDelete, JSPurge, JSPublish, JSDeliver
  <2>4. \A s \in Streams : stream'[s] # None => StreamName[stream'[s]] = s
    BY <2>1, <2>3, <1>t, NamesAssumption DEF StreamInv
  <2> QED
    BY <1>22, <2>2, <2>4 DEF StreamInv, LateCall
<1>23. ASSUME NEW r \in late, LoseCall(r) PROVE StreamInv'
  BY <1>23, <1>d, <1>e DEF LoseCall, srv, jsVars
<1>24. ASSUME NEW m \in Msgs, Redeliver(m) PROVE StreamInv'
  BY <1>24, <1>d, <1>e DEF Redeliver, JSRedeliver, srv
<1>25. CASE Crash
  <2>1. ~Reliable'
    BY <1>25, <1>t DEF Crash, Reliable
  <2> QED
    BY <1>25, <2>1 DEF Crash, StreamInv, jsVars
<1>26. CASE UNCHANGED vars
  BY <1>26, <1>d, <1>e DEF vars
<1> QED
  BY <1>1, <1>2, <1>3, <1>4, <1>5, <1>6, <1>7, <1>8, <1>9, <1>10, <1>11, <1>12, <1>13,
     <1>14, <1>15, <1>16, <1>17, <1>18, <1>19, <1>20, <1>21, <1>22, <1>23, <1>24,
     <1>25, <1>26
     DEF Next, Client, Serve

\* While every call of JetStream is answered and the process is not restarted,
\* every queue in the map has its stream, for queue names that ToUpper keeps
\* apart: the lock held over AddStream and DeleteStream is what it takes.
THEOREM StreamsMatch ==
    ASSUME Injective
    PROVE  Spec => []EachQueueHasItsStream
<1>1. StreamInv => EachQueueHasItsStream
  BY DEF StreamInv, Reliable, EachQueueHasItsStream
<1>2. TypeInv /\ LockInv /\ StreamInv /\ [Next]_vars => StreamInv'
  BY StreamStep
<1> QED
  BY <1>1, <1>2, TypeInit, TypeStep, LockInit, LockStep, StreamInit, PTL DEF Spec

-----------------------------------------------------------------------------
(* How a request moves.                                                    *)

SameRequest(g) ==
    /\ pc'[g] = pc[g]
    /\ call'[g].op = call[g].op
    /\ call'[g].queue = call[g].queue
    /\ call'[g].msg = call[g].msg

\* An answer is the end of one request and leaves the others alone.
LEMMA AnswerMoves ==
    ASSUME TypeInv, NEW h \in Handlers, NEW r, Answer(h, r)
    PROVE  /\ pc'[h] = "idle" /\ call'[h] = NoCall
           /\ \A g \in Handlers \ {h} : SameRequest(g)
BY DEF Answer, Goto, SameRequest, TypeInv, TypeOK

\* So does a handler that goes on.
LEMMA GotoMoves ==
    ASSUME TypeInv, NEW h \in Handlers, NEW l, Goto(h, l), UNCHANGED call
    PROVE  /\ pc'[h] = l /\ call'[h] = call[h]
           /\ \A g \in Handlers \ {h} : SameRequest(g)
BY DEF Goto, SameRequest, TypeInv, TypeOK

\* The steps of a request: what it is about changes only when a dequeue gets a
\* message.
Ahead(h) ==
    \/ pc[h] = "lock" /\ pc'[h] = "readersOut"
    \/ pc[h] = "readersOut" /\ call[h].op = "create" /\ pc'[h] = "addStream"
    \/ pc[h] = "readersOut" /\ call[h].op # "create" /\ pc'[h] = "deleteStream"
    \/ pc[h] = "rlock" /\ call[h].op = "drain" /\ pc'[h] = "info"
    \/ pc[h] = "rlock" /\ call[h].op = "put" /\ pc'[h] = "publish"
    \/ pc[h] = "rlock" /\ call[h].op \notin {"drain", "put"} /\ pc'[h] = "subscribe"
    \/ pc[h] = "rlock" /\ call[h].op = "stats" /\ pc'[h] = "statsInfo"
    \/ pc[h] = "statsInfo" /\ pc'[h] = "statsInfo"
    \/ pc[h] = "addStream" /\ pc'[h] \in {"register", "registerDup"}
    \/ pc[h] = "deleteStream" /\ pc'[h] = "unregister"
    \/ pc[h] = "info" /\ pc'[h] = "purge"
    \/ pc[h] = "publish" /\ pc'[h] = "countPut"
    \/ pc[h] = "subscribe" /\ pc'[h] = "fetch"
    \/ pc[h] = "ack" /\ pc'[h] = "countGet"

OwnMove(h) ==
    \/ pc'[h] = "idle" /\ call'[h].msg = None
    \/ /\ Ahead(h)
       /\ call'[h].op = call[h].op
       /\ call'[h].queue = call[h].queue
       /\ call'[h].msg = call[h].msg
    \/ /\ pc[h] = "fetch" /\ pc'[h] = "ack"
       /\ call'[h].op = call[h].op
       /\ call'[h].queue = call[h].queue
       /\ call'[h].msg \in Ready(call[h].queue)

\* Every step of a handler moves its own request and leaves the others alone.
LEMMA Moves ==
    ASSUME TypeInv, NEW h \in Handlers, Serve(h)
    PROVE  OwnMove(h) /\ \A g \in Handlers \ {h} : SameRequest(g)
<1> USE DEF OwnMove
<1>t. pc \in [Handlers -> PCs] /\ call \in [Handlers -> Calls]
  BY DEF TypeInv, TypeOK
<1>a. ASSUME NEW r, Answer(h, r)
      PROVE  OwnMove(h) /\ \A g \in Handlers \ {h} : SameRequest(g)
  BY <1>a, AnswerMoves DEF NoCall
<1>b. ASSUME NEW l, Goto(h, l), UNCHANGED call, pc'[h] = l => Ahead(h)
      PROVE  OwnMove(h) /\ \A g \in Handlers \ {h} : SameRequest(g)
  BY <1>b, GotoMoves
<1>1. CASE AnnounceWriter(h)
  BY <1>1, <1>b DEF AnnounceWriter, Ahead
<1>2. CASE EnterWriter(h)
  BY <1>2, <1>a, <1>b DEF EnterWriter, Ahead
<1>3. CASE LookUp(h)
  <2>1. CASE call[h].queue \in Registered
    <3>1. /\ pc[h] = "rlock"
          /\ call' = [call EXCEPT ![h].live = TRUE]
          /\ Goto(h, CASE call[h].op = "drain" -> "info"
                       [] call[h].op = "put"   -> "publish"
                       [] OTHER                -> "subscribe")
      BY <1>3, <2>1 DEF LookUp
    <3> QED
      BY <3>1, <1>t DEF Goto, Ahead, SameRequest, Calls
  <2>2. CASE call[h].queue \notin Registered
    BY <1>3, <2>2, <1>a DEF LookUp
  <2> QED
    BY <2>1, <2>2
<1>4. CASE AddStream(h)
  BY <1>4, <1>a, <1>b DEF AddStream, Ahead
<1>5. CASE Register(h)
  BY <1>5, <1>a DEF Register
<1>6. CASE DeleteStream(h)
  BY <1>6, <1>a, <1>b DEF DeleteStream, Ahead
<1>7. CASE Unregister(h)
  BY <1>7, <1>t DEF Unregister, Goto, NoCall, SameRequest, Calls
<1>8. CASE DrainInfo(h)
  BY <1>8, <1>b DEF DrainInfo, Ahead
<1>9. CASE Purge(h)
  BY <1>9, <1>a DEF Purge
<1>10. CASE Publish(h)
  BY <1>10, <1>a, <1>b DEF Publish, Ahead
<1>11. CASE CountPut(h)
  BY <1>11, <1>a DEF CountPut
<1>12. CASE Subscribe(h)
  BY <1>12, <1>a, <1>b DEF Subscribe, Ahead
<1>13. CASE Fetch(h)
  <2>1. CASE \E r \in {"empty", "error"} : Answer(h, r)
    BY <2>1, <1>a
  <2>2. CASE \E m \in Ready(call[h].queue) : call' = [call EXCEPT ![h].msg = m] /\ Goto(h, "ack")
    BY <1>13, <2>2, <1>t DEF Fetch, Goto, SameRequest, Calls, Ready
  <2> QED
    BY <1>13, <2>1, <2>2 DEF Fetch
<1>14. CASE Ack(h)
  BY <1>14, <1>b DEF Ack, Ahead
<1>15. CASE CountGet(h)
  BY <1>15, <1>a DEF CountGet
<1>16. CASE BeginStats(h)
  BY <1>16, <1>t DEF BeginStats, Goto, Ahead, SameRequest, Calls
<1>17. CASE StatsInfo(h)
  BY <1>17, <1>t DEF StatsInfo, Ahead, SameRequest, Calls
<1>18. CASE EndStats(h)
  BY <1>18, <1>a DEF EndStats
<1> QED
  BY <1>1, <1>2, <1>3, <1>4, <1>5, <1>6, <1>7, <1>8, <1>9, <1>10, <1>11, <1>12, <1>13,
     <1>14, <1>15, <1>16, <1>17, <1>18 DEF Serve

\* The step of a handler is the action of its pc.
LEMMA OwnAction ==
    ASSUME NEW h \in Handlers, Serve(h)
    PROVE  /\ pc[h] = "readersOut" => EnterWriter(h)
           /\ pc[h] = "addStream" => AddStream(h)
           /\ pc[h] = "deleteStream" => DeleteStream(h)
           /\ pc[h] = "publish" => Publish(h)
           /\ pc[h] = "countPut" => CountPut(h)
           /\ pc[h] = "fetch" => Fetch(h)
           /\ pc[h] = "ack" => Ack(h)
           /\ pc[h] = "countGet" => CountGet(h)
BY DEF Serve, AnnounceWriter, EnterWriter, LookUp, AddStream, Register, DeleteStream,
       Unregister, DrainInfo, Purge, Publish, CountPut, Subscribe, Fetch, Ack, CountGet,
       BeginStats, StatsInfo, EndStats

\* A call that gets no answer becomes late, and its request is answered.
LateStep(h) ==
    \/ UNCHANGED late
    \/ late' = late \cup {Request(h)} /\ pc[h] \in Calling /\ pc'[h] = "idle" /\ faults' = faults + 1

LEMMA LateGrows ==
    ASSUME TypeInv, NEW h \in Handlers, Serve(h)
    PROVE  LateStep(h)
<1>a. ASSUME NEW r, Unanswered(h), Answer(h, r), pc[h] \in Calling PROVE LateStep(h)
  BY <1>a, AnswerMoves DEF Unanswered, LateStep
<1>1. CASE AddStream(h) \/ DeleteStream(h) \/ Purge(h) \/ Publish(h) \/ Fetch(h)
  BY <1>1, <1>a DEF AddStream, DeleteStream, Purge, Publish, Fetch, Calling, LateStep
<1>2. CASE \/ AnnounceWriter(h) \/ EnterWriter(h) \/ LookUp(h) \/ Register(h) \/ Unregister(h)
           \/ DrainInfo(h) \/ CountPut(h) \/ Subscribe(h) \/ Ack(h) \/ CountGet(h)
           \/ BeginStats(h) \/ StatsInfo(h) \/ EndStats(h)
  BY <1>2
     DEF AnnounceWriter, EnterWriter, LookUp, Register, Unregister, DrainInfo, CountPut,
         Subscribe, Ack, CountGet, BeginStats, StatsInfo, EndStats, UnansweredRead, LateStep
<1> QED
  BY <1>1, <1>2 DEF Serve

-----------------------------------------------------------------------------
(* What a step does to the messages JetStream keeps.                       *)

\* The messages of q are removed.
Removes(q) ==
    /\ box' = [m \in Msgs |-> IF m \in Contents(q) THEN "removed" ELSE box[m]]
    /\ UNCHANGED home

\* A message is stored.
Stores(q, m) ==
    /\ HasStream(q)
    /\ box' = [box EXCEPT ![m] = "ready"]
    /\ home' = [home EXCEPT ![m] = q]

\* A stored message is delivered, acknowledged or made ready again.
Turns(m, from, to) ==
    /\ box[m] = from
    /\ box' = [box EXCEPT ![m] = to]
    /\ UNCHANGED home

Removal(at, q) ==
    \/ at = "purge" /\ UNCHANGED stream
    \/ at = "deleteStream" /\ stream' = [stream EXCEPT ![StreamName[q]] = None]

\* The effect of a call of JetStream that is executed.
Effect(r) ==
    \/ /\ r.at \in {"purge", "deleteStream"}
       /\ Removal(r.at, r.queue) /\ Removes(r.queue)
    \/ /\ r.at = "publish"
       /\ Stores(r.queue, r.msg) /\ UNCHANGED stream
    \/ /\ r.at = "fetch" /\ UNCHANGED stream
       /\ \E m \in Ready(r.queue) : Turns(m, "ready", "pending")
    \/ /\ r.at = "addStream" /\ JSAdd(r.queue)
    \/ UNCHANGED jsVars

\* The effect of an acknowledgement.
AckEffect(h) ==
    /\ pc[h] = "ack" /\ UNCHANGED stream
    /\ Turns(call[h].msg, "pending", "acked")

LEMMA ServeEffect ==
    ASSUME TypeInv, NEW h \in Handlers, Serve(h)
    PROVE  Effect(Request(h)) \/ AckEffect(h)
<1>t. box \in [Msgs -> BoxStates] /\ home \in [Msgs -> Queues \cup {None}]
  BY DEF TypeInv, TypeOK, JSTypeOK
<1>1. CASE AddStream(h)
  BY <1>1 DEF AddStream, Unanswered, Effect, Request
<1>2. CASE DeleteStream(h)
  BY <1>2 DEF DeleteStream, Unanswered, JSDelete, Empty, Effect, Request, Removal, Removes
<1>3. CASE Purge(h)
  BY <1>3 DEF Purge, Unanswered, JSPurge, Empty, Effect, Request, Removal, Removes
<1>4. CASE Publish(h)
  BY <1>4 DEF Publish, Unanswered, JSPublish, Effect, Request, Stores
<1>5. CASE Fetch(h)
  BY <1>5 DEF Fetch, Unanswered, JSDeliver, Effect, Request, Ready, Turns
<1>6. CASE Ack(h)
  BY <1>6 DEF Ack, UnansweredRead, JSAck, Effect, AckEffect, Turns, jsVars
<1>7. CASE \/ AnnounceWriter(h) \/ EnterWriter(h) \/ LookUp(h) \/ Register(h) \/ Unregister(h)
           \/ DrainInfo(h) \/ CountPut(h) \/ Subscribe(h) \/ CountGet(h)
           \/ BeginStats(h) \/ StatsInfo(h) \/ EndStats(h)
  BY <1>7
     DEF AnnounceWriter, EnterWriter, LookUp, Register, Unregister, DrainInfo, CountPut,
         Subscribe, CountGet, BeginStats, StatsInfo, EndStats, UnansweredRead, Effect, jsVars
<1> QED
  BY <1>1, <1>2, <1>3, <1>4, <1>5, <1>6, <1>7 DEF Serve

LEMMA LateEffect ==
    ASSUME TypeInv, NEW r \in late, LateCall(r)
    PROVE  Effect(r)
<1>1. r.at \in Calling
  BY DEF TypeInv, TypeOK, LateCalls
<1> QED
  BY <1>1
     DEF LateCall, Calling, JSDelete, JSPurge, Empty, JSPublish, JSDeliver, Ready, Effect,
         Removal, Removes, Stores, Turns, jsVars

\* How the message of a request goes with what its handler does next.
LEMMA ServeResult ==
    ASSUME TypeInv, NEW h \in Handlers, Serve(h)
    PROVE  /\ pc[h] = "publish" => UNCHANGED jsVars \/ pc'[h] = "countPut"
           /\ pc'[h] = "countPut" => Stores(call[h].queue, call[h].msg) /\ UNCHANGED stream
           /\ pc'[h] = "ack" => /\ Turns(call'[h].msg, "ready", "pending") /\ UNCHANGED stream
                                /\ HasStream(call[h].queue)
           /\ pc'[h] = "countGet" =>
                \/ AckEffect(h)
                \/ UNCHANGED jsVars /\ (faults' = faults + 1 \/ box[call[h].msg] # "pending")
<1>m. OwnMove(h)
  BY Moves
<1>t. box \in [Msgs -> BoxStates] /\ call \in [Handlers -> Calls] /\ pc \in [Handlers -> PCs]
  BY DEF TypeInv, TypeOK, JSTypeOK
<1>1. pc[h] = "publish" => Publish(h)
  BY OwnAction
<1>2. pc[h] = "fetch" => Fetch(h)
  BY OwnAction
<1>3. pc[h] = "ack" => Ack(h)
  BY OwnAction
<1>4. pc[h] = "publish" => UNCHANGED jsVars \/ pc'[h] = "countPut"
  BY <1>1, <1>t DEF Publish, Unanswered, Goto
<1>5. pc'[h] = "countPut" => Stores(call[h].queue, call[h].msg) /\ UNCHANGED stream
  <2>1. pc'[h] = "countPut" => pc[h] = "publish"
    BY <1>m DEF OwnMove, Ahead
  <2> QED
    BY <1>1, <2>1, <1>t DEF Publish, Answer, Goto, JSPublish, Stores
<1>6. pc'[h] = "ack" => /\ Turns(call'[h].msg, "ready", "pending") /\ UNCHANGED stream
                        /\ HasStream(call[h].queue)
  <2>1. pc'[h] = "ack" => pc[h] = "fetch"
    BY <1>m DEF OwnMove, Ahead
  <2>2. ASSUME pc'[h] = "ack"
        PROVE  \E m \in Ready(call[h].queue) :
                  JSDeliver(m) /\ call' = [call EXCEPT ![h].msg = m]
                    /\ HasStream(call[h].queue)
    BY <1>2, <2>1, <2>2, <1>t DEF Fetch, Answer, Goto
  <2> QED
    BY <2>2, <1>t DEF JSDeliver, Ready, Turns, Calls
<1>7. pc'[h] = "countGet" =>
        \/ AckEffect(h)
        \/ UNCHANGED jsVars /\ (faults' = faults + 1 \/ box[call[h].msg] # "pending")
  <2>1. pc'[h] = "countGet" => pc[h] = "ack"
    BY <1>m DEF OwnMove, Ahead
  <2> QED
    BY <1>3, <2>1 DEF Ack, JSAck, UnansweredRead, AckEffect, Turns, jsVars
<1> QED
  BY <1>4, <1>5, <1>6, <1>7

\* A message that nobody publishes stays unsent.
LEMMA UnsentStays ==
    ASSUME TypeInv, NEW r, Effect(r), NEW m \in Msgs, box[m] = "unsent",
           r.at = "publish" => r.msg # m
    PROVE  box'[m] = "unsent"
<1>t. box \in [Msgs -> BoxStates]
  BY DEF TypeInv, TypeOK, JSTypeOK
<1> QED
  BY <1>t DEF Effect, Removes, Contents, Stored, Stores, Turns, Ready, JSAdd, jsVars

-----------------------------------------------------------------------------
(* CreateQueue adds what is not registered.                                *)

Creating == {"addStream", "register", "registerDup"}

CreateInv == \A h \in Handlers : pc[h] \in Creating => call[h].queue \notin Registered

\* Only EnterWriter leads a handler into the part of CreateQueue that adds.
LEMMA StartsToCreate ==
    ASSUME TypeInv, NEW h \in Handlers, Serve(h), pc'[h] \in Creating
    PROVE  /\ call'[h].queue = call[h].queue
           /\ UNCHANGED queues
           /\ \/ pc[h] \in Creating
              \/ call[h].queue \notin Registered
<1>1. OwnMove(h)
  BY Moves
<1>2. /\ call'[h].queue = call[h].queue
      /\ (pc[h] = "readersOut" /\ call[h].op = "create") \/ pc[h] = "addStream"
  BY <1>1 DEF OwnMove, Ahead, Creating
<1>3. CASE pc[h] = "readersOut" /\ call[h].op = "create"
  <2>1. EnterWriter(h)
    BY <1>3, OwnAction
  <2>2. ~Answer(h, "error")
    BY AnswerMoves DEF Creating
  <2> QED
    BY <1>2, <1>3, <2>1, <2>2 DEF EnterWriter, Refuses
<1>4. CASE pc[h] = "addStream"
  <2>1. AddStream(h)
    BY <1>4, OwnAction
  <2> QED
    BY <1>2, <1>4, <2>1 DEF AddStream, Creating
<1> QED
  BY <1>2, <1>3, <1>4

LEMMA CreateInit == Init => CreateInv
BY DEF Init, Start, CreateInv, Creating

\* What a step of a handler does to the keys of the map.
LEMMA ServeMap ==
    ASSUME TypeInv, NEW h \in Handlers, Serve(h)
    PROVE  UNCHANGED Registered \/ Register(h) \/ Unregister(h)
<1>1. CASE DrainInfo(h) \/ CountPut(h) \/ CountGet(h)
  BY <1>1, CountType, ContentsNat DEF DrainInfo, CountPut, CountGet, Counters, Registered
<1>2. CASE \/ AnnounceWriter(h) \/ EnterWriter(h) \/ LookUp(h) \/ AddStream(h)
           \/ DeleteStream(h) \/ Purge(h) \/ Publish(h) \/ Subscribe(h) \/ Fetch(h)
           \/ Ack(h) \/ BeginStats(h) \/ StatsInfo(h) \/ EndStats(h)
  BY <1>2
     DEF AnnounceWriter, EnterWriter, LookUp, AddStream, DeleteStream, Purge, Publish,
         Subscribe, Fetch, Ack, BeginStats, StatsInfo, EndStats, srv, Registered
<1> QED
  BY <1>1, <1>2 DEF Serve

LEMMA CreateStep == TypeInv /\ LockInv /\ CreateInv /\ [Next]_vars => CreateInv'
<1> SUFFICES ASSUME TypeInv, LockInv, CreateInv, [Next]_vars,
                    NEW g \in Handlers, pc'[g] \in Creating
             PROVE  call'[g].queue \notin Registered'
  BY DEF CreateInv
<1>1. ASSUME NEW h \in Handlers, Serve(h) PROVE call'[g].queue \notin Registered'
  <2>1. CASE h = g
    BY <1>1, <2>1, StartsToCreate DEF CreateInv, Registered
  <2>2. CASE h # g
    <3>1. pc[g] \in Creating /\ call'[g].queue = call[g].queue
      BY <1>1, <2>2, Moves DEF SameRequest
    <3>2. pc[h] \notin Writing
      BY <2>2, <3>1 DEF LockInv, Creating, Writing
    <3>3. UNCHANGED Registered
      BY <1>1, <3>2, ServeMap DEF Register, Unregister, Writing
    <3> QED
      BY <3>1, <3>3 DEF CreateInv
  <2> QED
    BY <2>1, <2>2
<1>2. ASSUME NEW h \in Handlers, Client(h) PROVE call'[g].queue \notin Registered'
  <2>t. pc \in [Handlers -> PCs] /\ call \in [Handlers -> Calls]
    BY DEF TypeInv, TypeOK
  <2>1. /\ UNCHANGED queues
        /\ \/ UNCHANGED <<pc, call>>
           \/ \E l \in {"lock", "rlock"} : Goto(h, l) /\ \A k \in Handlers \ {h} : call'[k] = call[k]
    BY <1>2, <2>t DEF Client, Receive, RefuseEmptyName, PanicOnNilBackend, srv, Goto
  <2> QED
    BY <2>1, <2>t DEF CreateInv, Registered, Goto, Creating
<1>3. CASE Crash
  BY <1>3 DEF Crash, Creating
<1>4. CASE UNCHANGED <<queues, pc, call>>
  BY <1>4 DEF CreateInv, Registered
<1>5. CASE (\E r \in late : LateCall(r) \/ LoseCall(r)) \/ (\E m \in Msgs : Redeliver(m)) \/ UNCHANGED vars
  BY <1>4, <1>5 DEF LateCall, LoseCall, Redeliver, srv, vars
<1> QED
  BY <1>1, <1>2, <1>3, <1>5 DEF Next

-----------------------------------------------------------------------------
(* A registered queue without a stream.                                    *)

\* A call of JetStream that a handler makes of the stream of a wedged queue
\* cannot give it a stream: only CreateQueue would, and it refuses the name.
LEMMA WedgedStream ==
    ASSUME TypeInv, Injective, NEW q \in Queues, StreamOf(q) = None,
           NEW r, r.queue \in Queues, Effect(r), r.at = "addStream" => r.queue # q
    PROVE  (StreamOf(q) = None)'
<1>t. stream \in [Streams -> Queues \cup {None}] /\ StreamName[q] \in Streams
  BY NamesAssumption DEF TypeInv, TypeOK, JSTypeOK
<1>1. CASE UNCHANGED stream
  BY <1>1 DEF StreamOf
<1>2. CASE r.at = "deleteStream" /\ stream' = [stream EXCEPT ![StreamName[r.queue]] = None]
  BY <1>2, <1>t DEF StreamOf
<1>3. CASE r.at = "addStream" /\ JSAdd(r.queue)
  <2>1. StreamName[r.queue] # StreamName[q]
    BY <1>3 DEF Injective
  <2> QED
    BY <1>3, <2>1, <1>t DEF JSAdd, StreamOf
<1> QED
  BY <1>1, <1>2, <1>3 DEF Effect, Removal, jsVars

LEMMA WedgedServe ==
    ASSUME TypeInv, LockInv, CreateInv, Injective, NEW q \in Queues, Wedged(q),
           NEW h \in Handlers, Serve(h)
    PROVE  Wedged(q)'
<1>t. pc \in [Handlers -> PCs] /\ call \in [Handlers -> Calls]
  BY DEF TypeInv, TypeOK
<1>1. q \in Registered'
  <2>1. ~Unregister(h) \/ call[h].queue # q
    BY DEF Wedged, At, Unregister
  <2>2. CASE Unregister(h)
    BY <2>1, <2>2 DEF Unregister, Wedged, Registered, TypeInv, TypeOK
  <2>3. CASE Register(h)
    BY <2>3, MemQAssumption DEF Register, Wedged, Registered, TypeInv, TypeOK, NewStats
  <2> QED
    BY <2>2, <2>3, ServeMap DEF Wedged
<1>2. pc[h] = "addStream" => call[h].queue # q
  BY DEF CreateInv, Creating, Wedged
<1>3. (StreamOf(q) = None)'
  <2>1. CASE AckEffect(h)
    BY <2>1 DEF AckEffect, Wedged, StreamOf
  <2>2. CASE Effect(Request(h)) /\ UNCHANGED stream
    BY <2>2 DEF Wedged, StreamOf
  <2>3. CASE Effect(Request(h)) /\ stream' # stream
    <3>1. pc[h] \in {"addStream", "deleteStream"}
      BY <2>3 DEF Effect, Removal, Request, jsVars
    <3>2. Request(h).queue \in Queues
      BY <3>1 DEF Request, TypeInv, CallOK
    <3>3. Request(h).at = "addStream" => Request(h).queue # q
      BY <1>2 DEF Request
    <3> QED
      BY <2>3, <3>2, <3>3, WedgedStream DEF Wedged
  <2> QED
    BY <2>1, <2>2, <2>3, ServeEffect
<1>4. ~At("unregister", q)'
  <2>1. ASSUME NEW g \in Handlers, pc'[g] = "unregister", call'[g].queue = q PROVE FALSE
    <3>1. CASE g # h
      BY <2>1, <3>1, Moves DEF SameRequest, Wedged, At
    <3>2. CASE g = h
      <4>1. pc[h] = "deleteStream" /\ call[h].queue = q
        BY <2>1, <3>2, Moves DEF OwnMove, Ahead
      <4>2. DeleteStream(h)
        BY <4>1, OwnAction
      <4> QED
        BY <2>1, <3>2, <4>1, <4>2, <1>t DEF DeleteStream, Wedged, Answer, Goto
    <3> QED
      BY <3>1, <3>2
  <2> QED
    BY <2>1 DEF At
<1>5. \A r \in late' : r.queue = q => r.at # "addStream"
  <2>1. late' \subseteq late \cup {Request(h)}
    BY LateGrows DEF LateStep
  <2> QED
    BY <1>2, <2>1 DEF Wedged, Request
<1> QED
  BY <1>1, <1>3, <1>4, <1>5 DEF Wedged

LEMMA WedgedStep ==
    ASSUME TypeInv, LockInv, CreateInv, Injective, [Next]_vars,
           NEW q \in Queues, Wedged(q), crashes' = crashes
    PROVE  Wedged(q)'
<1>t. /\ pc \in [Handlers -> PCs] /\ call \in [Handlers -> Calls]
      /\ late \subseteq LateCalls /\ crashes \in Nat
  BY DEF TypeInv, TypeOK
<1>1. ASSUME NEW h \in Handlers, Serve(h) PROVE Wedged(q)'
  BY <1>1, WedgedServe
<1>2. ASSUME NEW h \in Handlers, Client(h) PROVE Wedged(q)'
  <2>1. UNCHANGED <<queues, stream, late>>
    BY <1>2 DEF Client, Receive, RefuseEmptyName, PanicOnNilBackend, srv, jsVars
  <2>2. \/ UNCHANGED <<pc, call>>
        \/ \E l \in {"lock", "rlock"} : Goto(h, l) /\ \A k \in Handlers \ {h} : call'[k] = call[k]
    BY <1>2, <1>t DEF Client, Receive, RefuseEmptyName, PanicOnNilBackend, Goto
  <2>3. ~At("unregister", q)'
    BY <2>2, <1>t DEF At, Wedged, Goto
  <2> QED
    BY <2>1, <2>3 DEF Wedged, Registered, StreamOf
<1>3. ASSUME NEW r \in late, LateCall(r) PROVE Wedged(q)'
  <2>1. /\ UNCHANGED <<queues, pc, call>> /\ late' \subseteq late
    BY <1>3 DEF LateCall, srv
  <2>2. r.queue \in Queues /\ (r.at = "addStream" => r.queue # q)
    BY <1>t DEF LateCalls, Wedged
  <2>3. (StreamOf(q) = None)'
    BY <1>3, <2>2, LateEffect, WedgedStream DEF Wedged
  <2> QED
    BY <2>1, <2>3 DEF Wedged, Registered, At
<1>4. CASE UNCHANGED <<queues, pc, call, stream>> /\ late' \subseteq late
  BY <1>4 DEF Wedged, Registered, At, StreamOf
<1>5. CASE (\E r \in late : LoseCall(r)) \/ (\E m \in Msgs : Redeliver(m)) \/ UNCHANGED vars
  BY <1>4, <1>5 DEF LoseCall, Redeliver, JSRedeliver, srv, vars, jsVars
<1>6. ~Crash
  BY <1>t DEF Crash
<1> QED
  BY <1>1, <1>2, <1>3, <1>5, <1>6 DEF Next

\* A queue that lost its stream behind the back of the map stays unusable until a
\* restart, whatever its clients do and whatever late calls JetStream executes,
\* for names that ToUpper keeps apart.
THEOREM WedgedStays ==
    ASSUME Injective
    PROVE  Spec => WedgedUntilRestart
<1>1. TypeInv /\ LockInv /\ CreateInv /\ [Next]_vars =>
        [\A q \in Queues : Wedged(q) => Wedged(q)' \/ crashes' # crashes]_vars
  BY WedgedStep
<1> QED
  BY <1>1, TypeInit, TypeStep, LockInit, LockStep, CreateInit, CreateStep, PTL
     DEF Spec, WedgedUntilRestart
=============================================================================
