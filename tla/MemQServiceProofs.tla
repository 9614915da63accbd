-------------------------- MODULE MemQServiceProofs --------------------------
(***************************************************************************)
(* What clients of MemQ may rely on, for any number of handlers, queues,   *)
(* messages, unanswered calls and restarts: no accepted message is lost,   *)
(* none is handed out twice while calls are answered, an acknowledged one  *)
(* was answered while nothing restarts, the counters of Stats match the    *)
(* traffic, and MemQ implements QueueService.                              *)
(***************************************************************************)
EXTENDS MemQProofs

-----------------------------------------------------------------------------
(* Only requests for a drain or a delete remove messages: whoever is about *)
(* to call PurgeStream or DeleteStream was asked to, and so was whoever    *)
(* sent a call that is late.                                               *)

AskOK(h) ==
    /\ pc[h] \in {"lock", "readersOut"} => call[h].op \in {"create", "delete"}
    /\ pc[h] = "deleteStream" => call[h].op = "delete"
    /\ pc[h] \in {"info", "purge"} => call[h].op = "drain"
    /\ pc[h] # "idle" /\ call[h].op \in {"drain", "delete"} =>
          <<call[h].op, call[h].queue>> \in cleared

AskInv ==
    /\ \A h \in Handlers : AskOK(h)
    /\ \A r \in late : /\ r.at = "purge" => <<"drain", r.queue>> \in cleared
                       /\ r.at = "deleteStream" => <<"delete", r.queue>> \in cleared

LEMMA AskInit == Init => AskInv
BY DEF Init, Start, AskInv, AskOK

\* Handlers leave the record of what was asked for alone.
LEMMA ServeClears ==
    ASSUME NEW h \in Handlers, Serve(h)
    PROVE  UNCHANGED cleared
BY DEF Serve, AnnounceWriter, EnterWriter, LookUp, AddStream, Register, DeleteStream,
       Unregister, DrainInfo, Purge, Publish, CountPut, Subscribe, Fetch, Ack, CountGet,
       BeginStats, StatsInfo, EndStats, hist

LEMMA AskStep == TypeInv /\ AskInv /\ [Next]_vars => AskInv'
<1> SUFFICES ASSUME TypeInv, AskInv, [Next]_vars PROVE AskInv'
  OBVIOUS
<1>t. pc \in [Handlers -> PCs] /\ call \in [Handlers -> Calls]
  BY DEF TypeInv, TypeOK
<1>1. ASSUME NEW h \in Handlers, NEW op \in Ops, NEW q \in Queues \cup {None},
             NEW m \in Unsent \cup {None}, Receive(h, op, q, m)
      PROVE  AskInv'
  <2>1. \A g \in Handlers \ {h} : AskOK(g)'
    BY <1>1, <1>t DEF Receive, Goto, AskInv, AskOK
  <2>2. AskOK(h)'
    BY <1>1, <1>t DEF Receive, Goto, NoCall, AskOK
  <2>3. UNCHANGED late /\ cleared \subseteq cleared'
    BY <1>1 DEF Receive
  <2> QED
    BY <2>1, <2>2, <2>3 DEF AskInv
<1>2. ASSUME NEW h \in Handlers, RefuseEmptyName(h) PROVE AskInv'
  BY <1>2 DEF RefuseEmptyName, hist, AskInv, AskOK
<1>3. ASSUME NEW h \in Handlers, NEW op \in Ops, PanicOnNilBackend(h, op) PROVE AskInv'
  BY <1>3 DEF PanicOnNilBackend, hist, AskInv, AskOK
<1>4. ASSUME NEW h \in Handlers, Serve(h) PROVE AskInv'
  <2>1. UNCHANGED cleared
    BY <1>4, ServeClears
  <2>2. \A g \in Handlers \ {h} : AskOK(g)'
    BY <1>4, <2>1, Moves DEF SameRequest, AskInv, AskOK
  <2>3. AskOK(h)'
    BY <1>4, <2>1, Moves DEF OwnMove, Ahead, AskInv, AskOK
  <2>4. LateStep(h)
    BY <1>4, LateGrows
  <2>5. /\ Request(h).at = "purge" => <<"drain", Request(h).queue>> \in cleared
        /\ Request(h).at = "deleteStream" => <<"delete", Request(h).queue>> \in cleared
    BY DEF AskInv, AskOK, Request
  <2> QED
    BY <2>1, <2>2, <2>3, <2>4, <2>5 DEF LateStep, AskInv
<1>5. ASSUME NEW r \in late, LateCall(r) \/ LoseCall(r) PROVE AskInv'
  BY <1>5 DEF LateCall, LoseCall, hist, AskInv, AskOK
<1>6. ASSUME NEW m \in Msgs, Redeliver(m) PROVE AskInv'
  BY <1>6 DEF Redeliver, hist, AskInv, AskOK
<1>7. CASE Crash
  <2>1. \A h \in Handlers :
          /\ Request(h).at = "purge" => <<"drain", Request(h).queue>> \in cleared
          /\ Request(h).at = "deleteStream" => <<"delete", Request(h).queue>> \in cleared
    BY DEF AskInv, AskOK, Request
  <2>2. \A r \in late' : r \in late \/ \E h \in Handlers : r = Request(h)
    BY <1>7 DEF Crash
  <2>3. UNCHANGED cleared /\ \A h \in Handlers : pc'[h] = "idle"
    BY <1>7 DEF Crash, hist
  <2> QED
    BY <2>1, <2>2, <2>3 DEF AskInv, AskOK
<1>8. CASE UNCHANGED vars
  BY <1>8 DEF vars, AskInv, AskOK
<1> QED
  BY <1>1, <1>2, <1>3, <1>4, <1>5, <1>6, <1>7, <1>8 DEF Next, Client

-----------------------------------------------------------------------------
(* A message is put by one request, once: until JetStream executes the      *)
(* Publish it is unsent, and nobody else, handler or late call, carries it. *)

\* The request carries a message it took or has put.
Sent == {"countPut", "ack", "countGet"}

Carries(h, m) == pc[h] \notin Sent /\ call[h].msg = m /\ m # None

PutOK(h) ==
    \A m : Carries(h, m) =>
        /\ box[m] = "unsent"
        /\ \A g \in Handlers : Carries(g, m) => g = h
        /\ \A r \in late : r.msg # m

PutInv ==
    /\ \A h \in Handlers : PutOK(h)
    /\ \A r \in late : r.msg # None =>
         /\ box[r.msg] = "unsent"
         /\ \A s \in late : s.msg = r.msg => s = r
    /\ \A r \in late : r.at = "publish" => r.msg \in Msgs

LEMMA PutInit == Init => PutInv
BY DEF Init, Start, NoCall, PutInv, PutOK, Carries

\* A handler that works on a request begins to carry no message.
LEMMA CarriesLess ==
    ASSUME TypeInv, NEW h \in Handlers, Serve(h), NEW g \in Handlers, NEW m, Carries(g, m)'
    PROVE  Carries(g, m)
BY Moves DEF Carries, SameRequest, OwnMove, Ahead, Sent

LEMMA PutStep == TypeInv /\ PutInv /\ [Next]_vars => PutInv'
<1> SUFFICES ASSUME TypeInv, PutInv, [Next]_vars PROVE PutInv'
  OBVIOUS
<1>t. /\ pc \in [Handlers -> PCs] /\ call \in [Handlers -> Calls]
      /\ box \in [Msgs -> BoxStates] /\ late \subseteq LateCalls
  BY DEF TypeInv, TypeOK, JSTypeOK
<1>c. ASSUME NEW h \in Handlers, NEW m, Carries(h, m) PROVE m \in Msgs
  BY <1>c, <1>t DEF Carries, Calls
<1>l. ASSUME NEW r \in late, r.msg # None PROVE r.msg \in Msgs
  BY <1>l, <1>t DEF LateCalls
\* Steps that touch no request and no message.
<1>a. ASSUME UNCHANGED <<pc, call, box>>, late' \subseteq late PROVE PutInv'
  BY <1>a DEF PutInv, PutOK, Carries
<1>1. ASSUME NEW h \in Handlers, NEW op \in Ops, NEW q \in Queues \cup {None},
             NEW m \in Unsent \cup {None}, Receive(h, op, q, m)
      PROVE  PutInv'
  <2>1. \A g \in Handlers \ {h} : pc'[g] = pc[g] /\ call'[g] = call[g]
    BY <1>1, <1>t DEF Receive, Goto
  <2>2. call'[h].msg = m /\ UNCHANGED <<box, late>>
    BY <1>1, <1>t DEF Receive, NoCall, jsVars
  <2>3. m # None => /\ box[m] = "unsent"
                    /\ \A g \in Handlers : call[g].msg # m
                    /\ \A r \in late : r.msg # m
    BY DEF Unsent
  <2> QED
    BY <2>1, <2>2, <2>3 DEF PutInv, PutOK, Carries
<1>2. ASSUME NEW h \in Handlers, RefuseEmptyName(h) PROVE PutInv'
  BY <1>2, <1>a DEF RefuseEmptyName, jsVars
<1>3. ASSUME NEW h \in Handlers, NEW op \in Ops, PanicOnNilBackend(h, op) PROVE PutInv'
  BY <1>3, <1>a DEF PanicOnNilBackend, jsVars
<1>4. ASSUME NEW h \in Handlers, Serve(h) PROVE PutInv'
  <2>1. LateStep(h)
    BY <1>4, LateGrows
  <2>2. \A m : ~Carries(h, m)' \/ (Carries(h, m) /\ UNCHANGED late)
    BY <1>4, <2>1, CarriesLess, Moves DEF LateStep, OwnMove, Carries, Ahead
  <2>3. ASSUME NEW m \in Msgs, box[m] = "unsent",
               \A g \in Handlers : Carries(g, m) => g # h \/ Carries(h, m)'
        PROVE  box'[m] = "unsent"
    <3>1. CASE AckEffect(h)
      BY <2>3, <3>1, <1>t DEF AckEffect, Turns
    <3>2. CASE Effect(Request(h))
      <4>1. CASE pc[h] = "publish" /\ call[h].msg = m
        <5>1. Carries(h, m)
          BY <4>1, NamesAssumption DEF Carries, Sent
        <5>2. pc'[h] # "countPut"
          BY <2>3, <5>1 DEF Carries, Sent
        <5> QED
          BY <1>4, <2>3, <4>1, <5>2, ServeResult DEF jsVars
      <4>2. CASE ~(pc[h] = "publish" /\ call[h].msg = m)
        BY <2>3, <3>2, <4>2, UnsentStays DEF Request
      <4> QED
        BY <4>1, <4>2
    <3> QED
      BY <1>4, <3>1, <3>2, ServeEffect
  <2>4. \A g \in Handlers : PutOK(g)'
    <3> SUFFICES ASSUME NEW g \in Handlers, NEW m, Carries(g, m)'
                 PROVE  /\ box'[m] = "unsent"
                        /\ \A k \in Handlers : Carries(k, m)' => k = g
                        /\ \A r \in late' : r.msg # m
      BY DEF PutOK
    <3>1. Carries(g, m) /\ m \in Msgs
      BY <1>4, <1>c, CarriesLess
    <3>2. \A k \in Handlers : Carries(k, m)' => k = g
      BY <1>4, <3>1, CarriesLess DEF PutInv, PutOK
    <3>3. box'[m] = "unsent"
      BY <2>3, <3>1 DEF PutInv, PutOK
    <3>4. \A r \in late' : r.msg # m
      <4>1. CASE UNCHANGED late
        BY <3>1, <4>1 DEF PutInv, PutOK
      <4>2. CASE late' # late /\ late' = late \cup {Request(h)} /\ pc[h] \in Calling
        <5>1. g # h
          BY <2>2, <4>2
        <5>2. call[h].msg # m
          BY <3>1, <4>2, <5>1 DEF PutInv, PutOK, Carries, Calling, Sent
        <5> QED
          BY <3>1, <4>2, <5>2 DEF PutInv, PutOK, Request
      <4> QED
        BY <2>1, <4>1, <4>2 DEF LateStep
    <3> QED
      BY <3>2, <3>3, <3>4
  <2>5. ASSUME NEW r \in late, r.msg # None PROVE box'[r.msg] = "unsent"
    <3>1. r.msg \in Msgs /\ \A g \in Handlers : ~Carries(g, r.msg)
      BY <2>5, <1>l DEF PutInv, PutOK
    <3> QED
      BY <2>3, <2>5, <3>1 DEF PutInv
  <2>6. CASE UNCHANGED late
    BY <2>4, <2>5, <2>6 DEF PutInv
  <2>7. CASE late' = late \cup {Request(h)} /\ pc[h] \in Calling /\ pc'[h] = "idle"
    <3>1. Request(h).msg # None =>
            /\ Carries(h, Request(h).msg)
            /\ \A s \in late : s.msg # Request(h).msg
      BY <2>7 DEF Request, Carries, Calling, Sent, PutInv, PutOK
    <3>2. Request(h).msg # None => box'[Request(h).msg] = "unsent"
      <4>1. CASE AckEffect(h)
        BY <2>7, <4>1 DEF AckEffect, Calling
      <4>2. CASE Effect(Request(h)) /\ pc[h] = "publish"
        BY <1>4, <2>7, <3>1, <4>2, ServeResult DEF PutInv, PutOK, jsVars
      <4>3. CASE Effect(Request(h)) /\ pc[h] # "publish"
        BY <3>1, <1>c, <4>3, UnsentStays DEF PutInv, PutOK, Request
      <4> QED
        BY <1>4, <4>1, <4>2, <4>3, ServeEffect
    <3>3. Request(h).at = "publish" => Request(h).msg \in Msgs
      BY DEF Request, TypeInv, CallOK
    <3> QED
      BY <2>4, <2>5, <2>7, <3>1, <3>2, <3>3 DEF PutInv
  <2> QED
    BY <2>1, <2>6, <2>7 DEF LateStep
<1>5. ASSUME NEW r \in late, LateCall(r) PROVE PutInv'
  <2>1. Effect(r) /\ late' = late \ {r} /\ UNCHANGED <<pc, call>>
    BY <1>5, LateEffect DEF LateCall
  <2>2. r.at = "publish" => r.msg # None
    BY NamesAssumption DEF PutInv
  <2>3. ASSUME NEW m \in Msgs, box[m] = "unsent", m # r.msg PROVE box'[m] = "unsent"
    BY <2>1, <2>3, UnsentStays
  <2>4. \A h \in Handlers : PutOK(h)'
    BY <2>1, <2>3, <1>c DEF PutInv, PutOK, Carries
  <2>5. \A s \in late' : s.msg # None => box'[s.msg] = "unsent"
    BY <2>1, <2>3, <1>l DEF PutInv
  <2> QED
    BY <2>1, <2>4, <2>5 DEF PutInv
<1>6. ASSUME NEW r \in late, LoseCall(r) PROVE PutInv'
  BY <1>6, <1>a DEF LoseCall, jsVars
<1>7. ASSUME NEW m \in Msgs, Redeliver(m) PROVE PutInv'
  <2>1. box[m] = "pending" /\ box' = [box EXCEPT ![m] = "ready"] /\ UNCHANGED <<pc, call, late>>
    BY <1>7 DEF Redeliver, JSRedeliver
  <2>2. \A n \in Msgs : box[n] = "unsent" => box'[n] = "unsent"
    BY <2>1, <1>t
  <2>3. \A h \in Handlers : PutOK(h)'
    BY <2>1, <2>2, <1>c DEF PutInv, PutOK, Carries
  <2> QED
    BY <2>1, <2>2, <2>3, <1>l DEF PutInv
<1>8. CASE Crash
  <2>1. /\ \A r \in late' : \/ r \in late
                            \/ \E h \in Handlers : r = Request(h) /\ pc[h] \in Calling
        /\ UNCHANGED box
        /\ \A h \in Handlers : call'[h].msg = None
    BY <1>8 DEF Crash, NoCall, jsVars
  <2>2. \A h \in Handlers : pc[h] \in Calling /\ Request(h).msg # None =>
            Carries(h, Request(h).msg)
    BY DEF Request, Carries, Calling, Sent
  <2>3. \A h \in Handlers : Request(h).at = "publish" => Request(h).msg \in Msgs
    BY DEF Request, TypeInv, CallOK
  <2>4. \A h \in Handlers : PutOK(h)'
    BY <2>1 DEF PutOK, Carries
  <2>5. \A r \in late' : r.msg # None => box[r.msg] = "unsent"
    BY <2>1, <2>2 DEF PutInv, PutOK
  <2>6. \A r, s \in late' : r.msg # None /\ s.msg = r.msg => s = r
    BY <2>1, <2>2 DEF PutInv, PutOK
  <2> QED
    BY <2>1, <2>3, <2>4, <2>5, <2>6 DEF PutInv
<1>9. CASE UNCHANGED vars
  BY <1>9, <1>a DEF vars
<1> QED
  BY <1>1, <1>2, <1>3, <1>4, <1>5, <1>6, <1>7, <1>8, <1>9 DEF Next, Client

-----------------------------------------------------------------------------
(* A message leaves its stream only by a drain or a delete of its queue.    *)

KeepInv ==
    /\ \A m \in Msgs : box[m] = "removed" =>
         \E op \in {"drain", "delete"} : <<op, home[m]>> \in cleared
    /\ \A h \in Handlers : pc[h] = "countPut" => box[call[h].msg] # "unsent"
    /\ \A m \in accepted : box[m] # "unsent"

LEMMA KeepInit == Init => KeepInv
BY DEF Init, JSInit, Start, KeepInv

\* A call that JetStream executes removes messages of its own queue at most.
LEMMA EffectKeeps ==
    ASSUME TypeInv, Injective, NEW r, r.at \in Calling => r.queue \in Queues, Effect(r),
           NEW m \in Msgs
    PROVE  /\ box[m] # "unsent" => box'[m] # "unsent"
           /\ box'[m] = "removed" =>
                \/ box[m] = "removed" /\ home'[m] = home[m]
                \/ r.at \in {"purge", "deleteStream"} /\ home'[m] = r.queue
<1>t. /\ box \in [Msgs -> BoxStates] /\ home \in [Msgs -> Queues \cup {None}]
  BY DEF TypeInv, TypeOK, JSTypeOK
<1>1. CASE r.at \in {"purge", "deleteStream"} /\ Removes(r.queue)
  <2>1. m \in Contents(r.queue) => home[m] = r.queue
    BY <1>1 DEF Contents, Injective, Calling
  <2> QED
    BY <1>1, <1>t, <2>1 DEF Removes
<1>2. CASE Stores(r.queue, r.msg)
  BY <1>2, <1>t DEF Stores
<1>3. CASE \E n \in Msgs : Turns(n, "ready", "pending")
  BY <1>3, <1>t DEF Turns
<1>4. CASE UNCHANGED <<box, home>>
  BY <1>4
<1> QED
  BY <1>1, <1>2, <1>3, <1>4 DEF Effect, JSAdd, jsVars, Ready

LEMMA KeepStep ==
    ASSUME Injective
    PROVE  TypeInv /\ AskInv /\ KeepInv /\ [Next]_vars => KeepInv'
<1> SUFFICES ASSUME TypeInv, AskInv, KeepInv, [Next]_vars PROVE KeepInv'
  OBVIOUS
<1>t. /\ pc \in [Handlers -> PCs] /\ call \in [Handlers -> Calls]
      /\ box \in [Msgs -> BoxStates] /\ late \subseteq LateCalls /\ accepted \subseteq Msgs
  BY DEF TypeInv, TypeOK, JSTypeOK
\* Steps that move no handler to countPut and touch no message.
<1>a. ASSUME UNCHANGED <<box, home, accepted>>, cleared \subseteq cleared',
             \A h \in Handlers : pc'[h] = "countPut" =>
                                   pc[h] = "countPut" /\ call'[h].msg = call[h].msg
      PROVE  KeepInv'
  BY <1>a DEF KeepInv
<1>1. ASSUME NEW h \in Handlers, NEW op \in Ops, NEW q \in Queues \cup {None},
             NEW m \in Unsent \cup {None}, Receive(h, op, q, m)
      PROVE  KeepInv'
  <2>1. \A g \in Handlers : pc'[g] = "countPut" => pc[g] = "countPut" /\ call'[g] = call[g]
    BY <1>1, <1>t DEF Receive, Goto
  <2> QED
    BY <1>1, <2>1, <1>a DEF Receive, jsVars
<1>2. ASSUME NEW h \in Handlers, RefuseEmptyName(h) PROVE KeepInv'
  BY <1>2, <1>a DEF RefuseEmptyName, hist, jsVars
<1>3. ASSUME NEW h \in Handlers, NEW op \in Ops, PanicOnNilBackend(h, op) PROVE KeepInv'
  BY <1>3, <1>a DEF PanicOnNilBackend, hist, jsVars
<1>4. ASSUME NEW h \in Handlers, Serve(h) PROVE KeepInv'
  <2>1. UNCHANGED cleared
    BY <1>4, ServeClears
  <2>2. \A m \in Msgs : /\ box[m] # "unsent" => box'[m] # "unsent"
                        /\ box'[m] = "removed" =>
                             \E op \in {"drain", "delete"} : <<op, home'[m]>> \in cleared
    <3>1. CASE AckEffect(h)
      BY <3>1, <1>t DEF AckEffect, Turns, KeepInv
    <3>2. CASE Effect(Request(h))
      <4>1. Request(h).at \in Calling => Request(h).queue \in Queues
        BY <1>t, RequestType DEF LateCalls, Request
      <4>2. /\ Request(h).at = "purge" => <<"drain", Request(h).queue>> \in cleared
            /\ Request(h).at = "deleteStream" => <<"delete", Request(h).queue>> \in cleared
        BY DEF AskInv, AskOK, Request
      <4> QED
        BY <3>2, <4>1, <4>2, EffectKeeps DEF KeepInv
    <3> QED
      BY <1>4, <3>1, <3>2, ServeEffect
  <2>3. \A g \in Handlers \ {h} : pc'[g] = "countPut" => box'[call'[g].msg] # "unsent"
    <3>1. \A g \in Handlers \ {h} : pc'[g] = "countPut" =>
             pc[g] = "countPut" /\ call'[g].msg = call[g].msg /\ call[g].msg \in Msgs
      BY <1>4, Moves DEF SameRequest, TypeInv, CallOK
    <3> QED
      BY <2>2, <3>1 DEF KeepInv
  <2>4. pc'[h] = "countPut" => box'[call'[h].msg] # "unsent"
    <3>1. ASSUME pc'[h] = "countPut"
          PROVE  call'[h].msg = call[h].msg /\ call[h].msg \in Msgs
      BY <1>4, <3>1, Moves DEF OwnMove, Ahead, TypeInv, CallOK
    <3> QED
      BY <1>4, <3>1, <1>t, ServeResult DEF Stores
  <2>5. \A m \in accepted' : m \in accepted \/ (CountPut(h) /\ m = call[h].msg)
    BY <1>4
       DEF Serve, AnnounceWriter, EnterWriter, LookUp, AddStream, Register, DeleteStream,
           Unregister, DrainInfo, Purge, Publish, CountPut, Subscribe, Fetch, Ack, CountGet,
           BeginStats, StatsInfo, EndStats, hist
  <2>6. CountPut(h) => call[h].msg \in Msgs /\ box[call[h].msg] # "unsent"
    BY DEF CountPut, KeepInv, TypeInv, CallOK
  <2> QED
    BY <2>1, <2>2, <2>3, <2>4, <2>5, <2>6, <1>t DEF KeepInv
<1>5. ASSUME NEW r \in late, LateCall(r) PROVE KeepInv'
  <2>1. Effect(r) /\ r.queue \in Queues
    BY <1>5, <1>t, LateEffect DEF LateCalls
  <2>2. UNCHANGED <<pc, call, accepted, cleared>>
    BY <1>5 DEF LateCall, hist
  <2>3. \A h \in Handlers : pc[h] = "countPut" => call[h].msg \in Msgs
    BY DEF TypeInv, CallOK
  <2> QED
    BY <2>1, <2>2, <2>3, <1>t, EffectKeeps DEF KeepInv, AskInv
<1>6. ASSUME NEW r \in late, LoseCall(r) PROVE KeepInv'
  BY <1>6, <1>a DEF LoseCall, hist, jsVars
<1>7. ASSUME NEW m \in Msgs, Redeliver(m) PROVE KeepInv'
  <2>1. \A h \in Handlers : pc[h] = "countPut" => call[h].msg \in Msgs
    BY DEF TypeInv, CallOK
  <2> QED
    BY <1>7, <2>1, <1>t DEF Redeliver, JSRedeliver, hist, KeepInv
<1>8. CASE Crash
  BY <1>8, <1>a DEF Crash, hist, jsVars
<1>9. CASE UNCHANGED vars
  BY <1>9, <1>a DEF vars
<1> QED
  BY <1>1, <1>2, <1>3, <1>4, <1>5, <1>6, <1>7, <1>8, <1>9 DEF Next, Client

\* A message whose enqueue was answered with success stays in its stream until
\* somebody asks to drain or delete that queue, whatever calls stay unanswered,
\* come late or are lost, and however often the process is restarted; for queue
\* names that ToUpper keeps apart.
THEOREM AcceptedStays ==
    ASSUME Injective
    PROVE  Spec => []NoAcceptedMessageLost
<1>1. TypeInv /\ KeepInv => NoAcceptedMessageLost
  BY DEF TypeInv, TypeOK, JSTypeOK, BoxStates, KeepInv, NoAcceptedMessageLost, Stored
<1>2. TypeInv /\ AskInv /\ KeepInv /\ [Next]_vars => KeepInv'
  BY KeepStep
<1> QED
  BY <1>1, <1>2, TypeInit, TypeStep, AskInit, AskStep, KeepInit, PTL DEF Spec
-----------------------------------------------------------------------------
(* Who hands out a message.                                                *)

\* What calls of JetStream do to a message, acknowledgements apart.
BoxMoves(m) ==
    \/ box'[m] = box[m]
    \/ box'[m] = "removed"
    \/ box[m] = "ready" /\ box'[m] = "pending"
    \/ box[m] = "unsent" /\ box'[m] = "ready"

LEMMA EffectBox ==
    ASSUME TypeInv, NEW r, Effect(r), NEW m \in Msgs,
           r.at = "publish" => r.msg \in Msgs /\ (box[r.msg] = "unsent" \/ UNCHANGED jsVars)
    PROVE  BoxMoves(m)
<1>t. box \in [Msgs -> BoxStates]
  BY DEF TypeInv, TypeOK, JSTypeOK
<1> QED
  BY <1>t DEF Effect, Removes, Stores, Turns, Ready, JSAdd, jsVars, BoxMoves

LEMMA LateBox ==
    ASSUME TypeInv, PutInv, NEW r \in late, LateCall(r), NEW m \in Msgs
    PROVE  BoxMoves(m)
<1>1. r.at = "publish" => r.msg \in Msgs /\ box[r.msg] = "unsent"
  BY NamesAssumption DEF PutInv
<1> QED
  BY <1>1, LateEffect, EffectBox

LEMMA ServeBox ==
    ASSUME TypeInv, PutInv, NEW h \in Handlers, Serve(h), NEW m \in Msgs
    PROVE  BoxMoves(m) \/ AckEffect(h)
<1>1. pc[h] = "publish" => call[h].msg \in Msgs /\ box[call[h].msg] = "unsent"
  BY NamesAssumption DEF TypeInv, CallOK, PutInv, PutOK, Carries, Sent
<1>2. Request(h).at = "publish" =>
        Request(h).msg \in Msgs /\ (box[Request(h).msg] = "unsent" \/ UNCHANGED jsVars)
  BY <1>1 DEF Request
<1>3. CASE Effect(Request(h))
  BY <1>2, <1>3, EffectBox
<1> QED
  BY <1>3, ServeEffect

\* Only CountPut and CountGet write the history of answers.
LEMMA ServeHistory ==
    ASSUME NEW h \in Handlers, Serve(h)
    PROVE  /\ UNCHANGED cleared
           /\ CountPut(h) \/ UNCHANGED accepted
           /\ CountGet(h) \/ UNCHANGED handouts
BY DEF Serve, AnnounceWriter, EnterWriter, LookUp, AddStream, Register, DeleteStream,
       Unregister, DrainInfo, Purge, Publish, CountPut, Subscribe, Fetch, Ack, CountGet,
       BeginStats, StatsInfo, EndStats, hist

\* The steps of a handler that the counts of answers and faults depend on.
LEMMA ServeCounts ==
    ASSUME TypeInv, NEW h \in Handlers, Serve(h)
    PROVE  /\ pc[h] = "countGet" <=> CountGet(h)
           /\ pc[h] # "countGet" => UNCHANGED handouts
           /\ pc[h] = "ack" <=> Ack(h)
           /\ faults' = 0 => faults = 0
           /\ UNCHANGED crashes
<1>t. faults \in Nat
  BY DEF TypeInv, TypeOK
<1>1. pc[h] = "countGet" => CountGet(h)
  BY OwnAction
<1>5. pc[h] = "ack" => Ack(h)
  BY OwnAction
<1>2. pc[h] # "countGet" => UNCHANGED handouts
  BY ServeHistory DEF CountGet
<1>3. faults' \in {faults, faults + 1}
  BY DEF Serve, AnnounceWriter, EnterWriter, LookUp, AddStream, Register, DeleteStream,
         Unregister, DrainInfo, Purge, Publish, CountPut, Subscribe, Fetch, Ack, CountGet,
         BeginStats, StatsInfo, EndStats, Unanswered, UnansweredRead
<1>4. UNCHANGED crashes
  BY DEF Serve, AnnounceWriter, EnterWriter, LookUp, AddStream, Register, DeleteStream,
         Unregister, DrainInfo, Purge, Publish, CountPut, Subscribe, Fetch, Ack, CountGet,
         BeginStats, StatsInfo, EndStats
<1> QED
  BY <1>t, <1>1, <1>2, <1>3, <1>4, <1>5 DEF Ack, CountGet

Holding == {"ack", "countGet"}

(* While every call is answered, a message is held by one handler at most,  *)
(* which is the one that takes it out of the ready ones, and is not handed  *)
(* out before it is acknowledged.                                           *)
HoldOK(h) ==
    pc[h] \in Holding =>
        /\ handouts[call[h].msg] = 0
        /\ box[call[h].msg] \notin {"unsent", "ready"}
        /\ pc[h] = "countGet" => box[call[h].msg] # "pending"
        /\ \A g \in Handlers : pc[g] \in Holding /\ call[g].msg = call[h].msg => g = h

HandInv ==
    faults = 0 =>
        /\ \A m \in Msgs : /\ handouts[m] <= 1
                           /\ box[m] \in {"unsent", "ready", "pending"} => handouts[m] = 0
        /\ \A h \in Handlers : HoldOK(h)

LEMMA HandInit == Init => HandInv
BY DEF Init, JSInit, Start, HandInv, HoldOK, Holding

LEMMA HandServe ==
    ASSUME TypeInv, PutInv, HandInv, NEW h \in Handlers, Serve(h)
    PROVE  HandInv'
<1> SUFFICES ASSUME faults' = 0
             PROVE  /\ \A m \in Msgs : /\ handouts'[m] <= 1
                                       /\ box'[m] \in {"unsent", "ready", "pending"} =>
                                            handouts'[m] = 0
                    /\ \A g \in Handlers : HoldOK(g)'
  BY DEF HandInv
<1>t. /\ box \in [Msgs -> BoxStates] /\ handouts \in [Msgs -> Nat] /\ faults \in Nat
      /\ call \in [Handlers -> Calls] /\ pc \in [Handlers -> PCs]
      /\ \A g \in Handlers : pc[g] \in Holding => call[g].msg \in Msgs
  BY DEF TypeInv, TypeOK, JSTypeOK, CallOK, Holding
<1>f. faults = 0
  BY ServeCounts
<1>m. OwnMove(h) /\ \A g \in Handlers \ {h} : SameRequest(g)
  BY Moves
<1>1. CASE pc[h] = "countGet"
  <2>1. /\ handouts' = [handouts EXCEPT ![call[h].msg] = @ + 1]
        /\ UNCHANGED box /\ pc'[h] = "idle"
    BY <1>1, <1>t, ServeCounts DEF CountGet, Answer, Goto, jsVars
  <2>2. call[h].msg \in Msgs /\ HoldOK(h)
    BY <1>1, <1>t, <1>f DEF Holding, HandInv
  <2>3. \A m \in Msgs : /\ handouts'[m] <= 1
                        /\ box'[m] \in {"unsent", "ready", "pending"} => handouts'[m] = 0
    BY <1>1, <1>t, <1>f, <2>1, <2>2 DEF HandInv, HoldOK, Holding, BoxStates
  <2>4. \A g \in Handlers \ {h} : pc[g] \in Holding => call[g].msg # call[h].msg
    BY <1>1, <2>2 DEF HoldOK, Holding
  <2>5. \A g \in Handlers : HoldOK(g)'
    BY <1>f, <1>m, <1>t, <2>1, <2>4 DEF HandInv, HoldOK, Holding, SameRequest
  <2> QED
    BY <2>3, <2>5
<1>2. CASE pc'[h] = "ack"
  <2>1. pc[h] = "fetch" /\ call'[h].msg \in Msgs
    BY <1>2, <1>m DEF OwnMove, Ahead, Ready
  <2>2. /\ box[call'[h].msg] = "ready" /\ box' = [box EXCEPT ![call'[h].msg] = "pending"]
        /\ UNCHANGED handouts
    BY <1>2, <2>1, ServeResult, ServeCounts DEF Turns
  <2>3. \A g \in Handlers : pc[g] \in Holding => call[g].msg # call'[h].msg
    BY <1>f, <2>2 DEF HandInv, HoldOK
  <2>4. \A m \in Msgs : /\ handouts'[m] <= 1
                        /\ box'[m] \in {"unsent", "ready", "pending"} => handouts'[m] = 0
    BY <1>f, <1>t, <2>1, <2>2 DEF HandInv
  <2>5. \A g \in Handlers : HoldOK(g)'
    BY <1>2, <1>f, <1>m, <1>t, <2>1, <2>2, <2>3 DEF HandInv, HoldOK, Holding, SameRequest
  <2> QED
    BY <2>4, <2>5
<1>3. CASE pc[h] = "ack"
  <2>1. /\ call[h].msg \in Msgs /\ UNCHANGED <<handouts, call>> /\ pc' = [pc EXCEPT ![h] = "countGet"]
        /\ box' = IF box[call[h].msg] = "pending" THEN [box EXCEPT ![call[h].msg] = "acked"] ELSE box
    BY <1>3, <1>t, <1>f, ServeCounts DEF Ack, Goto, JSAck, UnansweredRead, hist, Holding
  <2>2. \A m \in Msgs : /\ handouts'[m] <= 1
                        /\ box'[m] \in {"unsent", "ready", "pending"} => handouts'[m] = 0
    BY <1>f, <1>t, <2>1 DEF HandInv
  <2>3. \A g \in Handlers : HoldOK(g)'
    BY <1>3, <1>f, <1>t, <2>1 DEF HandInv, HoldOK, Holding
  <2> QED
    BY <2>2, <2>3
<1>4. CASE pc[h] \notin Holding /\ pc'[h] # "ack"
  <2>1. pc'[h] \notin Holding /\ UNCHANGED handouts
    BY <1>4, <1>m, ServeCounts DEF OwnMove, Ahead, Holding
  <2>2. \A m \in Msgs : BoxMoves(m)
    BY <1>4, ServeBox DEF AckEffect, Holding
  <2>3. \A m \in Msgs : /\ handouts'[m] <= 1
                        /\ box'[m] \in {"unsent", "ready", "pending"} => handouts'[m] = 0
    BY <1>f, <2>1, <2>2 DEF HandInv, BoxMoves
  <2>4. ASSUME NEW g \in Handlers, pc'[g] \in Holding PROVE HoldOK(g)'
    <3>1. g # h /\ pc[g] \in Holding /\ call[g].msg \in Msgs
      BY <1>m, <1>t, <2>1, <2>4 DEF SameRequest
    <3>2. HoldOK(g)
      BY <1>f DEF HandInv
    <3>3. BoxMoves(call[g].msg)
      BY <2>2, <3>1
    <3> QED
      BY <1>m, <2>1, <3>1, <3>2, <3>3 DEF HoldOK, BoxMoves, SameRequest
  <2> QED
    BY <2>3, <2>4 DEF HoldOK
<1> QED
  BY <1>1, <1>2, <1>3, <1>4 DEF Holding

LEMMA HandStep == TypeInv /\ PutInv /\ HandInv /\ [Next]_vars => HandInv'
<1> SUFFICES ASSUME TypeInv, PutInv, HandInv, [Next]_vars PROVE HandInv'
  OBVIOUS
<1>t. /\ pc \in [Handlers -> PCs] /\ box \in [Msgs -> BoxStates]
      /\ \A h \in Handlers : pc[h] \in Holding => call[h].msg \in Msgs
  BY DEF TypeInv, TypeOK, JSTypeOK, CallOK, Holding
\* Steps that touch no message and let nobody begin to hold one.
<1>a. ASSUME UNCHANGED <<box, handouts, faults>>,
             \A h \in Handlers : pc'[h] \in Holding => pc[h] = pc'[h] /\ call[h] = call'[h]
      PROVE  HandInv'
  BY <1>a DEF HandInv, HoldOK
<1>1. ASSUME NEW h \in Handlers, NEW op \in Ops, NEW q \in Queues \cup {None},
             NEW m \in Unsent \cup {None}, Receive(h, op, q, m)
      PROVE  HandInv'
  <2>1. \A g \in Handlers : pc'[g] \in Holding => pc[g] = pc'[g] /\ call[g] = call'[g]
    BY <1>1, <1>t DEF Receive, Goto, Holding
  <2> QED
    BY <1>1, <1>a, <2>1 DEF Receive, jsVars
<1>2. ASSUME NEW h \in Handlers, RefuseEmptyName(h) PROVE HandInv'
  BY <1>2, <1>a DEF RefuseEmptyName, jsVars, hist
<1>3. ASSUME NEW h \in Handlers, NEW op \in Ops, PanicOnNilBackend(h, op) PROVE HandInv'
  BY <1>3, <1>a DEF PanicOnNilBackend, jsVars, hist
<1>4. ASSUME NEW h \in Handlers, Serve(h) PROVE HandInv'
  BY <1>4, HandServe
<1>5. ASSUME NEW r \in late, LateCall(r) PROVE HandInv'
  <2>1. \A m \in Msgs : BoxMoves(m)
    BY <1>5, LateBox
  <2>2. UNCHANGED <<pc, call, handouts, faults>>
    BY <1>5 DEF LateCall, hist
  <2> QED
    BY <1>t, <2>1, <2>2 DEF HandInv, HoldOK, BoxMoves
<1>6. ASSUME NEW r \in late, LoseCall(r) PROVE HandInv'
  BY <1>6, <1>a DEF LoseCall, jsVars, hist
<1>7. ASSUME NEW m \in Msgs, Redeliver(m) PROVE HandInv'
  <2>1. /\ box[m] = "pending" /\ box' = [box EXCEPT ![m] = "ready"]
        /\ UNCHANGED <<pc, call, handouts, faults>>
        /\ \A h \in Handlers : pc[h] = "ack" => call[h].msg # m
    BY <1>7 DEF Redeliver, JSRedeliver, hist
  <2>2. faults = 0 => \A h \in Handlers : pc[h] \in Holding => call[h].msg # m
    BY <2>1 DEF HandInv, HoldOK, Holding
  <2> QED
    BY <1>t, <2>1, <2>2 DEF HandInv, HoldOK
<1>8. CASE Crash
  BY <1>8, <1>a DEF Crash, jsVars, hist, Holding
<1>9. CASE UNCHANGED vars
  BY <1>9, <1>a DEF vars
<1> QED
  BY <1>1, <1>2, <1>3, <1>4, <1>5, <1>6, <1>7, <1>8, <1>9 DEF Next, Client

\* No message is the answer of two dequeues while every call of JetStream is
\* answered, whatever restarts, late requests and redeliveries happen; queue names
\* may share a stream here.
THEOREM HandedOnce == Spec => []HandedOutOnce
<1>1. HandInv => HandedOutOnce
  BY DEF HandInv, HandedOutOnce
<1> QED
  BY <1>1, TypeInit, TypeStep, PutInit, PutStep, HandInit, HandStep, PTL DEF Spec

-----------------------------------------------------------------------------
(* AckedMeansHandedOut is inductive.                                       *)

LEMMA AckedStep == TypeInv /\ PutInv /\ AckedMeansHandedOut /\ [Next]_vars => AckedMeansHandedOut'
<1> SUFFICES ASSUME TypeInv, PutInv, AckedMeansHandedOut, [Next]_vars, crashes' = 0,
                    NEW m \in Msgs, box'[m] = "acked"
             PROVE  \/ handouts'[m] > 0
                    \/ \E h \in Handlers : pc'[h] = "countGet" /\ call'[h].msg = m
  BY DEF AckedMeansHandedOut
<1>t. /\ pc \in [Handlers -> PCs] /\ call \in [Handlers -> Calls]
      /\ box \in [Msgs -> BoxStates] /\ handouts \in [Msgs -> Nat] /\ crashes \in Nat
  BY DEF TypeInv, TypeOK, JSTypeOK
\* Steps that acknowledge nothing and move nobody from countGet.
<1>a. ASSUME box[m] = "acked", UNCHANGED <<handouts, crashes>>,
             \A h \in Handlers : pc[h] = "countGet" => pc'[h] = pc[h] /\ call'[h] = call[h]
      PROVE  \/ handouts'[m] > 0
             \/ \E h \in Handlers : pc'[h] = "countGet" /\ call'[h].msg = m
  BY <1>a DEF AckedMeansHandedOut
<1>1. ASSUME NEW h \in Handlers, Client(h)
      PROVE  \/ handouts'[m] > 0
             \/ \E g \in Handlers : pc'[g] = "countGet" /\ call'[g].msg = m
  <2>1. /\ UNCHANGED <<box, handouts, crashes>>
        /\ \A g \in Handlers : pc[g] = "countGet" => pc'[g] = pc[g] /\ call'[g] = call[g]
    BY <1>1, <1>t
       DEF Client, Receive, RefuseEmptyName, PanicOnNilBackend, Goto, jsVars, hist
  <2> QED
    BY <1>a, <2>1
<1>2. ASSUME NEW h \in Handlers, Serve(h)
      PROVE  \/ handouts'[m] > 0
             \/ \E g \in Handlers : pc'[g] = "countGet" /\ call'[g].msg = m
  <2>m. OwnMove(h) /\ \A g \in Handlers \ {h} : SameRequest(g)
    BY <1>2, Moves
  <2>1. CASE box[m] # "acked"
    <3>1. AckEffect(h) /\ call[h].msg = m
      BY <1>2, <1>t, <2>1, ServeBox DEF BoxMoves, AckEffect, Turns
    <3>2. pc'[h] = "countGet" /\ call'[h].msg = m
      BY <1>2, <1>t, <3>1, ServeCounts DEF AckEffect, Ack, Goto
    <3> QED
      BY <3>2
  <2>2. CASE box[m] = "acked" /\ pc[h] = "countGet"
    <3>1. handouts' = [handouts EXCEPT ![call[h].msg] = @ + 1]
      BY <1>2, <2>2, ServeCounts DEF CountGet
    <3>2. handouts'[m] = handouts[m] \/ handouts'[m] > 0
      BY <1>t, <3>1
    <3>3. call[h].msg = m => handouts'[m] > 0
      BY <1>t, <3>1
    <3>4. \/ handouts[m] > 0
          \/ \E g \in Handlers : pc[g] = "countGet" /\ call[g].msg = m
      BY <1>2, <2>2, ServeCounts DEF AckedMeansHandedOut
    <3> QED
      BY <2>m, <3>2, <3>3, <3>4 DEF SameRequest
  <2>3. CASE box[m] = "acked" /\ pc[h] # "countGet"
    <3>1. UNCHANGED <<handouts, crashes>>
      BY <1>2, <2>3, ServeCounts
    <3> QED
      BY <2>m, <2>3, <3>1 DEF SameRequest, AckedMeansHandedOut
  <2> QED
    BY <2>1, <2>2, <2>3
<1>3. ASSUME NEW r \in late, LateCall(r) \/ LoseCall(r)
      PROVE  \/ handouts'[m] > 0
             \/ \E h \in Handlers : pc'[h] = "countGet" /\ call'[h].msg = m
  <2>1. box[m] = "acked"
    BY <1>3, LateBox DEF LoseCall, BoxMoves, jsVars
  <2> QED
    BY <1>3, <1>a, <2>1 DEF LateCall, LoseCall, hist
<1>4. ASSUME NEW n \in Msgs, Redeliver(n)
      PROVE  \/ handouts'[m] > 0
             \/ \E h \in Handlers : pc'[h] = "countGet" /\ call'[h].msg = m
  BY <1>4, <1>a, <1>t DEF Redeliver, JSRedeliver, hist
<1>5. CASE Crash
  BY <1>5, <1>t DEF Crash
<1>6. CASE UNCHANGED vars
  BY <1>6, <1>a DEF vars
<1> QED
  BY <1>1, <1>2, <1>3, <1>4, <1>5, <1>6 DEF Next

\* GetMessage acknowledges before it answers: without a restart an acknowledged
\* message was, or is about to be, the body of an answer.
THEOREM AckedHandedOut == Spec => []AckedMeansHandedOut
<1>1. Init => AckedMeansHandedOut
  BY DEF Init, JSInit, AckedMeansHandedOut
<1> QED
  BY <1>1, TypeInit, TypeStep, PutInit, PutStep, AckedStep, PTL DEF Spec

-----------------------------------------------------------------------------
(* The counters and the traffic, while every call is answered and nothing   *)
(* restarts.                                                                *)

\* The pcs after the lookup of DrainQueue, PutMessage and GetMessage.
Looked == {"info", "purge", "publish", "countPut", "subscribe", "fetch", "ack", "countGet"}

Deleting(q) == <<"delete", q>> \in cleared

\* A message has the queue it was published to, and the handler that took it; the
\* qStats a handler looked up is still in the map, and what was published to a
\* queue is in one that is registered, unless somebody asked to delete it.
FollowInv ==
    /\ \A m \in Msgs : box[m] = "unsent" => home[m] = None
    /\ \A h \in Handlers : pc[h] \in {"ack", "countGet"} => home[call[h].msg] = call[h].queue
    /\ \A h \in Handlers : pc[h] = "unregister" => Deleting(call[h].queue)
    /\ Reliable =>
         /\ late = {}
         /\ \A h \in Handlers : pc[h] \in Looked => call[h].live \/ Deleting(call[h].queue)
         /\ \A m \in Msgs : home[m] \in Queues => home[m] \in Registered \/ Deleting(home[m])

LEMMA FollowInit == Init => FollowInv
BY NamesAssumption DEF Init, JSInit, Start, FollowInv, Looked

\* Where messages are at home.
LEMMA EffectHome ==
    ASSUME TypeInv, PutInv, FollowInv, NEW r, Effect(r), NEW m \in Msgs,
           r.at = "publish" => r.msg \in Msgs /\ (box[r.msg] = "unsent" \/ UNCHANGED jsVars)
    PROVE  /\ box'[m] = "unsent" => home'[m] = None
           /\ box[m] # "unsent" => home'[m] = home[m]
           /\ home'[m] # home[m] => r.at = "publish" /\ r.msg = m /\ home'[m] = r.queue
<1>t. box \in [Msgs -> BoxStates] /\ home \in [Msgs -> Queues \cup {None}]
  BY DEF TypeInv, TypeOK, JSTypeOK
<1>1. box[m] = "unsent" => home[m] = None
  BY DEF FollowInv
<1>2. CASE r.at = "publish" /\ Stores(r.queue, r.msg)
  BY <1>1, <1>2, <1>t DEF Stores, jsVars
<1>3. CASE UNCHANGED home
  BY <1>1, <1>3, <1>t DEF Effect, Removes, Contents, Stored, Stores, Turns, Ready, JSAdd, jsVars
<1> QED
  BY <1>2, <1>3 DEF Effect, Removes, Turns, JSAdd, jsVars

\* What a step of a handler may call on JetStream to publish is unsent.
LEMMA PublishesUnsent ==
    ASSUME TypeInv, PutInv, NEW h \in Handlers, Request(h).at = "publish"
    PROVE  Request(h).msg \in Msgs /\ box[Request(h).msg] = "unsent"
BY NamesAssumption DEF Request, TypeInv, CallOK, PutInv, PutOK, Carries, Sent

LEMMA ServeHome ==
    ASSUME TypeInv, PutInv, FollowInv, NEW h \in Handlers, Serve(h), NEW m \in Msgs
    PROVE  /\ box'[m] = "unsent" => home'[m] = None
           /\ box[m] # "unsent" => home'[m] = home[m]
           /\ home'[m] # home[m] =>
                pc[h] = "publish" /\ pc'[h] = "countPut" /\ call[h].msg = m /\ home'[m] = call[h].queue
<1>t. box \in [Msgs -> BoxStates] /\ home \in [Msgs -> Queues \cup {None}]
  BY DEF TypeInv, TypeOK, JSTypeOK
<1>1. CASE AckEffect(h)
  BY <1>1, <1>t DEF AckEffect, Turns, FollowInv
<1>2. CASE Effect(Request(h))
  <2>1. /\ box'[m] = "unsent" => home'[m] = None
        /\ box[m] # "unsent" => home'[m] = home[m]
        /\ home'[m] # home[m] => /\ Request(h).at = "publish" /\ Request(h).msg = m
                                 /\ home'[m] = Request(h).queue
    BY <1>2, EffectHome, PublishesUnsent
  <2>2. home'[m] # home[m] => pc'[h] = "countPut"
    BY <2>1, ServeResult DEF Request, jsVars
  <2> QED
    BY <2>1, <2>2 DEF Request
<1> QED
  BY <1>1, <1>2, ServeEffect

\* The qStats that a handler looked up leaves the map only by Unregister.
LEMMA LiveStays ==
    ASSUME TypeInv, NEW h \in Handlers, Serve(h)
    PROVE  /\ \A g \in Handlers \ {h} :
                \/ call'[g].live = call[g].live
                \/ Unregister(h) /\ call[g].queue = call[h].queue
           /\ pc'[h] \in Looked => call'[h].live \/ (pc[h] \in Looked /\ ~call[h].live)
<1>t. call \in [Handlers -> Calls] /\ pc \in [Handlers -> PCs]
  BY DEF TypeInv, TypeOK
<1>1. CASE LookUp(h)
  <2>1. call' = [call EXCEPT ![h].live = TRUE] \/ (call' = [call EXCEPT ![h] = NoCall] /\ pc'[h] = "idle")
    BY <1>1, <1>t DEF LookUp, Answer, Goto
  <2> QED
    BY <2>1, <1>t DEF Looked, Calls
<1>2. CASE Fetch(h)
  <2>1. \/ \E m : call' = [call EXCEPT ![h].msg = m]
        \/ call' = [call EXCEPT ![h] = NoCall] /\ pc'[h] = "idle"
    BY <1>2, <1>t DEF Fetch, Answer, Goto
  <2> QED
    BY <2>1, <1>2, <1>t DEF Looked, Calls, Fetch
<1>3. CASE BeginStats(h)
  BY <1>3, <1>t DEF BeginStats, Looked, Goto, Calls
<1>4. CASE StatsInfo(h)
  BY <1>4, <1>t DEF StatsInfo, Looked, Calls
<1>5. CASE Unregister(h)
  BY <1>5, <1>t DEF Unregister, Looked, Goto, NoCall, Calls
<1>6. CASE \/ AnnounceWriter(h) \/ EnterWriter(h) \/ AddStream(h) \/ Register(h)
           \/ DeleteStream(h) \/ DrainInfo(h) \/ Purge(h) \/ Publish(h) \/ CountPut(h)
           \/ Subscribe(h) \/ Ack(h) \/ CountGet(h) \/ EndStats(h)
  <2>1. \/ UNCHANGED call
        \/ call' = [call EXCEPT ![h] = NoCall] /\ pc'[h] = "idle"
    BY <1>6, <1>t
       DEF AnnounceWriter, EnterWriter, AddStream, Register, DeleteStream, DrainInfo, Purge,
           Publish, CountPut, Subscribe, Ack, CountGet, EndStats, Answer, Goto
  <2>2. pc'[h] \in Looked => pc[h] \in Looked
    BY <1>6, <1>t
       DEF AnnounceWriter, EnterWriter, AddStream, Register, DeleteStream, DrainInfo, Purge,
           Publish, CountPut, Subscribe, Ack, CountGet, EndStats, Answer, Goto, Looked
  <2> QED
    BY <2>1, <2>2, <1>t DEF Looked
<1> QED
  BY <1>1, <1>2, <1>3, <1>4, <1>5, <1>6 DEF Serve

LEMMA FollowServe ==
    ASSUME TypeInv, AskInv, PutInv, FollowInv, NEW h \in Handlers, Serve(h)
    PROVE  FollowInv'
<1>t. /\ box \in [Msgs -> BoxStates] /\ home \in [Msgs -> Queues \cup {None}]
      /\ call \in [Handlers -> Calls] /\ pc \in [Handlers -> PCs]
  BY DEF TypeInv, TypeOK, JSTypeOK
<1>c. UNCHANGED cleared /\ UNCHANGED crashes /\ (faults' = 0 => faults = 0)
  BY ServeHistory, ServeCounts
<1>1. ASSUME NEW m \in Msgs PROVE box'[m] = "unsent" => home'[m] = None
  BY ServeHome
<1>2. ASSUME NEW g \in Handlers, pc'[g] \in {"ack", "countGet"}
      PROVE  home'[call'[g].msg] = call'[g].queue
  <2>1. ASSUME pc[g] \in {"ack", "countGet"}, call'[g].msg = call[g].msg,
               call'[g].queue = call[g].queue
        PROVE  home'[call'[g].msg] = call'[g].queue
    <3>1. call[g].msg \in Msgs /\ call[g].queue \in Queues /\ home[call[g].msg] = call[g].queue
      BY <2>1 DEF TypeInv, CallOK, FollowInv
    <3>2. box[call[g].msg] # "unsent"
      BY <3>1, NamesAssumption DEF FollowInv
    <3> QED
      BY <2>1, <3>1, <3>2, ServeHome
  <2>2. CASE g # h
    BY <1>2, <2>1, <2>2, Moves DEF SameRequest
  <2>3. CASE g = h /\ pc'[h] = "countGet"
    BY <2>1, <2>3, Moves DEF OwnMove, Ahead
  <2>4. CASE g = h /\ pc'[h] = "ack"
    <3>1. /\ pc[h] = "fetch" /\ call'[h].queue = call[h].queue
          /\ call'[h].msg \in Ready(call[h].queue)
      BY <2>4, Moves DEF OwnMove, Ahead
    <3>2. PICK m \in Msgs : call'[h].msg = m /\ box[m] = "ready" /\ home[m] = call[h].queue
      BY <3>1 DEF Ready
    <3>3. home'[m] = home[m]
      BY <3>2, ServeHome
    <3> QED
      BY <2>4, <3>1, <3>2, <3>3
  <2> QED
    BY <1>2, <2>2, <2>3, <2>4
<1>3. ASSUME NEW g \in Handlers, pc'[g] = "unregister" PROVE Deleting(call'[g].queue)
  <2>1. CASE g # h
    BY <1>3, <2>1, Moves DEF SameRequest, FollowInv
  <2>2. CASE g = h
    <3>1. pc[h] = "deleteStream" /\ call'[h].queue = call[h].queue
      BY <1>3, <2>2, Moves DEF OwnMove, Ahead
    <3> QED
      BY <2>2, <3>1 DEF AskInv, AskOK, Deleting
  <2> QED
    BY <2>1, <2>2
<1>4. ASSUME Reliable' PROVE late' = {}
  BY <1>4, <1>c, LateGrows DEF LateStep, Reliable, FollowInv, TypeInv, TypeOK
<1>5. ASSUME Reliable', NEW g \in Handlers, pc'[g] \in Looked
      PROVE  call'[g].live \/ Deleting(call'[g].queue)
  <2>r. Reliable
    BY <1>5, <1>c DEF Reliable
  <2>1. CASE g # h
    <3>1. pc[g] \in Looked /\ call'[g].queue = call[g].queue
      BY <1>5, <2>1, Moves DEF SameRequest
    <3>2. call[g].live \/ Deleting(call[g].queue)
      BY <2>r, <3>1 DEF FollowInv
    <3>3. CASE Unregister(h) /\ call[g].queue = call[h].queue
      BY <3>1, <3>3 DEF Unregister, FollowInv
    <3> QED
      BY <2>1, <3>1, <3>2, <3>3, LiveStays
  <2>2. CASE g = h
    <3>1. CASE pc[h] \in Looked /\ ~call[h].live
      <4>1. Deleting(call[h].queue)
        BY <2>r, <3>1 DEF FollowInv
      <4>2. call'[h].queue = call[h].queue
        BY <1>5, <2>2, Moves DEF OwnMove, Looked
      <4> QED
        BY <2>2, <4>1, <4>2
    <3> QED
      BY <1>5, <2>2, <3>1, LiveStays
  <2> QED
    BY <2>1, <2>2
<1>6. ASSUME Reliable', NEW m \in Msgs, home'[m] \in Queues
      PROVE  home'[m] \in Registered' \/ Deleting(home'[m])
  <2>r. Reliable
    BY <1>6, <1>c DEF Reliable
  <2>1. home'[m] \in Registered \/ Deleting(home'[m])
    <3>1. CASE home'[m] = home[m]
      BY <1>6, <2>r, <3>1 DEF FollowInv
    <3>2. CASE home'[m] # home[m]
      <4>1. pc[h] = "publish" /\ home'[m] = call[h].queue
        BY <3>2, ServeHome
      <4>2. call[h].live \/ Deleting(call[h].queue)
        BY <2>r, <4>1 DEF FollowInv, Looked
      <4> QED
        BY <4>1, <4>2 DEF TypeInv, CallOK
    <3> QED
      BY <3>1, <3>2
  <2>2. CASE Register(h)
    BY <2>1, <2>2, MemQAssumption DEF Register, Registered, NewStats, TypeInv, TypeOK
  <2>3. CASE Unregister(h)
    <3>1. Deleting(call[h].queue)
      BY <2>3 DEF Unregister, FollowInv
    <3> QED
      BY <2>1, <2>3, <3>1 DEF Unregister, Registered, TypeInv, TypeOK
  <2> QED
    BY <2>1, <2>2, <2>3, ServeMap
<1>7. \A q : Deleting(q)' <=> Deleting(q)
  BY <1>c DEF Deleting
<1> QED
  BY <1>1, <1>2, <1>3, <1>4, <1>5, <1>6, <1>7 DEF FollowInv

LEMMA FollowStep == TypeInv /\ AskInv /\ PutInv /\ FollowInv /\ [Next]_vars => FollowInv'
<1> SUFFICES ASSUME TypeInv, AskInv, PutInv, FollowInv, [Next]_vars PROVE FollowInv'
  OBVIOUS
<1>t. /\ box \in [Msgs -> BoxStates] /\ home \in [Msgs -> Queues \cup {None}]
      /\ call \in [Handlers -> Calls] /\ pc \in [Handlers -> PCs]
      /\ crashes \in Nat /\ faults \in Nat
  BY DEF TypeInv, TypeOK, JSTypeOK
<1>1. ASSUME NEW h \in Handlers, Serve(h) PROVE FollowInv'
  BY <1>1, FollowServe
<1>2. ASSUME NEW h \in Handlers, Client(h) PROVE FollowInv'
  <2>1. /\ UNCHANGED <<queues, home, box, late, faults, crashes>> /\ cleared \subseteq cleared'
        /\ \/ UNCHANGED <<pc, call>>
           \/ \E l \in {"lock", "rlock"} : Goto(h, l) /\ \A k \in Handlers \ {h} : call'[k] = call[k]
    BY <1>2, <1>t DEF Client, Receive, RefuseEmptyName, PanicOnNilBackend, srv, hist, jsVars, Goto
  <2>2. \A q : Deleting(q) => Deleting(q)'
    BY <2>1 DEF Deleting
  <2>3. ASSUME NEW g \in Handlers, pc'[g] \in Looked \cup {"unregister"}
        PROVE  pc'[g] = pc[g] /\ call'[g] = call[g]
    BY <2>1, <2>3, <1>t DEF Goto, Looked
  <2> QED
    BY <2>1, <2>2, <2>3 DEF FollowInv, Looked, Reliable, Registered
<1>3. ASSUME NEW r \in late, LateCall(r) PROVE FollowInv'
  <2>1. UNCHANGED <<queues, pc, call, faults, crashes, cleared>>
    BY <1>3 DEF LateCall, srv, hist
  <2>2. ~Reliable
    BY DEF FollowInv
  <2>3. r.at = "publish" => r.msg \in Msgs /\ box[r.msg] = "unsent"
    BY NamesAssumption DEF PutInv
  <2>4. \A m \in Msgs : /\ box'[m] = "unsent" => home'[m] = None
                        /\ box[m] # "unsent" => home'[m] = home[m]
    BY <1>3, <2>3, LateEffect, EffectHome
  <2>5. ASSUME NEW g \in Handlers, pc[g] \in {"ack", "countGet"}
        PROVE  home'[call[g].msg] = call[g].queue
    <3>1. call[g].msg \in Msgs /\ call[g].queue \in Queues /\ home[call[g].msg] = call[g].queue
      BY <2>5 DEF TypeInv, CallOK, FollowInv
    <3>2. box[call[g].msg] # "unsent"
      BY <3>1, NamesAssumption DEF FollowInv
    <3> QED
      BY <2>4, <3>1, <3>2
  <2> QED
    BY <2>1, <2>2, <2>4, <2>5 DEF FollowInv, Reliable, Deleting
<1>4. CASE /\ UNCHANGED <<queues, pc, call, faults, crashes, cleared, home>>
           /\ late' \subseteq late /\ \A m \in Msgs : box'[m] = "unsent" => box[m] = "unsent"
  BY <1>4 DEF FollowInv, Reliable, Deleting, Registered
<1>5. CASE (\E r \in late : LoseCall(r)) \/ UNCHANGED vars
  BY <1>4, <1>5 DEF LoseCall, srv, vars, jsVars, hist
<1>6. ASSUME NEW m \in Msgs, Redeliver(m) PROVE FollowInv'
  <2>1. \A n \in Msgs : box'[n] = "unsent" => box[n] = "unsent"
    BY <1>6, <1>t DEF Redeliver, JSRedeliver
  <2> QED
    BY <1>4, <1>6, <2>1 DEF Redeliver, JSRedeliver, srv, hist
<1>7. CASE Crash
  BY <1>7, <1>t DEF Crash, FollowInv, Reliable, jsVars, Looked
<1> QED
  BY <1>1, <1>2, <1>3, <1>5, <1>6, <1>7 DEF Next

Counting(l, q) == {h \in Handlers : pc[h] = l /\ call[h].queue = q}

Settled(q) == {m \in Published(q) : \/ handouts[m] > 0
                                    \/ \E h \in Handlers : pc[h] = "countGet" /\ call[h].msg = m}

\* The requests between their call and their count are finitely many, and they
\* are what a counter lags behind.
CountOK(q) ==
    /\ IsFiniteSet(Counting("countPut", q))
    /\ IsFiniteSet(Counting("countGet", q))
    /\ queues[q]["enq"] + Cardinality(Counting("countPut", q)) = Cardinality(Published(q))
    /\ queues[q]["deq"] + Cardinality(Counting("countGet", q)) = Cardinality(Settled(q))

CountInv == Reliable => \A q \in Registered : ~Deleting(q) => CountOK(q)

\* Sets of messages are finite.
LEMMA MessagesFinite ==
    ASSUME NEW q
    PROVE  IsFiniteSet(Published(q)) /\ IsFiniteSet(Settled(q))
<1>1. Published(q) \in SUBSET Msgs /\ Settled(q) \in SUBSET Msgs
  BY DEF Published, Settled
<1> QED
  BY <1>1, FS_Subset, NamesAssumption

LEMMA CountInit == Init => CountInv
BY DEF Init, Start, CountInv, Registered

\* What CountOK(q) reads stays the same.
SameTraffic(q) ==
    /\ queues'[q]["enq"] = queues[q]["enq"]
    /\ queues'[q]["deq"] = queues[q]["deq"]
    /\ Counting("countPut", q)' = Counting("countPut", q)
    /\ Counting("countGet", q)' = Counting("countGet", q)
    /\ Published(q)' = Published(q)
    /\ Settled(q)' = Settled(q)

LEMMA CountSame ==
    ASSUME NEW q \in Queues, CountOK(q), SameTraffic(q)
    PROVE  CountOK(q)'
BY DEF CountOK, SameTraffic

\* A queue that nobody registered has no traffic.
LEMMA NoTraffic ==
    ASSUME TypeInv, FollowInv, Reliable, NEW q \in Queues \ Registered, ~Deleting(q)
    PROVE  /\ Published(q) = {} /\ Settled(q) = {}
           /\ Counting("countPut", q) = {} /\ Counting("countGet", q) = {}
<1>1. Published(q) = {}
  BY DEF Published, FollowInv
<1>2. \A h \in Handlers : pc[h] \in Looked => call[h].queue # q
  BY DEF FollowInv, TypeInv, CallOK
<1> QED
  BY <1>1, <1>2 DEF Settled, Counting, Looked

\* The requests that are counted change only by the step's own.
LEMMA CountingMoves ==
    ASSUME NEW h \in Handlers, \A g \in Handlers \ {h} : SameRequest(g), NEW q,
           NEW l \in {"countPut", "countGet"}
    PROVE  /\ h \in Counting(l, q)' /\ h \notin Counting(l, q) =>
                Counting(l, q)' = Counting(l, q) \cup {h}
           /\ h \notin Counting(l, q)' => Counting(l, q)' = Counting(l, q) \ {h}
           /\ h \in Counting(l, q)' <=> pc'[h] = l /\ call'[h].queue = q
           /\ h \in Counting(l, q) <=> pc[h] = l /\ call[h].queue = q
BY DEF Counting, SameRequest

\* Where queue q stays registered and nobody is counted, the traffic of q is what
\* it was, unless the step publishes to q or takes a message of q.
LEMMA ServeQuiet ==
    ASSUME TypeInv, AskInv, PutInv, FollowInv, NEW h \in Handlers, Serve(h), NEW q \in Queues,
           queues'[q]["enq"] = queues[q]["enq"], queues'[q]["deq"] = queues[q]["deq"],
           \A l \in {"countPut", "countGet"} : h \in Counting(l, q)' <=> h \in Counting(l, q),
           pc[h] \notin {"countGet"} \/ call[h].queue # q
    PROVE  SameTraffic(q)
<1>m. OwnMove(h) /\ \A g \in Handlers \ {h} : SameRequest(g)
  BY Moves
<1>1. \A l \in {"countPut", "countGet"} : Counting(l, q)' = Counting(l, q)
  BY <1>m DEF Counting, SameRequest
<1>2. \A m \in Msgs : home'[m] = q <=> home[m] = q
  <2> SUFFICES ASSUME NEW m \in Msgs, home'[m] # home[m] PROVE home'[m] # q /\ home[m] # q
    OBVIOUS
  <2>1. pc[h] = "publish" /\ pc'[h] = "countPut" /\ call[h].msg = m /\ home'[m] = call[h].queue
    BY ServeHome
  <2>2. call'[h].queue = call[h].queue
    BY <2>1, <1>m DEF OwnMove
  <2>3. call[h].queue # q
    BY <2>1, <2>2 DEF Counting
  <2>4. home[m] = None
    BY ServeHome DEF FollowInv
  <2> QED
    BY <2>1, <2>3, <2>4, NamesAssumption
<1>3. Published(q)' = Published(q)
  BY <1>2 DEF Published
<1>4. ASSUME NEW m \in Published(q)
      PROVE  /\ handouts'[m] = handouts[m]
             /\ (\E g \in Handlers : pc[g] = "countGet" /\ call[g].msg = m)' <=>
                (\E g \in Handlers : pc[g] = "countGet" /\ call[g].msg = m)
  <2>1. \A g \in Handlers : pc[g] = "countGet" /\ call[g].msg = m => call[g].queue = q
    BY DEF FollowInv, Published
  <2>2. \A g \in Handlers : pc'[g] = "countGet" /\ call'[g].msg = m => call'[g].queue = q
    <3>1. \A g \in Handlers : pc'[g] = "countGet" => home'[call'[g].msg] = call'[g].queue
      BY FollowServe DEF FollowInv
    <3> QED
      BY <3>1, <1>3 DEF Published
  <2>3. ASSUME NEW g \in Handlers
        PROVE  pc'[g] = "countGet" /\ call'[g].msg = m <=> pc[g] = "countGet" /\ call[g].msg = m
    <3>1. g # h => SameRequest(g)
      BY <1>m
    <3>2. pc'[h] = "countGet" /\ pc[h] = "countGet" => call'[h].msg = call[h].msg
      BY <1>m DEF OwnMove, Ahead
    <3> QED
      BY <2>1, <2>2, <3>1, <3>2 DEF Counting, SameRequest
  <2>4. handouts'[m] = handouts[m]
    <3>1. CASE pc[h] = "countGet"
      <4>1. call[h].msg # m /\ m \in Msgs
        BY <2>1, <3>1 DEF Published
      <4>2. handouts \in [Msgs -> Nat] /\ handouts' = [handouts EXCEPT ![call[h].msg] = @ + 1]
        BY <3>1, ServeCounts DEF CountGet, TypeInv, TypeOK
      <4> QED
        BY <4>1, <4>2
    <3>2. CASE pc[h] # "countGet"
      BY <3>2, ServeCounts
    <3> QED
      BY <3>1, <3>2
  <2> QED
    BY <2>3, <2>4
<1>5. Settled(q)' = Settled(q)
  BY <1>3, <1>4 DEF Settled
<1> QED
  BY <1>1, <1>3, <1>5 DEF SameTraffic

\* The step that registers q: nothing was counted for q yet.
LEMMA RegisterCounts ==
    ASSUME TypeInv, FollowInv, Reliable, NEW h \in Handlers, Register(h), Serve(h),
           NEW q \in Queues \ Registered, q \in Registered', ~Deleting(q)
    PROVE  CountOK(q)'
<1>t. queues \in [Queues -> [Counters -> Nat] \cup {None}]
  BY DEF TypeInv, TypeOK
<1>1. call[h].queue = q /\ queues'[q] = NewStats
  BY <1>t DEF Register, Registered
<1>2. UNCHANGED <<home, handouts>> /\ pc'[h] = "idle"
  BY AnswerMoves DEF Register, jsVars, hist
<1>3. \A l \in {"countPut", "countGet"} : Counting(l, q)' = Counting(l, q)
  BY <1>2, Moves DEF Counting, SameRequest, Register
<1>4. Published(q)' = {} /\ Settled(q)' = {}
  BY <1>2, NoTraffic DEF Published, Settled
<1>5. Counting("countPut", q)' = {} /\ Counting("countGet", q)' = {}
  BY <1>3, NoTraffic
<1>6. NewStats["enq"] = 0 /\ NewStats["deq"] = 0
  BY DEF NewStats, Counters
<1> QED
  BY <1>1, <1>4, <1>5, <1>6, FS_EmptySet DEF CountOK

\* The counter of a request that looked q up reaches the qStats of q.
LEMMA CountReaches ==
    ASSUME TypeInv, NEW h \in Handlers, NEW c \in Counters, NEW n \in Nat, Count(h, c, n),
           NEW q \in Registered, call[h].queue = q => call[h].live,
           call[h].queue \in Queues
    PROVE  /\ call[h].queue # q => queues'[q] = queues[q]
           /\ call[h].queue = q => queues'[q] = [queues[q] EXCEPT ![c] = @ + n]
BY DEF Count, TypeInv, TypeOK, Registered

\* One more is enqueued, one request less is to count it.
LEMMA PutCounts ==
    ASSUME TypeInv, AskInv, PutInv, FollowInv, Reliable, NEW h \in Handlers, CountPut(h), Serve(h),
           NEW q \in Registered, ~Deleting(q), CountOK(q)
    PROVE  CountOK(q)'
<1>t. /\ queues \in [Queues -> [Counters -> Nat] \cup {None}] /\ queues[q] \in [Counters -> Nat]
      /\ q \in Queues
  BY DEF TypeInv, TypeOK, Registered
<1>1. /\ pc[h] = "countPut" /\ pc'[h] = "idle" /\ Count(h, "enq", 1)
      /\ call[h].queue \in Queues /\ UNCHANGED <<home, handouts>>
  BY AnswerMoves DEF CountPut, jsVars, TypeInv, CallOK
<1>2. call[h].queue = q => call[h].live
  BY <1>1 DEF FollowInv, Looked
<1>3. /\ call[h].queue # q => queues'[q] = queues[q]
      /\ call[h].queue = q => queues'[q] = [queues[q] EXCEPT !["enq"] = @ + 1]
  BY <1>1, <1>2, CountReaches DEF Counters
<1>4. CASE call[h].queue # q
  <2>1. \A l \in {"countPut", "countGet"} : h \notin Counting(l, q) /\ h \notin Counting(l, q)'
    BY <1>1, <1>4 DEF Counting
  <2>2. SameTraffic(q)
    BY <1>t, <1>1, <1>3, <1>4, <2>1, ServeQuiet
  <2> QED
    BY <1>t, <2>2, CountSame
<1>5. CASE call[h].queue = q
  <2>1. queues'[q]["enq"] = queues[q]["enq"] + 1 /\ queues'[q]["deq"] = queues[q]["deq"]
    BY <1>t, <1>3, <1>5 DEF Counters
  <2>2. /\ Counting("countPut", q)' = Counting("countPut", q) \ {h}
        /\ h \in Counting("countPut", q)
    BY <1>1, <1>5, Moves DEF Counting, SameRequest
  <2>3. Counting("countGet", q)' = Counting("countGet", q)
    BY <1>1, Moves DEF Counting, SameRequest
  <2>4. Published(q)' = Published(q)
    BY <1>1 DEF Published
  <2>5. Settled(q)' = Settled(q)
    BY <1>1, <2>4, Moves DEF Settled, SameRequest
  <2>6. /\ IsFiniteSet(Counting("countPut", q)')
        /\ Cardinality(Counting("countPut", q)') = Cardinality(Counting("countPut", q)) - 1
    BY <2>2, FS_RemoveElement DEF CountOK
  <2>7. queues[q]["enq"] \in Nat /\ Cardinality(Counting("countPut", q)) \in Nat
    BY <1>t, FS_CardinalityType DEF CountOK, Counters
  <2>8. queues'[q]["enq"] + Cardinality(Counting("countPut", q)') = Cardinality(Published(q))
    BY <2>1, <2>6, <2>7 DEF CountOK
  <2> QED
    BY <2>1, <2>3, <2>4, <2>5, <2>6, <2>8 DEF CountOK
<1> QED
  BY <1>4, <1>5

\* One more is dequeued, one request less is to count it.
LEMMA GetCounts ==
    ASSUME TypeInv, AskInv, PutInv, FollowInv, Reliable, NEW h \in Handlers, CountGet(h), Serve(h),
           NEW q \in Registered, ~Deleting(q), CountOK(q)
    PROVE  CountOK(q)'
<1>t. /\ queues \in [Queues -> [Counters -> Nat] \cup {None}] /\ queues[q] \in [Counters -> Nat]
      /\ q \in Queues /\ handouts \in [Msgs -> Nat]
  BY DEF TypeInv, TypeOK, Registered
<1>1. /\ pc[h] = "countGet" /\ pc'[h] = "idle" /\ Count(h, "deq", 1)
      /\ call[h].queue \in Queues /\ call[h].msg \in Msgs /\ UNCHANGED home
      /\ handouts' = [handouts EXCEPT ![call[h].msg] = @ + 1]
  BY AnswerMoves DEF CountGet, jsVars, TypeInv, CallOK
<1>2. call[h].queue = q => call[h].live
  BY <1>1 DEF FollowInv, Looked
<1>3. /\ call[h].queue # q => queues'[q] = queues[q]
      /\ call[h].queue = q => queues'[q] = [queues[q] EXCEPT !["deq"] = @ + 1]
  BY <1>1, <1>2, CountReaches DEF Counters
<1>4. CASE call[h].queue # q
  <2>1. \A l \in {"countPut", "countGet"} : h \notin Counting(l, q) /\ h \notin Counting(l, q)'
    BY <1>1, <1>4 DEF Counting
  <2>2. SameTraffic(q)
    BY <1>t, <1>1, <1>3, <1>4, <2>1, ServeQuiet
  <2> QED
    BY <1>t, <2>2, CountSame
<1>5. CASE call[h].queue = q
  <2>1. queues'[q]["deq"] = queues[q]["deq"] + 1 /\ queues'[q]["enq"] = queues[q]["enq"]
    BY <1>t, <1>3, <1>5 DEF Counters
  <2>2. /\ Counting("countGet", q)' = Counting("countGet", q) \ {h}
        /\ h \in Counting("countGet", q)
    BY <1>1, <1>5, Moves DEF Counting, SameRequest
  <2>3. Counting("countPut", q)' = Counting("countPut", q)
    BY <1>1, Moves DEF Counting, SameRequest
  <2>4. Published(q)' = Published(q)
    BY <1>1 DEF Published
  <2>5. Settled(q)' = Settled(q)
    <3>1. \A g \in Handlers \ {h} : pc'[g] = pc[g] /\ call'[g].msg = call[g].msg
      BY Moves DEF SameRequest
    <3>2. \A m \in Msgs : handouts'[m] > 0 <=> handouts[m] > 0 \/ m = call[h].msg
      BY <1>t, <1>1
    <3>3. \A m \in Msgs :
            (\/ handouts'[m] > 0
             \/ \E g \in Handlers : pc'[g] = "countGet" /\ call'[g].msg = m) <=>
            (\/ handouts[m] > 0
             \/ \E g \in Handlers : pc[g] = "countGet" /\ call[g].msg = m)
      BY <1>1, <3>1, <3>2
    <3>4. Published(q) \subseteq Msgs
      BY DEF Published
    <3> QED
      BY <2>4, <3>3, <3>4 DEF Settled
  <2>6. /\ IsFiniteSet(Counting("countGet", q)')
        /\ Cardinality(Counting("countGet", q)') = Cardinality(Counting("countGet", q)) - 1
    BY <2>2, FS_RemoveElement DEF CountOK
  <2>7. queues[q]["deq"] \in Nat /\ Cardinality(Counting("countGet", q)) \in Nat
    BY <1>t, FS_CardinalityType DEF CountOK, Counters
  <2>8. queues'[q]["deq"] + Cardinality(Counting("countGet", q)') = Cardinality(Settled(q))
    BY <2>1, <2>6, <2>7 DEF CountOK
  <2> QED
    BY <2>1, <2>3, <2>4, <2>5, <2>6, <2>8 DEF CountOK
<1> QED
  BY <1>4, <1>5

\* One more is published, one request more is to count it; nobody has dequeued it.
LEMMA PublishCounts ==
    ASSUME TypeInv, PutInv, FollowInv, HandInv, Reliable, NEW h \in Handlers, Serve(h),
           pc[h] = "publish", pc'[h] = "countPut", UNCHANGED <<queues, handouts>>,
           NEW q \in Registered, call[h].queue = q, CountOK(q)
    PROVE  CountOK(q)'
<1>t. /\ queues \in [Queues -> [Counters -> Nat] \cup {None}] /\ queues[q] \in [Counters -> Nat]
      /\ q \in Queues /\ handouts \in [Msgs -> Nat]
      /\ home \in [Msgs -> Queues \cup {None}]
  BY DEF TypeInv, TypeOK, JSTypeOK, Registered
<1> DEFINE m == call[h].msg
<1>1. m \in Msgs /\ box[m] = "unsent" /\ home[m] = None
  BY PublishesUnsent DEF Request, FollowInv
<1>2. home' = [home EXCEPT ![m] = q]
  BY ServeResult DEF Stores
<1>3. /\ call'[h].queue = call[h].queue
      /\ \A g \in Handlers \ {h} : SameRequest(g)
  BY Moves DEF OwnMove
<1>4. Published(q)' = Published(q) \cup {m} /\ m \notin Published(q)
  BY <1>t, <1>1, <1>2, NamesAssumption DEF Published
<1>5. handouts[m] = 0 /\ \A g \in Handlers : pc[g] = "countGet" => call[g].msg # m
  BY <1>1 DEF HandInv, HoldOK, Holding, Reliable
<1>6. Settled(q)' = Settled(q)
  <2>1. \A n : (\E g \in Handlers : pc[g] = "countGet" /\ call[g].msg = n)' <=>
               (\E g \in Handlers : pc[g] = "countGet" /\ call[g].msg = n)
    BY <1>3 DEF SameRequest
  <2> HIDE DEF m
  <2>2. Settled(q)' = {n \in Published(q)' : \/ handouts[n] > 0
                           \/ \E g \in Handlers : pc[g] = "countGet" /\ call[g].msg = n}
    BY <2>1 DEF Settled
  <2> QED
    BY <1>4, <1>5, <2>2 DEF Settled
<1>7. /\ Counting("countPut", q)' = Counting("countPut", q) \cup {h}
      /\ h \notin Counting("countPut", q)
      /\ Counting("countGet", q)' = Counting("countGet", q)
  BY <1>3 DEF Counting, SameRequest
<1>8. /\ IsFiniteSet(Counting("countPut", q)')
      /\ Cardinality(Counting("countPut", q)') = Cardinality(Counting("countPut", q)) + 1
  BY <1>7, FS_AddElement DEF CountOK
<1>9. Cardinality(Published(q)') = Cardinality(Published(q)) + 1
  BY <1>4, MessagesFinite, FS_AddElement
<1>10. queues[q]["enq"] \in Nat /\ Cardinality(Counting("countPut", q)) \in Nat
  BY <1>t, FS_CardinalityType DEF CountOK, Counters
<1>11. queues'[q]["enq"] + Cardinality(Counting("countPut", q)') = Cardinality(Published(q)')
  BY <1>8, <1>9, <1>10 DEF CountOK
<1> QED
  BY <1>6, <1>7, <1>8, <1>11 DEF CountOK

\* One more is dequeued for good, one request more is to count it: the holder of a
\* message is the only one, and it has not been handed out.
LEMMA AckCounts ==
    ASSUME TypeInv, PutInv, FollowInv, HandInv, Reliable, NEW h \in Handlers, Serve(h),
           pc[h] = "ack", pc'[h] = "countGet", UNCHANGED <<queues, handouts>>,
           NEW q \in Registered, call[h].queue = q, CountOK(q)
    PROVE  CountOK(q)'
<1>t. /\ queues \in [Queues -> [Counters -> Nat] \cup {None}] /\ queues[q] \in [Counters -> Nat]
      /\ q \in Queues /\ handouts \in [Msgs -> Nat]
  BY DEF TypeInv, TypeOK, Registered
<1> DEFINE m == call[h].msg
<1>1. m \in Published(q)
  BY DEF FollowInv, Published, TypeInv, CallOK
<1>2. UNCHANGED home
  <2>1. home' \in [Msgs -> Queues \cup {None}]
    BY TypeStep DEF Next, TypeInv, TypeOK, JSTypeOK
  <2>2. \A n \in Msgs : home'[n] = home[n]
    BY ServeHome
  <2> QED
    BY <2>1, <2>2 DEF TypeInv, TypeOK, JSTypeOK
<1>3. /\ call'[h].queue = call[h].queue /\ call'[h].msg = m
      /\ \A g \in Handlers \ {h} : SameRequest(g)
  BY Moves DEF OwnMove, Ahead
<1>4. Published(q)' = Published(q)
  BY <1>2 DEF Published
<1>5. handouts[m] = 0 /\ \A g \in Handlers : pc[g] = "countGet" => call[g].msg # m
  BY DEF HandInv, HoldOK, Holding, Reliable
<1>6. Settled(q)' = Settled(q) \cup {m} /\ m \notin Settled(q)
  <2>1. \A n : (\E g \in Handlers : pc[g] = "countGet" /\ call[g].msg = n)' <=>
               n = m \/ (\E g \in Handlers : pc[g] = "countGet" /\ call[g].msg = n)
    BY <1>3 DEF SameRequest
  <2> HIDE DEF m
  <2>2. Settled(q)' = {n \in Published(q) : \/ handouts[n] > 0 \/ n = m
                           \/ \E g \in Handlers : pc[g] = "countGet" /\ call[g].msg = n}
    BY <1>4, <2>1 DEF Settled
  <2>3. m \notin Settled(q)
    BY <1>5 DEF Settled
  <2> QED
    BY <1>1, <2>2, <2>3 DEF Settled
<1>7. /\ Counting("countGet", q)' = Counting("countGet", q) \cup {h}
      /\ h \notin Counting("countGet", q)
      /\ Counting("countPut", q)' = Counting("countPut", q)
  BY <1>3 DEF Counting, SameRequest
<1>8. /\ IsFiniteSet(Counting("countGet", q)')
      /\ Cardinality(Counting("countGet", q)') = Cardinality(Counting("countGet", q)) + 1
  BY <1>7, FS_AddElement DEF CountOK
<1>9. Cardinality(Settled(q)') = Cardinality(Settled(q)) + 1
  BY <1>6, MessagesFinite, FS_AddElement
<1>10. queues[q]["deq"] \in Nat /\ Cardinality(Counting("countGet", q)) \in Nat
  BY <1>t, FS_CardinalityType DEF CountOK, Counters
<1>11. queues'[q]["deq"] + Cardinality(Counting("countGet", q)') = Cardinality(Settled(q)')
  BY <1>8, <1>9, <1>10 DEF CountOK
<1> QED
  BY <1>4, <1>7, <1>8, <1>11 DEF CountOK

\* Nobody else writes what Stats reports of q as enqueued and dequeued.
LEMMA CountersStay ==
    ASSUME TypeInv, CreateInv, NEW h \in Handlers, Serve(h), ~CountPut(h), ~CountGet(h),
           NEW q \in Registered, q \in Registered'
    PROVE  queues'[q]["enq"] = queues[q]["enq"] /\ queues'[q]["deq"] = queues[q]["deq"]
<1>t. /\ queues \in [Queues -> [Counters -> Nat] \cup {None}] /\ queues[q] \in [Counters -> Nat]
      /\ q \in Queues
  BY DEF TypeInv, TypeOK, Registered
<1>1. CASE Register(h)
  BY <1>1, <1>t DEF Register, CreateInv, Creating
<1>2. CASE Unregister(h)
  BY <1>2, <1>t DEF Unregister, Registered
<1>3. CASE DrainInfo(h)
  <2>1. \/ UNCHANGED queues
        \/ \E n : queues' = [queues EXCEPT ![call[h].queue] =
                               [queues[call[h].queue] EXCEPT !["drained"] = @ + n]]
    BY <1>3 DEF DrainInfo, Count
  <2>2. CASE call[h].queue = q
    BY <2>1, <2>2, <1>t DEF Counters
  <2>3. CASE call[h].queue # q
    BY <2>1, <2>3, <1>t
  <2> QED
    BY <2>2, <2>3
<1>4. CASE \/ AnnounceWriter(h) \/ EnterWriter(h) \/ LookUp(h) \/ AddStream(h)
           \/ DeleteStream(h) \/ Purge(h) \/ Publish(h) \/ Subscribe(h) \/ Fetch(h)
           \/ Ack(h) \/ BeginStats(h) \/ StatsInfo(h) \/ EndStats(h)
  BY <1>4
     DEF AnnounceWriter, EnterWriter, LookUp, AddStream, DeleteStream, Purge, Publish,
         Subscribe, Fetch, Ack, BeginStats, StatsInfo, EndStats, srv
<1> QED
  BY <1>1, <1>2, <1>3, <1>4 DEF Serve

LEMMA CountServe ==
    ASSUME TypeInv, AskInv, PutInv, CreateInv, FollowInv, HandInv, CountInv,
           NEW h \in Handlers, Serve(h)
    PROVE  CountInv'
<1> SUFFICES ASSUME Reliable', NEW q \in Registered', ~Deleting(q)'
             PROVE  CountOK(q)'
  BY DEF CountInv
<1>1. Reliable /\ ~Deleting(q) /\ q \in Queues
  BY ServeCounts, ServeHistory DEF Reliable, Deleting, Registered
<1>m. OwnMove(h)
  BY Moves
<1>2. CASE q \notin Registered
  <2>1. Register(h)
    BY <1>2, ServeMap DEF Unregister, Registered, TypeInv, TypeOK
  <2> QED
    BY <1>1, <1>2, <2>1, RegisterCounts
<1>3. CASE q \in Registered
  <2>1. CountOK(q)
    BY <1>1, <1>3 DEF CountInv
  <2>2. CASE CountPut(h)
    BY <1>1, <1>3, <2>1, <2>2, PutCounts
  <2>3. CASE CountGet(h)
    BY <1>1, <1>3, <2>1, <2>3, GetCounts
  <2>4. CASE ~CountPut(h) /\ ~CountGet(h)
    <3>1. queues'[q]["enq"] = queues[q]["enq"] /\ queues'[q]["deq"] = queues[q]["deq"]
      BY <1>3, <2>4, CountersStay
    <3>2. pc[h] \notin {"countPut", "countGet"}
      <4>1. pc[h] # "countPut"
        BY <2>4, OwnAction
      <4> QED
        BY <4>1, <2>4, ServeCounts
    <3>3. pc'[h] = "countPut" => pc[h] = "publish" /\ call'[h].queue = call[h].queue
      BY <1>m DEF OwnMove, Ahead
    <3>4. pc'[h] = "countGet" => pc[h] = "ack" /\ call'[h].queue = call[h].queue
      BY <1>m DEF OwnMove, Ahead
    <3>5. CASE pc'[h] = "countPut" /\ call[h].queue = q
      <4>1. Publish(h)
        BY <3>3, <3>5, OwnAction
      <4> QED
        BY <1>1, <1>3, <2>1, <3>3, <3>5, <4>1, PublishCounts DEF Publish, srv, hist
    <3>6. CASE pc'[h] = "countGet" /\ call[h].queue = q
      BY <1>1, <1>3, <2>1, <3>4, <3>6, ServeCounts, AckCounts DEF Ack, srv, hist
    <3>7. CASE pc'[h] \in {"countPut", "countGet"} => call[h].queue # q
      <4>1. \A l \in {"countPut", "countGet"} : h \in Counting(l, q)' <=> h \in Counting(l, q)
        BY <3>2, <3>3, <3>4, <3>7 DEF Counting
      <4> QED
        BY <1>1, <2>1, <3>1, <3>2, <4>1, ServeQuiet, CountSame
    <3> QED
      BY <3>5, <3>6, <3>7
  <2> QED
    BY <2>2, <2>3, <2>4
<1> QED
  BY <1>2, <1>3

LEMMA CountStep ==
    TypeInv /\ AskInv /\ PutInv /\ CreateInv /\ FollowInv /\ HandInv /\ CountInv /\ [Next]_vars
      => CountInv'
<1> SUFFICES ASSUME TypeInv, AskInv, PutInv, CreateInv, FollowInv, HandInv, CountInv, [Next]_vars
             PROVE  CountInv'
  OBVIOUS
<1>t. /\ call \in [Handlers -> Calls] /\ pc \in [Handlers -> PCs]
      /\ crashes \in Nat /\ faults \in Nat
  BY DEF TypeInv, TypeOK
\* Steps that leave the traffic alone.
<1>a. ASSUME UNCHANGED <<queues, home, handouts, faults, crashes>>, cleared \subseteq cleared',
             \A g \in Handlers : pc'[g] \in {"countPut", "countGet"} \/ pc[g] \in {"countPut", "countGet"}
                                   => pc'[g] = pc[g] /\ call'[g] = call[g]
      PROVE  CountInv'
  <2> SUFFICES ASSUME Reliable', NEW q \in Registered', ~Deleting(q)'
               PROVE  CountOK(q)'
    BY DEF CountInv
  <2>1. Reliable /\ q \in Registered /\ ~Deleting(q) /\ q \in Queues
    BY <1>a DEF Reliable, Registered, Deleting
  <2>2. \A l \in {"countPut", "countGet"} : Counting(l, q)' = Counting(l, q)
    BY <1>a DEF Counting
  <2>3. Published(q)' = Published(q) /\ Settled(q)' = Settled(q)
    BY <1>a DEF Published, Settled
  <2> QED
    BY <1>a, <2>1, <2>2, <2>3, CountSame DEF CountInv, SameTraffic
<1>1. ASSUME NEW h \in Handlers, Serve(h) PROVE CountInv'
  BY <1>1, CountServe
<1>2. ASSUME NEW h \in Handlers, Client(h) PROVE CountInv'
  <2>1. /\ UNCHANGED <<queues, home, handouts, faults, crashes>> /\ cleared \subseteq cleared'
        /\ \/ UNCHANGED <<pc, call>>
           \/ /\ \E l \in {"lock", "rlock"} : Goto(h, l) /\ \A k \in Handlers \ {h} : call'[k] = call[k]
              /\ pc[h] = "idle"
    BY <1>2, <1>t DEF Client, Receive, RefuseEmptyName, PanicOnNilBackend, srv, hist, jsVars, Goto
  <2>2. \A g \in Handlers : pc'[g] \in {"countPut", "countGet"} \/ pc[g] \in {"countPut", "countGet"}
                              => pc'[g] = pc[g] /\ call'[g] = call[g]
    BY <2>1, <1>t DEF Goto
  <2> QED
    BY <1>a, <2>1, <2>2
<1>3. ASSUME NEW r \in late PROVE ~Reliable
  BY <1>3 DEF FollowInv
<1>4. ASSUME NEW r \in late, LateCall(r) \/ LoseCall(r) PROVE CountInv'
  BY <1>3, <1>4 DEF LateCall, LoseCall, CountInv, Reliable
<1>5. ASSUME NEW m \in Msgs, Redeliver(m) PROVE CountInv'
  BY <1>5, <1>a DEF Redeliver, JSRedeliver, srv, hist
<1>6. CASE Crash
  BY <1>6, <1>t DEF Crash, CountInv, Reliable
<1>7. CASE UNCHANGED vars
  BY <1>7, <1>a DEF vars
<1> QED
  BY <1>1, <1>2, <1>4, <1>5, <1>6, <1>7 DEF Next

\* No update of a counter is lost: Enqueued and Dequeued of a queue that nobody asked
\* to delete are its traffic less the requests that are about to count theirs, for any
\* number of handlers that count through a pointer they read under a lock they released.
THEOREM CountersMatch == Spec => []CountersMatchTraffic
<1>1. CountInv => CountersMatchTraffic
  BY DEF CountInv, CountOK, CountersMatchTraffic, InFlight, Counting, Settled, Reliable, Deleting
<1> QED
  BY <1>1, TypeInit, TypeStep, LockInit, LockStep, AskInit, AskStep, PutInit, PutStep, CreateInit,
     CreateStep, FollowInit, FollowStep, HandInit, HandStep, CountInit, CountStep, PTL DEF Spec

-----------------------------------------------------------------------------
(* MemQ implements QueueService: each step of the handlers, of JetStream   *)
(* and of a restart is a step of the abstract service or changes nothing   *)
(* of it, for queue names that ToUpper keeps apart.                        *)
(* The state of the service as MemQ has it.                                *)

OpenNow == {q \in Queues : HasStream(q)}

SentNow == {m \in Msgs : box[m] # "unsent"}

OwedNow == [q \in Queues |-> {m \in Msgs : home[m] = q /\ box[m] \in {"ready", "pending"}}]

TakingNow == [h \in Handlers |-> IF pc[h] \in {"ack", "countGet"} THEN call[h].msg ELSE None]

serviceNow == <<OpenNow, SentNow, OwedNow, TakingNow, accepted, handouts, cleared>>

\* A step that changes nothing of the service.
LEMMA Stutters ==
    ASSUME UNCHANGED serviceNow
    PROVE  [Service!Next]_(Service!vars)
BY DEF serviceNow, OpenNow, SentNow, OwedNow, TakingNow, Service!vars

\* Steps of the service that take the message of a queue.
LEMMA TakeOrConfirm ==
    ASSUME NEW h \in Handlers, NEW q \in Queues, NEW m \in Msgs,
           Service!Take(h, q, m) \/ Service!Confirm(h, q)
    PROVE  Service!Next
<1>1. CASE Service!Take(h, q, m)
  <2>1. \E n \in Msgs : Service!Put(q, n) \/ \E g \in Handlers : Service!Take(g, q, n)
    BY <1>1
  <2> QED
    BY <2>1 DEF Service!Next
<1>2. CASE Service!Confirm(h, q)
  <2>1. \E g \in Handlers : Service!Confirm(g, q)
    BY <1>2
  <2> QED
    BY <2>1 DEF Service!Next
<1> QED
  BY <1>1, <1>2

-----------------------------------------------------------------------------
(* What JetStream executes, as clients see it.                             *)

LEMMA RemovesOwed ==
    ASSUME TypeInv, Injective, NEW q \in Queues, Removes(q)
    PROVE  SentNow' = SentNow /\ OwedNow' = [OwedNow EXCEPT ![q] = {}]
<1>t. box \in [Msgs -> BoxStates] /\ home \in [Msgs -> Queues \cup {None}]
  BY DEF TypeInv, TypeOK, JSTypeOK
<1>1. \A m \in Msgs : m \in Contents(q) <=> Stored(m) /\ home[m] = q
  BY <1>t DEF Contents, Injective
<1>2. SentNow' = SentNow
  BY <1>1 DEF Removes, SentNow, Stored
<1>3. \A p \in Queues : OwedNow'[p] = IF p = q THEN {} ELSE OwedNow[p]
  BY <1>1 DEF Removes, OwedNow, Stored
<1> QED
  BY <1>2, <1>3 DEF OwedNow

LEMMA DeleteOpen ==
    ASSUME TypeInv, Injective, NEW q \in Queues,
           stream' = [stream EXCEPT ![StreamName[q]] = None]
    PROVE  OpenNow' = OpenNow \ {q}
<1>1. stream \in [Streams -> Queues \cup {None}]
  BY DEF TypeInv, TypeOK, JSTypeOK
<1>2. \A p \in Queues : HasStream(p)' <=> HasStream(p) /\ p # q
  BY <1>1, NamesAssumption DEF HasStream, StreamOf, Injective
<1> QED
  BY <1>2 DEF OpenNow

LEMMA AddOpen ==
    ASSUME TypeInv, Injective, NEW q \in Queues, JSAdd(q)
    PROVE  OpenNow' \in {OpenNow, OpenNow \cup {q}}
<1>1. stream \in [Streams -> Queues \cup {None}]
  BY DEF TypeInv, TypeOK, JSTypeOK
<1>2. CASE CanAdd(q)
  <2>1. \A p \in Queues : HasStream(p)' <=> HasStream(p) \/ p = q
    BY <1>1, <1>2, NamesAssumption DEF JSAdd, HasStream, StreamOf, Injective
  <2> QED
    BY <2>1 DEF OpenNow
<1>3. CASE ~CanAdd(q)
  BY <1>3 DEF JSAdd, OpenNow, HasStream, StreamOf
<1> QED
  BY <1>2, <1>3

LEMMA StoresOwed ==
    ASSUME TypeInv, NEW q \in Queues, NEW m \in Msgs, box[m] = "unsent", Stores(q, m)
    PROVE  /\ q \in OpenNow /\ m \notin SentNow
           /\ SentNow' = SentNow \cup {m}
           /\ OwedNow' = [OwedNow EXCEPT ![q] = @ \cup {m}]
<1>t. box \in [Msgs -> BoxStates] /\ home \in [Msgs -> Queues \cup {None}]
  BY DEF TypeInv, TypeOK, JSTypeOK
<1>1. q \in OpenNow /\ m \notin SentNow /\ SentNow' = SentNow \cup {m}
  BY <1>t DEF Stores, OpenNow, SentNow
<1>2. \A p \in Queues : OwedNow'[p] = IF p = q THEN OwedNow[p] \cup {m} ELSE OwedNow[p]
  BY <1>t DEF Stores, OwedNow
<1> QED
  BY <1>1, <1>2 DEF OwedNow

LEMMA TurnsOwed ==
    ASSUME TypeInv, NEW m \in Msgs, NEW from \in {"ready", "pending"}, NEW to,
           Turns(m, from, to)
    PROVE  /\ to \in {"ready", "pending"} => UNCHANGED <<SentNow, OwedNow>>
           /\ to = "acked" =>
                /\ SentNow' = SentNow
                /\ \/ OwedNow' = OwedNow
                   \/ /\ home[m] \in Queues /\ m \in OwedNow[home[m]]
                      /\ OwedNow' = [OwedNow EXCEPT ![home[m]] = @ \ {m}]
<1>t. box \in [Msgs -> BoxStates] /\ home \in [Msgs -> Queues \cup {None}]
  BY DEF TypeInv, TypeOK, JSTypeOK
<1>1. ASSUME to \in {"ready", "pending"} PROVE UNCHANGED <<SentNow, OwedNow>>
  BY <1>t, <1>1 DEF Turns, SentNow, OwedNow
<1>2. CASE to = "acked"
  <2>1. SentNow' = SentNow
    BY <1>t, <1>2 DEF Turns, SentNow
  <2>2. CASE home[m] \in Queues
    <3>1. m \in OwedNow[home[m]]
      BY <2>2 DEF Turns, OwedNow
    <3>2. \A p \in Queues :
             OwedNow'[p] = IF p = home[m] THEN OwedNow[p] \ {m} ELSE OwedNow[p]
      BY <1>t, <1>2 DEF Turns, OwedNow
    <3>3. ASSUME NEW q \in Queues, q = home[m]
          PROVE  OwedNow' = [OwedNow EXCEPT ![q] = @ \ {m}]
      BY <3>2, <3>3 DEF OwedNow
    <3> QED
      BY <1>2, <2>1, <2>2, <3>1, <3>3
  <2>3. CASE home[m] \notin Queues
    <3>1. \A p \in Queues : OwedNow'[p] = OwedNow[p]
      BY <1>t, <2>3 DEF Turns, OwedNow
    <3> QED
      BY <1>2, <2>1, <3>1 DEF OwedNow
  <2> QED
    BY <2>2, <2>3
<1> QED
  BY <1>1, <1>2

\* A call that JetStream executes, in time or late, is a step of the service.
LEMMA CallImplements ==
    ASSUME TypeInv, Injective, NEW r, Effect(r),
           r.at \in Calling => r.queue \in Queues,
           r.at = "purge" => <<"drain", r.queue>> \in cleared,
           r.at = "deleteStream" => <<"delete", r.queue>> \in cleared,
           r.at = "publish" => r.msg \in Msgs /\ (box[r.msg] = "unsent" \/ UNCHANGED jsVars),
           UNCHANGED <<TakingNow, accepted, handouts, cleared>>
    PROVE  [Service!Next]_(Service!vars)
<1>o. ASSUME UNCHANGED stream PROVE OpenNow' = OpenNow
  BY <1>o DEF OpenNow, HasStream, StreamOf
<1>0. CASE UNCHANGED jsVars
  BY <1>0, <1>o, Stutters DEF serviceNow, jsVars, SentNow, OwedNow
<1>1. CASE r.at \in {"purge", "deleteStream"} /\ Removal(r.at, r.queue) /\ Removes(r.queue)
  <2>1. r.queue \in Queues
    BY <1>1 DEF Calling
  <2>2. SentNow' = SentNow /\ OwedNow' = [OwedNow EXCEPT ![r.queue] = {}]
    BY <1>1, <2>1, RemovesOwed
  <2>3. CASE r.at = "purge"
    <3>1. OpenNow' = OpenNow
      BY <1>1, <1>o, <2>3 DEF Removal
    <3>2. Service!Drain(r.queue)
      BY <2>2, <2>3, <3>1
         DEF Service!Drain, OpenNow, SentNow, OwedNow, TakingNow
    <3> QED
      BY <2>1, <3>2 DEF Service!Next
  <2>4. CASE r.at = "deleteStream"
    <3>1. OpenNow' = OpenNow \ {r.queue}
      BY <1>1, <2>1, <2>4, DeleteOpen DEF Removal
    <3>2. Service!Delete(r.queue)
      BY <2>2, <2>4, <3>1
         DEF Service!Delete, OpenNow, SentNow, OwedNow, TakingNow
    <3> QED
      BY <2>1, <3>2 DEF Service!Next
  <2> QED
    BY <1>1, <2>3, <2>4
<1>2. CASE r.at = "publish" /\ Stores(r.queue, r.msg) /\ UNCHANGED stream
  <2>1. r.queue \in Queues /\ r.msg \in Msgs
    BY <1>2 DEF Calling
  <2>2. CASE box[r.msg] = "unsent"
    <3>1. /\ r.queue \in OpenNow /\ r.msg \notin SentNow
          /\ SentNow' = SentNow \cup {r.msg}
          /\ OwedNow' = [OwedNow EXCEPT ![r.queue] = @ \cup {r.msg}]
          /\ OpenNow' = OpenNow
      BY <1>2, <1>o, <2>1, <2>2, StoresOwed
    <3>2. Service!Put(r.queue, r.msg)
      BY <3>1 DEF Service!Put, OpenNow, SentNow, OwedNow, TakingNow
    <3> QED
      BY <2>1, <3>2 DEF Service!Next
  <2> QED
    BY <1>0, <1>2, <2>2
<1>3. CASE UNCHANGED stream /\ \E m \in Ready(r.queue) : Turns(m, "ready", "pending")
  <2>1. UNCHANGED <<SentNow, OwedNow>>
    BY <1>3, TurnsOwed DEF Ready
  <2> QED
    BY <1>3, <1>o, <2>1, Stutters DEF serviceNow
<1>4. CASE r.at = "addStream" /\ JSAdd(r.queue)
  <2>1. r.queue \in Queues
    BY <1>4 DEF Calling
  <2>2. UNCHANGED <<SentNow, OwedNow>>
    BY <1>4 DEF JSAdd, SentNow, OwedNow
  <2>3. CASE OpenNow' = OpenNow
    BY <2>2, <2>3, Stutters DEF serviceNow
  <2>4. CASE OpenNow' = OpenNow \cup {r.queue}
    <3>1. Service!Create(r.queue)
      BY <2>2, <2>4 DEF Service!Create, OpenNow, SentNow, OwedNow, TakingNow
    <3> QED
      BY <2>1, <3>1 DEF Service!Next
  <2> QED
    BY <1>4, <2>1, <2>3, <2>4, AddOpen
<1> QED
  BY <1>0, <1>1, <1>2, <1>3, <1>4 DEF Effect

-----------------------------------------------------------------------------
(* What a handler's step is for clients.                                   *)

\* A handler takes a message when it gets to its acknowledgement, and lets it go
\* when it has counted it.
LEMMA TakingMoves ==
    ASSUME TypeInv, NEW h \in Handlers, Serve(h)
    PROVE  /\ pc'[h] # "ack" /\ pc[h] # "countGet" => TakingNow' = TakingNow
           /\ pc'[h] = "ack" =>
                /\ TakingNow[h] = None
                /\ TakingNow' = [TakingNow EXCEPT ![h] = call'[h].msg]
           /\ CountGet(h) => TakingNow' = [TakingNow EXCEPT ![h] = None]
<1>m. OwnMove(h) /\ \A g \in Handlers \ {h} : SameRequest(g)
  BY Moves
<1>1. \A g \in Handlers \ {h} : TakingNow'[g] = TakingNow[g]
  BY <1>m DEF TakingNow, SameRequest
<1>2. TakingNow[h] = IF pc[h] \in {"ack", "countGet"} THEN call[h].msg ELSE None
  BY DEF TakingNow
<1>3. TakingNow'[h] = IF pc'[h] \in {"ack", "countGet"} THEN call'[h].msg ELSE None
  BY DEF TakingNow
<1>4. pc[h] = "ack" => pc'[h] = "countGet" /\ call'[h].msg = call[h].msg
  BY DEF Serve, AnnounceWriter, EnterWriter, LookUp, AddStream, Register, DeleteStream,
         Unregister, DrainInfo, Purge, Publish, CountPut, Subscribe, Fetch, Ack, CountGet,
         BeginStats, StatsInfo, EndStats, Goto, TypeInv, TypeOK
<1>5. pc'[h] # "ack" /\ pc[h] # "countGet" => TakingNow'[h] = TakingNow[h]
  BY <1>2, <1>3, <1>4, <1>m DEF OwnMove, Ahead
<1>6. pc'[h] = "ack" => pc[h] = "fetch"
  BY <1>m DEF OwnMove, Ahead
<1>7. CountGet(h) => pc'[h] = "idle"
  BY DEF CountGet, Answer, Goto, TypeInv, TypeOK
<1>8. pc'[h] # "ack" /\ pc[h] # "countGet" => TakingNow' = TakingNow
  BY <1>1, <1>5 DEF TakingNow
<1>9. pc'[h] = "ack" => TakingNow' = [TakingNow EXCEPT ![h] = call'[h].msg]
  BY <1>1, <1>3 DEF TakingNow
<1>10. CountGet(h) => TakingNow' = [TakingNow EXCEPT ![h] = None]
  BY <1>1, <1>3, <1>7 DEF TakingNow
<1> QED
  BY <1>2, <1>6, <1>8, <1>9, <1>10

LEMMA ServeImplements ==
    ASSUME TypeInv, Injective, AskInv, PutInv, KeepInv, NEW h \in Handlers, Serve(h)
    PROVE  [Service!Next]_(Service!vars)
<1>t. /\ pc \in [Handlers -> PCs] /\ call \in [Handlers -> Calls]
      /\ CallOK(h)
  BY DEF TypeInv, TypeOK
<1>o. ASSUME UNCHANGED stream PROVE OpenNow' = OpenNow
  BY <1>o DEF OpenNow, HasStream, StreamOf
<1>j. ASSUME UNCHANGED jsVars PROVE UNCHANGED <<OpenNow, SentNow, OwedNow>>
  BY <1>j, <1>o DEF jsVars, SentNow, OwedNow
<1>c. UNCHANGED cleared
  BY ServeHistory
<1>1. CASE pc'[h] = "ack"
  <2>1. /\ Turns(call'[h].msg, "ready", "pending") /\ UNCHANGED stream
        /\ HasStream(call[h].queue)
    BY <1>1, ServeResult
  <2>2. pc[h] = "fetch" /\ call'[h].msg \in Ready(call[h].queue)
    BY <1>1, Moves DEF OwnMove, Ahead
  <2>3. call[h].queue \in Queues /\ call'[h].msg \in Msgs
    BY <1>t, <2>2 DEF CallOK, Ready
  <2>4. call[h].queue \in OpenNow /\ call'[h].msg \in OwedNow[call[h].queue]
    BY <2>1, <2>2, <2>3 DEF OpenNow, OwedNow, Ready
  <2>5. UNCHANGED <<OpenNow, SentNow, OwedNow>>
    BY <1>o, <2>1, <2>3, TurnsOwed
  <2>6. TakingNow[h] = None /\ TakingNow' = [TakingNow EXCEPT ![h] = call'[h].msg]
    BY <1>1, TakingMoves
  <2>7. UNCHANGED <<accepted, handouts>>
    BY <2>2, ServeHistory DEF CountPut, CountGet
  <2>8. PICK q \in Queues, m \in Msgs : q = call[h].queue /\ m = call'[h].msg
    BY <2>3
  <2>9. Service!Take(h, q, m)
    BY <1>c, <2>4, <2>5, <2>6, <2>7, <2>8
       DEF Service!Take, OpenNow, SentNow, OwedNow, TakingNow
  <2> QED
    BY <2>9, TakeOrConfirm
<1>2. CASE CountPut(h)
  <2>1. call[h].msg \in SentNow
    BY <1>2, <1>t DEF CountPut, CallOK, KeepInv, SentNow
  <2>2. UNCHANGED <<OpenNow, SentNow, OwedNow, handouts>>
    BY <1>2, <1>j DEF CountPut
  <2>3. TakingNow' = TakingNow
    BY <1>1, <1>2, TakingMoves DEF CountPut, Answer, Goto
  <2>4. accepted' = accepted \cup {call[h].msg}
    BY <1>2 DEF CountPut
  <2>5. Service!Accept(call[h].msg)
    BY <1>c, <2>1, <2>2, <2>3, <2>4
       DEF Service!Accept, OpenNow, SentNow, OwedNow, TakingNow
  <2> QED
    BY <2>1, <2>5 DEF Service!Next, SentNow
<1>3. CASE CountGet(h)
  <2>1. TakingNow[h] = call[h].msg /\ call[h].msg \in Msgs
    BY <1>3, <1>t DEF CountGet, CallOK, TakingNow
  <2>2. UNCHANGED <<OpenNow, SentNow, OwedNow, accepted>>
    BY <1>3, <1>j DEF CountGet
  <2>3. TakingNow' = [TakingNow EXCEPT ![h] = None]
    BY <1>3, TakingMoves
  <2>4. handouts' = [handouts EXCEPT ![TakingNow[h]] = @ + 1]
    BY <1>3, <2>1 DEF CountGet
  <2>5. TakingNow[h] # None
    BY <2>1, NamesAssumption
  <2>6. Service!HandOut(h)
    BY <1>c, <2>2, <2>3, <2>4, <2>5
       DEF Service!HandOut, OpenNow, SentNow, OwedNow, TakingNow
  <2> QED
    BY <2>6 DEF Service!Next
<1>4. CASE ~CountPut(h) /\ ~CountGet(h) /\ pc'[h] # "ack"
  <2>1. pc[h] # "countGet"
    BY <1>4
       DEF Serve, AnnounceWriter, EnterWriter, LookUp, AddStream, Register, DeleteStream,
           Unregister, DrainInfo, Purge, Publish, CountPut, Subscribe, Fetch, Ack, CountGet,
           BeginStats, StatsInfo, EndStats
  <2>2. UNCHANGED <<TakingNow, accepted, handouts, cleared>>
    BY <1>4, <1>c, <2>1, TakingMoves, ServeHistory
  <2>3. CASE AckEffect(h)
    <3>1. /\ TakingNow[h] = call[h].msg /\ call[h].msg \in Msgs
          /\ UNCHANGED stream /\ Turns(call[h].msg, "pending", "acked")
      BY <1>t, <2>3 DEF AckEffect, CallOK, TakingNow
    <3>2. SentNow' = SentNow /\ OpenNow' = OpenNow
      BY <1>o, <3>1, TurnsOwed
    <3>3. CASE OwedNow' = OwedNow
      BY <2>2, <3>2, <3>3, Stutters DEF serviceNow
    <3>4. CASE /\ home[call[h].msg] \in Queues /\ call[h].msg \in OwedNow[home[call[h].msg]]
               /\ OwedNow' = [OwedNow EXCEPT ![home[call[h].msg]] = @ \ {call[h].msg}]
      <4>1. PICK q \in Queues : q = home[call[h].msg]
        BY <3>4
      <4>2. Service!Confirm(h, q)
        BY <2>2, <3>1, <3>2, <3>4, <4>1
           DEF Service!Confirm, OpenNow, SentNow, OwedNow, TakingNow
      <4> QED
        BY <3>1, <4>2, TakeOrConfirm
    <3> QED
      BY <3>1, <3>3, <3>4, TurnsOwed
  <2>4. CASE Effect(Request(h))
    <3>1. Request(h).at \in Calling => Request(h).queue \in Queues
      BY RequestType DEF LateCalls, Request
    <3>2. /\ Request(h).at = "purge" => <<"drain", Request(h).queue>> \in cleared
          /\ Request(h).at = "deleteStream" => <<"delete", Request(h).queue>> \in cleared
      BY DEF AskInv, AskOK, Request
    <3>3. pc[h] = "publish" => call[h].msg \in Msgs /\ box[call[h].msg] = "unsent"
      BY <1>t, NamesAssumption DEF CallOK, PutInv, PutOK, Carries, Sent
    <3> QED
      BY <2>2, <2>4, <3>1, <3>2, <3>3, CallImplements DEF Request
  <2> QED
    BY <2>3, <2>4, ServeEffect
<1> QED
  BY <1>1, <1>2, <1>3, <1>4

LEMMA ServiceInit == Init => Service!Init
BY NamesAssumption
   DEF Init, JSInit, Start, Service!Init, HasStream, StreamOf

LEMMA ServiceStep ==
    ASSUME TypeInv, Injective, AskInv, PutInv, KeepInv, [Next]_vars
    PROVE  [Service!Next]_(Service!vars)
<1>t. pc \in [Handlers -> PCs] /\ call \in [Handlers -> Calls]
  BY DEF TypeInv, TypeOK
<1>a. ASSUME UNCHANGED jsVars PROVE UNCHANGED <<OpenNow, SentNow, OwedNow>>
  BY <1>a DEF OpenNow, HasStream, StreamOf, jsVars, SentNow, OwedNow
<1>b. ASSUME UNCHANGED <<stream, home, box, pc, call, accepted, handouts, cleared>>
      PROVE  [Service!Next]_(Service!vars)
  BY <1>a, <1>b, Stutters DEF jsVars, serviceNow, TakingNow
<1>1. ASSUME NEW h \in Handlers, NEW op \in Ops, NEW q \in Queues \cup {None},
             NEW m \in Unsent \cup {None}, Receive(h, op, q, m)
      PROVE  [Service!Next]_(Service!vars)
  <2>1. UNCHANGED <<OpenNow, SentNow, OwedNow, accepted, handouts>>
    BY <1>1, <1>a DEF Receive
  <2>2. \A g \in Handlers : TakingNow'[g] = TakingNow[g]
    BY <1>1, <1>t DEF Receive, Goto, TakingNow
  <2>3. TakingNow' = TakingNow
    BY <2>2 DEF TakingNow
  <2>4. CASE op \in {"drain", "delete"}
    <3>1. q \in Queues /\ cleared' = cleared \cup {<<op, q>>}
      BY <1>1, <2>4 DEF Receive
    <3>2. Service!Ask(op, q)
      BY <2>1, <2>3, <3>1 DEF Service!Ask, OpenNow, SentNow, OwedNow, TakingNow
    <3> QED
      BY <2>4, <3>1, <3>2 DEF Service!Next
  <2>5. CASE op \notin {"drain", "delete"}
    BY <1>1, <2>1, <2>3, <2>5, Stutters DEF Receive, serviceNow
  <2> QED
    BY <2>4, <2>5
<1>2. ASSUME NEW h \in Handlers, RefuseEmptyName(h) PROVE [Service!Next]_(Service!vars)
  BY <1>2, <1>b DEF RefuseEmptyName, jsVars, hist
<1>3. ASSUME NEW h \in Handlers, NEW op \in Ops, PanicOnNilBackend(h, op)
      PROVE  [Service!Next]_(Service!vars)
  BY <1>3, <1>b DEF PanicOnNilBackend, jsVars, hist
<1>4. ASSUME NEW h \in Handlers, Serve(h) PROVE [Service!Next]_(Service!vars)
  BY <1>4, ServeImplements
<1>5. ASSUME NEW r \in late, LateCall(r) PROVE [Service!Next]_(Service!vars)
  <2>1. Effect(r) /\ r.queue \in Queues
    BY <1>5, LateEffect DEF TypeInv, TypeOK, LateCalls
  <2>2. UNCHANGED <<TakingNow, accepted, handouts, cleared>>
    BY <1>5 DEF LateCall, hist, TakingNow
  <2>3. /\ r.at = "purge" => <<"drain", r.queue>> \in cleared
        /\ r.at = "deleteStream" => <<"delete", r.queue>> \in cleared
    BY DEF AskInv
  <2>4. r.at = "publish" => r.msg \in Msgs /\ box[r.msg] = "unsent"
    BY NamesAssumption DEF PutInv
  <2> QED
    BY <2>1, <2>2, <2>3, <2>4, CallImplements
<1>6. ASSUME NEW r \in late, LoseCall(r) PROVE [Service!Next]_(Service!vars)
  BY <1>6, <1>b DEF LoseCall, jsVars, hist
<1>7. ASSUME NEW m \in Msgs, Redeliver(m) PROVE [Service!Next]_(Service!vars)
  <2>1. Turns(m, "pending", "ready") /\ UNCHANGED stream
    BY <1>7 DEF Redeliver, JSRedeliver, Turns
  <2>2. UNCHANGED <<SentNow, OwedNow>>
    BY <2>1, TurnsOwed
  <2>3. UNCHANGED <<OpenNow, TakingNow, accepted, handouts, cleared>>
    BY <1>7, <2>1 DEF Redeliver, OpenNow, HasStream, StreamOf, TakingNow, hist
  <2> QED
    BY <2>2, <2>3, Stutters DEF serviceNow
<1>8. CASE Crash
  <2>1. UNCHANGED <<OpenNow, SentNow, OwedNow, accepted, handouts, cleared>>
    BY <1>8, <1>a DEF Crash, hist
  <2>2. TakingNow' = [h \in Handlers |-> None]
    BY <1>8 DEF Crash, TakingNow
  <2>3. Service!Restart
    BY <2>1, <2>2 DEF Service!Restart, OpenNow, SentNow, OwedNow, TakingNow
  <2> QED
    BY <2>3 DEF Service!Next
<1>9. CASE UNCHANGED vars
  BY <1>9, <1>b DEF vars
<1> QED
  BY <1>1, <1>2, <1>3, <1>4, <1>5, <1>6, <1>7, <1>8, <1>9 DEF Next, Client

\* The service on JetStream implements the abstract queue service: what a queue
\* owes changes only by what clients asked for, through every unanswered call,
\* late request, redelivery and restart; for queue names that ToUpper keeps apart.
THEOREM Implements ==
    ASSUME Injective
    PROVE  Spec => ImplementsService
<1> DEFINE Inv == TypeInv /\ AskInv /\ PutInv /\ KeepInv
<1>1. Init => Inv
  BY TypeInit, AskInit, PutInit, KeepInit
<1>2. Inv /\ [Next]_vars => Inv'
  BY TypeStep, AskStep, PutStep, KeepStep
<1>3. Inv /\ [Next]_vars => [Service!Next]_(Service!vars)
  BY ServiceStep
<1> QED
  BY <1>1, <1>2, <1>3, ServiceInit, PTL DEF Spec, ImplementsService, Service!Spec
=============================================================================
