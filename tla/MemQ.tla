-------------------------------- MODULE MemQ --------------------------------
(***************************************************************************)
(* The queue service of kuard: pkg/memq/server/nats_backend.go (the queue  *)
(* operations on JetStream) under the HTTP handlers of                     *)
(* pkg/memq/server/api.go.  net/http runs every request in a goroutine of  *)
(* its own; a handler here is a slot for one such goroutine.  A handler    *)
(* stops between its lock operations, its calls of JetStream and its       *)
(* atomic counter updates, which is where others interleave.               *)
(***************************************************************************)
EXTENDS JetStream

CONSTANTS
    Handlers,    \* goroutines that serve requests at the same time
    Ops,         \* the operations clients use in this instance
    Connects,    \* whether newNATSBackend may succeed (TRUE), fail (FALSE)
    MaxFaults,   \* bound: calls of JetStream that get no answer in time
    MaxCrashes   \* bound: restarts of the process

AllOps == {"create", "delete", "drain", "put", "get", "stats"}

Counters == {"enq", "deq", "drained"}

ASSUME MemQAssumption ==
    /\ None \notin Handlers
    /\ None \notin [Counters -> Nat]
    /\ Ops \subseteq AllOps
    /\ Connects \subseteq BOOLEAN /\ Connects # {}
    /\ MaxFaults \in Nat
    /\ MaxCrashes \in Nat

VARIABLES
    backend,   \* the natsBackend pointer is not nil
    queues,    \* nb.queues: the qStats of every registered queue, or None
    writer,    \* nb.mu: the handler that holds or is next to hold the write lock
    readers,   \* nb.mu: the handlers that hold the read lock
    pc,        \* pc[h]: where the goroutine of h is
    call,      \* call[h]: its arguments and local variables
    reply,     \* reply[h]: how the last request of h was answered
    late,      \* requests JetStream got, or may get, after their caller gave up
    faults,    \* calls that got no answer so far
    crashes,   \* restarts so far
    \* history, read by no action
    accepted,  \* messages whose enqueue was answered with success
    handouts,  \* handouts[m]: how often m was the body of a dequeue's answer
    cleared    \* the drains and deletes that were requested, with their queue

srv  == <<backend, queues, writer, readers>>
hist == <<accepted, handouts, cleared>>
vars == <<stream, home, box, backend, queues, writer, readers, pc, call, reply,
          late, faults, crashes, accepted, handouts, cleared>>

-----------------------------------------------------------------------------
\* Mutant: a counter is forgotten.
NewStatsWithoutDrained == [c \in Counters \ {"drained"} |-> 0]

NewStats == [c \in Counters |-> 0]

\* The pcs at which the write lock is held.
Writing == {"addStream", "register", "registerDup", "deleteStream", "unregister"}

\* The pcs at which a call of JetStream is made whose effect may come late.
Calling == {"addStream", "deleteStream", "purge", "publish", "fetch"}

PCs == {"idle", "lock", "readersOut", "rlock", "info", "countPut", "subscribe",
        "ack", "countGet", "statsInfo"} \cup Writing \cup Calling

NoCall == [op |-> "none", queue |-> None, msg |-> None, live |-> FALSE, todo |-> {}]

Calls == [op    : AllOps \cup {"none"},
          queue : Queues \cup {None},
          msg   : Msgs \cup {None},
          live  : BOOLEAN,           \* the qStats it looked up is still registered
          todo  : SUBSET Queues]     \* queues Stats has not visited

Replies == {"none", "ok", "empty", "error", "aborted"}

LateCalls == [at : Calling, queue : Queues, msg : Msgs \cup {None}]

TypeOK ==
    /\ JSTypeOK
    /\ backend \in BOOLEAN
    /\ queues \in [Queues -> [Counters -> Nat] \cup {None}]
    /\ writer \in Handlers \cup {None}
    /\ readers \subseteq Handlers
    /\ pc \in [Handlers -> PCs]
    /\ call \in [Handlers -> Calls]
    /\ reply \in [Handlers -> Replies]
    /\ late \subseteq LateCalls
    /\ faults \in Nat
    /\ crashes \in Nat
    /\ accepted \subseteq Msgs
    /\ handouts \in [Msgs -> Nat]
    /\ cleared \subseteq {"drain", "delete"} \X Queues

\* newNATSBackend: an empty map, or nil when NATS cannot be reached.
Start ==
    /\ backend \in Connects
    /\ queues = [q \in Queues |-> None]
    /\ writer = None
    /\ readers = {}
    /\ pc = [h \in Handlers |-> "idle"]
    /\ call = [h \in Handlers |-> NoCall]
    /\ reply = [h \in Handlers |-> "none"]

Init ==
    /\ JSInit
    /\ Start
    /\ late = {}
    /\ faults = 0
    /\ crashes = 0
    /\ accepted = {}
    /\ handouts = [m \in Msgs |-> 0]
    /\ cleared = {}

-----------------------------------------------------------------------------
Registered == {q \in Queues : queues[q] # None}

Goto(h, l) == pc' = [pc EXCEPT ![h] = l]

Answer(h, r) ==
    /\ Goto(h, "idle")
    /\ call' = [call EXCEPT ![h] = NoCall]
    /\ reply' = [reply EXCEPT ![h] = r]

\* The call of JetStream that h makes.
Request(h) == [at |-> pc[h], queue |-> call[h].queue, msg |-> call[h].msg]

\* A call that gets no answer: its deadline passes or the connection breaks.
\* JetStream may have executed it, may do so later, or never: see LateCall.
Unanswered(h) ==
    /\ faults < MaxFaults
    /\ faults' = faults + 1
    /\ late' = late \cup {Request(h)}
    /\ UNCHANGED jsVars

\* A read that gets no answer leaves nothing behind.
UnansweredRead ==
    /\ faults < MaxFaults
    /\ faults' = faults + 1
    /\ UNCHANGED <<stream, home, box, late>>

\* atomic.AddInt64 on a field of the qStats that h looked up.  When its queue
\* was deleted since, nobody reads that qStats any more.
Count(h, c, n) ==
    queues' = IF call[h].live
                THEN [queues EXCEPT ![call[h].queue] =
                        [queues[call[h].queue] EXCEPT ![c] = @ + n]]
                ELSE queues

-----------------------------------------------------------------------------
(* HTTP handlers (api.go).                                                 *)

\* A body no other request carries: bodies are told apart to follow each one.
Unsent == {m \in Msgs : /\ box[m] = "unsent"
                        /\ \A h \in Handlers : call[h].msg # m
                        /\ \A r \in late : r.msg # m}

Receive(h, op, q, m) ==
    /\ pc[h] = "idle"
    /\ backend
    /\ op \in Ops
    /\ op = "stats" <=> q = None
    /\ op # "put" <=> m = None
    /\ Goto(h, IF op \in {"create", "delete"} THEN "lock" ELSE "rlock")
    /\ call' = [call EXCEPT ![h] = [NoCall EXCEPT !.op = op, !.queue = q, !.msg = m]]
    /\ reply' = [reply EXCEPT ![h] = "none"]
    /\ cleared' = IF op \in {"drain", "delete"} THEN cleared \cup {<<op, q>>} ELSE cleared
    /\ UNCHANGED <<jsVars, srv, late, faults, crashes, accepted, handouts>>

\* A request with an empty queue parameter is refused: 400.
RefuseEmptyName(h) ==
    /\ pc[h] = "idle"
    /\ Ops \ {"stats"} # {}
    /\ reply' = [reply EXCEPT ![h] = "error"]
    /\ UNCHANGED <<jsVars, srv, pc, call, late, faults, crashes, hist>>

\* With a nil backend every operation dereferences the nil pointer at nb.mu;
\* net/http recovers the panic and closes the connection without an answer.
PanicOnNilBackend(h, op) ==
    /\ pc[h] = "idle"
    /\ ~backend
    /\ op \in Ops
    /\ reply' = [reply EXCEPT ![h] = "aborted"]
    /\ UNCHANGED <<jsVars, srv, pc, call, late, faults, crashes, hist>>

-----------------------------------------------------------------------------
(* nb.mu, a sync.RWMutex.  Lock first excludes other writers and new       *)
(* readers, then waits until the readers it found are gone.                *)

\* Mutant: CreateQueue and DeleteQueue do not exclude each other.
AnnounceWriterUnlocked(h) ==
    /\ pc[h] = "lock"
    /\ writer' = h
    /\ Goto(h, "readersOut")
    /\ UNCHANGED <<jsVars, backend, queues, readers, call, reply,
                   late, faults, crashes, hist>>

AnnounceWriter(h) ==
    /\ pc[h] = "lock"
    /\ writer = None
    /\ writer' = h
    /\ Goto(h, "readersOut")
    /\ UNCHANGED <<jsVars, backend, queues, readers, call, reply,
                   late, faults, crashes, hist>>

\* Mutant: Lock does not wait for the readers.
ReadersIgnored == TRUE

ReadersGone == readers = {}

\* Mutant: CreateQueue does not look whether the queue is registered.
RefusesDelete(h) == call[h].op = "delete" /\ call[h].queue \notin Registered

\* ErrAlreadyExist, ErrNotExist.
Refuses(h) == (call[h].op = "create") = (call[h].queue \in Registered)

\* Mutant: the deferred Unlock is missing.
UnlockForgotten == UNCHANGED writer

Unlock == writer' = None

\* The write lock is acquired and the map is looked up.
EnterWriter(h) ==
    /\ pc[h] = "readersOut"
    /\ ReadersGone
    /\ IF Refuses(h)
         THEN Answer(h, "error") /\ Unlock
         ELSE /\ Goto(h, IF call[h].op = "create" THEN "addStream" ELSE "deleteStream")
              /\ UNCHANGED <<call, reply, writer>>
    /\ UNCHANGED <<jsVars, backend, queues, readers, late, faults, crashes, hist>>

\* RLock, lookup and RUnlock of DrainQueue, PutMessage and GetMessage.
LookUp(h) ==
    /\ pc[h] = "rlock"
    /\ call[h].op # "stats"
    /\ writer = None
    /\ IF call[h].queue \notin Registered
         THEN Answer(h, "error")         \* ErrNotExist
         ELSE /\ call' = [call EXCEPT ![h].live = TRUE]
              /\ Goto(h, CASE call[h].op = "drain" -> "info"
                           [] call[h].op = "put"   -> "publish"
                           [] OTHER                -> "subscribe")
              /\ UNCHANGED reply
    /\ UNCHANGED <<jsVars, srv, late, faults, crashes, hist>>

-----------------------------------------------------------------------------
(* CreateQueue and DeleteQueue: the write lock is held over the call.      *)

AddStream(h) ==
    /\ pc[h] = "addStream"
    /\ \/ /\ JSAdd(call[h].queue)
          /\ Goto(h, IF CanAdd(call[h].queue) THEN "register" ELSE "registerDup")
          /\ UNCHANGED <<writer, call, reply, late, faults>>
       \/ Unanswered(h) /\ Answer(h, "error") /\ Unlock
    /\ UNCHANGED <<backend, queues, readers, crashes, hist>>

\* A new qStats is registered, also when the stream exists with another
\* configuration (ErrStreamNameAlreadyInUse, answered as a duplicate).
Register(h) ==
    /\ pc[h] \in {"register", "registerDup"}
    /\ queues' = [queues EXCEPT ![call[h].queue] = NewStats]
    /\ Unlock
    /\ Answer(h, IF pc[h] = "register" THEN "ok" ELSE "error")
    /\ UNCHANGED <<jsVars, backend, readers, late, faults, crashes, hist>>

DeleteStream(h) ==
    /\ pc[h] = "deleteStream"
    /\ \/ /\ StreamOf(call[h].queue) # None
          /\ JSDelete(call[h].queue)
          /\ Goto(h, "unregister")
          /\ UNCHANGED <<writer, call, reply, late, faults>>
       \/ /\ StreamOf(call[h].queue) = None
          /\ Answer(h, "error") /\ Unlock
          /\ UNCHANGED <<jsVars, late, faults>>
       \/ Unanswered(h) /\ Answer(h, "error") /\ Unlock
    /\ UNCHANGED <<backend, queues, readers, crashes, hist>>

\* The qStats leaves the map; handlers that looked it up keep the pointer.
Unregister(h) ==
    /\ pc[h] = "unregister"
    /\ queues' = [queues EXCEPT ![call[h].queue] = None]
    /\ Unlock
    /\ Goto(h, "idle")
    /\ call' = [g \in Handlers |->
                  IF g = h THEN NoCall
                  ELSE IF call[g].queue = call[h].queue
                         THEN [call[g] EXCEPT !.live = FALSE]
                         ELSE call[g]]
    /\ reply' = [reply EXCEPT ![h] = "ok"]
    /\ UNCHANGED <<jsVars, backend, readers, late, faults, crashes, hist>>

-----------------------------------------------------------------------------
(* DrainQueue.                                                             *)

\* StreamInfo; an error only skips the count.
DrainInfo(h) ==
    /\ pc[h] = "info"
    /\ \/ /\ Count(h, "drained", IF StreamOf(call[h].queue) = None THEN 0
                                   ELSE Cardinality(Contents(call[h].queue)))
          /\ UNCHANGED <<jsVars, late, faults>>
       \/ UnansweredRead /\ UNCHANGED queues
    /\ Goto(h, "purge")
    /\ UNCHANGED <<backend, writer, readers, call, reply, crashes, hist>>

Purge(h) ==
    /\ pc[h] = "purge"
    /\ \/ /\ StreamOf(call[h].queue) # None
          /\ JSPurge(call[h].queue)
          /\ Answer(h, "ok")
          /\ UNCHANGED <<late, faults>>
       \/ /\ StreamOf(call[h].queue) = None
          /\ Answer(h, "error")
          /\ UNCHANGED <<jsVars, late, faults>>
       \/ Unanswered(h) /\ Answer(h, "error")
    /\ UNCHANGED <<srv, crashes, hist>>

-----------------------------------------------------------------------------
(* PutMessage.                                                             *)

\* Mutant: the error of Publish is ignored.
PublishIgnoresError(h) ==
    /\ pc[h] = "publish"
    /\ \/ JSPublish(call[h].queue, call[h].msg) /\ UNCHANGED <<late, faults>>
       \/ Unanswered(h)
    /\ Goto(h, "countPut")
    /\ UNCHANGED <<srv, call, reply, crashes, hist>>

Publish(h) ==
    /\ pc[h] = "publish"
    /\ \/ /\ HasStream(call[h].queue)
          /\ JSPublish(call[h].queue, call[h].msg)
          /\ Goto(h, "countPut")
          /\ UNCHANGED <<call, reply, late, faults>>
       \/ /\ ~HasStream(call[h].queue)      \* no stream listens on the subject
          /\ Answer(h, "error")
          /\ UNCHANGED <<jsVars, late, faults>>
       \/ Unanswered(h) /\ Answer(h, "error")
    /\ UNCHANGED <<srv, crashes, hist>>

CountPut(h) ==
    /\ pc[h] = "countPut"
    /\ Count(h, "enq", 1)
    /\ accepted' = accepted \cup {call[h].msg}
    /\ Answer(h, "ok")
    /\ UNCHANGED <<jsVars, backend, writer, readers, late, faults, crashes,
                   handouts, cleared>>

-----------------------------------------------------------------------------
(* GetMessage.                                                             *)

\* PullSubscribe, with and without BindStream: it needs a stream that has the
\* subject of the queue.
Subscribe(h) ==
    /\ pc[h] = "subscribe"
    /\ \/ /\ HasStream(call[h].queue)
          /\ Goto(h, "fetch")
          /\ UNCHANGED <<jsVars, call, reply, late, faults>>
       \/ /\ ~HasStream(call[h].queue)
          /\ Answer(h, "error")
          /\ UNCHANGED <<jsVars, late, faults>>
       \/ UnansweredRead /\ Answer(h, "error")
    /\ UNCHANGED <<srv, crashes, hist>>

\* Fetch(1) waits 500 ms for a message.  The deadline is answered as an empty
\* queue, also when the server is only slow; a consumer deleted with its
\* stream shows as an error or as the deadline.
Fetch(h) ==
    /\ pc[h] = "fetch"
    /\ \/ \E m \in Ready(call[h].queue) :
            /\ HasStream(call[h].queue)
            /\ JSDeliver(m)
            /\ call' = [call EXCEPT ![h].msg = m]
            /\ Goto(h, "ack")
            /\ UNCHANGED <<reply, late, faults>>
       \/ /\ Ready(call[h].queue) = {}
          /\ Answer(h, "empty")
          /\ UNCHANGED <<jsVars, late, faults>>
       \/ /\ ~HasStream(call[h].queue)
          /\ Answer(h, "error")
          /\ UNCHANGED <<jsVars, late, faults>>
       \/ /\ Unanswered(h)
          /\ \/ Answer(h, "empty")
             \/ Answer(h, "error")
    /\ UNCHANGED <<srv, crashes, hist>>

\* Mutant: the message is not acknowledged.
AckForgotten(h) ==
    /\ pc[h] = "ack"
    /\ Goto(h, "countGet")
    /\ UNCHANGED <<jsVars, srv, call, reply, late, faults, crashes, hist>>

\* Mutant: GetMessage answers an error when the confirmation of its
\* acknowledgement does not come.
AckConfirmed(h) ==
    /\ pc[h] = "ack"
    /\ JSAck(call[h].msg)
    /\ \/ Goto(h, "countGet") /\ UNCHANGED <<call, reply, faults>>
       \/ /\ faults < MaxFaults
          /\ faults' = faults + 1
          /\ Answer(h, "error")
    /\ UNCHANGED <<srv, late, crashes, hist>>

\* m.Ack, whose error is ignored: the acknowledgement may be lost.
Ack(h) ==
    /\ pc[h] = "ack"
    /\ \/ JSAck(call[h].msg) /\ UNCHANGED <<late, faults>>
       \/ UnansweredRead
    /\ Goto(h, "countGet")
    /\ UNCHANGED <<srv, call, reply, crashes, hist>>

CountGet(h) ==
    /\ pc[h] = "countGet"
    /\ Count(h, "deq", 1)
    /\ handouts' = [handouts EXCEPT ![call[h].msg] = @ + 1]
    /\ Answer(h, "ok")
    /\ UNCHANGED <<jsVars, backend, writer, readers, late, faults, crashes,
                   accepted, cleared>>

-----------------------------------------------------------------------------
(* Stats: the read lock is held over one StreamInfo per queue.             *)

\* Mutant: Stats releases the lock before it asks for the queues' depths.
BeginStatsUnlocked(h) ==
    /\ pc[h] = "rlock"
    /\ call[h].op = "stats"
    /\ writer = None
    /\ call' = [call EXCEPT ![h].todo = Registered]
    /\ Goto(h, "statsInfo")
    /\ UNCHANGED <<jsVars, srv, reply, late, faults, crashes, hist>>

BeginStats(h) ==
    /\ pc[h] = "rlock"
    /\ call[h].op = "stats"
    /\ writer = None
    /\ readers' = readers \cup {h}
    /\ call' = [call EXCEPT ![h].todo = Registered]
    /\ Goto(h, "statsInfo")
    /\ UNCHANGED <<jsVars, backend, queues, writer, reply, late, faults, crashes, hist>>

\* The next queue in the map's iteration order; an error skips the queue.
StatsInfo(h) ==
    /\ pc[h] = "statsInfo"
    /\ \E q \in call[h].todo : call' = [call EXCEPT ![h].todo = @ \ {q}]
    /\ UNCHANGED <<jsVars, srv, pc, reply, late, faults, crashes, hist>>

EndStats(h) ==
    /\ pc[h] = "statsInfo"
    /\ call[h].todo = {}
    /\ readers' = readers \ {h}
    /\ Answer(h, "ok")
    /\ UNCHANGED <<jsVars, backend, queues, writer, late, faults, crashes, hist>>

-----------------------------------------------------------------------------
(* The environment.                                                        *)

\* JetStream executes a request whose caller gave up.
LateCall(r) ==
    /\ r \in late
    /\ late' = late \ {r}
    /\ CASE r.at = "addStream"    -> JSAdd(r.queue)
         [] r.at = "deleteStream" -> JSDelete(r.queue)
         [] r.at = "purge"        -> JSPurge(r.queue)
         [] r.at = "publish"      -> JSPublish(r.queue, r.msg)
         [] r.at = "fetch"        -> \E m \in Ready(r.queue) : JSDeliver(m)
    /\ UNCHANGED <<srv, pc, call, reply, faults, crashes, hist>>

\* It never gets it, or the pull request expires.
LoseCall(r) ==
    /\ r \in late
    /\ late' = late \ {r}
    /\ UNCHANGED <<jsVars, srv, pc, call, reply, faults, crashes, hist>>

\* AckWait (30 s) expires for a message no handler is about to acknowledge.
Redeliver(m) ==
    /\ \A h \in Handlers : pc[h] = "ack" => call[h].msg # m
    /\ JSRedeliver(m)
    /\ UNCHANGED <<srv, pc, call, reply, late, faults, crashes, hist>>

\* The process is killed and started again.  The streams survive; requests
\* already sent may still be executed.
Crash ==
    /\ crashes < MaxCrashes
    /\ crashes' = crashes + 1
    /\ \E sent \in SUBSET {h \in Handlers : pc[h] \in Calling} :
         late' = late \cup {Request(h) : h \in sent}
    /\ backend' \in Connects
    /\ queues' = [q \in Queues |-> None]
    /\ writer' = None
    /\ readers' = {}
    /\ pc' = [h \in Handlers |-> "idle"]
    /\ call' = [h \in Handlers |-> NoCall]
    /\ reply' = [h \in Handlers |-> "none"]
    /\ UNCHANGED <<jsVars, faults, hist>>

-----------------------------------------------------------------------------
Serve(h) ==
    \/ AnnounceWriter(h) \/ EnterWriter(h) \/ LookUp(h)
    \/ AddStream(h) \/ Register(h) \/ DeleteStream(h) \/ Unregister(h)
    \/ DrainInfo(h) \/ Purge(h)
    \/ Publish(h) \/ CountPut(h)
    \/ Subscribe(h) \/ Fetch(h) \/ Ack(h) \/ CountGet(h)
    \/ BeginStats(h) \/ StatsInfo(h) \/ EndStats(h)

Client(h) ==
    \/ \E op \in Ops, q \in Queues \cup {None}, m \in Unsent \cup {None} :
         Receive(h, op, q, m)
    \/ RefuseEmptyName(h)
    \/ \E op \in Ops : PanicOnNilBackend(h, op)

Next ==
    \/ \E h \in Handlers : Client(h) \/ Serve(h)
    \/ \E r \in late : LateCall(r) \/ LoseCall(r)
    \/ \E m \in Msgs : Redeliver(m)
    \/ Crash

Spec == Init /\ [][Next]_vars

(***************************************************************************)
(* Fairness.  A handler that can go on does: the Go scheduler is fair, and *)
(* every call of JetStream ends (the client's 5 s default timeout, the     *)
(* 500 ms of Fetch).  Lock and RLock do not starve: sync.Mutex hands over  *)
(* to a waiter after 1 ms, and Unlock admits the readers that wait before  *)
(* another writer.  Clients, late requests and restarts owe nothing.       *)
(***************************************************************************)
LiveSpec ==
    /\ Spec
    /\ \A h \in Handlers : /\ WF_vars(Serve(h))
                           /\ SF_vars(AnnounceWriter(h))
                           /\ SF_vars(LookUp(h) \/ BeginStats(h))

-----------------------------------------------------------------------------
(* Properties.                                                             *)

At(l, q) == \E h \in Handlers : pc[h] = l /\ call[h].queue = q

\* Every queue in nb.queues has a stream with the subject of that queue: the
\* write lock held over AddStream and DeleteStream keeps the map and JetStream
\* together, as long as every call is answered and the process is not restarted.
EachQueueHasItsStream ==
    faults = 0 /\ crashes = 0 =>
        \A q \in Registered : HasStream(q) \/ At("unregister", q)

\* nb.queues gains and loses keys only under the write lock with no reader
\* inside, or by a restart: Stats iterates a map that does not change.
MapChangesExclusively ==
    [][Registered' # Registered =>
         (writer # None /\ readers = {}) \/ crashes' # crashes]_vars

\* The queues Stats has still to visit are all registered: it never reports a
\* queue whose deletion was already answered.
StatsSeesRegisteredQueues ==
    \A h \in Handlers : pc[h] = "statsInfo" => call[h].todo \subseteq Registered

\* A message whose enqueue was answered with success is stored in its stream
\* until a drain or a delete of that queue is requested: neither restarts nor
\* unanswered calls nor operations on other queues lose it.
NoAcceptedMessageLost ==
    \A m \in accepted : Stored(m) \/ \E op \in {"drain", "delete"} : <<op, home[m]>> \in cleared

\* GetMessage acknowledges before it answers; without a restart an acknowledged
\* message was, or is about to be, the body of an answer.
AckedMeansHandedOut ==
    crashes = 0 =>
        \A m \in Msgs : box[m] = "acked" =>
            \/ handouts[m] > 0
            \/ \E h \in Handlers : pc[h] = "countGet" /\ call[h].msg = m

\* No message is the answer of two dequeues, whatever restarts happen, as long
\* as every call and acknowledgement reaches JetStream in time.
HandedOutOnce ==
    faults = 0 => \A m \in Msgs : handouts[m] <= 1

Published(q) == {m \in Msgs : home[m] = q}

InFlight(l, q) == Cardinality({h \in Handlers : pc[h] = l /\ call[h].queue = q})

\* Enqueued and Dequeued of Stats lag behind the traffic of a queue that is not
\* deleted only by the requests between their call of JetStream and their atomic
\* add: no update is lost although the counters are reached through a pointer
\* that is used after the lock it was read under.
CountersMatchTraffic ==
    faults = 0 /\ crashes = 0 =>
        \A q \in Registered : <<"delete", q>> \notin cleared =>
            /\ queues[q]["enq"] + InFlight("countPut", q) = Cardinality(Published(q))
            /\ queues[q]["deq"] + InFlight("countGet", q)
                 = Cardinality({m \in Published(q) :
                                  \/ handouts[m] > 0
                                  \/ \E h \in Handlers :
                                       pc[h] = "countGet" /\ call[h].msg = m})

\* A registered queue without a stream: what is left when DeleteStream is
\* executed although its answer is lost.
Wedged(q) ==
    /\ q \in Registered
    /\ StreamOf(q) = None
    /\ ~At("unregister", q)
    /\ \A r \in late : r.queue = q => r.at # "addStream"

\* Such a queue cannot be repaired by its clients: CreateQueue refuses the name,
\* DeleteQueue keeps the entry when DeleteStream fails.  Only a restart helps.
WedgedUntilRestart ==
    [][\A q \in Queues : Wedged(q) => Wedged(q)' \/ crashes' # crashes]_vars

\* What clients may rely on: every step of the handlers, of JetStream and of a
\* restart is a step of the queue service, or none of their business.  A stored,
\* unacknowledged message is owed; a dequeue takes at Fetch and settles at Ack.
Service == INSTANCE QueueService WITH
    open   <- {q \in Queues : HasStream(q)},
    sent   <- {m \in Msgs : box[m] # "unsent"},
    owed   <- [q \in Queues |-> {m \in Msgs : home[m] = q /\ box[m] \in {"ready", "pending"}}],
    taking <- [h \in Handlers |-> IF pc[h] \in {"ack", "countGet"} THEN call[h].msg ELSE None]

\* The service on JetStream implements the abstract one, with its unanswered
\* calls, late requests, redeliveries and restarts.
ImplementsService == Service!Spec

\* Every request is answered: no handler keeps nb.mu, waits for it forever, or
\* waits for another handler.
EveryRequestAnswered ==
    \A h \in Handlers : pc[h] # "idle" ~> pc[h] = "idle"
=============================================================================
