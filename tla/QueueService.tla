---------------------------- MODULE QueueService ----------------------------
(***************************************************************************)
(* What the queue service of kuard promises its clients (README.md, "Queue *)
(* API"), without locks, streams, unanswered calls and late requests: a    *)
(* queue owes the messages put into it until a dequeue has confirmed them  *)
(* or somebody asked to drain or delete that very queue, whatever happens  *)
(* to the process in between.  Delivery is at least once.                  *)
(***************************************************************************)
EXTENDS Naturals

CONSTANTS
    Queues,    \* the queue names clients use
    Msgs,      \* the message bodies, each put once
    Handlers,  \* dequeues are answered by these, one at a time
    None       \* no message

VARIABLES
    open,      \* the queues that exist and take messages
    sent,      \* the messages that were put into a queue
    owed,      \* owed[q]: the messages a dequeue from q may be answered with
    taking,    \* taking[h]: the message h is about to answer with, or None
    accepted,  \* the messages whose put was answered with success
    handouts,  \* handouts[m]: how often m was the answer of a dequeue
    cleared    \* the drains and deletes that were asked for

vars == <<open, sent, owed, taking, accepted, handouts, cleared>>

Init ==
    /\ open = {}
    /\ sent = {}
    /\ owed = [q \in Queues |-> {}]
    /\ taking = [h \in Handlers |-> None]
    /\ accepted = {}
    /\ handouts = [m \in Msgs |-> 0]
    /\ cleared = {}

Create(q) ==
    /\ open' = open \cup {q}
    /\ UNCHANGED <<sent, owed, taking, accepted, handouts, cleared>>

\* A client asks for a drain or a delete.
Ask(op, q) ==
    /\ cleared' = cleared \cup {<<op, q>>}
    /\ UNCHANGED <<open, sent, owed, taking, accepted, handouts>>

Drain(q) ==
    /\ <<"drain", q>> \in cleared
    /\ owed' = [owed EXCEPT ![q] = {}]
    /\ UNCHANGED <<open, sent, taking, accepted, handouts, cleared>>

Delete(q) ==
    /\ <<"delete", q>> \in cleared
    /\ open' = open \ {q}
    /\ owed' = [owed EXCEPT ![q] = {}]
    /\ UNCHANGED <<sent, taking, accepted, handouts, cleared>>

\* The message is stored; its client may never be told.
Put(q, m) ==
    /\ q \in open
    /\ m \notin sent
    /\ sent' = sent \cup {m}
    /\ owed' = [owed EXCEPT ![q] = @ \cup {m}]
    /\ UNCHANGED <<open, taking, accepted, handouts, cleared>>

\* Only what is stored is accepted.
Accept(m) ==
    /\ m \in sent
    /\ accepted' = accepted \cup {m}
    /\ UNCHANGED <<open, sent, owed, taking, handouts, cleared>>

\* A dequeue takes a message that its queue owes.
Take(h, q, m) ==
    /\ q \in open
    /\ taking[h] = None
    /\ m \in owed[q]
    /\ taking' = [taking EXCEPT ![h] = m]
    /\ UNCHANGED <<open, sent, owed, accepted, handouts, cleared>>

\* Whoever took a message settles the debt.
Confirm(h, q) ==
    /\ taking[h] \in owed[q]
    /\ owed' = [owed EXCEPT ![q] = @ \ {taking[h]}]
    /\ UNCHANGED <<open, sent, taking, accepted, handouts, cleared>>

\* The answer of the dequeue, confirmed or not.
HandOut(h) ==
    /\ taking[h] # None
    /\ handouts' = [handouts EXCEPT ![taking[h]] = @ + 1]
    /\ taking' = [taking EXCEPT ![h] = None]
    /\ UNCHANGED <<open, sent, owed, accepted, cleared>>

\* The process ends and starts again: answers under way are lost, no message.
Restart ==
    /\ taking' = [h \in Handlers |-> None]
    /\ UNCHANGED <<open, sent, owed, accepted, handouts, cleared>>

Next ==
    \/ \E q \in Queues :
         \/ Create(q) \/ Drain(q) \/ Delete(q)
         \/ \E op \in {"drain", "delete"} : Ask(op, q)
         \/ \E m \in Msgs : Put(q, m) \/ \E h \in Handlers : Take(h, q, m)
         \/ \E h \in Handlers : Confirm(h, q)
    \/ \E m \in Msgs : Accept(m)
    \/ \E h \in Handlers : HandOut(h)
    \/ Restart

Spec == Init /\ [][Next]_vars
=============================================================================
