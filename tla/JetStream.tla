------------------------------ MODULE JetStream ------------------------------
(***************************************************************************)
(* The part of a NATS JetStream server that pkg/memq/server uses.  The     *)
(* server is not in the repository: this module is what nats_backend.go    *)
(* relies on.  A stream has a name and one subject; each queue has a       *)
(* subject of its own (memq.<queue>), so a subject is identified with its  *)
(* queue.  Streams use the default retention (Limits): a consumed message  *)
(* stays stored, and counts in State.Msgs, until it is purged or its       *)
(* stream is deleted.                                                      *)
(***************************************************************************)
EXTENDS Naturals, FiniteSets

CONSTANTS
    Queues,      \* the queue names clients use
    Streams,     \* the stream names
    StreamName,  \* StreamName[q] = "MEMQ_" + ToUpper(q)
    Msgs,        \* the message bodies clients enqueue
    None         \* no queue, no stream, no message

ASSUME NamesAssumption ==
    /\ StreamName \in [Queues -> Streams]
    /\ None \notin Queues \cup Streams \cup Msgs
    /\ IsFiniteSet(Msgs)

VARIABLES
    stream,  \* stream[s]: the queue whose subject stream s has, or None
    home,    \* home[m]: the queue on whose subject m was published
    box      \* box[m]: where message m is in its life

jsVars == <<stream, home, box>>

(***************************************************************************)
(* "unsent"   not published yet                                            *)
(* "ready"    stored, the queue's consumer may deliver it                  *)
(* "pending"  stored, delivered, its acknowledgement awaited               *)
(* "acked"    stored, acknowledged: never delivered again                  *)
(* "removed"  purged, or deleted with its stream                           *)
(***************************************************************************)
BoxStates == {"unsent", "ready", "pending", "acked", "removed"}

JSTypeOK ==
    /\ stream \in [Streams -> Queues \cup {None}]
    /\ home \in [Msgs -> Queues \cup {None}]
    /\ box \in [Msgs -> BoxStates]

JSInit ==
    /\ stream = [s \in Streams |-> None]
    /\ home = [m \in Msgs |-> None]
    /\ box = [m \in Msgs |-> "unsent"]

-----------------------------------------------------------------------------
StreamOf(q) == stream[StreamName[q]]

Stored(m) == box[m] \in {"ready", "pending", "acked"}

\* The messages stored in the stream that queue q maps to, whatever their subject.
Contents(q) ==
    {m \in Msgs : Stored(m) /\ home[m] \in Queues
                            /\ StreamName[home[m]] = StreamName[q]}

\* The messages the consumer of q may deliver now: it is filtered by subject.
Ready(q) == {m \in Msgs : box[m] = "ready" /\ home[m] = q}

\* The subject of q belongs to a stream, so that a publication is stored.
HasStream(q) == StreamOf(q) = q

\* AddStream succeeds, also when the stream exists with the same configuration.
CanAdd(q) == StreamOf(q) \in {None, q}

-----------------------------------------------------------------------------
(* The effects of the requests, when the server executes them.             *)

Empty(q) ==
    box' = [m \in Msgs |-> IF m \in Contents(q) THEN "removed" ELSE box[m]]

JSAdd(q) ==
    /\ stream' = IF CanAdd(q) THEN [stream EXCEPT ![StreamName[q]] = q] ELSE stream
    /\ UNCHANGED <<home, box>>

JSDelete(q) ==
    /\ stream' = [stream EXCEPT ![StreamName[q]] = None]
    /\ Empty(q)
    /\ UNCHANGED home

JSPurge(q) ==
    /\ Empty(q)
    /\ UNCHANGED <<stream, home>>

JSPublish(q, m) ==
    /\ IF HasStream(q)
         THEN /\ box' = [box EXCEPT ![m] = "ready"]
              /\ home' = [home EXCEPT ![m] = q]
         ELSE UNCHANGED <<box, home>>
    /\ UNCHANGED stream

\* Mutant: a consumer without acknowledgements (nats.AckNone).
JSDeliverUnconfirmed(m) ==
    /\ box' = [box EXCEPT ![m] = "acked"]
    /\ UNCHANGED <<stream, home>>

JSDeliver(m) ==
    /\ box' = [box EXCEPT ![m] = "pending"]
    /\ UNCHANGED <<stream, home>>

\* An acknowledgement of a message removed in the meantime has no effect.
JSAck(m) ==
    /\ box' = IF box[m] = "pending" THEN [box EXCEPT ![m] = "acked"] ELSE box
    /\ UNCHANGED <<stream, home>>

\* AckWait expired: the message is deliverable again.
JSRedeliver(m) ==
    /\ box[m] = "pending"
    /\ box' = [box EXCEPT ![m] = "ready"]
    /\ UNCHANGED <<stream, home>>
=============================================================================
