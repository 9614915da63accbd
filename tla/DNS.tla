-------------------------------- MODULE DNS --------------------------------
(***************************************************************************)
(* The DNS API, pkg/dnsapi/api.go: dnsQuery asks the first server of       *)
(* /etc/resolv.conf for one name after the other, each in an exchange that *)
(* ends with a response or with an error, a timeout of the client among    *)
(* them.  The server may say something else each time; a lookup is given   *)
(* what it would say to each of its names.                                 *)
(***************************************************************************)
EXTENDS Naturals, SequencesExt, Process

CONSTANT
    MaxSearch  \* bound: the length of the search list

(***************************************************************************)
(* "found"  the response has records in its answer section                 *)
(* "empty"  it has none                                                    *)
(* "fails"  there is no response                                           *)
(***************************************************************************)
Responses == {"found", "empty", "fails"}

ASSUME DNSAssumption == MaxSearch \in Nat

VARIABLE lookup  \* lookup[c]: the dnsQuery that the handler of c is in

\* zone: what the server says to each name; asked: how many it was asked for;
\* result: the last response that dnsQuery looked at.
NoLookup == [zone |-> <<>>, asked |-> 0, result |-> "none"]

\* One name when it is fully qualified (the empty one is the root); else one
\* for each domain of the search list, and the name itself last.
Zones == UNION {[1 .. n -> Responses] : n \in 1 .. MaxSearch + 1}

DNSTypeOK ==
    lookup \in [Conns -> {NoLookup} \cup
                         [zone : Zones, asked : Nat, result : Responses \cup {"none"}]]

DNSInit == lookup = [c \in Conns |-> NoLookup]

BeginLookup(c) ==
    /\ Begin(c)
    /\ \E z \in Zones : lookup' = [lookup EXCEPT ![c] = [NoLookup EXCEPT !.zone = z]]

EndLookup(c) == lookup' = [lookup EXCEPT ![c] = NoLookup]

\* An unknown type or no resolv.conf: 400.  No server in it: the handler panics.
NoExchange(c) ==
    /\ lookup[c] # NoLookup
    /\ lookup[c].asked = 0
    /\ EndLookup(c)
    /\ Answer(c) \/ Abort(c)

\* Mutant: the loop goes on after a name that has records.
GoesOnAnyway(l) == l.asked < Len(l.zone) /\ l.result # "fails"

\* The loop goes on after an empty response, not after an error.
GoesOn(l) == l.asked < Len(l.zone) /\ l.result \in {"none", "empty"}

\* The first server is asked for the next name.
Exchange(c) ==
    LET l == lookup[c]
    IN  /\ GoesOn(l)
        /\ lookup' = [lookup EXCEPT ![c] = [l EXCEPT !.asked = @ + 1,
                                                     !.result = l.zone[l.asked + 1]]]
        /\ UNCHANGED processVars

Decided(c) == lookup[c] # NoLookup /\ ~GoesOn(lookup[c])

\* The last response, or its error with 400.
Tell(c) == Decided(c) /\ EndLookup(c) /\ Answer(c)

ServeDNS(c) == BeginLookup(c) \/ NoExchange(c) \/ Exchange(c) \/ Tell(c)

-----------------------------------------------------------------------------
(* Properties.                                                             *)

\* The first name without an empty response decides, or the last name if there
\* is none: an exchange that fails hides the names after it.
Expected(zone) ==
    LET i == SelectInSeq(zone, LAMBDA r : r # "empty")
    IN  IF i = 0 THEN "empty" ELSE zone[i]

\* api.go:101-114: what a lookup is answered with does not depend on when it was
\* made or on what the other handlers look up, only on the order of its names.
FirstAnswerDecides ==
    \A c \in Conns : Decided(c) => lookup[c].result = Expected(lookup[c].zone)
=============================================================================
