----------------------------- MODULE KuardProofs -----------------------------
(***************************************************************************)
(* Theorems about the kuard process and the handlers of its probe, memory  *)
(* and DNS APIs, for any number of connections, any configuration, and any *)
(* length of the search list.                                              *)
(***************************************************************************)
EXTENDS Kuard, HistoryProofs, TLAPS

-----------------------------------------------------------------------------
(* The probe on its own, for every history length and width of int.        *)

\* failNext never crosses zero.
KeepsSign == told < 0 <=> failNext < 0

\* HistoryInOrder bounds the history, without which TypeOK is not inductive
\* (Record cuts off one entry only); KeepsSign tells which branch Handle takes.
IInv == TypeOK /\ HistoryInOrder /\ FailsAsTold /\ KeepsSign

\* A new probe satisfies the invariant.
LEMMA InitIInv == Init => IInv
<1> SUFFICES ASSUME Init PROVE IInv
  OBVIOUS
<1>1. 0 \in Ids /\ <<>> \in Seq(Ids) /\ Len(<<>>) = 0
  BY HistoryAssumption DEF Ids
<1>2. 0 < MaxHistory => Succ(0) = 1
  <2>1. 0 < MaxHistory => 1 < IntModulus
    BY HistoryAssumption
  <2>2. 1 < IntModulus => 1 % IntModulus = 1
    BY HistoryAssumption, ModSmall
  <2> QED
    BY <2>1, <2>2 DEF Succ
<1>3. HistoryInOrder
  BY <1>1, <1>2, HistoryAssumption DEF Init, HistoryInOrder, Window
<1>4. ~passed /\ passed \in BOOLEAN
  BY Zenon DEF Init
<1>5. TypeOK
  BY <1>1, <1>4 DEF Init, TypeOK
<1> QED
  BY <1>3, <1>4, <1>5 DEF Init, IInv, FailsAsTold, KeepsSign

\* PUTs and requests keep it.
LEMMA NextIInv == IInv /\ [Next]_vars => IInv'
<1> SUFFICES ASSUME IInv, [Next]_vars PROVE IInv'
  OBVIOUS
<1> USE DEF IInv, TypeOK
<1>1. CASE Handle
  <2>1. /\ Succ(lastID) \in Ids
        /\ lastID' = Succ(lastID)
        /\ history' = Record(history, Succ(lastID))
    BY <1>1, SuccType DEF Handle, RecordRequest
  <2>2. HistoryInOrder'
    <3>1. Window(history', 1, Succ(Succ(lastID)))
      BY <2>1, RecordWindow DEF HistoryInOrder
    <3> QED
      BY <2>1, <3>1 DEF HistoryInOrder
  <2>3. history' \in Seq(Ids)
    BY <2>1, RecordShape DEF HistoryInOrder, Window
  <2>4. FailsAsTold' /\ KeepsSign' /\ failNext' \in Int /\ told' \in Int
                     /\ failed' \in Nat /\ passed' \in BOOLEAN
    <3>1. CASE failNext > 0
      BY <1>1, <3>1 DEF Handle, FailsAsTold, KeepsSign
    <3>2. CASE failNext < 0
      BY <1>1, <3>2 DEF Handle, FailsAsTold, KeepsSign
    <3>3. CASE failNext = 0
      BY <1>1, <3>3 DEF Handle, FailsAsTold, KeepsSign
    <3> QED
      BY <3>1, <3>2, <3>3
  <2> QED
    BY <2>1, <2>2, <2>3, <2>4
<1>2. ASSUME NEW n \in FailNexts, SetConfig(n) PROVE IInv'
  <2>1. HistoryInOrder'
    BY <1>2 DEF SetConfig, HistoryInOrder, Window, Succ
  <2>2. ~passed' /\ passed' \in BOOLEAN
    BY <1>2, Zenon DEF SetConfig
  <2>3. TypeOK'
    BY <1>2, <2>2, FailNextsAssumption DEF SetConfig
  <2>4. FailsAsTold' /\ KeepsSign'
    BY <1>2, <2>2, FailNextsAssumption DEF SetConfig, FailsAsTold, KeepsSign
  <2> QED
    BY <2>1, <2>3, <2>4
<1>3. CASE UNCHANGED vars
  <2>1. HistoryInOrder'
    BY <1>3 DEF vars, HistoryInOrder, Window, Succ
  <2> QED
    BY <1>3, <2>1 DEF vars, FailsAsTold, KeepsSign
<1> QED
  BY <1>1, <1>2, <1>3 DEF Next

\* The invariant holds in every reachable state.
THEOREM Invariant == Spec => []IInv
BY InitIInv, NextIInv, PTL DEF Spec

\* The probe keeps the types of its variables: failNext never grows out of what
\* the client put, and ids stay ints.
THEOREM TypeCorrect == Spec => []TypeOK
<1>1. IInv => TypeOK
  BY DEF IInv
<1> QED
  BY <1>1, Invariant, PTL

\* Told to fail n > 0 times the probe fails exactly the next n requests, told a
\* negative number it never passes again: for every n, and every sequence of
\* PUTs and requests.
THEOREM ProbeFailsAsTold == Spec => []FailsAsTold
<1>1. IInv => FailsAsTold
  BY DEF IInv
<1> QED
  BY <1>1, Invariant, PTL

\* The history holds the last MaxHistory requests in their order, without gap or
\* repetition, also when the ids wrap around.
THEOREM ProbeHistory == Spec => []HistoryInOrder
<1>1. IInv => HistoryInOrder
  BY DEF IInv
<1> QED
  BY <1>1, Invariant, PTL

-----------------------------------------------------------------------------
(***************************************************************************)
(* The steps, by what they change.                                         *)
(***************************************************************************)
ProcessStep ==
    \/ Notify \/ Serve \/ BadConfig \/ BeginShutdown \/ Graceful \/ Deadline
    \/ Listen \/ Signal \/ Kill \/ WorkloadExit
    \/ \E c \in Conns : CloseIdle(c) \/ Accept(c) \/ HangUp(c)

LEMMA Steps ==
    ASSUME KuardNext
    PROVE  \/ ProcessStep /\ UNCHANGED <<memoryVars, lookup, api>>
           \/ main # "exited" /\ UNCHANGED api /\ \E c \in Conns : Request(c)
BY DEF KuardNext, LoadConfig, Main, Timer, Server, Environment, UnchangedComponents,
       ProcessStep, Request, ServeProbe

-----------------------------------------------------------------------------
(* The probe.                                                              *)

\* The process only sets the configuration of the probe and serves its requests.
LEMMA ProbeStep == [KuardNext]_kuardVars => [Next]_vars
<1> SUFFICES ASSUME [KuardNext]_kuardVars PROVE [Next]_vars
  OBVIOUS
<1>1. CASE LoadConfig
  BY <1>1, KuardAssumption DEF LoadConfig, Next
<1>2. CASE Main \/ Timer \/ Server \/ Environment
  BY <1>2 DEF Main, Timer, Server, Environment, UnchangedComponents
<1>3. ASSUME NEW c \in Conns, Request(c) PROVE [Next]_vars
  BY <1>3 DEF Request, ServeProbe, Next
<1>4. CASE UNCHANGED kuardVars
  BY <1>4 DEF kuardVars
<1> QED
  BY <1>1, <1>2, <1>3, <1>4 DEF KuardNext

\* What is proved of the probe alone holds of it in the process.
THEOREM KuardRunsProbe == KuardSpec => Spec
<1>1. KuardInit => Init
  BY DEF KuardInit
<1> QED
  BY <1>1, ProbeStep, PTL DEF KuardSpec, Spec

\* Told to fail n > 0 times the probe of the process fails exactly the next n
\* requests, however they interleave with its start, its end and other requests.
THEOREM KuardFailsAsTold == KuardSpec => []FailsAsTold
BY KuardRunsProbe, ProbeFailsAsTold, PTL

-----------------------------------------------------------------------------
(* The memory API.                                                         *)

Storing == {c \in Conns : at[c] \in {"store", "storeEmpty", "clear"}}

\* While no two requests overlap one handler at most is at work, nobody crosses
\* its store, and the header it has computed is the one that is there.
LeaksInv ==
    /\ leaks \in Nat /\ kept \in Nat
    /\ at \in [Conns -> {"none", "alloc", "store", "storeEmpty", "clear"}]
    /\ next \in [Conns -> Nat]
    /\ crossed \subseteq Storing
    /\ ~muddled =>
         /\ \A c, d \in Conns : at[c] # "none" /\ at[d] # "none" => c = d
         /\ crossed = {} /\ leaks = kept /\ ~torn
         /\ \A c \in Conns : /\ at[c] = "store" => next[c] = kept + 1
                             /\ at[c] = "storeEmpty" => next[c] = kept

LEMMA LeaksServe ==
    ASSUME LeaksInv, NEW c \in Conns, ServeMemory(c)
    PROVE  LeaksInv'
<1> USE DEF LeaksInv
<1>1. ASSUME NEW where \in {"alloc", "clear"}, BeginMemory(c, where) PROVE LeaksInv'
  <2>1. /\ at[c] = "none" /\ at' = [at EXCEPT ![c] = where]
        /\ UNCHANGED <<leaks, torn, next, crossed, kept>>
        /\ ~muddled' => ~muddled /\ \A d \in Conns \ {c} : at[d] = "none"
    BY <1>1 DEF BeginMemory, Others
  <2> QED
    BY <2>1 DEF Storing
<1>2. CASE NoAlloc(c)
  BY <1>2 DEF NoAlloc, Leave, Storing
<1>3. CASE AppendLeak(c)
  <2>1. PICK n \in Nat : /\ ~torn => n = leaks
                         /\ \/ /\ next' = [next EXCEPT ![c] = n + 1]
                               /\ at' = [at EXCEPT ![c] = "store"]
                            \/ /\ next' = [next EXCEPT ![c] = n]
                               /\ at' = [at EXCEPT ![c] = "storeEmpty"]
    BY <1>3 DEF AppendLeak
  <2>2. at[c] = "alloc" /\ UNCHANGED <<leaks, torn, crossed, kept, muddled>>
    BY <1>3 DEF AppendLeak
  <2> QED
    BY <2>1, <2>2 DEF Storing
<1>s. ASSUME NEW n \in Nat, StoreHeader(c, n)
      PROVE  /\ leaks' = n /\ at' = [at EXCEPT ![c] = "none"]
             /\ next' = [next EXCEPT ![c] = 0]
             /\ torn' => c \in crossed
             /\ crossed' \subseteq Storing'
             /\ crossed = {} /\ (\A d \in Conns \ {c} : at[d] = "none") => crossed' = {}
  BY <1>s DEF StoreHeader, Leave, Storing
<1>4. CASE Store(c)
  <2>1. /\ at[c] \in {"store", "storeEmpty"} /\ StoreHeader(c, next[c]) /\ UNCHANGED muddled
        /\ kept' = IF at[c] = "store" THEN kept + 1 ELSE kept
    BY <1>4 DEF Store
  <2>2. /\ leaks' = next[c] /\ at' = [at EXCEPT ![c] = "none"]
        /\ next' = [next EXCEPT ![c] = 0]
        /\ torn' => c \in crossed
        /\ crossed' \subseteq Storing'
        /\ crossed = {} /\ (\A d \in Conns \ {c} : at[d] = "none") => crossed' = {}
    BY <2>1, <1>s
  <2> QED
    BY <2>1, <2>2
<1>5. CASE Clear(c)
  <2>1. /\ StoreHeader(c, 0) /\ kept' = 0
        /\ ~muddled' => c \notin crossed /\ \A d \in Conns \ {c} : at[d] = "none"
    BY <1>5 DEF Clear, Others
  <2>2. /\ leaks' = 0 /\ at' = [at EXCEPT ![c] = "none"]
        /\ next' = [next EXCEPT ![c] = 0]
        /\ torn' => c \in crossed
        /\ crossed' \subseteq Storing'
    BY <2>1, <1>s
  <2>3. ~muddled' => crossed' = {}
    BY <2>1, <2>2 DEF Storing
  <2> QED
    BY <2>1, <2>2, <2>3
<1> QED
  BY <1>1, <1>2, <1>3, <1>4, <1>5 DEF ServeMemory

LEMMA LeaksStep == LeaksInv /\ [KuardNext]_kuardVars => LeaksInv'
<1> SUFFICES ASSUME LeaksInv, [KuardNext]_kuardVars PROVE LeaksInv'
  OBVIOUS
<1>1. CASE UNCHANGED memoryVars
  BY <1>1 DEF memoryVars, LeaksInv, Storing
<1>2. ASSUME NEW c \in Conns, Request(c) PROVE LeaksInv'
  BY <1>1, <1>2, LeaksServe DEF Request, ServeProbe
<1>3. CASE UNCHANGED kuardVars
  BY <1>1, <1>3 DEF kuardVars
<1> QED
  BY <1>1, <1>2, <1>3, Steps

\* The memory that stays allocated is what clients were answered for since the
\* last clear, as long as no two of their requests overlap, and a clear that runs
\* alone frees everything, whatever raced before it on any number of connections.
THEOREM LeaksKept == KuardSpec => []LeaksAsAsked
<1>1. KuardInit => LeaksInv
  BY DEF KuardInit, MemoryInit, LeaksInv, Storing
<1>2. LeaksInv => LeaksAsAsked
  BY DEF LeaksInv, LeaksAsAsked
<1> QED
  BY <1>1, <1>2, LeaksStep, PTL DEF KuardSpec
-----------------------------------------------------------------------------
(* The DNS API.                                                            *)

\* A lookup has asked for a prefix of its names, whose responses were empty, the
\* last one apart.
LookupOK(l) ==
    \/ l = NoLookup
    \/ /\ l \in [zone : Zones, asked : Nat, result : Responses \cup {"none"}]
       /\ l.asked <= Len(l.zone)
       /\ l.asked = 0 => l.result = "none"
       /\ l.asked > 0 => l.result = l.zone[l.asked]
       /\ \A i \in 1 .. l.asked - 1 : l.zone[i] = "empty"

LookupInv == DNSTypeOK /\ \A c \in Conns : LookupOK(lookup[c])

LEMMA ZonesSeq ==
    ASSUME NEW z \in Zones
    PROVE  z \in Seq(Responses) /\ Len(z) > 0 /\ \A i \in 1 .. Len(z) : z[i] \in Responses
<1>1. PICK n \in 1 .. MaxSearch + 1 : z \in [1 .. n -> Responses]
  BY DEF Zones
<1> QED
  BY <1>1, DNSAssumption

LEMMA LookupServe ==
    ASSUME LookupInv, NEW c \in Conns, ServeDNS(c)
    PROVE  LookupInv'
<1>o. ASSUME NEW l, lookup' = [lookup EXCEPT ![c] = l], LookupOK(l) PROVE LookupInv'
  BY <1>o DEF LookupInv, DNSTypeOK, LookupOK
<1>1. CASE BeginLookup(c)
  <2>1. PICK z \in Zones : lookup' = [lookup EXCEPT ![c] = [NoLookup EXCEPT !.zone = z]]
    BY <1>1 DEF BeginLookup
  <2>2. LookupOK([NoLookup EXCEPT !.zone = z])
    BY ZonesSeq DEF LookupOK, NoLookup
  <2> QED
    BY <1>o, <2>1, <2>2
<1>2. CASE NoExchange(c) \/ Tell(c)
  BY <1>2, <1>o DEF NoExchange, Tell, EndLookup, LookupOK
<1>3. CASE Exchange(c)
  <2> DEFINE l == lookup[c]
             k == [l EXCEPT !.asked = @ + 1, !.result = l.zone[l.asked + 1]]
  <2>1. GoesOn(l) /\ lookup' = [lookup EXCEPT ![c] = k]
    BY <1>3 DEF Exchange
  <2>2. LookupOK(l)
    BY DEF LookupInv
  <2>3. l # NoLookup
    BY <2>1 DEF GoesOn, NoLookup
  <2> HIDE DEF l
  <2>4. /\ l \in [zone : Zones, asked : Nat, result : Responses \cup {"none"}]
        /\ l.asked < Len(l.zone)
        /\ l.asked > 0 => l.result = l.zone[l.asked]
        /\ \A i \in 1 .. l.asked - 1 : l.zone[i] = "empty"
    BY <2>1, <2>2, <2>3, ZonesSeq DEF LookupOK, GoesOn
  <2>5. /\ l.zone \in Zones /\ Len(l.zone) \in Nat
        /\ \A i \in 1 .. Len(l.zone) : l.zone[i] \in Responses
    BY <2>4, ZonesSeq
  <2>6. l.asked > 0 => l.zone[l.asked] = "empty"
    BY <2>1, <2>4, <2>5 DEF GoesOn, Responses
  <2>7. /\ k \in [zone : Zones, asked : Nat, result : Responses \cup {"none"}]
        /\ k.zone = l.zone /\ k.asked = l.asked + 1 /\ k.result = l.zone[l.asked + 1]
    <3>1. l.asked + 1 \in 1 .. Len(l.zone) /\ l.asked + 1 \in Nat
      BY <2>4, <2>5
    <3>2. l.zone[l.asked + 1] \in Responses
      BY <2>5, <3>1
    <3> QED
      BY <2>4, <3>1, <3>2
  <2>8. \A i \in 1 .. l.asked : l.zone[i] = "empty"
    BY <2>4, <2>6
  <2>9. LookupOK(k)
    BY <2>4, <2>7, <2>8 DEF LookupOK
  <2> QED
    BY <1>o, <2>1, <2>9
<1> QED
  BY <1>1, <1>2, <1>3 DEF ServeDNS

LEMMA LookupStep == LookupInv /\ [KuardNext]_kuardVars => LookupInv'
<1> SUFFICES ASSUME LookupInv, [KuardNext]_kuardVars PROVE LookupInv'
  OBVIOUS
<1>1. CASE UNCHANGED lookup
  BY <1>1 DEF LookupInv, DNSTypeOK
<1>2. ASSUME NEW c \in Conns, Request(c) PROVE LookupInv'
  BY <1>1, <1>2, LookupServe DEF Request, ServeProbe
<1>3. CASE UNCHANGED kuardVars
  BY <1>1, <1>3 DEF kuardVars
<1> QED
  BY <1>1, <1>2, <1>3, Steps

\* A lookup that is decided has the response that decides.
LEMMA DecidedRight ==
    ASSUME NEW l, LookupOK(l), l # NoLookup, ~GoesOn(l)
    PROVE  l.result = Expected(l.zone)
<1> DEFINE z == l.zone
           I == {i \in 1 .. Len(z) : z[i] # "empty"}
<1>1. /\ z \in Seq(Responses) /\ Len(z) > 0 /\ l.asked \in 0 .. Len(z)
      /\ l.asked = 0 => l.result = "none"
      /\ l.asked > 0 => l.result = z[l.asked]
      /\ \A i \in 1 .. l.asked - 1 : z[i] = "empty"
  BY ZonesSeq DEF LookupOK
<1>2. l.asked > 0 /\ (l.asked = Len(z) \/ z[l.asked] # "empty")
  BY <1>1 DEF GoesOn, Responses
<1>3. CASE z[l.asked] = "empty"
  <2>1. I = {}
    BY <1>1, <1>2, <1>3
  <2> QED
    BY <1>1, <1>2, <1>3, <2>1 DEF Expected, SelectInSeq
<1>4. CASE z[l.asked] # "empty"
  <2>1. l.asked \in I /\ \A i \in I : l.asked <= i
    BY <1>1, <1>2, <1>4
  <2>2. Min(I) = l.asked
    BY <1>1, <2>1 DEF Min
  <2>3. SelectInSeq(z, LAMBDA r : r # "empty") = l.asked
    BY <2>1, <2>2 DEF SelectInSeq
  <2> QED
    BY <1>1, <1>2, <2>3 DEF Expected
<1> QED
  BY <1>3, <1>4

\* What a lookup is answered with is decided by the first name with a response
\* that is not empty, for search lists of any length and lookups of any number
\* of handlers.
THEOREM FirstDecides == KuardSpec => []FirstAnswerDecides
<1>1. KuardInit => LookupInv
  BY DEF KuardInit, DNSInit, LookupInv, LookupOK, DNSTypeOK
<1>2. LookupInv => FirstAnswerDecides
  BY DecidedRight DEF LookupInv, FirstAnswerDecides, Decided
<1> QED
  BY <1>1, <1>2, LookupStep, PTL DEF KuardSpec

-----------------------------------------------------------------------------
(* The types of all, and who works on which connection.                    *)

\* Handlers of one API only are at work, each on the active connection it serves.
BusyInv ==
    /\ api # "memory" => \A c \in Conns : at[c] = "none"
    /\ api # "dns" => \A c \in Conns : lookup[c] = NoLookup
    /\ main # "exited" =>
         \A c \in Conns : at[c] # "none" \/ lookup[c] # NoLookup => conn[c] = "active"

OwnTypes == ProcessTypeOK /\ torn \in BOOLEAN /\ muddled \in BOOLEAN /\ api \in Apis

LEMMA ProcessTypeStep ==
    ASSUME ProcessTypeOK,
           \/ ProcessStep \/ UNCHANGED processVars
           \/ \E c \in Conns : Begin(c) \/ Answer(c) \/ Abort(c)
    PROVE  ProcessTypeOK'
<1> USE DEF ProcessTypeOK
<1>e. ASSUME NEW how \in {"graceful", "deadline", "panic", "killed", "workload"}, End(how)
      PROVE  ProcessTypeOK'
  BY <1>e DEF End
<1>s. ASSUME NEW d \in Conns, NEW from, NEW to \in {"none", "new", "idle", "active"},
             SetConn(d, from, to)
      PROVE  ProcessTypeOK'
  BY <1>s DEF SetConn
<1>1. ASSUME NEW c \in Conns, Begin(c) \/ Answer(c) \/ Abort(c) PROVE ProcessTypeOK'
  BY <1>1, <1>s DEF Begin, Answer, Abort
<1>2. CASE BadConfig \/ Graceful \/ Deadline \/ Kill \/ WorkloadExit
  BY <1>2, <1>e DEF BadConfig, Graceful, Deadline, Kill, WorkloadExit
<1>3. CASE Signal
  BY <1>3, <1>e DEF Signal
<1>4. ASSUME NEW d \in Conns, CloseIdle(d) \/ Accept(d) \/ HangUp(d) PROVE ProcessTypeOK'
  BY <1>4, <1>s DEF CloseIdle, Accept, HangUp
<1>5. CASE Notify \/ Serve \/ BeginShutdown \/ Listen \/ UNCHANGED processVars
  BY <1>5 DEF Notify, Serve, BeginShutdown, Listen, processVars
<1> QED
  BY <1>1, <1>2, <1>3, <1>4, <1>5 DEF ProcessStep
LEMMA BusyServe ==
    ASSUME ProcessTypeOK, LeaksInv, LookupInv, BusyInv, main # "exited",
           NEW c \in Conns, Request(c), UNCHANGED api
    PROVE  BusyInv'
<1>t. /\ conn \in [Conns -> {"none", "new", "idle", "active"}]
      /\ DOMAIN at = Conns /\ DOMAIN lookup = Conns
  BY DEF ProcessTypeOK, LeaksInv, LookupInv, DNSTypeOK, NoLookup
<1>1. CASE api = "probe" /\ ServeProbe(c)
  BY <1>1 DEF BusyInv, ServeProbe, memoryVars
<1>2. CASE api = "memory" /\ ServeMemory(c) /\ UNCHANGED lookup
  <2>1. CASE \E where \in {"alloc", "clear"} : BeginMemory(c, where)
    BY <1>2, <1>t, <2>1 DEF BeginMemory, Begin, SetConn, BusyInv
  <2>2. CASE AppendLeak(c)
    <3>1. /\ at[c] = "alloc" /\ UNCHANGED <<main, conn>>
          /\ \A d \in Conns \ {c} : at'[d] = at[d]
      BY <1>t, <2>2 DEF AppendLeak, processVars
    <3> QED
      BY <1>2, <3>1 DEF BusyInv
  <2>3. CASE NoAlloc(c) \/ Store(c) \/ Clear(c)
    <3>1. at' = [at EXCEPT ![c] = "none"] /\ (Answer(c) \/ Abort(c))
      BY <2>3 DEF NoAlloc, Store, Clear, StoreHeader, Leave
    <3> QED
      BY <1>2, <1>t, <3>1 DEF Answer, Abort, SetConn, BusyInv
  <2> QED
    BY <1>2, <2>1, <2>2, <2>3 DEF ServeMemory
<1>3. CASE api = "dns" /\ ServeDNS(c) /\ UNCHANGED memoryVars
  <2>1. CASE BeginLookup(c)
    BY <1>3, <1>t, <2>1 DEF BeginLookup, Begin, SetConn, BusyInv, memoryVars
  <2>2. CASE Exchange(c)
    <3>1. lookup[c] # NoLookup
      BY <2>2 DEF Exchange, GoesOn, NoLookup
    <3>2. UNCHANGED <<main, conn, at>> /\ \A d \in Conns \ {c} : lookup'[d] = lookup[d]
      BY <1>3, <1>t, <2>2 DEF Exchange, processVars, memoryVars
    <3> QED
      BY <1>3, <3>1, <3>2 DEF BusyInv
  <2>3. CASE NoExchange(c) \/ Tell(c)
    <3>1. lookup' = [lookup EXCEPT ![c] = NoLookup] /\ (Answer(c) \/ Abort(c))
      BY <2>3 DEF NoExchange, Tell, EndLookup
    <3> QED
      BY <1>3, <1>t, <3>1 DEF Answer, Abort, SetConn, BusyInv, memoryVars
  <2> QED
    BY <1>3, <2>1, <2>2, <2>3 DEF ServeDNS
<1> QED
  BY <1>1, <1>2, <1>3 DEF Request

LEMMA KuardTypeStep ==
    OwnTypes /\ LeaksInv /\ LookupInv /\ BusyInv /\ [KuardNext]_kuardVars => OwnTypes' /\ BusyInv'
<1> SUFFICES ASSUME OwnTypes, LeaksInv, LookupInv, BusyInv, [KuardNext]_kuardVars
             PROVE  OwnTypes' /\ BusyInv'
  OBVIOUS
<1> USE DEF OwnTypes
<1>1. CASE ProcessStep /\ UNCHANGED <<memoryVars, lookup, api>>
  <2>1. OwnTypes'
    BY <1>1, ProcessTypeStep DEF memoryVars
  <2>2. main' # "exited" => main # "exited" /\ \A c \in Conns : conn[c] = "active" => conn'[c] = "active"
    BY <1>1
       DEF ProcessTypeOK, ProcessStep, Notify, Serve, BadConfig, BeginShutdown, Graceful,
           Deadline, Listen, Signal, Kill, WorkloadExit, CloseIdle, Accept, HangUp, SetConn, End
  <2> QED
    BY <1>1, <2>1, <2>2 DEF BusyInv, memoryVars
<1>2. ASSUME NEW c \in Conns, Request(c), main # "exited", UNCHANGED api
      PROVE  OwnTypes' /\ BusyInv'
  <2>1. ProcessTypeOK'
    <3>1. UNCHANGED processVars \/ Begin(c) \/ Answer(c) \/ Abort(c)
      BY <1>2
         DEF Request, ServeProbe, ServeMemory, BeginMemory, NoAlloc, AppendLeak, Store, Clear,
             StoreHeader, ServeDNS, BeginLookup, NoExchange, Exchange, Tell
    <3> QED
      BY <3>1, ProcessTypeStep
  <2>2. torn' \in BOOLEAN /\ muddled' \in BOOLEAN
    <3>1. CASE UNCHANGED memoryVars
      BY <3>1 DEF memoryVars
    <3>2. CASE ServeMemory(c)
      BY <3>2, Zenon
         DEF ServeMemory, BeginMemory, NoAlloc, AppendLeak, Store, Clear, StoreHeader
    <3> QED
      BY <1>2, <3>1, <3>2 DEF Request, ServeProbe
  <2> QED
    BY <1>2, <2>1, <2>2, BusyServe
<1>3. CASE UNCHANGED kuardVars
  BY <1>3 DEF kuardVars, processVars, memoryVars, ProcessTypeOK, BusyInv
<1> QED
  BY <1>1, <1>2, <1>3, Steps

KuardInv == OwnTypes /\ LeaksInv /\ LookupInv /\ BusyInv

LEMMA KuardInvariant == KuardSpec => []KuardInv
<1>1. KuardInit => KuardInv
  <2> SUFFICES ASSUME KuardInit PROVE KuardInv
    OBVIOUS
  <2>1. LeaksInv /\ LookupInv
    BY DEF KuardInit, MemoryInit, LeaksInv, Storing, DNSInit, LookupInv, LookupOK, DNSTypeOK
  <2>2. OwnTypes
    BY DEF KuardInit, ProcessInit, MemoryInit, OwnTypes, ProcessTypeOK
  <2>3. BusyInv
    BY DEF KuardInit, MemoryInit, DNSInit, BusyInv
  <2> QED
    BY <2>1, <2>2, <2>3 DEF KuardInv
<1>2. KuardInv /\ [KuardNext]_kuardVars => KuardInv'
  BY LeaksStep, LookupStep, KuardTypeStep DEF KuardInv
<1> QED
  BY <1>1, <1>2, PTL DEF KuardSpec

\* Every component keeps its types, and has state of a handler only while net/http
\* has a request on its connection, or the process is gone.
THEOREM KuardTypes == KuardSpec => []KuardTypeOK
<1>1. KuardInv /\ TypeOK => KuardTypeOK
  BY DEF KuardInv, OwnTypes, LeaksInv, LookupInv, BusyInv, MemoryTypeOK, KuardTypeOK, Storing
<1> QED
  BY <1>1, KuardInvariant, KuardRunsProbe, TypeCorrect, PTL

-----------------------------------------------------------------------------
(* Shutting down.                                                          *)

Halfway(c) == at[c] # "none" \/ lookup[c] # NoLookup

\* While Shutdown waits no connection is accepted, and one that has had its request
\* since then is not kept, so that no second one can begin.  BusyInv is what makes
\* the connections net/http waits for those on which a handler is at work.
DrainInv ==
    /\ main \notin {"shutdown", "exited"} => \A c \in Conns : late[c] = 0
    /\ main = "shutdown" =>
         /\ listener # "open"
         /\ \A c \in Conns : late[c] = 0 \/ conn[c] \in {"active", "none"}
    /\ \A c \in Conns : late[c] <= 1
    /\ exit = "graceful" => main = "exited" /\ \A c \in Conns : ~Halfway(c)

LEMMA DrainProcess ==
    ASSUME KuardInv, DrainInv, ProcessStep, UNCHANGED <<memoryVars, lookup>>
    PROVE  DrainInv'
<1>t. /\ conn \in [Conns -> {"none", "new", "idle", "active"}] /\ late \in [Conns -> Nat]
      /\ main \in {"boot", "load", "wait", "shutdown", "exited"}
  BY DEF KuardInv, OwnTypes, ProcessTypeOK
<1>h. \A c \in Conns : Halfway(c)' <=> Halfway(c)
  BY DEF Halfway, memoryVars
<1>1. ASSUME NEW how, End(how), main # "exited",
             how = "graceful" => \A c \in Conns : ~Halfway(c)
      PROVE  DrainInv'
  BY <1>1, <1>h DEF End, DrainInv
<1>2. CASE Graceful
  <2>1. \A c \in Conns : ~Halfway(c)
    BY <1>2 DEF Graceful, KuardInv, BusyInv, Halfway
  <2> QED
    BY <1>1, <1>2, <2>1 DEF Graceful
<1>3. CASE BadConfig \/ Deadline \/ Kill \/ WorkloadExit
  BY <1>1, <1>3 DEF BadConfig, Deadline, Kill, WorkloadExit
<1>4. CASE Signal
  <2>1. CASE End("killed") /\ main = "boot"
    BY <1>1, <2>1
  <2>2. CASE UNCHANGED <<main, listener, conn, exit, late>>
    BY <1>h, <2>2 DEF DrainInv
  <2> QED
    BY <1>4, <2>1, <2>2 DEF Signal
<1>5. CASE Notify \/ Serve \/ BeginShutdown \/ Listen
  BY <1>5, <1>h, <1>t DEF Notify, Serve, BeginShutdown, Listen, DrainInv
<1>6. ASSUME NEW c \in Conns, CloseIdle(c) \/ Accept(c) \/ HangUp(c) PROVE DrainInv'
  <2>1. /\ UNCHANGED <<main, listener, exit, late>>
        /\ main = "shutdown" => \A d \in Conns : conn'[d] = conn[d] \/ conn'[d] = "none"
    BY <1>6, <1>t DEF CloseIdle, Accept, HangUp, SetConn, DrainInv
  <2> QED
    BY <1>h, <2>1 DEF DrainInv
<1> QED
  BY <1>2, <1>3, <1>4, <1>5, <1>6 DEF ProcessStep

LEMMA DrainRequest ==
    ASSUME KuardInv, DrainInv, main # "exited", NEW c \in Conns, Request(c)
    PROVE  DrainInv'
<1>t. /\ conn \in [Conns -> {"none", "new", "idle", "active"}] /\ late \in [Conns -> Nat]
  BY DEF KuardInv, OwnTypes, ProcessTypeOK
<1>1. exit # "graceful"
  BY DEF DrainInv
<1>2. CASE UNCHANGED processVars
  BY <1>1, <1>2 DEF processVars, DrainInv
<1>3. CASE Begin(c)
  BY <1>1, <1>3, <1>t DEF Begin, DrainInv
<1>4. CASE Answer(c) \/ Abort(c)
  BY <1>1, <1>4, <1>t DEF Answer, Abort, SetConn, DrainInv
<1>5. UNCHANGED processVars \/ Begin(c) \/ Answer(c) \/ Abort(c)
  BY DEF Request, ServeProbe, ServeMemory, BeginMemory, NoAlloc, AppendLeak, Store, Clear,
         StoreHeader, ServeDNS, BeginLookup, NoExchange, Exchange, Tell
<1> QED
  BY <1>2, <1>3, <1>4, <1>5

\* Once main has called Shutdown each connection gets one more request at most, and
\* if Shutdown returns in time no handler of the memory or DNS API is left halfway,
\* for any number of connections and whenever they begin or end a request.
THEOREM Drained == KuardSpec => []ShutdownDrains
<1>1. KuardInit => DrainInv
  BY DEF KuardInit, ProcessInit, DrainInv
<1>2. KuardInv /\ DrainInv /\ [KuardNext]_kuardVars => DrainInv'
  <2> SUFFICES ASSUME KuardInv, DrainInv, [KuardNext]_kuardVars PROVE DrainInv'
    OBVIOUS
  <2>1. CASE UNCHANGED kuardVars
    BY <2>1 DEF kuardVars, processVars, memoryVars, DrainInv, Halfway
  <2> QED
    BY <2>1, Steps, DrainProcess, DrainRequest
<1>3. DrainInv => ShutdownDrains
  BY DEF DrainInv, ShutdownDrains, Halfway
<1> QED
  BY <1>1, <1>2, <1>3, KuardInvariant, PTL DEF KuardSpec
=============================================================================
