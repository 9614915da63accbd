----------------------------- MODULE SiteProofs -----------------------------
(***************************************************************************)
(* Proofs about the user interface.  The KeyGen page and its hook, for any *)
(* number of loads, toggles and changes by others: they rest on what abort *)
(* guarantees, that the page never waits for more than one answer.  The    *)
(* file system page, for any directories, filters, page size and requests  *)
(* in flight: what it shows between a selection and the pages it loads.    *)
(***************************************************************************)
EXTENDS Site, Induction, SequenceTheorems

\* The requests that were not aborted: at most one.
FlightOK == flight = <<>> \/ flight = <<flight[1]>>

\* LoadingMeansWaiting, and what a page that is left leaves behind.
WaitInv ==
    /\ FlightOK
    /\ mounted => (fetching <=> flight # <<>>)
    /\ ~mounted => flight = <<>> /\ put = "none"

-----------------------------------------------------------------------------
LEMMA RemoveOnly ==
    ASSUME NEW s, NEW i \in DOMAIN s, s = <<s[1]>>
    PROVE  RemoveAt(s, i) = <<>>
<1> DEFINE x == s[1]
<1>1. s = <<x>>
  OBVIOUS
<1> HIDE DEF x
<1>2. i = 1 /\ Len(s) = 1
  BY <1>1
<1>3. SubSeq(s, 1, 0) = <<>> /\ SubSeq(s, 2, 1) = <<>>
  BY <1>1
<1>4. RemoveAt(s, i) = SubSeq(s, 1, 0) \o SubSeq(s, 2, 1)
  BY <1>2 DEF RemoveAt
<1> QED BY <1>3, <1>4

LEMMA InFlight ==
    ASSUME FlightOK, NEW i \in DOMAIN flight
    PROVE  i = 1 /\ flight = <<flight[1]>>
BY DEF FlightOK

LEMMA WaitStep == WaitInv /\ [SiteNext]_siteVars => WaitInv'
<1> SUFFICES ASSUME WaitInv, [SiteNext]_siteVars PROVE WaitInv'
  OBVIOUS
<1> USE DEF WaitInv, FlightOK
<1>1. CASE FSStep
  BY <1>1 DEF FSStep, pageVars, hookVars
<1>2. CASE KeyGenStep
  <2> SUFFICES ASSUME PageNext PROVE WaitInv'
    BY <1>2 DEF KeyGenStep
  <2>1. CASE OpenPage
    BY <2>1 DEF OpenPage, Mount
  <2>2. CASE LeavePage
    BY <2>2 DEF LeavePage, Unmount
  <2>3. CASE ToggleEnable
    BY <2>3 DEF ToggleEnable, hookVars
  <2>4. CASE Refresh
    BY <2>4 DEF Refresh, Load
  <2>5. CASE SetAuto
    BY <2>5 DEF SetAuto, hookVars
  <2>6. CASE Poll
    BY <2>6 DEF Poll, Load
  <2>7. CASE PutAnswered
    BY <2>7 DEF PutAnswered, Load
  <2>8. CASE PutFails
    BY <2>8 DEF PutFails, hookVars
  <2>9. CASE LoadArrives
    <3>1. PICK i \in DOMAIN flight : Arrives(i)
      BY <2>9 DEF LoadArrives
    <3>2. flight' = <<>>
      BY <3>1, InFlight, RemoveOnly DEF Arrives
    <3> QED BY <2>9, <3>1, <3>2 DEF LoadArrives, Arrives
  <2>10. CASE LoadFailed
    <3>1. PICK i \in DOMAIN flight : LoadFails(i)
      BY <2>10 DEF LoadFailed
    <3>2. flight' = <<>>
      BY <3>1, InFlight, RemoveOnly DEF LoadFails
    <3> QED BY <2>10, <3>1, <3>2 DEF LoadFailed, LoadFails
  <2>11. CASE ServerGets
    <3>1. PICK i \in DOMAIN flight : Handled(i, enabled)
      BY <2>11 DEF ServerGets
    <3>2. flight' = <<enabled>>
      BY <3>1, InFlight DEF Handled
    <3> QED BY <2>11, <3>1, <3>2 DEF ServerGets, Handled
  <2>12. CASE ServerPuts
    BY <2>12 DEF ServerPuts, hookVars
  <2>13. CASE ChangeByOthers
    BY <2>13 DEF ChangeByOthers, hookVars
  <2> QED BY <2>1, <2>2, <2>3, <2>4, <2>5, <2>6, <2>7, <2>8, <2>9, <2>10,
             <2>11, <2>12, <2>13 DEF PageNext
<1>3. CASE UNCHANGED siteVars
  BY <1>3 DEF siteVars, pageVars, hookVars
<1> QED BY <1>1, <1>2, <1>3 DEF SiteNext

LEMMA WaitAlways == SiteSpec => []WaitInv
<1>1. SiteInit => WaitInv
  BY DEF SiteInit, PageInit, HookInit, WaitInv, FlightOK
<1> QED BY <1>1, WaitStep, PTL DEF SiteSpec

\* useJSON.ts:27: for any crossing of reloads, polls, answers and failures,
\* "Updating" is shown exactly while an answer is awaited.
THEOREM LoadingIsWaiting == SiteSpec => []LoadingMeansWaiting
<1>1. WaitInv => LoadingMeansWaiting
  BY DEF WaitInv, LoadingMeansWaiting
<1> QED BY <1>1, WaitAlways, PTL

-----------------------------------------------------------------------------
\* What the page shows, or is about to show, is what the server is configured
\* to: an answer on its way is only out of date while a PUT is handled, and then
\* the answer to the PUT will abort it.
SyncInv ==
    mounted =>
        /\ put # "none" => saving
        /\ ~missed =>
             /\ flight = <<>> /\ put = "none" => enable = enabled
             /\ flight # <<>> /\ flight[1] # "sent" /\ put # "handled"
                  => flight[1] = enabled

LEMMA SyncStep == WaitInv /\ SyncInv /\ [SiteNext]_siteVars => SyncInv'
<1> SUFFICES ASSUME WaitInv, SyncInv, [SiteNext]_siteVars PROVE SyncInv'
  OBVIOUS
<1>f. FlightOK
  BY DEF WaitInv
<1> USE DEF SyncInv
<1>1. CASE FSStep
  BY <1>1 DEF FSStep, pageVars, hookVars
<1>2. CASE KeyGenStep
  <2> SUFFICES ASSUME PageNext PROVE SyncInv'
    BY <1>2 DEF KeyGenStep
  <2>1. CASE OpenPage
    BY <2>1 DEF OpenPage, Mount
  <2>2. CASE LeavePage
    BY <2>2 DEF LeavePage, Unmount
  <2>3. CASE ToggleEnable
    BY <2>3 DEF ToggleEnable, hookVars
  <2>4. CASE Refresh
    BY <2>4 DEF Refresh, Load
  <2>5. CASE SetAuto
    BY <2>5 DEF SetAuto, hookVars
  <2>6. CASE Poll
    BY <2>6 DEF Poll, Load
  <2>7. CASE PutAnswered
    BY <2>7 DEF PutAnswered, Load
  <2>8. CASE PutFails
    BY <2>8 DEF PutFails, hookVars
  <2>9. CASE LoadArrives
    <3>1. PICK i \in DOMAIN flight : Arrives(i) /\ enable' = flight[i]
      BY <2>9 DEF LoadArrives
    <3>2. flight' = <<>> /\ i = 1
      BY <3>1, <1>f, InFlight, RemoveOnly DEF Arrives
    <3>3. flight # <<>> /\ flight[1] # "sent"
      BY <3>1, <3>2 DEF Arrives
    <3> QED BY <2>9, <3>1, <3>2, <3>3 DEF LoadArrives, Arrives
  <2>10. CASE LoadFailed
    BY <2>10 DEF LoadFailed, LoadFails
  <2>11. CASE ServerGets
    <3>1. PICK i \in DOMAIN flight : Handled(i, enabled)
      BY <2>11 DEF ServerGets
    <3>2. flight' = <<enabled>>
      BY <3>1, <1>f, InFlight DEF Handled
    <3> QED BY <2>11, <3>1, <3>2 DEF ServerGets, Handled
  <2>12. CASE ServerPuts
    BY <2>12 DEF ServerPuts, hookVars
  <2>13. CASE ChangeByOthers
    BY <2>13 DEF ChangeByOthers, hookVars
  <2> QED BY <2>1, <2>2, <2>3, <2>4, <2>5, <2>6, <2>7, <2>8, <2>9, <2>10,
             <2>11, <2>12, <2>13 DEF PageNext
<1>3. CASE UNCHANGED siteVars
  BY <1>3 DEF siteVars, pageVars, hookVars
<1> QED BY <1>1, <1>2, <1>3 DEF SiteNext

\* keygen.tsx:76: "Config synchronized" is true of every page at rest that missed
\* nothing, however its polls, toggles and answers crossed.
THEOREM RestIsSynchronized == SiteSpec => []SynchronizedAtRest
<1>1. SiteInit => SyncInv
  BY DEF SiteInit, PageInit, HookInit, SyncInv
<1>2. SiteSpec => []SyncInv
  BY <1>1, SyncStep, WaitAlways, PTL DEF SiteSpec
<1>3. SyncInv => SynchronizedAtRest
  BY DEF SyncInv, SynchronizedAtRest
<1> QED BY <1>2, <1>3, PTL

-----------------------------------------------------------------------------
(* The listing: the loop of handleList.                                    *)

\* What the loop body makes of s, what it kept so far, at the n-th entry of c.
WithEntry(c, M, n, s) == IF c[n] \in M THEN Append(s, c[n]) ELSE s

\* f[n]: what the loop kept of the first n entries of c.
Kept(f, c, M) ==
    f[0] = <<>> /\ \A n \in 1 .. Len(c) : f[n] = WithEntry(c, M, n, f[n - 1])

LEMMA KeepsSeq ==
    ASSUME NEW T, NEW c \in Seq(T), NEW M, NEW n \in 1 .. Len(c), NEW s \in Seq(T \cap M)
    PROVE  WithEntry(c, M, n, s) \in Seq(T \cap M)
<1>1. c[n] \in T
  BY ElementOfSeq
<1> QED
  BY <1>1, AppendProperties DEF WithEntry

\* The loop has a result, ...
LEMMA KeptExists ==
    ASSUME NEW T, NEW c \in Seq(T), NEW M
    PROVE  \E f \in [0 .. Len(c) -> Seq(T \cap M)] : Kept(f, c, M)
<1> DEFINE N == Len(c)
           V == Seq(T \cap M)
           v == <<>>
           G == [n \in 1 .. N |-> [s \in V |-> WithEntry(c, M, n, s)]]
<1>1. N \in Nat /\ v \in V
  OBVIOUS
<1>2. \A n \in 1 .. N : \A s \in V : WithEntry(c, M, n, s) \in V
  BY KeepsSeq
<1> HIDE DEF N, V, v
<1>3. G \in [1 .. N -> [V -> V]]
  BY <1>2
<1>4. \A n \in 1 .. N : \A s \in V : G[n][s] = WithEntry(c, M, n, s)
  OBVIOUS
<1> HIDE DEF G
<1>5. PICK f \in [0 .. N -> V] : Follows(f, N, v, G)
  BY <1>1, <1>3, Recursion
<1>6. \A n \in 1 .. N : f[n] = WithEntry(c, M, n, f[n - 1])
  BY <1>1, <1>4, <1>5 DEF Follows
<1>7. f[0] = <<>>
  BY <1>5 DEF Follows, v
<1> QED
  BY <1>5, <1>6, <1>7 DEF N, V, Kept

\* ... and what it keeps are entries that match.
LEMMA KeptIsSeq ==
    ASSUME NEW T, NEW c \in Seq(T), NEW M, NEW k, Kept(k, c, M)
    PROVE  k[Len(c)] \in Seq(T \cap M)
<1> DEFINE S == {n \in 0 .. Len(c) : k[n] \in Seq(T \cap M)}
<1>1. Len(c) \in Nat
  OBVIOUS
<1>2. 0 \in S
  <2>1. k[0] = <<>>
    BY DEF Kept
  <2>2. <<>> \in Seq(T \cap M) /\ 0 \in 0 .. Len(c)
    BY <1>1, EmptySeq
  <2> QED
    BY <2>1, <2>2
<1>3. ASSUME NEW n \in 0 .. Len(c) - 1, n \in S PROVE n + 1 \in S
  <2>1. n + 1 \in 1 .. Len(c) /\ n + 1 \in 0 .. Len(c) /\ n + 1 - 1 = n
    BY <1>1
  <2>2. k[n + 1] = WithEntry(c, M, n + 1, k[n])
    BY <2>1 DEF Kept
  <2>3. k[n + 1] \in Seq(T \cap M)
    BY <2>1, <2>2, <1>3, KeepsSeq
  <2> QED
    BY <2>1, <2>3
<1> HIDE DEF S
<1>4. 0 .. Len(c) \subseteq S
  BY <1>1, <1>2, <1>3, UpTo
<1> QED
  BY <1>1, <1>4 DEF S

\* The recursive function of Listing is one that keeps so.
\* fsapi/api.go:84: what a listing holds matches the filter.
LEMMA ListingMatches ==
    ASSUME NEW d \in Dirs, NEW q
    PROVE  Listing(d, q) \in Seq(Entries \cap Matches[q])
<1> DEFINE c == Contents[d]
           M == Matches[q]
           P(f) == f = [n \in 0 .. Len(c) |->
                          IF n = 0 THEN <<>> ELSE WithEntry(c, M, n, f[n - 1])]
           k == CHOOSE f : P(f)
<1>1. Listing(d, q) = k[Len(c)]
  BY DEF Listing, WithEntry
<1>2. c \in Seq(Entries) /\ Len(c) \in Nat
  BY BrowserAssumption
<1> HIDE DEF c, M
<1>3. P(k)
  <2>1. PICK f \in [0 .. Len(c) -> Seq(Entries \cap M)] : Kept(f, c, M)
    BY <1>2, KeptExists
  <2>2. \A n \in 0 .. Len(c) : f[n] = IF n = 0 THEN <<>> ELSE WithEntry(c, M, n, f[n - 1])
    BY <2>1, <1>2 DEF Kept
  <2>3. f = [n \in 0 .. Len(c) |-> f[n]]
    BY <2>1
  <2>4. P(f)
    BY <2>2, <2>3
  <2> HIDE DEF P
  <2> QED
    BY <2>4, Zenon
<1> HIDE DEF k
<1>4. Kept(k, c, M)
  <2>1. \A n \in 0 .. Len(c) : k[n] = IF n = 0 THEN <<>> ELSE WithEntry(c, M, n, k[n - 1])
    BY <1>3
  <2> QED
    BY <2>1, <1>2 DEF Kept
<1> QED
  BY <1>1, <1>2, <1>4, KeptIsSeq DEF M

LEMMA ListingIsSeq ==
    ASSUME NEW d \in Dirs, NEW q
    PROVE  Listing(d, q) \in Seq(Entries)
<1> DEFINE s == Listing(d, q)
<1>1. s \in Seq(Entries \cap Matches[q])
  BY ListingMatches
<1> HIDE DEF s
<1>2. Entries \cap Matches[q] \subseteq Entries
  OBVIOUS
<1>3. s \in Seq(Entries)
  BY <1>1, <1>2, SeqMonotonic
<1> QED
  BY <1>3 DEF s

-----------------------------------------------------------------------------
(* The type invariant.                                                     *)

LEMMA PageTypes ==
    ASSUME NEW list \in Seq(Entries), NEW from \in Nat
    PROVE  /\ Page(list, from).entries \in Seq(Entries)
           /\ Page(list, from).total \in Nat
           /\ Page(list, from).offset \in Nat
           /\ Page(list, from).more \in BOOLEAN
<1> DEFINE n == Len(list)
           lo == Smaller(from, n) + 1
           end == Smaller(from + Limit, n)
<1>1. n \in Nat /\ lo \in Nat \ {0} /\ end \in Nat /\ end <= n
  BY BrowserAssumption DEF Smaller
<1>2. \A i \in lo .. end : list[i] \in Entries
  BY <1>1, ElementOfSeq
<1>3. SubSeq(list, lo, end) \in Seq(Entries)
  <2> HIDE DEF lo, end
  <2> QED
    BY <1>1, <1>2, SubSeqProperties
<1>4. Smaller(from, n) \in Nat
  BY <1>1 DEF Smaller
<1> QED
  BY <1>1, <1>3, <1>4 DEF Page

LEMMA FetchTypes ==
    ASSUME TypeOK, NEW from \in Nat, NEW reset \in BOOLEAN, FetchPage(from, reset)
    PROVE  net' \in [Slots -> Requests \cup {None}] /\ loading' \in BOOLEAN /\ err' \in BOOLEAN
<1>1. [dir |-> cwd, q |-> query, offset |-> from, reset |-> reset] \in Requests
  BY DEF TypeOK, Requests
<1> QED
  BY <1>1 DEF FetchPage, TypeOK

LEMMA BrowserTypeStep == TypeOK /\ [Next]_vars => TypeOK'
<1> SUFFICES ASSUME TypeOK, [Next]_vars PROVE TypeOK'
  OBVIOUS
<1>0. Deps \in Dirs \X Queries
  BY DEF TypeOK, Deps
<1>a. Limit \in Nat /\ All \in Queries /\ <<>> \in Seq(Entries)
  BY BrowserAssumption, EmptySeq
<1>b. ASSUME NEW d \in Dirs, Visit(d) PROVE TypeOK'
  BY <1>a, <1>b DEF Visit, Select, TypeOK
<1>1. CASE Effect
  <2>1. FetchPage(0, TRUE)
    BY <1>1 DEF Effect
  <2> QED
    BY <1>0, <1>1, <2>1, FetchTypes DEF Effect, TypeOK
<1>2. CASE Go
  <2>1. PICK i \in DOMAIN entries : Leads[entries[i]] # None /\ Visit(Leads[entries[i]])
    BY <1>2 DEF Go
  <2>2. entries[i] \in Entries
    BY <2>1, ElementOfSeq DEF TypeOK
  <2>3. Leads[entries[i]] \in Dirs
    BY <2>1, <2>2, BrowserAssumption
  <2> QED
    BY <2>1, <2>3, <1>b
<1>3. CASE Up
  <2>1. PICK d \in Above[cwd] : Visit(d)
    BY <1>3 DEF Up
  <2>2. d \in Dirs
    BY <2>1, BrowserAssumption DEF TypeOK
  <2> QED
    BY <2>1, <2>2, <1>b
<1>4. ASSUME NEW q \in Queries, ApplySearch(q) PROVE TypeOK'
  BY <1>4, <1>a DEF ApplySearch, Select, TypeOK
<1>5. CASE Clear
  BY <1>5, <1>a DEF Clear, Select, TypeOK
<1>6. CASE LoadMore
  <2>1. FetchPage(offset + Limit, FALSE)
    BY <1>6 DEF LoadMore
  <2>2. offset + Limit \in Nat
    BY <1>a DEF TypeOK
  <2> QED
    BY <1>6, <2>1, <2>2, FetchTypes DEF LoadMore, TypeOK
<1>7. ASSUME NEW s \in Slots, Receive(s) PROVE TypeOK'
  <2> DEFINE r == net[s]
             p == Page(Listing(r.dir, r.q), r.offset)
  <2>1. r \in Requests
    BY <1>7 DEF Receive, TypeOK
  <2>2. r.dir \in Dirs /\ r.offset \in Nat /\ Listing(r.dir, r.q) \in Seq(Entries)
    BY <2>1, ListingIsSeq DEF Requests
  <2>3. /\ p.entries \in Seq(Entries) /\ p.total \in Nat
        /\ p.offset \in Nat /\ p.more \in BOOLEAN
    BY <2>2, PageTypes
  <2>4. entries \o p.entries \in Seq(Entries)
    BY <2>3, ConcatProperties DEF TypeOK
  <2>5. /\ net' = [net EXCEPT ![s] = None]
        /\ cwd' = r.dir /\ total' = p.total /\ hasMore' = p.more /\ offset' = p.offset
        /\ entries' = IF r.reset THEN p.entries ELSE entries \o p.entries
        /\ loading' = FALSE
        /\ UNCHANGED <<query, err, deps, disturbed>>
    BY <1>7 DEF Receive
  <2> HIDE DEF p, r
  <2> QED
    BY <2>2, <2>3, <2>4, <2>5 DEF TypeOK
<1>8. ASSUME NEW s \in Slots, Fail(s) PROVE TypeOK'
  BY <1>8 DEF Fail, TypeOK
<1>9. CASE UNCHANGED vars
  BY <1>9 DEF vars, TypeOK
<1> QED
  BY <1>1, <1>2, <1>3, <1>4, <1>5, <1>6, <1>7, <1>8, <1>9 DEF Next, User

LEMMA PageTypeStep == WaitInv /\ PageTypeOK /\ [PageNext]_pageVars => PageTypeOK'
<1> SUFFICES ASSUME WaitInv, PageTypeOK, [PageNext]_pageVars PROVE PageTypeOK'
  OBVIOUS
<1>f. FlightOK
  BY DEF WaitInv
<1>v. /\ "on" \in Values /\ "off" \in Values /\ MaxChanges \in Nat
      /\ \A v : Opposite(v) \in Values
      /\ <<>> \in Seq(Values \cup {"sent"})
      /\ \A v \in Values \cup {"sent"} : <<v>> \in Seq(Values \cup {"sent"})
  BY KeyGenPageAssumption DEF Opposite
<1>e. \A i \in DOMAIN flight : flight[i] \in Values \cup {"sent"}
  BY DEF PageTypeOK, HookTypeOK
<1> USE DEF PageTypeOK, HookTypeOK
<1>1. CASE OpenPage
  BY <1>1, <1>v DEF OpenPage, Mount
<1>2. CASE LeavePage
  BY <1>2, <1>v DEF LeavePage, Unmount
<1>3. CASE ToggleEnable
  BY <1>3, <1>v DEF ToggleEnable, hookVars
<1>4. CASE Refresh
  BY <1>4, <1>v DEF Refresh, Load
<1>5. CASE SetAuto
  BY <1>5 DEF SetAuto, hookVars
<1>6. CASE Poll
  BY <1>6, <1>v DEF Poll, Load
<1>7. CASE PutAnswered
  BY <1>7, <1>v DEF PutAnswered, Load
<1>8. CASE PutFails
  BY <1>8 DEF PutFails, hookVars
<1>9. CASE LoadArrives
  <2>1. PICK i \in DOMAIN flight : Arrives(i) /\ enable' = flight[i]
    BY <1>9 DEF LoadArrives
  <2>2. flight' = <<>> /\ flight[i] \in Values
    BY <2>1, <1>e, <1>f, InFlight, RemoveOnly DEF Arrives
  <2> QED
    BY <1>9, <1>v, <2>1, <2>2 DEF LoadArrives, Arrives
<1>10. CASE LoadFailed
  <2>1. PICK i \in DOMAIN flight : LoadFails(i)
    BY <1>10 DEF LoadFailed
  <2>2. flight' = <<>>
    BY <2>1, <1>f, InFlight, RemoveOnly DEF LoadFails
  <2> QED
    BY <1>10, <1>v, <2>1, <2>2 DEF LoadFailed, LoadFails
<1>11. CASE ServerGets
  <2>1. PICK i \in DOMAIN flight : Handled(i, enabled)
    BY <1>11 DEF ServerGets
  <2>2. flight' = <<enabled>>
    BY <2>1, <1>f, InFlight DEF Handled
  <2> QED
    BY <1>11, <1>v, <2>1, <2>2 DEF ServerGets, Handled
<1>12. CASE ServerPuts
  BY <1>12 DEF ServerPuts, hookVars
<1>13. CASE ChangeByOthers
  BY <1>13, <1>v DEF ChangeByOthers, hookVars
<1>14. CASE UNCHANGED pageVars
  BY <1>14 DEF pageVars, hookVars
<1> QED
  BY <1>1, <1>2, <1>3, <1>4, <1>5, <1>6, <1>7, <1>8, <1>9, <1>10, <1>11, <1>12,
     <1>13, <1>14 DEF PageNext

\* Both pages keep to their types, for any directories, filters and page size.
THEOREM SiteTypeCorrect == SiteSpec => []SiteTypeOK
<1>1. SiteInit => SiteTypeOK
  <2> SUFFICES ASSUME SiteInit PROVE SiteTypeOK
    OBVIOUS
  <2>1. TypeOK
    BY BrowserAssumption, EmptySeq DEF SiteInit, Fresh, TypeOK
  <2>2. PageTypeOK
    <3>1. <<>> \in Seq(Values \cup {"sent"})
      OBVIOUS
    <3>2. HookTypeOK
      BY <3>1 DEF SiteInit, PageInit, HookInit, HookTypeOK
    <3>3. "on" \in Values /\ 0 \in 0 .. MaxChanges
      BY KeyGenPageAssumption
    <3> QED
      BY <3>2, <3>3 DEF SiteInit, PageInit, PageTypeOK
  <2> QED
    BY <2>1, <2>2 DEF SiteInit, SiteTypeOK
<1>2. WaitInv /\ SiteTypeOK /\ [SiteNext]_siteVars => SiteTypeOK'
  <2> SUFFICES ASSUME WaitInv, SiteTypeOK, [SiteNext]_siteVars PROVE SiteTypeOK'
    OBVIOUS
  <2>1. [Next]_vars /\ [PageNext]_pageVars /\ page' = page
    BY DEF SiteNext, siteVars, FSStep, KeyGenStep
  <2> QED
    BY <2>1, BrowserTypeStep, PageTypeStep DEF SiteTypeOK
<1> QED
  BY <1>1, <1>2, WaitAlways, PTL DEF SiteSpec

-----------------------------------------------------------------------------
(* The file system page.                                                   *)

LEMMA NoneIsNoRequest == \A r \in Requests : r # None
BY BrowserAssumption

\* A fetch puts one request in flight: where nothing was, it is the only one.
LEMMA Fetches ==
    ASSUME TypeOK, NEW from \in Nat, NEW reset \in BOOLEAN, FetchPage(from, reset)
    PROVE  \E s \in Slots :
             /\ net[s] = None
             /\ net' = [net EXCEPT ![s] =
                          [dir |-> cwd, q |-> query, offset |-> from, reset |-> reset]]
             /\ net'[s] = [dir |-> cwd, q |-> query, offset |-> from, reset |-> reset]
             /\ net'[s] # None
<1>1. PICK s \in Slots :
         /\ net[s] = None
         /\ net' = [net EXCEPT ![s] =
                      [dir |-> cwd, q |-> query, offset |-> from, reset |-> reset]]
  BY DEF FetchPage
<1>2. [dir |-> cwd, q |-> query, offset |-> from, reset |-> reset] \in Requests
  BY DEF TypeOK, Requests
<1> QED
  BY <1>1, <1>2, NoneIsNoRequest DEF TypeOK

\* Nothing ends loading but an answer or a failure, and nothing starts it but a fetch.
LoadInv == loading => ~Idle

LEMMA LoadStep == TypeOK /\ LoadInv /\ [Next]_vars => LoadInv'
<1> SUFFICES ASSUME TypeOK, LoadInv, [Next]_vars PROVE LoadInv'
  OBVIOUS
<1>a. Limit \in Nat
  BY BrowserAssumption
<1>1. ASSUME NEW from \in Nat, NEW reset \in BOOLEAN, FetchPage(from, reset)
      PROVE  LoadInv'
  BY <1>1, Fetches DEF LoadInv, Idle
<1>2. CASE Effect
  BY <1>1, <1>2 DEF Effect
<1>3. CASE LoadMore
  <2>1. offset + Limit \in Nat
    BY <1>a DEF TypeOK
  <2> QED
    BY <1>1, <1>3, <2>1 DEF LoadMore
<1>4. CASE UNCHANGED <<loading, net>>
  BY <1>4 DEF LoadInv, Idle
<1>5. CASE loading' = FALSE
  BY <1>5 DEF LoadInv
<1> QED
  BY <1>2, <1>3, <1>4, <1>5
  DEF Next, User, Go, Up, Visit, ApplySearch, Clear, Receive, Fail, vars

\* FSBrowser.tsx:54: however its requests cross and fail, the page does not say
\* "Loading" when it waits for nothing.
THEOREM NeverStuckLoading == SiteSpec => []QuietIsNotLoading
<1>1. SiteInit => LoadInv
  BY DEF SiteInit, Fresh, LoadInv
<1>2. SiteTypeOK /\ LoadInv /\ [SiteNext]_siteVars => LoadInv'
  <2>1. [SiteNext]_siteVars => [Next]_vars
    BY DEF SiteNext, siteVars, FSStep, KeyGenStep
  <2> QED
    BY <2>1, LoadStep DEF SiteTypeOK
<1>3. LoadInv => QuietIsNotLoading
  BY DEF LoadInv, QuietIsNotLoading, Quiet
<1> QED
  BY <1>1, <1>2, <1>3, SiteTypeCorrect, PTL DEF SiteSpec

\* What is shown are the first pages of the listing of cwd and query.
ShowsFirstPages ==
    /\ entries = SubSeq(ListedNow, 1, Smaller(offset + Limit, Len(ListedNow)))
    /\ total = Len(ListedNow)
    /\ hasMore = (offset + Limit < total)

\* One request is in flight: for this page of cwd and query.
Awaits(from, reset) ==
    \E s \in Slots :
      /\ net[s] = [dir |-> cwd, q |-> query, offset |-> from, reset |-> reset]
      /\ \A other \in Slots : other # s => net[other] = None

\* A page that was not disturbed is about to load a selection, awaits its first
\* page, shows its first pages, or shows them and awaits the next one.
Selected == deps # Deps /\ Idle
First == deps = Deps /\ loading /\ Awaits(0, TRUE)
Showing == deps = Deps /\ ~loading /\ Idle /\ ShowsFirstPages
More == deps = Deps /\ loading /\ hasMore /\ Awaits(offset + Limit, FALSE) /\ ShowsFirstPages

PagesInv == ~disturbed => Selected \/ First \/ Showing \/ More

\* A selection made at rest is one that the effect will see.
LEMMA SelectionSeen ==
    ASSUME NEW d, NEW q, Rendered, Select(d, q), UNCHANGED <<deps, net>>
    PROVE  PagesInv'
BY DEF Rendered, Select, PagesInv, Selected, Deps, Idle

LEMMA AwaitsAfter ==
    ASSUME TypeOK, Idle, NEW from \in Nat, NEW reset \in BOOLEAN, FetchPage(from, reset),
           UNCHANGED <<cwd, query>>
    PROVE  Awaits(from, reset)'
<1> DEFINE r == [dir |-> cwd, q |-> query, offset |-> from, reset |-> reset]
<1>1. PICK s \in Slots : net' = [net EXCEPT ![s] = r]
  BY DEF FetchPage
<1>2. net'[s] = r /\ \A other \in Slots : other # s => net'[other] = None
  BY <1>1 DEF TypeOK, Idle
<1> QED
  BY <1>2 DEF Awaits

\* The answer to the only request is the one it asked for, and the last.
LEMMA AnswerAwaited ==
    ASSUME TypeOK, NEW from \in Nat, NEW reset \in BOOLEAN, Awaits(from, reset),
           NEW s \in Slots, Receive(s)
    PROVE  /\ Idle'
           /\ net[s] = [dir |-> cwd, q |-> query, offset |-> from, reset |-> reset]
<1>1. PICK t \in Slots :
        /\ net[t] = [dir |-> cwd, q |-> query, offset |-> from, reset |-> reset]
        /\ \A other \in Slots : other # t => net[other] = None
  BY DEF Awaits
<1>2. s = t
  BY <1>1 DEF Receive
<1> QED
  BY <1>1, <1>2 DEF Receive, Idle, TypeOK

\* The answer to the request for the page at from, in what it sets.
LEMMA AnswerShows ==
    ASSUME TypeOK, NEW from \in Nat, NEW reset \in BOOLEAN, NEW s \in Slots, Receive(s),
           net[s] = [dir |-> cwd, q |-> query, offset |-> from, reset |-> reset],
           from < Len(ListedNow) \/ from = 0,
           ~reset => entries = SubSeq(ListedNow, 1, from),
           reset => from = 0
    PROVE  ShowsFirstPages' /\ ~loading' /\ deps' = deps /\ Deps' = Deps
<1> DEFINE list == ListedNow
           n == Len(list)
           end == Smaller(from + Limit, n)
<1>1. list \in Seq(Entries) /\ n \in Nat /\ Limit \in Nat
  BY ListingIsSeq, BrowserAssumption DEF ListedNow, TypeOK
<1>2. cwd' = cwd /\ query' = query /\ deps' = deps /\ loading' = FALSE
  BY DEF Receive
<1>3. list' = list
  BY <1>2 DEF ListedNow
<1>4. Smaller(from, n) = from
  BY <1>1 DEF Smaller
<1>5. /\ total' = n /\ hasMore' = (end < n) /\ offset' = from
      /\ entries' = IF reset THEN SubSeq(list, from + 1, end)
                    ELSE entries \o SubSeq(list, from + 1, end)
  BY <1>4 DEF Receive, Page, ListedNow
<1>6. end \in from .. n
  BY <1>1 DEF Smaller
<1>7. entries' = SubSeq(list, 1, end)
  <2>1. CASE reset
    <3>1. from = 0 /\ from + 1 = 1
      BY <2>1
    <3> QED
      BY <1>5, <2>1, <3>1
  <2>2. CASE ~reset
    <3>1. SubSeq(list, 1, from) \o SubSeq(list, from + 1, end) = SubSeq(list, 1, end)
      <4>1. 1 \in 1 .. n + 1 /\ from \in 1 - 1 .. n /\ end \in from .. n
        BY <1>1, <1>6
      <4> HIDE DEF list, n, end
      <4> QED
        BY <1>1, <4>1, ConcatAdjacentSubSeq DEF n
    <3> QED
      BY <1>5, <2>2, <3>1
  <2> QED
    BY <2>1, <2>2
<1>8. (end < n) = (from + Limit < n)
  BY <1>1 DEF Smaller
<1> QED
  BY <1>2, <1>3, <1>5, <1>7, <1>8 DEF ShowsFirstPages, Deps

LEMMA PagesStep == TypeOK /\ PagesInv /\ [Next]_vars => PagesInv'
<1> SUFFICES ASSUME TypeOK, PagesInv, [Next]_vars PROVE PagesInv'
  OBVIOUS
<1>a. offset \in Nat /\ Limit \in Nat /\ offset + Limit \in Nat /\ Len(ListedNow) \in Nat
  BY BrowserAssumption, ListingIsSeq DEF TypeOK, ListedNow
<1>1. CASE Effect
  <2> SUFFICES ASSUME ~disturbed PROVE First'
    BY <1>1 DEF Effect, PagesInv
  <2>1. Idle
    BY <1>1 DEF Effect, PagesInv, Selected, First, Showing, More
  <2>2. Awaits(0, TRUE)'
    BY <1>1, <2>1, AwaitsAfter DEF Effect
  <2> QED
    BY <1>1, <2>2 DEF Effect, First, FetchPage, Deps
<1>2. CASE User /\ ~LoadMore
  BY <1>2, SelectionSeen DEF User, Go, Up, Visit, ApplySearch, Clear
<1>3. CASE LoadMore
  <2> SUFFICES ASSUME ~disturbed PROVE More'
    BY <1>3 DEF LoadMore, PagesInv
  <2>1. Showing
    BY <1>3 DEF LoadMore, Rendered, PagesInv, Selected, First, More
  <2>2. Awaits(offset + Limit, FALSE)'
    BY <1>3, <1>a, <2>1, AwaitsAfter DEF LoadMore, Showing
  <2> QED
    BY <1>3, <2>1, <2>2
    DEF LoadMore, Showing, More, FetchPage, Deps, ShowsFirstPages, ListedNow, Awaits
<1>4. ASSUME NEW s \in Slots, Receive(s) PROVE PagesInv'
  <2> SUFFICES ASSUME ~disturbed PROVE Showing'
    BY <1>4 DEF Receive, PagesInv
  <2>1. ~Selected /\ ~Showing
    BY <1>4 DEF Receive, Selected, Showing, Idle
  <2>2. CASE First
    BY <1>4, <2>2, AnswerAwaited, AnswerShows DEF First, Showing
  <2>3. CASE More
    <3>1. offset + Limit < Len(ListedNow) /\ entries = SubSeq(ListedNow, 1, offset + Limit)
      BY <1>a, <2>3 DEF More, ShowsFirstPages, Smaller
    <3> QED
      BY <1>4, <1>a, <2>3, <3>1, AnswerAwaited, AnswerShows DEF More, Showing
  <2> QED
    BY <2>1, <2>2, <2>3 DEF PagesInv
<1>5. ASSUME NEW s \in Slots, Fail(s) PROVE PagesInv'
  BY <1>5 DEF Fail, PagesInv
<1>6. CASE UNCHANGED vars
  BY <1>6 DEF vars, PagesInv, Selected, First, Showing, More, Deps, Idle, Awaits,
              ShowsFirstPages, ListedNow
<1> QED
  BY <1>1, <1>2, <1>3, <1>4, <1>5, <1>6 DEF Next

\* FSBrowser.tsx: for any listing, filter and page size, and whatever crossed or
\* failed before, what a selection made at rest shows are the first pages of its
\* listing, no entry missing or twice, and 'Load more' says if there is more.
THEOREM SelectionShowsFirstPages == SiteSpec => []FirstPages
<1>1. SiteInit => PagesInv
  BY BrowserAssumption DEF SiteInit, Fresh, PagesInv, Selected, Deps, Idle
<1>2. SiteTypeOK /\ PagesInv /\ [SiteNext]_siteVars => PagesInv'
  <2>1. [SiteNext]_siteVars => [Next]_vars
    BY DEF SiteNext, siteVars, FSStep, KeyGenStep
  <2> QED
    BY <2>1, PagesStep DEF SiteTypeOK
<1>3. SiteTypeOK /\ PagesInv => FirstPages
  <2> SUFFICES ASSUME TypeOK, PagesInv, Quiet, ~disturbed PROVE ShowsFirstPages
    BY DEF SiteTypeOK, FirstPages, ShowsFirstPages
  <2>1. ASSUME NEW from \in Nat, NEW reset \in BOOLEAN, Awaits(from, reset) PROVE FALSE
    <3>1. PICK s \in Slots :
             net[s] = [dir |-> cwd, q |-> query, offset |-> from, reset |-> reset]
      BY <2>1 DEF Awaits
    <3>2. net[s] \in Requests
      BY <3>1 DEF TypeOK, Requests
    <3> QED
      BY <3>2, NoneIsNoRequest DEF Quiet, Idle
  <2>2. offset + Limit \in Nat
    BY BrowserAssumption DEF TypeOK
  <2> QED
    BY <2>1, <2>2 DEF PagesInv, Selected, First, Showing, More, Quiet, Rendered
<1> QED
  BY <1>1, <1>2, <1>3, SiteTypeCorrect, PTL DEF SiteSpec
=============================================================================
