# kuard in TLA+

kuard is a demonstration server for Kubernetes: one Go process that answers
HTTP requests with its environment, its file system, its memory, two health
probes, a key generation workload and a queue service on NATS JetStream, and a
Next.js user interface for all of these. This directory holds TLA+ modules of
the parts that keep state or order events, the TLC runs that check them and
proofs about them. `PROJECT.json` lists the components, the runs, the mutants
each property is tested with, the source lines of every definition, the hazards
and the theorems.

    tlc -config MemQ_safety.cfg MCMemQ      # likewise for the other .cfg files
    tlapm MemQProofs.tla                    # likewise for the other *Proofs modules

## 1. Inventory

| Component | State | Operations | What is hard | What makes it correct |
|---|---|---|---|---|
| MemQ server, `pkg/memq/server` | `nb.queues` (map of counters) under an RWMutex; streams and messages in JetStream | create, delete, drain, enqueue, dequeue, stats | the map and the streams are two systems updated in turn; calls of JetStream under and outside the lock; lost answers; restarts; a nil backend | map and streams agree; it keeps what at-least-once queues promise; accepted messages are not lost; nothing is handed out twice; counters match; everybody is answered |
| MemQ client, `pkg/memq/client` | none | one function per operation | its URLs have to be those of the server | each request arrives at its function |
| keygen, `pkg/keygen` | `kg.config`, `kg.cancelFunc`, history, gauge, workload goroutines | PUT and GET of the configuration, local workload, MemQ worker | `kg.config` is written without `kg.mu`; restarts race with outputs, timers, limits and late answers; `os.Exit` | no workload escapes cancellation; configuration, gauge and workload agree; limits hold; cancelled workloads end |
| debugprobe, `pkg/debugprobe` | `FailNext`, `lastID`, history of two probes | PUT of the configuration, probe | sequences of PUTs and probes at zero and below; the bounded history | fails as often as told; the history is a gapless window |
| file system browser, `web/components/FSBrowser.tsx` | React state of one page | go, up, filter, clear, load more, answers | requests are neither numbered nor aborted; effects run after renders; one loading flag | at rest it shows the listing it names |
| fsapi, `pkg/fsapi` | none | list a directory by page and filter | the ends of pages | pages cover the listing |
| router, `pkg/app` | the list of routes, fixed after start | match a request | order of registration, wildcards, four prefixes, UI fallback | a route is reached by its requests |
| memory, `pkg/memory` | `leaks` | allocate, clear | appended to and cleared without a lock; a bad size | what was answered for stays allocated; a clear frees everything |
| dnsapi, `pkg/dnsapi` | none | look a name up in the domains of the search list | exchanges that fail or time out one by one | the first name with an answer decides |
| start and shutdown, `cmd/kuard`, `pkg/app/config.go` | signal context, `http.Server` | load, serve, shut down | a signal at any moment; requests that run or begin while it shuts down; a port that is taken | a signal ends it; shutting down drains: requests come to an end and no handler is left halfway |
| KeyGen page and `useJSON`, `web/` | React state, requests in flight | load, reload, poll, toggle, leave | reloads abort each other; polls cross PUTs; others change the server | at rest it shows what is configured, and says so only then |
| other pages, `web/` | React state | requests | - | only their requests are modelled |
| env, version, sitedata, htmlutils, apiutils | none | functions of request and environment | - | not modelled: stateless |

How they interact: the router calls a handler of a component in a goroutine per
request; the handlers share the component's state under its mutex. The keygen
worker calls the MemQ server through the client over HTTP, by the address it is
configured with. The pages call the API by `fetch`. The MemQ server calls
JetStream, which outlives the process. A finished keygen workload may end the
process and everything in it, as may a signal; before it serves, the process sets
the configuration of the probes.

## 2. Modules

`JetStream` (external, what `nats_backend.go` relies on), `QueueService` (abstract) <- `MemQ` <- `MCMemQ`, `MemQProofs` <- `MemQServiceProofs`
`History` (the bounded history keygen and debugprobe both keep) <- `KeyGen`, `Probe`; `HistoryProofs` holds its lemmas
`KeyGen` <- `MCKeyGen`, `KeyGenProofs`
`Process` <- `Memory`, `DNS`; these and `Probe` <- `Kuard` <- `MCKuard`, `KuardProofs`
`UseJSON` <- `KeyGenPage`; this and `Browser` <- `Site` <- `MCBrowser`, `SiteProofs`
`Router` <- `MCRouter`, `RouterProofs`
`Induction` (what proofs need of numbers up to a bound) <- `SiteProofs`, `RouterProofs`

An operator whose comment says "Mutant" is a plausible mistake in the
definition that follows it. No specification uses it; a run with the mutant in
place of the definition violates the property `PROJECT.json` pairs it with.

### MemQ and JetStream

A handler `h` is a slot for a goroutine of net/http; `pc[h]` is where it is:
before a lock operation, before a call of JetStream, before an atomic add. What
lies between two of these is one step, since no other goroutine can see it.

| Code | Model |
|---|---|
| `nb.mu.Lock()` | `AnnounceWriter` keeps new readers out (Go's RWMutex prefers a waiting writer), `EnterWriter` enters after the last reader and does the lookup of CreateQueue or DeleteQueue |
| `RLock`, lookup, `RUnlock` | `LookUp`: one step, nothing else happens under that lock; `live` says whether the `*qStats` it returned is still the registered one |
| CreateQueue | `AddStream`, `Register` (also `Register` after "already in use") |
| DeleteQueue | `DeleteStream`, `Unregister` |
| DrainQueue | `DrainInfo`, `Purge` |
| PutMessage | `Publish`, `CountPut` |
| GetMessage | `Subscribe`, `Fetch`, `Ack`, `CountGet` |
| Stats | `BeginStats`, one `StatsInfo` per queue in any order (Go's map order), `EndStats` |
| an empty queue parameter, a nil backend | `RefuseEmptyName`, `PanicOnNilBackend` (the panic is recovered by net/http, the connection closed: "aborted") |

A call of JetStream may stay unanswered (`MaxFaults`): it was executed, or it
is in `late` and will be executed or lost, also after the handler has answered
and after a restart. `Crash` kills the process in any state; streams and late
requests survive. `Redeliver` is AckWait. Bodies are identities, each enqueued
once, so that a message can be followed; message ids, time stamps, JSON and the
wording of errors are left out. `accepted`, `handouts` and `cleared` are history
variables no guard reads.

Assumed: AckWait (30 s) does not pass between a Fetch and the Ack that follows
it at once; a consumer delivers ready messages in any order (more than JetStream
does); a durable consumer exists when its stream does, and one deleted with its
stream fails a Fetch. `Close` is never called by the program.

`QueueService` says what is promised without locks, streams or faults: a queue
owes a message from the moment it is stored until whoever took it confirms, or
somebody asked to drain or delete that queue; delivery is at least once. `MemQ`
instantiates it with `open` = the queues that have a stream, `sent` = what
JetStream was ever given, `owed[q]` = what is stored for q and not acknowledged,
`taking[h]` = what a handler fetched and has not answered with. Fetch is Take,
the Ack that arrives is Confirm, CountGet (where the handler answers) is HandOut,
CountPut is Accept; a late Publish, Purge or DeleteStream is a Put, Drain or
Delete of its own; everything else stutters. The entry in `nb.queues` is not part
of the promise, so that a wedged name is simply not open.

### KeyGen and History

`BeginPut`, `WriteField`, `Restart`, `ChooseMode`, `Spawn` and `Get` are a PUT.
`LoadConfig` assigns `kg.config` without `kg.mu`, so the assignment is one step
per field and two PUTs may mix; `Restart` holds the lock but reads
`kg.config` in three steps (Enable, the two MemQ strings, the copy), between
which another PUT may write. Each field is written whole: a string is a
boolean here (empty or not), so that the tearing of one string's pointer and
length, which the race would also allow, is not modelled. A workload goroutine
goes through `Begin`, `Check` (the select on context and timer: if both are
ready either branch may be taken), `Limit`, `Generate` (with `itemDone`), or
`Dequeue`, `React` and `Wake` for the MemQ worker, and ends by `Stop` or `Exit`.
`Dequeue` is the answer of the server: an item, an empty queue, an error, or none
ever; `answer` keeps it until the end of that pass of the loop. The slots of
`Workers` are a bound: a `Restart` that starts a workload (`FreeSlot`) waits until
one of those it cancelled has ended, unless a slot is free.
`Record` and `Succ` are the history with its limit and the wrap-around of int
(`IntModulus`). Keys, log lines, the Prometheus counter and the flags are left
out, and `num`, `timed` stand for NumToGen and a positive TimeToRun.

### Probe, Memory, DNS and the process that serves them

`Probe`: `SetConfig` and `Handle`; both run under `p.mu`, so each is one step.
The time of an entry is left out.

`Process` is `main` and the `http.Server`. `main` goes from `boot` over `load`
and `wait` to `shutdown` and `exited`; `Signal` kills before `NotifyContext` and
is remembered after it; `Listen` succeeds or fails; a connection is new, idle or
active. Shutdown closes the listener and what is idle and waits for the rest, on
which requests may still begin, counted in `late`; after five seconds (`Deadline`)
it closes them. A connection counts from `Accept` on: that net/http registers it a
few instructions after the kernel handed it over, so that a Shutdown in between
would not see it, is left out.
`Kill` is SIGKILL or the kernel, `WorkloadExit` the `os.Exit` of a keygen
workload. The binding of flags to names and `App.Run`, which nobody calls, are
left out.

`Memory`: an append reads the slice header and computes another (`AppendLeak`),
then stores it (`Store`); a clear stores an empty one. A header is the number of
allocations it keeps. Two stores that cross may leave a header made of words of
both: `torn`, from which an append may read anything up to `MaxLeaks`. Sizes
that are missing, negative or no number go through `NoAlloc`, or append an
allocation of nothing. The bytes, and the status, are left out.

`DNS`: a lookup is given what the server would say to each of its names
(`zone`); `Exchange` asks for the next one, `GoesOn` is the condition of the
loop. Messages belong to the library.

`Kuard` composes them: `LoadConfig` sets the probes before the server starts, a
request occupies its connection from `Begin` to `Answer` (or `Abort`, a recovered
panic), and the end of the process takes everything with it. All of this state is
in the process, so there is no restart: another process is another behaviour from
`KuardInit`. The three APIs share nothing but the process; `api` picks the one the
clients of a behaviour use, which keeps the state space a sum, not a product.

### Browser

One variable per useState the requests touch. `deps` is what React remembers of
the effect's last run, `net` the requests in flight, which are answered in any
order or fail. A user acts on what is rendered (`Rendered`: its effect has run);
answers may come before. `Listing` (the filter, a recursive
function over the entries) and `Page` are the second half of handleList. Its
parsing of limit and offset, which the browser always sends as they have to be, and
the error of ReadDir (a request that fails, in the browser) are left out. The file
system does not change, and the sort order of the table, which the browser applies to
whatever entries it has, is left out.

### UseJSON, KeyGenPage and Site

`UseJSON` is the hook: `flight` holds the requests that were not aborted, each
`"sent"` or the answer the server gave when it handled it, so that an answer can
be out of date when it arrives. `Load` is abort, `setLoading`, fetch. React runs a
render and its effects before the next event, so a step is one event. `KeyGenPage`
adds the button (`ToggleEnable`, shown before it is put), the PUT and the reload
after its answer, the poll, `ServerGets` and `ServerPuts`, and a `ChangeByOthers`,
which also stands for a PUT of this page that is handled after the page was left
or gave it up. Only `enable` of the configuration is kept. `Site` mounts one page
at a time; its behaviours pick the file system or the KeyGen page, which share no
state.

### Router

`AppRoutes` is the list NewApp builds, `Look` the loop of ServeHTTP, `Client`
and `PageCalls` the requests of the MemQ client and of the pages with the
handler each is meant for. A path is the sequence of its segments, on which a
pattern `base/*name` matches what is longer than its base.

## 3. Runs

| Run | Checks | Instance |
|---|---|---|
| MemQ_safety | TypeOK, EachQueueHasItsStream, StatsSeesRegisteredQueues, NoAcceptedMessageLost, CountersMatchTraffic, MapChangesExclusively | 2 handlers, 2 queues, 2 messages, all operations, no faults |
| MemQ_faults | NoAcceptedMessageLost, HandedOutOnce, AckedMeansHandedOut, WedgedUntilRestart, ImplementsService (refinement) | 2 handlers, 1 queue, 1 message, NATS reachable or not, 1 unanswered call, 1 restart |
| MemQ_answers | EveryRequestAnswered (liveness) | 3 handlers, 1 queue, create, delete, put, stats |
| MemQ_alias (violation) | EachQueueHasItsStream | 2 queue names, 1 stream name |
| KeyGen_puts | OnlyOneLive, SettledConfig | 2 PUTs, 2 workloads, local, MemQ or none, without limits |
| KeyGen_workers | TypeOK, OneLateKey, CompleteAtExit, HistoryInOrder | 1 PUT, 2 workloads, counted, timed or MemQ with exit; history of 2, ids modulo 4 |
| KeyGen_live | LimitedWorkloadEnds, CancelledEnds (liveness) | 1 PUT, 2 workloads, counted or MemQ, without exit (timed ones: KeyGen_workers, safety only) |
| Probe | KuardTypeOK, FailsAsTold, HistoryInOrder, ShutdownDrains, LeaksAsAsked, FirstAnswerDecides, SignalEndsProcess (liveness) | the whole of `Kuard`: 2 connections; failNext of -1, 0, 1, 2, 4, history of 3, ids modulo 8; 3 allocations; 2 search domains |
| Browser_pages | SiteTypeOK, FirstPages, QuietIsNotLoading, LoadingMeansWaiting, SynchronizedAtRest, LoadsSettle, AutoCatchesUp (liveness) | `Site`: a directory of 5 entries and one of 3, pages of 2, 2 filters, 2 requests in flight; 2 changes by others |
| Browser_filter (violation) | FilteredAsTold | the same |
| Router_table | TypeOK, APIRoutesWin, OwnRouteWins, VariantsAlike, PageCallsArrive | all prefixes, methods and ways to serve the UI; each path of the table, one step below it, and some strange ones |
| Router_client (violation) | ClientReachesServer | the same with one variant |

Why the bounds are enough. *MemQ*: lock and map bring handlers in conflict by
twos, so two handlers meet every pair of operations at every pair of steps; two
queues show what an operation does to another queue, two messages show two
enqueues or dequeues that update one counter. Three handlers are needed where
two may keep out a third, which is the liveness run; a drain or a dequeue uses
the lock as an enqueue does. One fault and one restart may fall anywhere,
in either order. The safety of map, lock and streams is proved for any number.
*KeyGen*: two PUTs are the least that mix, and two workloads the least of which
one is replaced while it runs, so that a `cancelFunc` could be overwritten; three
configurations differ in the two fields that choose between the modes. The
history has a full and a wrapped-around state. *Kuard*: every sign, zero, one, several of failNext; two
connections let every pair of memory requests cross, and one be at work while the
other is closed; two search domains give three names, one to hide and one to hide it
behind (three connections with one domain were run too and agree). *Site*: the
page needs one change by others to be wrong and one more while it recovers; a
listing of three pages and one of two, of which the last is short; two requests
may cross, and a third selection may be made while they do. `MaxShown` only
stops a list that could grow for ever. *Router*: finite as it is.

`CHECK_DEADLOCK FALSE` is set for KeyGen and Probe, where `os.Exit` ends the
process, and for Router, where a routed request is done.

Fairness. *MemQ*: a handler that can move does, since the Go scheduler is fair
and every call of JetStream ends with a timeout; strong fairness of the two lock
operations, since sync.Mutex hands over to a waiter after a millisecond and
Unlock lets the waiting readers in before another writer. Clients owe nothing.
*KeyGen*: strong fairness of goroutines that wait for `kg.mu` for the same
reason, and timers fire; the answer of the MemQ server owes nothing, since the
client sets no timeout, which is why CancelledEnds excepts a worker that waits
for it for ever. *Kuard*: main goes on and its timer fires; handlers owe nothing,
since an allocation takes as long as its size, which is what makes
SignalEndsProcess depend on the deadline. *Site*: in the file system page requests
are answered or fail, and React runs its effects. In the KeyGen page the timer of
the poll fires; strong fairness of handling a load and of its answer says that
not every poll comes too early for both. A server that is always slower than
2.5 seconds is thereby excluded, and such a page would indeed never show
anything, since every poll aborts the load before it. Users owe nothing.

## 4. What the runs show

That hold:

* The lock discipline of MemQ is right: while calls are answered, a registered
  queue has its stream, Stats never walks a changing map, no request waits for
  ever, and the counters of a queue that is not deleted lose no update although
  they are reached through a pointer used after RUnlock.
* An accepted message stays until its own queue is drained or deleted, through a
  restart and an unanswered call. Without an unanswered call no message is
  handed out twice (the lost Ack is what breaks this); without a restart an
  acknowledged message was answered (a kill between Ack and answer loses it).
* A DeleteStream that is executed but not answered leaves a name that can
  neither be created nor deleted until a restart: WedgedUntilRestart states it
  as the behaviour it is.
* However two LoadConfigs mix, the workload that runs in the end is the one of
  `kg.config` and the only one not cancelled. A workload makes at most one key
  after its cancellation, and the process only exits for a complete workload, never
  on an error of the MemQ server - but it may be one that was cancelled while its
  timer fired.
* A browser at rest shows the first pages of what was selected at rest, whatever
  crossed before.
* MemQ on JetStream implements QueueService, with unanswered calls, late
  requests, redeliveries and restarts.
* However probes, PUTs, signals and kills interleave, a probe fails as often as
  told from LoadConfig on. Once main has called Shutdown a connection gets one more
  request at most, a graceful end leaves no handler halfway, and a signal ends the
  process whatever its handlers and its listener do.
* The unlocked `leaks` is exact while requests do not overlap, and after a clear
  that runs alone whatever raced before; overlapping requests lose allocations.
* The KeyGen page shows what is configured whenever nothing is on its way and
  nothing was missed, and a page that polls recovers from anything missed.
* No wildcard hides a route, and the pages' requests arrive.

That do not hold (runs that end in a violation, and findings):

* **Router_client**: the client sends `/queues/<queue>/dequeue`, the server
  routes `/queues/dequeue?queue=`. Every request of the client but Stats is
  answered 404, so the MemQ mode of keygen never gets an item.
* **MemQ_alias**: `streamName` upper-cases, `subject` does not. Of two names that
  differ in case the second is registered without a stream for its subject.
* **Browser_filter**: an answer for an older filter that comes last stays on the
  page under the new one.

Also met while modelling, and not among the runs: with a nil backend every queue
operation panics instead of answering an error (`README.md:71`); a Fetch whose
deadline passes while a message is ready is answered 204; two drains at a time
count a message twice; `keys_generated_total` counts every line of output, the
start line too (`keygen.go:121`); applying the filter already set empties the
browser's list for good (`FSBrowser.tsx:70`); 'Load more' beside another request
mixes two listings; the page of KeyGen has the path of its API. A PUT of the
KeyGen page that fails leaves the button toggled under "Config synchronized" until
the next load, and a toggle puts the whole configuration it last loaded, so that
it undoes what others changed in other fields. A port that is taken leaves a
process that serves nothing and waits for a signal (`main.go:53`); a second signal
is swallowed while the first shutdown waits. A size that is no number is
answered 400 and allocated all the same (`memory/api.go:65`). An exchange that
fails hides the later names of a lookup (`dnsapi/api.go:107`), and a resolv.conf
without a server panics. `basePath` of a probe is never set (`probe.go:58`), and
`offset + limit` may overflow (`fsapi/api.go:105`), which no request of the
browser does. `App.Run` with TLS and the `TemplateGroup` of htmlutils are used
nowhere.

## 5. Proofs

Each theorem is `Spec => []P`, `Spec => [][A]_vars` or an implementation (`Implements`,
`KuardRunsProbe`) for all values of the constants, under the assumptions named in
the modules (`NamesAssumption`, `MemQAssumption`, `KeyGenAssumption`,
`HistoryAssumption`, `FailNextsAssumption`, `KuardAssumption`, `DNSAssumption`,
`BrowserAssumption`, `KeyGenPageAssumption`, `ValuesAssumption`,
`RouterAssumption`, `VariantsAssumption`); `Implements`, `AcceptedStays`,
`StreamsMatch` and `WedgedStays` also assume `Injective`.

* **MemQProofs.** `TypeInv` adds to TypeOK what a handler's call record holds at
  each pc (`CallOK`: without it the types of queue and message arguments are
  not inductive). `LockInv` says which pcs hold the lock, that the writer is
  alone after it entered, and that readers are exactly the handlers in the loop
  of Stats. From these: `TypeCorrect`, `MapExclusive`, `StatsSafe`. `StreamsMatch`
  adds `StreamInv`, that a handler between AddStream and Register finds its
  stream there, for names that ToUpper keeps apart (`Injective`, the condition
  MemQ_alias shows to be needed) while there is no fault and no restart. `WedgedStays`
  is an action property: that a wedged name is not repaired by CreateQueue needs
  `CreateInv`, that a handler between EnterWriter and Register has found its queue
  not registered, and that a step of one handler changes the call of no other
  (`OwnAction`).
* **MemQServiceProofs.** Six invariants on top of TypeInv. `AskInv`: whoever
  drains or deletes, handler or late call, was asked to. `PutInv`: a message that
  is still to be published is carried by one request or one late call, and is
  unsent. `KeepInv`: a message is only removed by a drain or delete of its queue,
  and an accepted one was sent; from it `AcceptedStays`, for Injective names.
  `HandInv`: while all calls are answered a message is held by one handler at
  most, and not handed out before it is acknowledged; from it `HandedOnce`.
  `AckedHandedOut` is inductive beside PutInv. What each call of JetStream does is
  stated once (`ServeEffect`, `LateEffect`) and used for all of them.
  `FollowInv`: while all calls are answered, the counters a handler looked up are
  still those in the map unless somebody asked to delete the queue, although it
  holds no lock any more. `CountInv`: a counter and the handlers that stand
  before their atomic add make the number of messages published or settled, by
  cardinalities of finite sets; from these `CountersMatch`.
  `Implements`: Spec => ImplementsService for Injective names. `CallImplements` maps
  what JetStream executes, for a handler or late; `ServeImplements` a step of a
  handler; `ServiceStep` all of Next, a restart and a redelivery among them. The
  guards of the abstract steps come from the invariants: a Put needs an unsent message (PutInv), a Drain or Delete somebody who asked
  (AskInv), an Accept a message that was sent (KeepInv).
* **KeyGenProofs.** `TypeInv` adds HistoryInOrder, which bounds the history.
  `LockInv`: a goroutine is between the halves of Restart exactly while it holds
  `kg.mu`, and the old workload is cancelled then. `ConfigInv` says of every
  state without a write or a pending Restart what SettledConfig says of quiet
  ones; it is needed because the last Restart may still be about to spawn.
  `WorkloadInv` bounds what a workload counts at each pc by its limit and says that
  it passes the check of its context at most once after it is cancelled; that a
  worker of a queue has no timer and is only led to its exit by an answer is part of it.
  Results: `TypeCorrect`, `NoWorkloadEscapes`, `ConfigSettles`, `KeyGenHistory`,
  `LateKey`, `ExitIsComplete`.
* **HistoryProofs.** `RecordShape`, `RecordWindow`, `SuccType`, `ModSmall`: what an
  append with a cut does to a window of consecutive ids modulo the width of int.
* **KuardProofs.** First the probe alone: `IInv` = TypeOK, HistoryInOrder,
  FailsAsTold and `KeepsSign` (failNext never crosses zero), with the results
  `ProbeFailsAsTold`, `ProbeHistory`. `KuardRunsProbe`: every step of
  the process is a step of the probe or none of its business, so that
  `KuardFailsAsTold` follows from the probe alone. `LeaksInv`: while no two requests overlapped, one handler at most is at
  work, nobody crosses its store, and what it computed is one more than what is
  there. `LookupInv`: a lookup has asked a prefix of its names, all but the last of
  which were empty. `BusyInv` ties the state of a handler to the connection it
  serves. `DrainInv` adds to ShutdownDrains why it stays true: while Shutdown waits
  the listener is not open, and a connection that had its request since then is at
  work or gone; that none at work means no handler halfway is BusyInv. Results:
  `KuardTypes`, `Drained`, `LeaksKept`, `FirstDecides`.
* **SiteProofs.** `WaitInv`: abort leaves one request in flight at most, and a page
  that is left none. `SyncInv`: an answer on its way is what is configured, unless a
  PUT was handled, whose answer will abort it; this is why the button is disabled
  while it saves. Of the file system page `LoadInv`: it says it is loading only
  while a request is in flight. `PagesInv`: unless it was disturbed, a page is
  about to load a selection, awaits its first page, shows its first pages, or
  shows them and awaits the next one; that an answer fits what it is put behind is
  what the four cases are for. That a listing is a sequence of entries is an
  induction over the recursion of its filter. Results: `LoadingIsWaiting`,
  `RestIsSynchronized`, `SiteTypeCorrect`, `NeverStuckLoading`,
  `SelectionShowsFirstPages`.
* **RouterProofs.** `FirstFit`, the invariant of the loop: no route before the
  current one fits. `TableSplit`: the table is the routes of the components, below
  every prefix, and then those of the user interface; for any number of variants
  it is an induction over the loop of NewApp. `SameName` and `ApiAgrees`: a path's
  first name tells the component, and the routes of one component that fit the same
  request have one handler, so that their order does not matter. `AtMatches`: a
  route below a prefix matches what the route matches, below the prefix. Results:
  `TypesKept`, `UIComesLast`, `OwnRouteAnswers`, `VariantsServeAlike`,
  `CallsReachHandlers`. `VariantsAssumption`, that no component and no file is named
  like a variant, is what the names "a", "b" and "c" of `app.go` fulfil, and is
  needed: the routes of a variant "static" would be behind the wildcard of static/.
* **Induction.** `LeastOf`, `UpTo` and `Recursion`: a least element, induction, and
  that a function defined by recursion exists, each with a set or a function where
  the library has an operator as its parameter. They rest on the well-foundedness
  of < (WellFoundedInduction).

Every invariant and every action property of a passing run is stated by one of
these theorems. Only model-checked: EveryRequestAnswered, LimitedWorkloadEnds,
CancelledEnds, SignalEndsProcess, LoadsSettle and AutoCatchesUp (liveness is
beyond the prover, with its fairness and ENABLED), and the three violations,
which are single behaviours. The prover takes the strings of the model for
values it knows nothing of, which is why RouterProofs names the strings of the
table (`Word`, `Handlers`).

## 6. Plan

Done, most important behaviour first: JetStream and MemQ with its lock and
stream proofs; History, KeyGen and Probe with their proofs; Browser; Router;
QueueService with the proof that MemQ implements it; Process, Memory, DNS and
their composition in Kuard; UseJSON, KeyGenPage and Site; the proofs of the
counters, of the wedged name, of the file system page and of the table of routes.

1. `MemQClient` composed with KeyGen's worker and the routed server, so that a
   404 is what the worker gets rather than any answer.
2. The abstract specification of a probe, which knows only how often it still
   fails, and the proof that Probe implements it.
3. What a page is answered by a server that changes its listing between pages.

Not modelled, and not planned: the stateless packages (env, version, sitedata,
htmlutils, apiutils), the middleware and page context of `app.go`, which read a
request and write an answer, and the build files.
