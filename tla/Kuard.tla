------------------------------- MODULE Kuard -------------------------------
(***************************************************************************)
(* The kuard process and what its handlers do: pkg/app/config.go, which    *)
(* configures the components before the server starts, and the requests    *)
(* of the probe, memory and DNS APIs, served by one goroutine for each     *)
(* connection until the process ends.  All of their state is in the        *)
(* process, so that another process starts where KuardInit does.           *)
(***************************************************************************)
EXTENDS Probe, Memory, DNS

CONSTANTS
    Configs,    \* the values of --readiness-fail-next, a subset of FailNexts
    Apis        \* the APIs clients use, one in a behaviour: they share no state

ASSUME KuardAssumption ==
    /\ Configs \subseteq FailNexts
    /\ Apis \subseteq {"probe", "memory", "dns"}

VARIABLE api  \* the API that the clients of this behaviour use

kuardVars == <<vars, processVars, memoryVars, lookup, api>>

\* The types, and that a component has state of a handler only while net/http
\* has a request on its connection, or the process is gone: no handler goes on
\* after it answered, and none is answered for twice.
KuardTypeOK ==
    /\ TypeOK
    /\ ProcessTypeOK
    /\ MemoryTypeOK
    /\ DNSTypeOK
    /\ api \in Apis
    /\ main # "exited" =>
         \A c \in Conns : at[c] # "none" \/ lookup[c] # NoLookup => conn[c] = "active"

KuardInit ==
    /\ Init
    /\ ProcessInit
    /\ MemoryInit
    /\ DNSInit
    /\ api \in Apis

-----------------------------------------------------------------------------
(* main and its environment.                                               *)

UnchangedComponents == UNCHANGED <<vars, memoryVars, lookup, api>>

\* LoadConfig sets the probes' configuration, then main starts the server.
LoadConfig ==
    /\ Serve
    /\ \E n \in Configs : SetConfig(n)
    /\ UNCHANGED <<memoryVars, lookup, api>>

Main ==
    /\ Notify \/ BadConfig \/ BeginShutdown \/ Graceful
    /\ UnchangedComponents

Timer == Deadline /\ UnchangedComponents

Server ==
    /\ Listen \/ \E c \in Conns : CloseIdle(c)
    /\ UnchangedComponents

Environment ==
    /\ Signal \/ Kill \/ WorkloadExit \/ \E c \in Conns : Accept(c) \/ HangUp(c)
    /\ UnchangedComponents

-----------------------------------------------------------------------------
(* Requests.                                                               *)

\* A GET of the probe, a PUT of its configuration; a GET of the status and a PUT
\* of no JSON change nothing.
ServeProbe(c) ==
    /\ \/ Begin(c) /\ UNCHANGED vars
       \/ Answer(c) /\ (Handle \/ (\E n \in FailNexts : SetConfig(n)) \/ UNCHANGED vars)
    /\ UNCHANGED <<memoryVars, lookup, api>>

Request(c) ==
    \/ api = "probe" /\ ServeProbe(c)
    \/ api = "memory" /\ ServeMemory(c) /\ UNCHANGED <<vars, lookup, api>>
    \/ api = "dns" /\ ServeDNS(c) /\ UNCHANGED <<vars, memoryVars, api>>

KuardNext ==
    \/ LoadConfig \/ Main \/ Timer \/ Server \/ Environment
    \/ main # "exited" /\ \E c \in Conns : Request(c)

KuardSpec == KuardInit /\ [][KuardNext]_kuardVars

\* main and its timer run.  Handlers owe nothing: an allocation takes as long as
\* its size, a queue operation waits for a lock.
KuardLiveSpec == KuardSpec /\ WF_kuardVars(LoadConfig) /\ WF_kuardVars(Main) /\ WF_kuardVars(Timer)

-----------------------------------------------------------------------------
(* Properties.                                                             *)

\* main.go:63: a process that ends because Shutdown returned in time leaves no
\* handler halfway, neither an allocation that is made and not stored nor a lookup
\* that is not told, though requests begin on open connections after the signal.
\* And there is an end to them: a connection gets one more at most, also when the
\* goroutine of ListenAndServe runs only after main has called Shutdown.
ShutdownDrains ==
    /\ exit = "graceful" => \A c \in Conns : at[c] = "none" /\ lookup[c] = NoLookup
    /\ \A c \in Conns : late[c] <= 1
=============================================================================
