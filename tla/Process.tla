------------------------------ MODULE Process ------------------------------
(***************************************************************************)
(* The life of the kuard process: cmd/kuard/main.go, from the first        *)
(* instruction of main to os.Exit, with the http.Server it starts.  The    *)
(* server (net/http) runs one handler at a time per connection; what a     *)
(* handler does is left to the modules of the components.                  *)
(***************************************************************************)
EXTENDS Naturals

CONSTANT Conns  \* connections of clients

VARIABLES
    main,       \* where main is
    signalled,  \* ctx is done: SIGINT or SIGTERM arrived
    listener,   \* the goroutine of ListenAndServe and its socket
    conn,       \* conn[c]: the state net/http has of connection c
    exit,       \* how the process ended
    \* history, read by no action
    late        \* late[c]: the requests that began on c after Shutdown was called

processVars == <<main, signalled, listener, conn, exit, late>>

ProcessTypeOK ==
    /\ main \in {"boot", "load", "wait", "shutdown", "exited"}
    /\ signalled \in BOOLEAN
    /\ listener \in {"none", "starting", "open", "failed", "closed"}
    /\ conn \in [Conns -> {"none", "new", "idle", "active"}]
    /\ exit \in {"none", "graceful", "deadline", "panic", "killed", "workload"}
    /\ late \in [Conns -> Nat]

ProcessInit ==
    /\ main = "boot"
    /\ signalled = FALSE
    /\ listener = "none"
    /\ conn = [c \in Conns |-> "none"]
    /\ exit = "none"
    /\ late = [c \in Conns |-> 0]

-----------------------------------------------------------------------------
(* main.                                                                   *)

\* The process ends, and with it everything that runs in it.
End(how) ==
    /\ main' = "exited"
    /\ exit' = how
    /\ conn' = [c \in Conns |-> "none"]
    /\ listener' = "none"
    /\ UNCHANGED <<signalled, late>>

\* signal.NotifyContext: from now on a signal is remembered.
Notify ==
    /\ main = "boot"
    /\ main' = "load"
    /\ UNCHANGED <<signalled, listener, conn, exit, late>>

\* LoadConfig succeeded: the server is built and its goroutine started.
Serve ==
    /\ main = "load"
    /\ main' = "wait"
    /\ listener' = "starting"
    /\ UNCHANGED <<signalled, conn, exit, late>>

\* UnmarshalExact failed.
BadConfig == main = "load" /\ End("panic")

\* Mutant: the process ends as soon as it is told to.
ShutdownAtOnce == main = "wait" /\ signalled /\ End("graceful")

\* ctx.Done: Shutdown closes the listener first.
BeginShutdown ==
    /\ main = "wait"
    /\ signalled
    /\ main' = "shutdown"
    /\ listener' = IF listener = "open" THEN "closed" ELSE listener
    /\ UNCHANGED <<signalled, conn, exit, late>>

\* Shutdown returns nil: no connection is left.
Graceful ==
    /\ main = "shutdown"
    /\ \A c \in Conns : conn[c] = "none"
    /\ End("graceful")

\* Mutant: Shutdown is given a context without a deadline.
DeadlineMissing == FALSE /\ End("deadline")

\* The five seconds are over: Close cuts what is left.
Deadline == main = "shutdown" /\ End("deadline")

-----------------------------------------------------------------------------
(* The http.Server.                                                        *)

\* net.Listen succeeds or fails; a failure is logged, and main waits on.
Listen ==
    /\ listener = "starting"
    /\ listener' \in IF main = "shutdown" THEN {"closed"} ELSE {"open", "failed"}
    /\ UNCHANGED <<main, signalled, conn, exit, late>>

SetConn(c, from, to) ==
    /\ conn[c] \in from
    /\ conn' = [conn EXCEPT ![c] = to]
    /\ UNCHANGED <<main, signalled, listener, exit, late>>

Accept(c) == listener = "open" /\ SetConn(c, {"none"}, "new")

\* The first byte of a request arrives, also while Shutdown waits.
Begin(c) ==
    /\ conn[c] \in {"new", "idle"}
    /\ conn' = [conn EXCEPT ![c] = "active"]
    /\ late' = IF main = "shutdown" THEN [late EXCEPT ![c] = @ + 1] ELSE late
    /\ UNCHANGED <<main, signalled, listener, exit>>

\* The answer is written; while Shutdown waits the connection is not kept.
Answer(c) == SetConn(c, {"active"}, IF main = "shutdown" THEN "none" ELSE "idle")

\* The handler panicked: net/http recovers and closes without an answer.
Abort(c) == SetConn(c, {"active"}, "none")

\* The client closes a connection on which nothing runs.
HangUp(c) == SetConn(c, {"new", "idle"}, "none")

\* Shutdown closes what is idle, and what has been new for five seconds.
CloseIdle(c) == main = "shutdown" /\ SetConn(c, {"idle", "new"}, "none")

-----------------------------------------------------------------------------
(* The environment.                                                        *)

\* SIGINT or SIGTERM; before NotifyContext it kills.  A second one is caught
\* too, and changes nothing.
Signal ==
    \/ main = "boot" /\ End("killed")
    \/ /\ main \in {"load", "wait"}
       /\ ~signalled
       /\ signalled' = TRUE
       /\ UNCHANGED <<main, listener, conn, exit, late>>

\* SIGKILL, or the kernel when memory is short.
Kill == main # "exited" /\ End("killed")

\* A workload of keygen is complete and was told to exit (workload.go:72).
WorkloadExit == main \in {"wait", "shutdown"} /\ End("workload")

-----------------------------------------------------------------------------
(* Properties.                                                             *)

\* A signal ends the process although its handlers may never return, the
\* listener may have failed or not even be started.
SignalEndsProcess == signalled ~> main = "exited"
=============================================================================
