------------------------------ MODULE UseJSON ------------------------------
(***************************************************************************)
(* The hook web/components/useJSON.ts, with which a page loads the JSON of *)
(* one URL: when it is mounted and whenever it calls reload.  A load       *)
(* aborts the one before it, whose outcome is then ignored; leaving the    *)
(* page aborts too.  React renders a change before anything else happens.  *)
(***************************************************************************)
EXTENDS Naturals, SequencesExt

CONSTANT Values  \* what the server may answer

ASSUME ValuesAssumption == "sent" \notin Values /\ "none" \notin Values

VARIABLES
    mounted,   \* the page is shown
    data,      \* the data last loaded, or "none"
    failed,    \* error is shown
    fetching,  \* loading
    flight     \* the requests that were not aborted, oldest first: "sent", or
               \* the answer the server gave when it handled it

hookVars == <<mounted, data, failed, fetching, flight>>

HookTypeOK ==
    /\ mounted \in BOOLEAN
    /\ data \in Values \cup {"none"}
    /\ failed \in BOOLEAN
    /\ fetching \in BOOLEAN
    /\ flight \in Seq(Values \cup {"sent"})

HookInit ==
    /\ mounted = FALSE
    /\ data = "none"
    /\ failed = FALSE
    /\ fetching = FALSE
    /\ flight = <<>>

-----------------------------------------------------------------------------
\* Mutant: the load before is not aborted.
LoadBeside ==
    /\ Len(flight) < 2
    /\ flight' = Append(flight, "sent")
    /\ fetching' = TRUE
    /\ failed' = FALSE
    /\ UNCHANGED <<mounted, data>>

\* Mutant: the finally of an aborted request, which runs after load, ends
\* loading too.
LoadEndsLoading ==
    /\ flight' = <<"sent">>
    /\ fetching' = (flight = <<>>)
    /\ failed' = FALSE
    /\ UNCHANGED <<mounted, data>>

\* load: abort, setLoading, setError, fetch.
Load ==
    /\ flight' = <<"sent">>
    /\ fetching' = TRUE
    /\ failed' = FALSE
    /\ UNCHANGED <<mounted, data>>

\* The page is shown: the state of the hook is new, its effect loads.
Mount ==
    /\ ~mounted
    /\ mounted' = TRUE
    /\ data' = "none"
    /\ failed' = FALSE
    /\ fetching' = TRUE
    /\ flight' = <<"sent">>

\* The page is left: the effect's cleanup aborts.
Unmount ==
    /\ mounted
    /\ mounted' = FALSE
    /\ flight' = <<>>
    /\ UNCHANGED <<data, failed, fetching>>

\* The server handles a request; the answer is on its way.
Handled(i, v) ==
    /\ flight[i] = "sent"
    /\ flight' = [flight EXCEPT ![i] = v]
    /\ UNCHANGED <<mounted, data, failed, fetching>>

\* The answer arrives: setData, then finally.
Arrives(i) ==
    /\ flight[i] # "sent"
    /\ data' = flight[i]
    /\ fetching' = FALSE
    /\ flight' = RemoveAt(flight, i)
    /\ UNCHANGED <<mounted, failed>>

\* No answer, one that is not ok, or no JSON.
LoadFails(i) ==
    /\ failed' = TRUE
    /\ fetching' = FALSE
    /\ flight' = RemoveAt(flight, i)
    /\ UNCHANGED <<mounted, data>>

-----------------------------------------------------------------------------
(* Properties.                                                             *)

\* useJSON.ts:27: however reloads cross answers and failures, "Updating" is shown
\* exactly while an answer is awaited: the finally of an aborted request does not
\* end the loading of its successor.
LoadingMeansWaiting == mounted => (fetching <=> flight # <<>>)
=============================================================================
