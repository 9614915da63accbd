----------------------------- MODULE KeyGenPage -----------------------------
(***************************************************************************)
(* The KeyGen page, web/pages/keygen.tsx, in front of GET and PUT /keygen. *)
(* Its button shows and toggles whether the workload is enabled.  A toggle *)
(* is shown at once, put to the server, and read back after the answer;    *)
(* every 2.5 seconds the page reads it anyway, in auto mode.  The history  *)
(* of keys, the metrics and the layout are left out.                       *)
(***************************************************************************)
EXTENDS UseJSON

CONSTANT MaxChanges  \* bound: changes of the server's configuration by others

ASSUME KeyGenPageAssumption == Values = {"on", "off"} /\ MaxChanges \in Nat

VARIABLES
    enabled,  \* kg.config.Enable of the server
    enable,   \* useState: what the button shows
    auto,     \* useState: poll
    saving,   \* useState: a PUT is on its way, and the button disabled
    put,      \* the PUT: "none", "sent", or "handled" by the server
    wanted,   \* what it puts
    changes,  \* changes by others so far
    \* history, read by no action
    missed    \* since the server last answered a load of this page something was
              \* changed by others, or failed

pageVars == <<hookVars, enabled, enable, auto, saving, put, wanted, changes, missed>>

PageTypeOK ==
    /\ HookTypeOK
    /\ enabled \in Values /\ enable \in Values /\ wanted \in Values
    /\ auto \in BOOLEAN /\ saving \in BOOLEAN /\ missed \in BOOLEAN
    /\ put \in {"none", "sent", "handled"}
    /\ changes \in 0 .. MaxChanges

PageInit ==
    /\ HookInit
    /\ enabled \in Values
    /\ enable = "on" /\ wanted = "on"
    /\ auto = TRUE /\ saving = FALSE
    /\ put = "none"
    /\ changes = 0
    /\ missed = TRUE

-----------------------------------------------------------------------------
(* The user.                                                               *)

OpenPage ==
    /\ Mount
    /\ enable' = "on"
    /\ auto' = TRUE /\ saving' = FALSE
    /\ put' = "none"
    /\ missed' = TRUE
    /\ UNCHANGED <<enabled, wanted, changes>>

\* A PUT on its way is not aborted: see ChangeByOthers.
LeavePage ==
    /\ Unmount
    /\ put' = "none"
    /\ UNCHANGED <<enabled, enable, auto, saving, wanted, changes, missed>>

Opposite(v) == IF v = "on" THEN "off" ELSE "on"

\* toggleEnable, up to the await.
ToggleEnable ==
    /\ mounted /\ ~saving
    /\ enable' = Opposite(enable)
    /\ saving' = TRUE
    /\ put' = "sent"
    /\ wanted' = Opposite(enable)
    /\ UNCHANGED <<hookVars, enabled, auto, changes, missed>>

Refresh ==
    /\ mounted
    /\ Load
    /\ UNCHANGED <<enabled, enable, auto, saving, put, wanted, changes, missed>>

SetAuto ==
    /\ mounted
    /\ auto' = ~auto
    /\ UNCHANGED <<hookVars, enabled, enable, saving, put, wanted, changes, missed>>

-----------------------------------------------------------------------------
(* The page.                                                               *)

\* Mutant: the poll is skipped while the workload is shown as stopped.
PollWhenEnabled ==
    /\ mounted /\ auto /\ enable = "on"
    /\ Load
    /\ UNCHANGED <<enabled, enable, auto, saving, put, wanted, changes, missed>>

\* useInterval calls the callback of the last render.
Poll ==
    /\ mounted /\ auto
    /\ Load
    /\ UNCHANGED <<enabled, enable, auto, saving, put, wanted, changes, missed>>

\* The answer to the PUT, whatever its status: reload, then saving ends.
PutAnswered ==
    /\ put = "handled"
    /\ put' = "none"
    /\ saving' = FALSE
    /\ Load
    /\ UNCHANGED <<enabled, enable, auto, wanted, changes, missed>>

\* fetch throws: saving ends, and nothing is loaded or shown.
PutFails ==
    /\ put # "none"
    /\ put' = "none"
    /\ saving' = FALSE
    /\ missed' = TRUE
    /\ UNCHANGED <<hookVars, enabled, enable, auto, wanted, changes>>

\* setData, and the effect that sets the button.
LoadArrives ==
    /\ \E i \in DOMAIN flight : Arrives(i) /\ enable' = flight[i]
    /\ UNCHANGED <<enabled, auto, saving, put, wanted, changes, missed>>

LoadFailed ==
    /\ \E i \in DOMAIN flight : LoadFails(i)
    /\ missed' = TRUE
    /\ UNCHANGED <<enabled, enable, auto, saving, put, wanted, changes>>

-----------------------------------------------------------------------------
(* The server: APIGet and APIPut.                                          *)

ServerGets ==
    /\ \E i \in DOMAIN flight : Handled(i, enabled)
    /\ missed' = FALSE
    /\ UNCHANGED <<enabled, enable, auto, saving, put, wanted, changes>>

ServerPuts ==
    /\ put = "sent"
    /\ put' = "handled"
    /\ enabled' = wanted
    /\ UNCHANGED <<hookVars, enable, auto, saving, wanted, changes, missed>>

\* Another client, or a PUT that this page sent before it was left or that
\* seemed to fail.
ChangeByOthers ==
    /\ changes < MaxChanges
    /\ changes' = changes + 1
    /\ enabled' = Opposite(enabled)
    /\ missed' = TRUE
    /\ UNCHANGED <<hookVars, enable, auto, saving, put, wanted>>

-----------------------------------------------------------------------------
PageNext ==
    \/ OpenPage \/ LeavePage \/ ToggleEnable \/ Refresh \/ SetAuto
    \/ Poll \/ PutAnswered \/ PutFails \/ LoadArrives \/ LoadFailed
    \/ ServerGets \/ ServerPuts \/ ChangeByOthers

-----------------------------------------------------------------------------
(* Properties.                                                             *)

\* keygen.tsx:76, "Config synchronized": when nothing is on its way, the button
\* shows what the server is configured to, whatever polls, toggles and answers
\* crossed before, unless something failed or others changed it since.
SynchronizedAtRest ==
    mounted /\ flight = <<>> /\ put = "none" /\ ~missed => enable = enabled

\* A page that polls shows the server's configuration again and again, whatever
\* failed and whoever else changed it.
AutoCatchesUp == <>[](mounted /\ auto) => []<>(enable = enabled)
=============================================================================
