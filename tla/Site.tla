-------------------------------- MODULE Site --------------------------------
(***************************************************************************)
(* The user interface in one browser tab: Next.js mounts one page at a     *)
(* time and throws its state away when the user goes to another.  The file *)
(* system page therefore starts as new whenever it is opened; the KeyGen   *)
(* page meets a server that remembers.                                     *)
(***************************************************************************)
EXTENDS Browser, KeyGenPage

VARIABLE page  \* the page the user of this behaviour works with

siteVars == <<vars, pageVars, page>>

SiteTypeOK == TypeOK /\ PageTypeOK /\ page \in {"fs", "keygen"}

\* A file system page that is not shown has nothing selected.
SiteInit ==
    /\ page \in {"fs", "keygen"}
    /\ Fresh /\ disturbed = (page # "fs")
    /\ PageInit

FSStep == page = "fs" /\ Next /\ UNCHANGED <<pageVars, page>>

KeyGenStep == page = "keygen" /\ PageNext /\ UNCHANGED <<vars, page>>

SiteNext == FSStep \/ KeyGenStep

\* The file system page: React runs its effects, and every request is answered or
\* fails.  The KeyGen page: the timer of the poll fires; the server handles a load
\* and its answer comes before the next poll aborts it, if not always, then again
\* and again.  Users, PUTs and other clients owe nothing.
Fairness ==
    /\ WF_vars(page = "fs" /\ Effect)
    /\ \A s \in Slots : WF_vars(page = "fs" /\ (Receive(s) \/ Fail(s)))
    /\ WF_pageVars(page = "keygen" /\ Poll)
    /\ SF_pageVars(page = "keygen" /\ ServerGets)
    /\ SF_pageVars(page = "keygen" /\ LoadArrives)

SiteSpec == SiteInit /\ [][SiteNext]_siteVars /\ Fairness
=============================================================================
