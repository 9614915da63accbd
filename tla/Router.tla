------------------------------- MODULE Router -------------------------------
(***************************************************************************)
(* Requests and routes: the SimpleRouter of pkg/app/simplemux.go, the      *)
(* table that NewApp builds from the AddRoutes of the components, and the  *)
(* requests that the web pages and the MemQ client send.                   *)
(*                                                                         *)
(* A path is the sequence of what stands between its slashes: "/" is       *)
(* <<"">>, "/a/" is <<"a", "">> and "/mem/api" is <<"mem", "api">>.  Query *)
(* parameters do not take part in routing and are left out.                *)
(***************************************************************************)
EXTENDS Integers, Sequences

CONSTANTS
    Variants,  \* the prefixes of NewApp that are not empty
    Serials,   \* the ways to serve the user interface, see UIRoutes
    Queue,     \* the name of a queue
    Strange    \* paths that nobody is known to ask for

VARIABLES
    ui,      \* how this process serves the user interface
    req,     \* the request that is being routed
    at,      \* the position of the route that ServeHTTP looks at
    answer   \* the handler that answered, NotFound, or Pending

vars == <<ui, req, at, answer>>

Pending == "pending"
NotFound == "not found"

Methods == {"GET", "PUT", "POST", "DELETE"}

-----------------------------------------------------------------------------
(* Routes.  Below(base) is the pattern base/*name.                         *)

On(method, path, handler) ==
    [method |-> method, base |-> path, wild |-> FALSE, handler |-> handler]

Below(path, handler) ==
    [method |-> "GET", base |-> path, wild |-> TRUE, handler |-> handler]

\* matchPattern: a wildcard stands for whatever follows the slash before it.
Matches(route, path) ==
    IF route.wild
    THEN /\ Len(path) > Len(route.base)
         /\ SubSeq(path, 1, Len(route.base)) = route.base
    ELSE path = route.base

SiteRoutes(p) == <<Below(p, "sitedata")>>

FSRoutes(p) ==
    <<On("GET", p, "fsapi"), On("GET", p \o <<"">>, "fsapi"), Below(p, "fsapi")>>

MemoryRoutes(p) ==
    <<On("GET", p \o <<"api">>, "mem"),
      On("POST", p \o <<"api", "alloc">>, "mem.alloc"),
      On("POST", p \o <<"api", "clear">>, "mem.clear")>>

ProbeRoutes(p, page, status, config) ==
    <<On("GET", p, page), On("GET", p \o <<"api">>, status), On("PUT", p \o <<"api">>, config)>>

EnvRoutes(p) == <<On("GET", p \o <<"api">>, "env")>>

DNSRoutes(p) == <<On("POST", p \o <<"api">>, "dns")>>

KeyGenRoutes(p) ==
    <<On("GET", p, "keygen"), On("PUT", p, "keygen.config")>>

\* Mutant: the name of the queue is part of the path, as in the client.
MemQRoutesByPath(p) ==
    <<On("GET", p \o <<"stats">>, "memq.stats"),
      On("PUT", p \o <<"queues", Queue>>, "memq.create"),
      On("DELETE", p \o <<"queues", Queue>>, "memq.delete"),
      On("POST", p \o <<"queues", Queue, "drain">>, "memq.drain"),
      On("POST", p \o <<"queues", Queue, "dequeue">>, "memq.dequeue"),
      On("POST", p \o <<"queues", Queue, "enqueue">>, "memq.enqueue")>>

MemQRoutes(p) ==
    <<On("GET", p \o <<"stats">>, "memq.stats"),
      On("PUT", p \o <<"queues">>, "memq.create"),
      On("DELETE", p \o <<"queues">>, "memq.delete"),
      On("POST", p \o <<"queues", "drain">>, "memq.drain"),
      On("POST", p \o <<"queues", "dequeue">>, "memq.dequeue"),
      On("POST", p \o <<"queues", "enqueue">>, "memq.enqueue")>>

\* Mutant: everything below a variant is redirected.
RedirectsAll(p) == <<On("GET", p \o <<"">>, "redirect"), Below(p, "redirect")>>

Redirects(p) ==
    <<On("GET", p \o <<"">>, "redirect"), Below(p \o <<"-">>, "redirect")>>

\* The body of the loop of NewApp.
ComponentRoutes(p) ==
    (IF p = <<>> THEN <<>> ELSE Redirects(p))
    \o <<On("GET", p \o <<"pageinfo">>, "pageinfo"),
         On("GET", p \o <<"metrics">>, "metrics")>>
    \o SiteRoutes(p \o <<"built">>) \o SiteRoutes(p \o <<"static">>)
    \o <<Below(p \o <<"fs">>, "fs")>>
    \o FSRoutes(p \o <<"fsapi">>)
    \o MemoryRoutes(p \o <<"mem">>)
    \o ProbeRoutes(p \o <<"healthy">>, "live", "live.status", "live.config")
    \o ProbeRoutes(p \o <<"ready">>, "ready", "ready.status", "ready.config")
    \o EnvRoutes(p \o <<"env">>)
    \o DNSRoutes(p \o <<"dns">>)
    \o KeyGenRoutes(p \o <<"keygen">>)
    \o MemQRoutes(p \o <<"memq", "server">>)

CatchAll == <<On("GET", <<"">>, "ui"), Below(<<>>, "ui")>>

\* A proxy to the development server, the exported pages of web/out, the built
\* ones of web/.next, or no user interface.
UIRoutes(how) ==
    CASE how = "proxy" ->
           <<Below(<<"_next">>, "ui"), On("GET", <<"favicon.ico">>, "ui"),
             On("GET", <<"robots.txt">>, "ui"), On("GET", <<"manifest.json">>, "ui")>>
           \o CatchAll
      [] how = "export" -> CatchAll
      [] how = "built" -> <<Below(<<"_next">>, "ui")>> \o CatchAll
      [] how = "none" -> <<>>

\* NewApp: the empty prefix and the variants, and the user interface last.
VariantRoutes[n \in 0 .. Len(Variants)] ==
    IF n = 0 THEN ComponentRoutes(<<>>)
    ELSE VariantRoutes[n - 1] \o ComponentRoutes(<<Variants[n]>>)

\* Mutant: the user interface is registered first.
AppRoutesUIFirst(how) == UIRoutes(how) \o VariantRoutes[Len(Variants)]

AppRoutes(how) == VariantRoutes[Len(Variants)] \o UIRoutes(how)

ASSUME RouterAssumption ==
    /\ Serials \subseteq {"proxy", "export", "built", "none"}
    /\ Variants \in Seq(STRING) /\ Queue \in STRING
    /\ Strange \subseteq Seq(STRING) \ {<<>>}

\* No component and no file of the user interface has the name of a variant.
ASSUME VariantsAssumption ==
    \A how \in Serials :
      LET routes == ComponentRoutes(<<>>) \o UIRoutes(how)
      IN  \A i \in DOMAIN routes, k \in DOMAIN Variants :
            routes[i].base # <<>> => routes[i].base[1] # Variants[k]

Table == [how \in Serials |-> AppRoutes(how)]
Routes == Table[ui]

-----------------------------------------------------------------------------
(* The requests of the clients, with the handler they are meant for.       *)

Call(method, path, handler) == [method |-> method, path |-> path, handler |-> handler]

\* The functions of Client; BaseServerURL ends in /memq/server.
Client ==
    LET queues == <<"memq", "server", "queues", Queue>>
    IN  {Call("PUT", queues, "memq.create"),
         Call("DELETE", queues, "memq.delete"),
         Call("POST", queues \o <<"drain">>, "memq.drain"),
         Call("POST", queues \o <<"enqueue">>, "memq.enqueue"),
         Call("POST", queues \o <<"dequeue">>, "memq.dequeue"),
         Call("GET", <<"memq", "server", "stats">>, "memq.stats")}

MemQPage ==
    {Call("GET", <<"memq", "server", "stats">>, "memq.stats"),
     Call("PUT", <<"memq", "server", "queues">>, "memq.create"),
     Call("DELETE", <<"memq", "server", "queues">>, "memq.delete"),
     Call("POST", <<"memq", "server", "queues", "enqueue">>, "memq.enqueue"),
     Call("POST", <<"memq", "server", "queues", "dequeue">>, "memq.dequeue")}

MemPage ==
    {Call("GET", <<"mem", "api">>, "mem"),
     Call("POST", <<"mem", "api", "alloc">>, "mem.alloc"),
     Call("POST", <<"mem", "api", "clear">>, "mem.clear")}

KeyGenPage ==
    {Call("GET", <<"keygen">>, "keygen"), Call("PUT", <<"keygen">>, "keygen.config"),
     Call("GET", <<"metrics">>, "metrics")}

OtherPages ==
    {Call("GET", <<"healthy", "api">>, "live.status"),
     Call("GET", <<"ready", "api">>, "ready.status"),
     Call("GET", <<"env", "api">>, "env"), Call("POST", <<"dns", "api">>, "dns"),
     Call("GET", <<"pageinfo">>, "pageinfo"), Call("GET", <<"fsapi">>, "fsapi")}

PageCalls == MemQPage \cup MemPage \cup KeyGenPage \cup OtherPages

Bases == UNION {{Table[how][i].base : i \in DOMAIN Table[how]} : how \in Serials}

Paths ==
    Strange \cup (Bases \ {<<>>}) \cup {b \o <<"x">> : b \in Bases}
    \cup {c.path : c \in Client}

Requests == [method : Methods, path : Paths]

-----------------------------------------------------------------------------

TypeOK ==
    /\ ui \in Serials
    /\ req \in Requests
    /\ at \in 1 .. Len(Routes) + 1
    /\ answer \in {Routes[i].handler : i \in DOMAIN Routes} \cup {Pending, NotFound}

Init ==
    /\ ui \in Serials
    /\ req \in Requests
    /\ at = 1
    /\ answer = Pending

\* Mutant: any method.
FitsAnyMethod(route) == Matches(route, req.path)

Fits(route) == route.method = req.method /\ Matches(route, req.path)

\* Mutant: every other route is skipped.
LookBySteps ==
    /\ answer = Pending
    /\ at <= Len(Routes)
    /\ IF Fits(Routes[at])
       THEN answer' = Routes[at].handler /\ UNCHANGED at
       ELSE at' = at + 2 /\ UNCHANGED answer
    /\ UNCHANGED <<ui, req>>

\* The loop of ServeHTTP.
Look ==
    /\ answer = Pending
    /\ at <= Len(Routes)
    /\ IF Fits(Routes[at])
       THEN answer' = Routes[at].handler /\ UNCHANGED at
       ELSE at' = at + 1 /\ UNCHANGED answer
    /\ UNCHANGED <<ui, req>>

GiveUp ==
    /\ answer = Pending
    /\ at > Len(Routes)
    /\ answer' = NotFound
    /\ UNCHANGED <<ui, req, at>>

Next == Look \/ GiveUp

Spec == Init /\ [][Next]_vars

-----------------------------------------------------------------------------
(* Properties.                                                             *)

Done == answer # Pending

\* app.go:228, "keep last so API routes above win": the user interface answers
\* only what no component wants, and a page that is served with the rest of the
\* program never hides an API route.
APIRoutesWin ==
    Done /\ (\E i \in DOMAIN Routes : Fits(Routes[i]) /\ Routes[i].handler # "ui")
        => answer # "ui"

\* A path that a component registers as it stands is answered by that component
\* and for that method, however many wildcards of others were registered before.
OwnRouteWins ==
    Done => \A i \in DOMAIN Routes :
        Routes[i].method = req.method /\ ~Routes[i].wild /\ Routes[i].base = req.path
            => answer = Routes[i].handler

\* Below a variant a request is answered as it is without the variant, by the
\* same component or by none, although every route is registered again for each
\* variant, behind redirects of its own.  Only the page of the variant, what is
\* below its "-", and what falls to the user interface differ.
VariantsAlike ==
    LET variants == {Variants[i] : i \in DOMAIN Variants}
        rest == Tail(req.path)
        Plain(i) == Routes[i].method = req.method /\ Matches(Routes[i], rest)
    IN  /\ Done /\ answer # "ui"
        /\ Len(req.path) > 1
        /\ Head(req.path) \in variants /\ Head(rest) \notin variants \cup {"-"}
        /\ rest # <<"">>
        => IF answer = NotFound
           THEN \A i \in DOMAIN Routes : Plain(i) => Routes[i].handler = "ui"
           ELSE \E i \in DOMAIN Routes :
                   /\ Plain(i) /\ Routes[i].handler = answer
                   /\ \A j \in 1 .. i - 1 : ~Plain(j)

\* Every request of a web page is answered by the handler it is meant for.
PageCallsArrive ==
    Done => \A c \in PageCalls :
        c.method = req.method /\ c.path = req.path => answer = c.handler

(* What the documents say and the code does not do.                        *)

\* pkg/keygen/config.go:36-37, "If both of these variables are set, then the keygen
\* worker will pull work items off of the MemQ.": the requests of the client it
\* uses reach the functions of the server.
ClientReachesServer ==
    Done => \A c \in Client :
        c.method = req.method /\ c.path = req.path => answer = c.handler

=============================================================================
