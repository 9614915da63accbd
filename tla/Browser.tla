------------------------------- MODULE Browser -------------------------------
(***************************************************************************)
(* The file system browser: web/components/FSBrowser.tsx, and the listing  *)
(* of pkg/fsapi/api.go that it asks for page by page.  The browser does    *)
(* not number or abort its requests: their answers come in any order, and  *)
(* each one sets the directory it is about.  React runs the effect that    *)
(* loads a directory after a change of cwd or query was rendered; several  *)
(* answers may come before that.  The file system does not change.         *)
(***************************************************************************)
EXTENDS Integers, Sequences, FiniteSets

CONSTANTS
    Dirs,      \* directories
    Root,      \* "/"
    Above,     \* Above[d]: the directories above d
    Contents,  \* Contents[d]: the entries of d in the order of the server
    Leads,     \* Leads[e]: the directory that entry e is, or None
    Queries,   \* the filters users type
    All,       \* the empty filter
    Matches,   \* Matches[q]: the entries whose name contains q
    Limit,     \* the size of a page (200)
    Slots,     \* bound: requests in flight at the same time
    MaxShown,  \* bound: no more is loaded to a longer list
    None

Requests == [dir : Dirs, q : Queries, offset : Nat, reset : BOOLEAN]

Entries == UNION {{Contents[d][i] : i \in DOMAIN Contents[d]} : d \in Dirs}

ASSUME BrowserAssumption ==
    /\ Root \in Dirs /\ Above \in [Dirs -> SUBSET Dirs]
    /\ \A d \in Dirs : d \notin Above[d]
    /\ \A d \in Dirs : Contents[d] \in Seq(Entries)
    /\ Leads \in [Entries -> Dirs \cup {None}]
    /\ All \in Queries /\ Matches \in [Queries -> SUBSET Entries] /\ Matches[All] = Entries
    /\ Limit \in Nat \ {0} /\ MaxShown \in Nat
    /\ None \notin Dirs \cup Queries \cup Entries \cup Requests \cup (Dirs \X Queries)

VARIABLES
    cwd, query, entries, offset, hasMore, total, loading, err,  \* the useState of FSBrowser
    deps,      \* cwd and query when the effect last ran, or None
    net,       \* net[s]: a request in flight, or None
    disturbed  \* history: the last selection found something in flight, changed
               \* nothing, or an answer failed since

view == <<cwd, query, entries, offset, hasMore, total, loading, err>>
vars == <<cwd, query, entries, offset, hasMore, total, loading, err, deps, net, disturbed>>

TypeOK ==
    /\ cwd \in Dirs /\ query \in Queries
    /\ entries \in Seq(Entries)
    /\ offset \in Nat /\ total \in Nat
    /\ hasMore \in BOOLEAN /\ loading \in BOOLEAN /\ err \in BOOLEAN
    /\ deps \in (Dirs \X Queries) \cup {None}
    /\ net \in [Slots -> Requests \cup {None}]
    /\ disturbed \in BOOLEAN

Fresh ==
    /\ cwd = Root /\ query = All
    /\ entries = <<>>
    /\ offset = 0 /\ total = 0
    /\ hasMore = FALSE /\ loading = FALSE /\ err = FALSE
    /\ deps = None
    /\ net = [s \in Slots |-> None]

Init == Fresh /\ disturbed = FALSE

-----------------------------------------------------------------------------
(* The server: handleList.                                                 *)

\* The loop that keeps the entries the filter finds.
Listing(d, q) ==
    LET list == Contents[d]
        filtered[n \in 0 .. Len(list)] ==
            IF n = 0 THEN <<>>
            ELSE IF list[n] \in Matches[q] THEN Append(filtered[n - 1], list[n])
            ELSE filtered[n - 1]
    IN  filtered[Len(list)]

Smaller(a, b) == IF a < b THEN a ELSE b

Page(list, from) ==
    LET n == Len(list)
        end == Smaller(from + Limit, n)
    IN  [entries |-> SubSeq(list, Smaller(from, n) + 1, end), total |-> n,
         offset |-> Smaller(from, n), more |-> end < n]

-----------------------------------------------------------------------------
(* The browser.                                                            *)

Deps == <<cwd, query>>

\* fetchPage: the query is the one of the last render.
FetchPage(from, reset) ==
    /\ \E s \in Slots :
         /\ net[s] = None
         /\ net' = [net EXCEPT ![s] =
                      [dir |-> cwd, q |-> query, offset |-> from, reset |-> reset]]
    /\ loading' = TRUE
    /\ err' = FALSE

\* Mutant: fetchPage is another function at every render, and a dependency.
EffectEveryRender ==
    /\ deps # Deps
    /\ FetchPage(0, TRUE)
    /\ UNCHANGED <<cwd, query, entries, offset, hasMore, total, deps, disturbed>>

\* useEffect: runs when cwd or query are not those of its last run.
Effect ==
    /\ deps # Deps
    /\ FetchPage(0, TRUE)
    /\ deps' = Deps
    /\ UNCHANGED <<cwd, query, entries, offset, hasMore, total, disturbed>>

\* Users click on what is rendered, and a rendered change has run its effect.
Rendered == deps = Deps

Idle == \A s \in Slots : net[s] = None

\* Nothing is fetched when the effect sees the cwd and query it knows.
Select(d, q) ==
    /\ cwd' = d
    /\ query' = q
    /\ disturbed' = (~Idle \/ <<d, q>> = Deps)

\* The list is emptied and another directory selected, with the empty filter.
Visit(d) ==
    /\ Rendered
    /\ Select(d, All)
    /\ offset' = 0
    /\ entries' = <<>>
    /\ UNCHANGED <<hasMore, total, loading, err, deps, net>>

\* go: an entry that is a directory.
Go == \E i \in DOMAIN entries : Leads[entries[i]] # None /\ Visit(Leads[entries[i]])

\* The Up button and the breadcrumbs.
Up == \E d \in Above[cwd] : Visit(d)

ApplySearch(q) ==
    /\ Rendered
    /\ Select(cwd, q)
    /\ offset' = 0
    /\ entries' = <<>>
    /\ UNCHANGED <<hasMore, total, loading, err, deps, net>>

Clear ==
    /\ Rendered
    /\ query # All
    /\ Select(cwd, All)
    /\ UNCHANGED <<entries, offset, hasMore, total, loading, err, deps, net>>

\* Mutant: a page may be asked for while another one is loading.
LoadMoreAnyTime ==
    /\ Rendered
    /\ hasMore
    /\ Len(entries) <= MaxShown
    /\ FetchPage(offset + Limit, FALSE)
    /\ UNCHANGED <<cwd, query, entries, offset, hasMore, total, deps, disturbed>>

\* Mutant: the page before.
LoadMoreBackwards ==
    /\ Rendered
    /\ hasMore /\ ~loading
    /\ Len(entries) <= MaxShown
    /\ FetchPage(offset - Limit, FALSE)
    /\ UNCHANGED <<cwd, query, entries, offset, hasMore, total, deps, disturbed>>

LoadMore ==
    /\ Rendered
    /\ hasMore /\ ~loading
    /\ Len(entries) <= MaxShown
    /\ FetchPage(offset + Limit, FALSE)
    /\ UNCHANGED <<cwd, query, entries, offset, hasMore, total, deps, disturbed>>

\* An answer: the directory is the one it is about, the query stays.
Receive(s) ==
    LET r == net[s]
        p == Page(Listing(r.dir, r.q), r.offset)
    IN  /\ r # None
        /\ net' = [net EXCEPT ![s] = None]
        /\ cwd' = r.dir
        /\ total' = p.total
        /\ hasMore' = p.more
        /\ offset' = p.offset
        /\ entries' = IF r.reset THEN p.entries ELSE entries \o p.entries
        /\ loading' = FALSE
        /\ UNCHANGED <<query, err, deps, disturbed>>

\* Mutant: only an answer ends loading.
FailStillLoading(s) ==
    /\ net[s] # None
    /\ net' = [net EXCEPT ![s] = None]
    /\ err' = TRUE
    /\ disturbed' = TRUE
    /\ UNCHANGED <<cwd, query, entries, offset, hasMore, total, deps, loading>>

\* The directory cannot be read, or the request fails.
Fail(s) ==
    /\ net[s] # None
    /\ net' = [net EXCEPT ![s] = None]
    /\ err' = TRUE
    /\ loading' = FALSE
    /\ disturbed' = TRUE
    /\ UNCHANGED <<cwd, query, entries, offset, hasMore, total, deps>>

User == Go \/ Up \/ (\E q \in Queries : ApplySearch(q)) \/ Clear \/ LoadMore

Next == Effect \/ User \/ \E s \in Slots : Receive(s) \/ Fail(s)

Spec == Init /\ [][Next]_vars

-----------------------------------------------------------------------------
(* Properties.                                                             *)

Quiet == Rendered /\ Idle

ListedNow == Listing(cwd, query)

Shown == {entries[i] : i \in DOMAIN entries}

\* Whatever crossed or failed before: once a directory or a filter is selected
\* while nothing is in flight, and nothing fails from then on, a browser that
\* waits for nothing shows the first pages of its listing: every entry up to the
\* end of the last page, each once, in the order of the server, and 'Load more'
\* exactly when there is more.
FirstPages ==
    Quiet /\ ~disturbed =>
        /\ entries = SubSeq(ListedNow, 1, Smaller(offset + Limit, Len(ListedNow)))
        /\ total = Len(ListedNow)
        /\ hasMore = (offset + Limit < total)

\* However answers cross, a browser that waits for nothing does not say "Loading".
QuietIsNotLoading == Quiet => ~loading

\* The browser comes to rest again and again: an answer to a selection made at
\* rest does not set off another request, so that loading does not feed itself.
LoadsSettle == []<>(Quiet \/ disturbed)

(* What the page says and the code does not do.                            *)

\* FSBrowser.tsx:112, "(filtered by "${query}")": the entries shown match the filter.
FilteredAsTold == Quiet => Shown \subseteq Matches[query]

=============================================================================
