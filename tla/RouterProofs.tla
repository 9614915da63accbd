---------------------------- MODULE RouterProofs ----------------------------
(***************************************************************************)
(* Proofs about Router, for any variants, any user interface and any       *)
(* length of the table.                                                    *)
(*                                                                         *)
(* Block is the set of routes that the body of the loop of NewApp adds,    *)
(* each with the path it has without a prefix; Api is the set of all       *)
(* routes of components, below every prefix.  The argument is that the     *)
(* routes of Api come before those of the user interface (TableSplit),     *)
(* that two routes of Api that fit the same request have the same handler  *)
(* (ApiAgrees), and that ServeHTTP stops at the first route that fits      *)
(* (FirstFit, the invariant).                                              *)
(***************************************************************************)
EXTENDS Router, Induction, SequenceTheorems

Handlers ==
    {"redirect", "pageinfo", "metrics", "sitedata", "fs", "fsapi", "mem", "mem.alloc",
     "mem.clear", "live", "live.status", "live.config", "ready", "ready.status",
     "ready.config", "env", "dns", "keygen", "keygen.config", "memq.stats", "memq.create",
     "memq.delete", "memq.drain", "memq.dequeue", "memq.enqueue", "ui"}

\* The strings, with those that the provers have to know as strings.
Word ==
    STRING \cup
    {"", "-", "x", "pageinfo", "metrics", "built", "static", "fs", "fsapi", "mem", "healthy",
     "ready", "env", "dns", "keygen", "memq", "api", "alloc", "clear", "server", "stats",
     "queues", "drain", "dequeue", "enqueue", "_next", "favicon.ico", "robots.txt",
     "manifest.json"}

Route == [method : Methods, base : Seq(Word), wild : BOOLEAN, handler : Handlers]

-----------------------------------------------------------------------------
(* Short sequences put together.                                           *)

\* The concatenations that the paths of the routes are built with.
LEMMA Pair ==
    ASSUME NEW S, NEW a \in S, NEW b \in S
    PROVE  <<a>> \o <<b>> = <<a, b>>
<1> DEFINE s == <<a>>
           t == <<b>>
           u == <<a, b>>
<1>1. /\ s \in Seq(S) /\ t \in Seq(S) /\ u \in Seq(S)
      /\ Len(s) = 1 /\ Len(t) = 1 /\ Len(u) = 2
      /\ s[1] = a /\ t[1] = b /\ u[1] = a /\ u[2] = b
  OBVIOUS
<1> HIDE DEF s, t, u
<1>2. /\ s \o t \in Seq(S) /\ Len(s \o t) = 2
      /\ \A i \in 1 .. 2 : (s \o t)[i] = IF i <= 1 THEN s[i] ELSE t[i - 1]
  BY <1>1, ConcatProperties
<1>3. \A i \in 1 .. Len(s \o t) : (s \o t)[i] = u[i]
  BY <1>1, <1>2
<1>4. s \o t = u
  BY <1>1, <1>2, <1>3, SeqEqual
<1> QED
  BY <1>4 DEF s, t, u

LEMMA Extended ==
    ASSUME NEW S, NEW a \in S, NEW b \in S, NEW c \in S
    PROVE  /\ <<a>> \o <<b, c>> = <<a, b, c>>
           /\ <<a, b>> \o <<c>> = <<a, b, c>>
<1> DEFINE s == <<a>>
           t == <<b, c>>
           v == <<a, b>>
           w == <<c>>
           u == <<a, b, c>>
<1>1. /\ s \in Seq(S) /\ t \in Seq(S) /\ u \in Seq(S) /\ v \in Seq(S) /\ w \in Seq(S)
      /\ Len(s) = 1 /\ Len(t) = 2 /\ Len(u) = 3 /\ Len(v) = 2 /\ Len(w) = 1
      /\ s[1] = a /\ t[1] = b /\ t[2] = c /\ u[1] = a /\ u[2] = b /\ u[3] = c
      /\ v[1] = a /\ v[2] = b /\ w[1] = c
  OBVIOUS
<1> HIDE DEF s, t, u, v, w
<1>2. /\ s \o t \in Seq(S) /\ Len(s \o t) = 3
      /\ \A i \in 1 .. 3 : (s \o t)[i] = IF i <= 1 THEN s[i] ELSE t[i - 1]
  <2>1. /\ s \o t \in Seq(S) /\ Len(s \o t) = Len(s) + Len(t)
        /\ \A i \in 1 .. Len(s) + Len(t) :
             (s \o t)[i] = IF i <= Len(s) THEN s[i] ELSE t[i - Len(s)]
    BY <1>1, ConcatProperties
  <2> QED
    BY <1>1, <2>1
<1>3. /\ v \o w \in Seq(S) /\ Len(v \o w) = 3
      /\ \A i \in 1 .. 3 : (v \o w)[i] = IF i <= 2 THEN v[i] ELSE w[i - 2]
  BY <1>1, ConcatProperties
<1>4. s \o t = u
  <2>1. \A i \in 1 .. Len(s \o t) : (s \o t)[i] = u[i]
    BY <1>1, <1>2
  <2> QED
    BY <1>1, <1>2, <2>1, SeqEqual
<1>5. v \o w = u
  <2>1. \A i \in 1 .. Len(v \o w) : (v \o w)[i] = u[i]
    BY <1>1, <1>3
  <2> QED
    BY <1>1, <1>3, <2>1, SeqEqual
<1> QED
  BY <1>4, <1>5 DEF s, t, u, v, w

LEMMA TwoAndTwo ==
    ASSUME NEW S, NEW a \in S, NEW b \in S, NEW c \in S, NEW d \in S
    PROVE  <<a, b>> \o <<c, d>> = <<a, b, c, d>>
<1> DEFINE s == <<a, b>>
           t == <<c, d>>
           u == <<a, b, c, d>>
<1>1. /\ s \in Seq(S) /\ t \in Seq(S) /\ u \in Seq(S)
      /\ Len(s) = 2 /\ Len(t) = 2 /\ Len(u) = 4
      /\ s[1] = a /\ s[2] = b /\ t[1] = c /\ t[2] = d
      /\ u[1] = a /\ u[2] = b /\ u[3] = c /\ u[4] = d
  OBVIOUS
<1> HIDE DEF s, t, u
<1>2. /\ s \o t \in Seq(S) /\ Len(s \o t) = 4
      /\ \A i \in 1 .. 4 : (s \o t)[i] = IF i <= 2 THEN s[i] ELSE t[i - 2]
  <2>1. /\ s \o t \in Seq(S) /\ Len(s \o t) = Len(s) + Len(t)
        /\ \A i \in 1 .. Len(s) + Len(t) :
             (s \o t)[i] = IF i <= Len(s) THEN s[i] ELSE t[i - Len(s)]
    BY <1>1, ConcatProperties
  <2> QED
    BY <1>1, <2>1
<1>3. \A i \in 1 .. Len(s \o t) : (s \o t)[i] = u[i]
  BY <1>1, <1>2
<1>4. s \o t = u
  BY <1>1, <1>2, <1>3, SeqEqual
<1> QED
  BY <1>4 DEF s, t, u

\* A path that is not empty is its first name and the rest.
LEMMA HeadAndTail ==
    ASSUME NEW S, NEW x \in Seq(S), x # <<>>
    PROVE  /\ x[1] \in S /\ Tail(x) \in Seq(S) /\ Len(x) \in Nat \ {0}
           /\ Len(Tail(x)) = Len(x) - 1
           /\ \A i \in 1 .. Len(x) - 1 : Tail(x)[i] = x[i + 1]
<1>1. Len(x) \in Nat \ {0}
  OBVIOUS
<1>2. x[1] \in S
  BY <1>1, ElementOfSeq
<1> QED
  BY <1>1, <1>2, HeadTailProperties

-----------------------------------------------------------------------------
(* What is in a table.                                                     *)

\* s holds the routes of S and no others.
Lists(s, S) == s \in Seq(Route) /\ Range(s) = S

\* A table after another holds the routes of both.
LEMMA ListsBoth ==
    ASSUME NEW s, NEW S, NEW t, NEW T, Lists(s, S), Lists(t, T)
    PROVE  Lists(s \o t, S \cup T)
BY ConcatProperties, RangeConcatenation DEF Lists

LEMMA ListsNone == Lists(<<>>, {})
<1>1. <<>> \in Seq(Route) /\ Len(<<>>) = 0
  BY EmptySeq
<1>2. Range(<<>>) = {<<>>[i] : i \in 1 .. Len(<<>>)}
  BY <1>1, RangeEquality
<1>3. 1 .. 0 = {}
  OBVIOUS
<1> QED
  BY <1>1, <1>2, <1>3 DEF Lists

LEMMA ListsShort ==
    ASSUME NEW a \in Route, NEW b \in Route, NEW c \in Route
    PROVE  Lists(<<a>>, {a}) /\ Lists(<<a, b>>, {a, b}) /\ Lists(<<a, b, c>>, {a, b, c})
<1> DEFINE s == <<a>>
           t == <<a, b>>
           u == <<a, b, c>>
<1>1. /\ s \in Seq(Route) /\ t \in Seq(Route) /\ u \in Seq(Route)
      /\ Len(s) = 1 /\ Len(t) = 2 /\ Len(u) = 3
      /\ s[1] = a /\ t[1] = a /\ t[2] = b /\ u[1] = a /\ u[2] = b /\ u[3] = c
  OBVIOUS
<1>2. 1 .. 1 = {1} /\ 1 .. 2 = {1, 2} /\ 1 .. 3 = {1, 2, 3}
  OBVIOUS
<1> HIDE DEF s, t, u
<1>3. /\ Range(s) = {s[i] : i \in 1 .. 1} /\ Range(t) = {t[i] : i \in 1 .. 2}
      /\ Range(u) = {u[i] : i \in 1 .. 3}
  BY <1>1, RangeEquality
<1>4. Range(s) = {a}
  BY <1>1, <1>2, <1>3
<1>5. Range(t) = {a, b}
  BY <1>1, <1>2, <1>3
<1>6. Range(u) = {a, b, c}
  BY <1>1, <1>2, <1>3
<1> QED
  BY <1>1, <1>4, <1>5, <1>6 DEF Lists, s, t, u

LEMMA ListsSix ==
    ASSUME NEW a \in Route, NEW b \in Route, NEW c \in Route,
           NEW d \in Route, NEW e \in Route, NEW f \in Route
    PROVE  Lists(<<a, b, c, d, e, f>>, {a, b, c, d, e, f})
<1> DEFINE u == <<a, b, c, d, e, f>>
<1>1. /\ u \in Seq(Route) /\ Len(u) = 6
      /\ u[1] = a /\ u[2] = b /\ u[3] = c /\ u[4] = d /\ u[5] = e /\ u[6] = f
  OBVIOUS
<1>2. 1 .. 6 = {1, 2, 3, 4, 5, 6}
  OBVIOUS
<1> HIDE DEF u
<1>3. Range(u) = {u[i] : i \in 1 .. 6}
  BY <1>1, RangeEquality
<1>4. Range(u) = {a, b, c, d, e, f}
  BY <1>1, <1>2, <1>3
<1> QED
  BY <1>1, <1>4 DEF Lists, u

-----------------------------------------------------------------------------
(* The routes of the components, with and without a variant.               *)

\* The route r of a component below the prefix p.
At(p, r) == [method |-> r.method, base |-> p \o r.base, wild |-> r.wild, handler |-> r.handler]

AllAt(p, S) == {At(p, r) : r \in S}

\* Sequences put together twice; the elements need no set of their own.
LEMMA InBoth ==
    ASSUME NEW p \in Seq(Word), NEW T
    PROVE  p \in Seq(Word \cup T)
<1>1. Word \subseteq Word \cup T
  OBVIOUS
<1> QED
  BY <1>1, SeqMonotonic

LEMMA Nested11 ==
    ASSUME NEW p \in Seq(Word), NEW a, NEW b
    PROVE  (p \o <<a>>) \o <<b>> = p \o <<a, b>>
<1> DEFINE S == Word \cup {a, b}
<1>1. p \in Seq(S) /\ a \in S /\ b \in S
  BY InBoth
<1> HIDE DEF S
<1>2. <<a>> \in Seq(S) /\ <<b>> \in Seq(S)
  BY <1>1
<1>3. (p \o <<a>>) \o <<b>> = p \o (<<a>> \o <<b>>)
  BY <1>1, <1>2, ConcatAssociative
<1> QED
  BY <1>1, <1>3, Pair

LEMMA Nested12 ==
    ASSUME NEW p \in Seq(Word), NEW a, NEW b, NEW c
    PROVE  (p \o <<a>>) \o <<b, c>> = p \o <<a, b, c>>
<1> DEFINE S == Word \cup {a, b, c}
<1>1. p \in Seq(S) /\ a \in S /\ b \in S /\ c \in S
  BY InBoth
<1> HIDE DEF S
<1>2. <<a>> \in Seq(S) /\ <<b, c>> \in Seq(S)
  BY <1>1
<1>3. (p \o <<a>>) \o <<b, c>> = p \o (<<a>> \o <<b, c>>)
  BY <1>1, <1>2, ConcatAssociative
<1> QED
  BY <1>1, <1>3, Extended

LEMMA Nested21 ==
    ASSUME NEW p \in Seq(Word), NEW a, NEW b, NEW c
    PROVE  (p \o <<a, b>>) \o <<c>> = p \o <<a, b, c>>
<1> DEFINE S == Word \cup {a, b, c}
<1>1. p \in Seq(S) /\ a \in S /\ b \in S /\ c \in S
  BY InBoth
<1> HIDE DEF S
<1>2. <<a, b>> \in Seq(S) /\ <<c>> \in Seq(S)
  BY <1>1
<1>3. (p \o <<a, b>>) \o <<c>> = p \o (<<a, b>> \o <<c>>)
  BY <1>1, <1>2, ConcatAssociative
<1> QED
  BY <1>1, <1>3, Extended

LEMMA Nested22 ==
    ASSUME NEW p \in Seq(Word), NEW a, NEW b, NEW c, NEW d
    PROVE  (p \o <<a, b>>) \o <<c, d>> = p \o <<a, b, c, d>>
<1> DEFINE S == Word \cup {a, b, c, d}
<1>1. p \in Seq(S) /\ a \in S /\ b \in S /\ c \in S /\ d \in S
  BY InBoth
<1> HIDE DEF S
<1>2. <<a, b>> \in Seq(S) /\ <<c, d>> \in Seq(S)
  BY <1>1
<1>3. (p \o <<a, b>>) \o <<c, d>> = p \o (<<a, b>> \o <<c, d>>)
  BY <1>1, <1>2, ConcatAssociative
<1> QED
  BY <1>1, <1>3, TwoAndTwo

\* A sequence of words is a path.
LEMMA Words ==
    ASSUME NEW a \in Word, NEW b \in Word, NEW c \in Word, NEW d \in Word
    PROVE  /\ <<a>> \in Seq(Word) /\ <<a, b>> \in Seq(Word)
           /\ <<a, b, c>> \in Seq(Word) /\ <<a, b, c, d>> \in Seq(Word)
OBVIOUS

LEMMA OneWord == \A a \in Word : <<a>> \in Seq(Word)
BY Words

LEMMA TwoWords == \A a, b \in Word : <<a, b>> \in Seq(Word)
BY Words

LEMMA ThreeWords == \A a, b, c \in Word : <<a, b, c>> \in Seq(Word)
BY Words

LEMMA FourWords == \A a, b, c, d \in Word : <<a, b, c, d>> \in Seq(Word)
BY Words

\* On, Below and At make routes.
LEMMA OnRoute ==
    ASSUME NEW m \in Methods, NEW b \in Seq(Word), NEW h \in Handlers
    PROVE  On(m, b, h) \in Route
BY DEF On, Route

LEMMA BelowRoute ==
    ASSUME NEW b \in Seq(Word), NEW h \in Handlers
    PROVE  Below(b, h) \in Route
<1>1. "GET" \in Methods
  BY DEF Methods
<1> QED
  BY <1>1 DEF Below, Route

LEMMA AtRoute ==
    ASSUME NEW p \in Seq(Word), NEW r \in Route
    PROVE  At(p, r) \in Route
<1>1. p \o r.base \in Seq(Word)
  BY ConcatProperties DEF Route
<1> QED
  BY <1>1 DEF At, Route

-----------------------------------------------------------------------------
(* The routes of each component, as they are without a prefix.             *)

RedirectsOwn ==
    {On("GET", <<"">>, "redirect"),
     Below(<<"-">>, "redirect")}

PageOwn ==
    {On("GET", <<"pageinfo">>, "pageinfo"),
     On("GET", <<"metrics">>, "metrics")}

BuiltOwn ==
    {Below(<<"built">>, "sitedata")}

StaticOwn ==
    {Below(<<"static">>, "sitedata")}

FSPageOwn ==
    {Below(<<"fs">>, "fs")}

FSOwn ==
    {On("GET", <<"fsapi">>, "fsapi"),
     On("GET", <<"fsapi", "">>, "fsapi"),
     Below(<<"fsapi">>, "fsapi")}

MemoryOwn ==
    {On("GET", <<"mem", "api">>, "mem"),
     On("POST", <<"mem", "api", "alloc">>, "mem.alloc"),
     On("POST", <<"mem", "api", "clear">>, "mem.clear")}

LiveOwn ==
    {On("GET", <<"healthy">>, "live"),
     On("GET", <<"healthy", "api">>, "live.status"),
     On("PUT", <<"healthy", "api">>, "live.config")}

ReadyOwn ==
    {On("GET", <<"ready">>, "ready"),
     On("GET", <<"ready", "api">>, "ready.status"),
     On("PUT", <<"ready", "api">>, "ready.config")}

EnvOwn ==
    {On("GET", <<"env", "api">>, "env")}

DNSOwn ==
    {On("POST", <<"dns", "api">>, "dns")}

KeyGenOwn ==
    {On("GET", <<"keygen">>, "keygen"),
     On("PUT", <<"keygen">>, "keygen.config")}

MemQOwn ==
    {On("GET", <<"memq", "server", "stats">>, "memq.stats"),
     On("PUT", <<"memq", "server", "queues">>, "memq.create"),
     On("DELETE", <<"memq", "server", "queues">>, "memq.delete"),
     On("POST", <<"memq", "server", "queues", "drain">>, "memq.drain"),
     On("POST", <<"memq", "server", "queues", "dequeue">>, "memq.dequeue"),
     On("POST", <<"memq", "server", "queues", "enqueue">>, "memq.enqueue")}

\* The routes without a prefix, and those below one: redirects come with it.
Plain ==
    PageOwn \cup BuiltOwn \cup StaticOwn \cup FSPageOwn \cup FSOwn \cup MemoryOwn \cup LiveOwn
    \cup ReadyOwn \cup EnvOwn \cup DNSOwn \cup KeyGenOwn \cup MemQOwn

Block == RedirectsOwn \cup Plain

\* S has routes of components, all below one of the names.
Named(S, names) ==
    \A r \in S : r \in Route /\ r.base # <<>> /\ r.base[1] \in names /\ r.handler # "ui"

\* A component answers all of its routes alike, or is one without wildcards.
Alike(S) ==
    \/ \A r, s \in S : r.handler = s.handler
    \/ \A r, s \in S :
         ~r.wild /\ (r.base = s.base /\ r.method = s.method => r.handler = s.handler)

\* What each component's routes are named, and that they answer alike.
LEMMA RedirectsFacts == Named(RedirectsOwn, {"", "-"}) /\ Alike(RedirectsOwn)
<1>1. \A r \in RedirectsOwn : r \in Route
  <2>1. <<"">> \in Seq(Word) /\ <<"-">> \in Seq(Word)
    BY OneWord DEF Word
  <2>2. "GET" \in Methods
    BY DEF Methods
  <2>3. "redirect" \in Handlers
    BY DEF Handlers
  <2> QED
    BY <2>1, <2>2, <2>3, OnRoute, BelowRoute DEF RedirectsOwn
<1>2. \A r \in RedirectsOwn : r.base # <<>> /\ r.base[1] \in {"", "-"} /\ r.handler = "redirect"
  <2> DEFINE Own(r) == r.base # <<>> /\ r.base[1] \in {"", "-"} /\ r.handler = "redirect"
  <2>1. Own(On("GET", <<"">>, "redirect"))
    BY DEF On
  <2>2. Own(Below(<<"-">>, "redirect"))
    BY DEF Below
  <2> QED
    BY <2>1, <2>2 DEF RedirectsOwn
<1> QED
  BY <1>1, <1>2 DEF Named, Alike

LEMMA PageFacts == Named(PageOwn, {"pageinfo", "metrics"}) /\ Alike(PageOwn)
<1>1. \A r \in PageOwn : r \in Route
  <2>1. <<"pageinfo">> \in Seq(Word) /\ <<"metrics">> \in Seq(Word)
    BY OneWord DEF Word
  <2>2. "GET" \in Methods
    BY DEF Methods
  <2>3. {"pageinfo", "metrics"} \subseteq Handlers
    BY DEF Handlers
  <2> QED
    BY <2>1, <2>2, <2>3, OnRoute DEF PageOwn
<1>2. \A r \in PageOwn : r.base # <<>> /\ r.base[1] \in {"pageinfo", "metrics"} /\ r.handler # "ui"
  BY DEF PageOwn, On
<1> QED
  BY <1>1, <1>2 DEF PageOwn, On, Named, Alike

LEMMA BuiltFacts == Named(BuiltOwn, {"built"}) /\ Alike(BuiltOwn)
<1>1. \A r \in BuiltOwn : r \in Route
  <2>1. <<"built">> \in Seq(Word)
    BY OneWord DEF Word
  <2>2. "GET" \in Methods
    BY DEF Methods
  <2>3. "sitedata" \in Handlers
    BY DEF Handlers
  <2> QED
    BY <2>1, <2>2, <2>3, BelowRoute DEF BuiltOwn
<1>2. \A r \in BuiltOwn : r.base # <<>> /\ r.base[1] \in {"built"} /\ r.handler # "ui"
  BY DEF BuiltOwn, Below
<1> QED
  BY <1>1, <1>2 DEF BuiltOwn, Below, Named, Alike

LEMMA StaticFacts == Named(StaticOwn, {"static"}) /\ Alike(StaticOwn)
<1>1. \A r \in StaticOwn : r \in Route
  <2>1. <<"static">> \in Seq(Word)
    BY OneWord DEF Word
  <2>2. "GET" \in Methods
    BY DEF Methods
  <2>3. "sitedata" \in Handlers
    BY DEF Handlers
  <2> QED
    BY <2>1, <2>2, <2>3, BelowRoute DEF StaticOwn
<1>2. \A r \in StaticOwn : r.base # <<>> /\ r.base[1] \in {"static"} /\ r.handler # "ui"
  BY DEF StaticOwn, Below
<1> QED
  BY <1>1, <1>2 DEF StaticOwn, Below, Named, Alike

LEMMA FSPageFacts == Named(FSPageOwn, {"fs"}) /\ Alike(FSPageOwn)
<1>1. \A r \in FSPageOwn : r \in Route
  <2>1. <<"fs">> \in Seq(Word)
    BY OneWord DEF Word
  <2>2. "GET" \in Methods
    BY DEF Methods
  <2>3. "fs" \in Handlers
    BY DEF Handlers
  <2> QED
    BY <2>1, <2>2, <2>3, BelowRoute DEF FSPageOwn
<1>2. \A r \in FSPageOwn : r.base # <<>> /\ r.base[1] \in {"fs"} /\ r.handler # "ui"
  BY DEF FSPageOwn, Below
<1> QED
  BY <1>1, <1>2 DEF FSPageOwn, Below, Named, Alike

LEMMA FSFacts == Named(FSOwn, {"fsapi"}) /\ Alike(FSOwn)
<1>1. \A r \in FSOwn : r \in Route
  <2>1. <<"fsapi">> \in Seq(Word) /\ <<"fsapi", "">> \in Seq(Word)
    BY OneWord, TwoWords DEF Word
  <2>2. "GET" \in Methods
    BY DEF Methods
  <2>3. "fsapi" \in Handlers
    BY DEF Handlers
  <2> QED
    BY <2>1, <2>2, <2>3, OnRoute, BelowRoute DEF FSOwn
<1>2. \A r \in FSOwn : r.base # <<>> /\ r.base[1] \in {"fsapi"} /\ r.handler = "fsapi"
  <2> DEFINE Own(r) == r.base # <<>> /\ r.base[1] \in {"fsapi"} /\ r.handler = "fsapi"
  <2>1. Own(On("GET", <<"fsapi">>, "fsapi"))
    BY DEF On
  <2>2. Own(On("GET", <<"fsapi", "">>, "fsapi"))
    BY DEF On
  <2>3. Own(Below(<<"fsapi">>, "fsapi"))
    BY DEF Below
  <2> QED
    BY <2>1, <2>2, <2>3 DEF FSOwn
<1> QED
  BY <1>1, <1>2 DEF Named, Alike

LEMMA MemoryFacts == Named(MemoryOwn, {"mem"}) /\ Alike(MemoryOwn)
<1>1. \A r \in MemoryOwn : r \in Route
  <2>1. /\ <<"mem", "api">> \in Seq(Word)
        /\ <<"mem", "api", "alloc">> \in Seq(Word)
        /\ <<"mem", "api", "clear">> \in Seq(Word)
    BY TwoWords, ThreeWords DEF Word
  <2>2. {"GET", "POST"} \subseteq Methods
    BY DEF Methods
  <2>3. {"mem", "mem.alloc", "mem.clear"} \subseteq Handlers
    BY DEF Handlers
  <2> QED
    BY <2>1, <2>2, <2>3, OnRoute DEF MemoryOwn
<1>2. \A r \in MemoryOwn : r.base # <<>> /\ r.base[1] \in {"mem"} /\ r.handler # "ui"
  BY DEF MemoryOwn, On
<1> QED
  BY <1>1, <1>2 DEF MemoryOwn, On, Named, Alike

LEMMA LiveFacts == Named(LiveOwn, {"healthy"}) /\ Alike(LiveOwn)
<1>1. \A r \in LiveOwn : r \in Route
  <2>1. <<"healthy">> \in Seq(Word) /\ <<"healthy", "api">> \in Seq(Word)
    BY OneWord, TwoWords DEF Word
  <2>2. {"GET", "PUT"} \subseteq Methods
    BY DEF Methods
  <2>3. {"live", "live.status", "live.config"} \subseteq Handlers
    BY DEF Handlers
  <2> QED
    BY <2>1, <2>2, <2>3, OnRoute DEF LiveOwn
<1>2. \A r \in LiveOwn : r.base # <<>> /\ r.base[1] \in {"healthy"} /\ r.handler # "ui"
  BY DEF LiveOwn, On
<1> QED
  BY <1>1, <1>2 DEF LiveOwn, On, Named, Alike

LEMMA ReadyFacts == Named(ReadyOwn, {"ready"}) /\ Alike(ReadyOwn)
<1>1. \A r \in ReadyOwn : r \in Route
  <2>1. <<"ready">> \in Seq(Word) /\ <<"ready", "api">> \in Seq(Word)
    BY OneWord, TwoWords DEF Word
  <2>2. {"GET", "PUT"} \subseteq Methods
    BY DEF Methods
  <2>3. {"ready", "ready.status", "ready.config"} \subseteq Handlers
    BY DEF Handlers
  <2> QED
    BY <2>1, <2>2, <2>3, OnRoute DEF ReadyOwn
<1>2. \A r \in ReadyOwn : r.base # <<>> /\ r.base[1] \in {"ready"} /\ r.handler # "ui"
  BY DEF ReadyOwn, On
<1> QED
  BY <1>1, <1>2 DEF ReadyOwn, On, Named, Alike

LEMMA EnvFacts == Named(EnvOwn, {"env"}) /\ Alike(EnvOwn)
<1>1. \A r \in EnvOwn : r \in Route
  <2>1. <<"env", "api">> \in Seq(Word)
    BY TwoWords DEF Word
  <2>2. "GET" \in Methods
    BY DEF Methods
  <2>3. "env" \in Handlers
    BY DEF Handlers
  <2> QED
    BY <2>1, <2>2, <2>3, OnRoute DEF EnvOwn
<1>2. \A r \in EnvOwn : r.base # <<>> /\ r.base[1] \in {"env"} /\ r.handler # "ui"
  BY DEF EnvOwn, On
<1> QED
  BY <1>1, <1>2 DEF EnvOwn, On, Named, Alike

LEMMA DNSFacts == Named(DNSOwn, {"dns"}) /\ Alike(DNSOwn)
<1>1. \A r \in DNSOwn : r \in Route
  <2>1. <<"dns", "api">> \in Seq(Word)
    BY TwoWords DEF Word
  <2>2. "POST" \in Methods
    BY DEF Methods
  <2>3. "dns" \in Handlers
    BY DEF Handlers
  <2> QED
    BY <2>1, <2>2, <2>3, OnRoute DEF DNSOwn
<1>2. \A r \in DNSOwn : r.base # <<>> /\ r.base[1] \in {"dns"} /\ r.handler # "ui"
  BY DEF DNSOwn, On
<1> QED
  BY <1>1, <1>2 DEF DNSOwn, On, Named, Alike

LEMMA KeyGenFacts == Named(KeyGenOwn, {"keygen"}) /\ Alike(KeyGenOwn)
<1>1. \A r \in KeyGenOwn : r \in Route
  <2>1. <<"keygen">> \in Seq(Word)
    BY OneWord DEF Word
  <2>2. {"GET", "PUT"} \subseteq Methods
    BY DEF Methods
  <2>3. {"keygen", "keygen.config"} \subseteq Handlers
    BY DEF Handlers
  <2> QED
    BY <2>1, <2>2, <2>3, OnRoute DEF KeyGenOwn
<1>2. \A r \in KeyGenOwn : r.base # <<>> /\ r.base[1] \in {"keygen"} /\ r.handler # "ui"
  BY DEF KeyGenOwn, On
<1> QED
  BY <1>1, <1>2 DEF KeyGenOwn, On, Named, Alike

LEMMA MemQFacts == Named(MemQOwn, {"memq"}) /\ Alike(MemQOwn)
<1>1. \A r \in MemQOwn : r \in Route
  <2>1. /\ <<"memq", "server", "stats">> \in Seq(Word)
        /\ <<"memq", "server", "queues">> \in Seq(Word)
        /\ <<"memq", "server", "queues", "drain">> \in Seq(Word)
        /\ <<"memq", "server", "queues", "dequeue">> \in Seq(Word)
        /\ <<"memq", "server", "queues", "enqueue">> \in Seq(Word)
    BY ThreeWords, FourWords DEF Word
  <2>2. {"DELETE", "GET", "POST", "PUT"} \subseteq Methods
    BY DEF Methods
  <2>3. {"memq.stats", "memq.create", "memq.delete", "memq.drain", "memq.dequeue",
        "memq.enqueue"} \subseteq Handlers
    BY DEF Handlers
  <2> QED
    BY <2>1, <2>2, <2>3, OnRoute DEF MemQOwn
<1>2. \A r \in MemQOwn : r.base # <<>> /\ r.base[1] \in {"memq"} /\ r.handler # "ui"
  BY DEF MemQOwn, On
<1> QED
  BY <1>1, <1>2 DEF MemQOwn, On, Named, Alike

-----------------------------------------------------------------------------
(* What a component adds to the table below a prefix.                      *)

LEMMA RedirectsLists ==
    ASSUME NEW p \in Seq(Word)
    PROVE  Lists(Redirects(p), AllAt(p, RedirectsOwn))
<1> DEFINE a == At(p, On("GET", <<"">>, "redirect"))
           b == At(p, Below(<<"-">>, "redirect"))
<1>1. Redirects(p) = <<a, b>>
  BY DEF Redirects, At, On, Below
<1>2. a \in Route /\ b \in Route
  BY RedirectsFacts, AtRoute DEF Named, RedirectsOwn
<1>3. AllAt(p, RedirectsOwn) = {a, b}
  BY DEF AllAt, RedirectsOwn
<1> HIDE DEF a, b
<1> QED
  BY <1>1, <1>2, <1>3, ListsShort

LEMMA PageLists ==
    ASSUME NEW p \in Seq(Word)
    PROVE  Lists(<<On("GET", p \o <<"pageinfo">>, "pageinfo"),
                   On("GET", p \o <<"metrics">>, "metrics")>>,
                 AllAt(p, PageOwn))
<1> DEFINE a == At(p, On("GET", <<"pageinfo">>, "pageinfo"))
           b == At(p, On("GET", <<"metrics">>, "metrics"))
<1>1. <<On("GET", p \o <<"pageinfo">>, "pageinfo"),
        On("GET", p \o <<"metrics">>, "metrics")>> = <<a, b>>
  BY DEF At, On
<1>2. a \in Route /\ b \in Route
  BY PageFacts, AtRoute DEF Named, PageOwn
<1>3. AllAt(p, PageOwn) = {a, b}
  BY DEF AllAt, PageOwn
<1> HIDE DEF a, b
<1> QED
  BY <1>1, <1>2, <1>3, ListsShort

LEMMA BuiltLists ==
    ASSUME NEW p \in Seq(Word)
    PROVE  Lists(SiteRoutes(p \o <<"built">>), AllAt(p, BuiltOwn))
<1> DEFINE a == At(p, Below(<<"built">>, "sitedata"))
<1>1. SiteRoutes(p \o <<"built">>) = <<a>>
  BY DEF SiteRoutes, At, Below
<1>2. a \in Route
  BY BuiltFacts, AtRoute DEF Named, BuiltOwn
<1>3. AllAt(p, BuiltOwn) = {a}
  BY DEF AllAt, BuiltOwn
<1> HIDE DEF a
<1> QED
  BY <1>1, <1>2, <1>3, ListsShort

LEMMA StaticLists ==
    ASSUME NEW p \in Seq(Word)
    PROVE  Lists(SiteRoutes(p \o <<"static">>), AllAt(p, StaticOwn))
<1> DEFINE a == At(p, Below(<<"static">>, "sitedata"))
<1>1. SiteRoutes(p \o <<"static">>) = <<a>>
  BY DEF SiteRoutes, At, Below
<1>2. a \in Route
  BY StaticFacts, AtRoute DEF Named, StaticOwn
<1>3. AllAt(p, StaticOwn) = {a}
  BY DEF AllAt, StaticOwn
<1> HIDE DEF a
<1> QED
  BY <1>1, <1>2, <1>3, ListsShort

LEMMA FSPageLists ==
    ASSUME NEW p \in Seq(Word)
    PROVE  Lists(<<Below(p \o <<"fs">>, "fs")>>, AllAt(p, FSPageOwn))
<1> DEFINE a == At(p, Below(<<"fs">>, "fs"))
<1>1. <<Below(p \o <<"fs">>, "fs")>> = <<a>>
  BY DEF At, Below
<1>2. a \in Route
  BY FSPageFacts, AtRoute DEF Named, FSPageOwn
<1>3. AllAt(p, FSPageOwn) = {a}
  BY DEF AllAt, FSPageOwn
<1> HIDE DEF a
<1> QED
  BY <1>1, <1>2, <1>3, ListsShort

LEMMA FSLists ==
    ASSUME NEW p \in Seq(Word)
    PROVE  Lists(FSRoutes(p \o <<"fsapi">>), AllAt(p, FSOwn))
<1> DEFINE a == At(p, On("GET", <<"fsapi">>, "fsapi"))
           b == At(p, On("GET", <<"fsapi", "">>, "fsapi"))
           c == At(p, Below(<<"fsapi">>, "fsapi"))
<1>1. FSRoutes(p \o <<"fsapi">>) = <<a, b, c>>
  BY Nested11 DEF FSRoutes, At, On, Below
<1>2. a \in Route /\ b \in Route /\ c \in Route
  BY FSFacts, AtRoute DEF Named, FSOwn
<1>3. AllAt(p, FSOwn) = {a, b, c}
  BY DEF AllAt, FSOwn
<1> HIDE DEF a, b, c
<1> QED
  BY <1>1, <1>2, <1>3, ListsShort

LEMMA MemoryLists ==
    ASSUME NEW p \in Seq(Word)
    PROVE  Lists(MemoryRoutes(p \o <<"mem">>), AllAt(p, MemoryOwn))
<1> DEFINE a == At(p, On("GET", <<"mem", "api">>, "mem"))
           b == At(p, On("POST", <<"mem", "api", "alloc">>, "mem.alloc"))
           c == At(p, On("POST", <<"mem", "api", "clear">>, "mem.clear"))
<1>1. MemoryRoutes(p \o <<"mem">>) = <<a, b, c>>
  <2>1. (p \o <<"mem">>) \o <<"api">> = p \o <<"mem", "api">>
    BY Nested11
  <2>2. (p \o <<"mem">>) \o <<"api", "alloc">> = p \o <<"mem", "api", "alloc">>
    BY Nested12
  <2>3. (p \o <<"mem">>) \o <<"api", "clear">> = p \o <<"mem", "api", "clear">>
    BY Nested12
  <2> QED
    BY <2>1, <2>2, <2>3 DEF MemoryRoutes, At, On
<1>2. a \in Route /\ b \in Route /\ c \in Route
  BY MemoryFacts, AtRoute DEF Named, MemoryOwn
<1>3. AllAt(p, MemoryOwn) = {a, b, c}
  BY DEF AllAt, MemoryOwn
<1> HIDE DEF a, b, c
<1> QED
  BY <1>1, <1>2, <1>3, ListsShort

LEMMA LiveLists ==
    ASSUME NEW p \in Seq(Word)
    PROVE  Lists(ProbeRoutes(p \o <<"healthy">>, "live", "live.status", "live.config"),
                 AllAt(p, LiveOwn))
<1> DEFINE a == At(p, On("GET", <<"healthy">>, "live"))
           b == At(p, On("GET", <<"healthy", "api">>, "live.status"))
           c == At(p, On("PUT", <<"healthy", "api">>, "live.config"))
<1>1. ProbeRoutes(p \o <<"healthy">>, "live", "live.status", "live.config") = <<a, b, c>>
  BY Nested11 DEF ProbeRoutes, At, On
<1>2. a \in Route /\ b \in Route /\ c \in Route
  BY LiveFacts, AtRoute DEF Named, LiveOwn
<1>3. AllAt(p, LiveOwn) = {a, b, c}
  BY DEF AllAt, LiveOwn
<1> HIDE DEF a, b, c
<1> QED
  BY <1>1, <1>2, <1>3, ListsShort

LEMMA ReadyLists ==
    ASSUME NEW p \in Seq(Word)
    PROVE  Lists(ProbeRoutes(p \o <<"ready">>, "ready", "ready.status", "ready.config"),
                 AllAt(p, ReadyOwn))
<1> DEFINE a == At(p, On("GET", <<"ready">>, "ready"))
           b == At(p, On("GET", <<"ready", "api">>, "ready.status"))
           c == At(p, On("PUT", <<"ready", "api">>, "ready.config"))
<1>1. ProbeRoutes(p \o <<"ready">>, "ready", "ready.status", "ready.config") = <<a, b, c>>
  BY Nested11 DEF ProbeRoutes, At, On
<1>2. a \in Route /\ b \in Route /\ c \in Route
  BY ReadyFacts, AtRoute DEF Named, ReadyOwn
<1>3. AllAt(p, ReadyOwn) = {a, b, c}
  BY DEF AllAt, ReadyOwn
<1> HIDE DEF a, b, c
<1> QED
  BY <1>1, <1>2, <1>3, ListsShort

LEMMA EnvLists ==
    ASSUME NEW p \in Seq(Word)
    PROVE  Lists(EnvRoutes(p \o <<"env">>), AllAt(p, EnvOwn))
<1> DEFINE a == At(p, On("GET", <<"env", "api">>, "env"))
<1>1. EnvRoutes(p \o <<"env">>) = <<a>>
  BY Nested11 DEF EnvRoutes, At, On
<1>2. a \in Route
  BY EnvFacts, AtRoute DEF Named, EnvOwn
<1>3. AllAt(p, EnvOwn) = {a}
  BY DEF AllAt, EnvOwn
<1> HIDE DEF a
<1> QED
  BY <1>1, <1>2, <1>3, ListsShort

LEMMA DNSLists ==
    ASSUME NEW p \in Seq(Word)
    PROVE  Lists(DNSRoutes(p \o <<"dns">>), AllAt(p, DNSOwn))
<1> DEFINE a == At(p, On("POST", <<"dns", "api">>, "dns"))
<1>1. DNSRoutes(p \o <<"dns">>) = <<a>>
  BY Nested11 DEF DNSRoutes, At, On
<1>2. a \in Route
  BY DNSFacts, AtRoute DEF Named, DNSOwn
<1>3. AllAt(p, DNSOwn) = {a}
  BY DEF AllAt, DNSOwn
<1> HIDE DEF a
<1> QED
  BY <1>1, <1>2, <1>3, ListsShort

LEMMA KeyGenLists ==
    ASSUME NEW p \in Seq(Word)
    PROVE  Lists(KeyGenRoutes(p \o <<"keygen">>), AllAt(p, KeyGenOwn))
<1> DEFINE a == At(p, On("GET", <<"keygen">>, "keygen"))
           b == At(p, On("PUT", <<"keygen">>, "keygen.config"))
<1>1. KeyGenRoutes(p \o <<"keygen">>) = <<a, b>>
  BY DEF KeyGenRoutes, At, On
<1>2. a \in Route /\ b \in Route
  BY KeyGenFacts, AtRoute DEF Named, KeyGenOwn
<1>3. AllAt(p, KeyGenOwn) = {a, b}
  BY DEF AllAt, KeyGenOwn
<1> HIDE DEF a, b
<1> QED
  BY <1>1, <1>2, <1>3, ListsShort

LEMMA MemQLists ==
    ASSUME NEW p \in Seq(Word)
    PROVE  Lists(MemQRoutes(p \o <<"memq", "server">>), AllAt(p, MemQOwn))
<1> DEFINE a == At(p, On("GET", <<"memq", "server", "stats">>, "memq.stats"))
           b == At(p, On("PUT", <<"memq", "server", "queues">>, "memq.create"))
           c == At(p, On("DELETE", <<"memq", "server", "queues">>, "memq.delete"))
           d == At(p, On("POST", <<"memq", "server", "queues", "drain">>, "memq.drain"))
           e == At(p, On("POST", <<"memq", "server", "queues", "dequeue">>, "memq.dequeue"))
           f == At(p, On("POST", <<"memq", "server", "queues", "enqueue">>, "memq.enqueue"))
<1>1. MemQRoutes(p \o <<"memq", "server">>) = <<a, b, c, d, e, f>>
  <2>1. (p \o <<"memq", "server">>) \o <<"stats">> = p \o <<"memq", "server", "stats">>
    BY Nested21
  <2>2. (p \o <<"memq", "server">>) \o <<"queues">> = p \o <<"memq", "server", "queues">>
    BY Nested21
  <2>3. (p \o <<"memq", "server">>) \o <<"queues", "drain">>
        = p \o <<"memq", "server", "queues", "drain">>
    BY Nested22
  <2>4. (p \o <<"memq", "server">>) \o <<"queues", "dequeue">>
        = p \o <<"memq", "server", "queues", "dequeue">>
    BY Nested22
  <2>5. (p \o <<"memq", "server">>) \o <<"queues", "enqueue">>
        = p \o <<"memq", "server", "queues", "enqueue">>
    BY Nested22
  <2> QED
    BY <2>1, <2>2, <2>3, <2>4, <2>5 DEF MemQRoutes, At, On
<1>2. a \in Route /\ b \in Route /\ c \in Route /\ d \in Route /\ e \in Route /\ f \in Route
  BY MemQFacts, AtRoute DEF Named, MemQOwn
<1>3. AllAt(p, MemQOwn) = {a, b, c, d, e, f}
  BY DEF AllAt, MemQOwn
<1> HIDE DEF a, b, c, d, e, f
<1> QED
  BY <1>1, <1>2, <1>3, ListsSix
\* Another component is added to the table.
LEMMA ListsMore ==
    ASSUME NEW p, NEW s, NEW S, NEW t, NEW T, Lists(s, AllAt(p, S)), Lists(t, AllAt(p, T))
    PROVE  Lists(s \o t, AllAt(p, S \cup T))
<1>1. AllAt(p, S \cup T) = AllAt(p, S) \cup AllAt(p, T)
  BY DEF AllAt
<1>2. Lists(s \o t, AllAt(p, S) \cup AllAt(p, T))
  BY ListsBoth
<1> QED
  BY <1>1, <1>2

\* The body of the loop of NewApp adds these routes, below the prefix.
LEMMA ComponentLists ==
    ASSUME NEW p \in Seq(Word)
    PROVE  Lists(ComponentRoutes(p), AllAt(p, IF p = <<>> THEN Plain ELSE Block))
<1> DEFINE S0 == IF p = <<>> THEN {} ELSE RedirectsOwn
           s0 == IF p = <<>> THEN <<>> ELSE Redirects(p)
           s1 == s0 \o <<On("GET", p \o <<"pageinfo">>, "pageinfo"),
                         On("GET", p \o <<"metrics">>, "metrics")>>
           s2 == s1 \o SiteRoutes(p \o <<"built">>)
           s3 == s2 \o SiteRoutes(p \o <<"static">>)
           s4 == s3 \o <<Below(p \o <<"fs">>, "fs")>>
           s5 == s4 \o FSRoutes(p \o <<"fsapi">>)
           s6 == s5 \o MemoryRoutes(p \o <<"mem">>)
           s7 == s6 \o ProbeRoutes(p \o <<"healthy">>, "live", "live.status", "live.config")
           s8 == s7 \o ProbeRoutes(p \o <<"ready">>, "ready", "ready.status", "ready.config")
           s9 == s8 \o EnvRoutes(p \o <<"env">>)
           s10 == s9 \o DNSRoutes(p \o <<"dns">>)
           s11 == s10 \o KeyGenRoutes(p \o <<"keygen">>)
           s12 == s11 \o MemQRoutes(p \o <<"memq", "server">>)
           S1 == S0 \cup PageOwn
           S2 == S1 \cup BuiltOwn
           S3 == S2 \cup StaticOwn
           S4 == S3 \cup FSPageOwn
           S5 == S4 \cup FSOwn
           S6 == S5 \cup MemoryOwn
           S7 == S6 \cup LiveOwn
           S8 == S7 \cup ReadyOwn
           S9 == S8 \cup EnvOwn
           S10 == S9 \cup DNSOwn
           S11 == S10 \cup KeyGenOwn
           S12 == S11 \cup MemQOwn
<1>0. Lists(s0, AllAt(p, S0))
  <2>1. AllAt(p, {}) = {}
    BY DEF AllAt
  <2> QED
    BY <2>1, ListsNone, RedirectsLists
<1>1. Lists(s1, AllAt(p, S1))
  <2> HIDE DEF s0, S0
  <2> QED
    BY <1>0, PageLists, ListsMore
<1>2. Lists(s2, AllAt(p, S2))
  <2> HIDE DEF s1, S1
  <2> QED
    BY <1>1, BuiltLists, ListsMore
<1>3. Lists(s3, AllAt(p, S3))
  <2> HIDE DEF s2, S2
  <2> QED
    BY <1>2, StaticLists, ListsMore
<1>4. Lists(s4, AllAt(p, S4))
  <2> HIDE DEF s3, S3
  <2> QED
    BY <1>3, FSPageLists, ListsMore
<1>5. Lists(s5, AllAt(p, S5))
  <2> HIDE DEF s4, S4
  <2> QED
    BY <1>4, FSLists, ListsMore
<1>6. Lists(s6, AllAt(p, S6))
  <2> HIDE DEF s5, S5
  <2> QED
    BY <1>5, MemoryLists, ListsMore
<1>7. Lists(s7, AllAt(p, S7))
  <2> HIDE DEF s6, S6
  <2> QED
    BY <1>6, LiveLists, ListsMore
<1>8. Lists(s8, AllAt(p, S8))
  <2> HIDE DEF s7, S7
  <2> QED
    BY <1>7, ReadyLists, ListsMore
<1>9. Lists(s9, AllAt(p, S9))
  <2> HIDE DEF s8, S8
  <2> QED
    BY <1>8, EnvLists, ListsMore
<1>10. Lists(s10, AllAt(p, S10))
  <2> HIDE DEF s9, S9
  <2> QED
    BY <1>9, DNSLists, ListsMore
<1>11. Lists(s11, AllAt(p, S11))
  <2> HIDE DEF s10, S10
  <2> QED
    BY <1>10, KeyGenLists, ListsMore
<1>12. Lists(s12, AllAt(p, S12))
  <2> HIDE DEF s11, S11
  <2> QED
    BY <1>11, MemQLists, ListsMore
<1>13. ComponentRoutes(p) = s12
  BY DEF ComponentRoutes
<1>14. S12 = IF p = <<>> THEN Plain ELSE Block
  <2>1. S12 = S0 \cup Plain
    <3> HIDE DEF S0
    <3> QED
      BY Zenon DEF Plain
  <2> QED
    BY <2>1 DEF Block
<1> HIDE DEF s12, S12
<1> QED
  BY <1>12, <1>13, <1>14
-----------------------------------------------------------------------------
(* Whose routes they are.                                                  *)

\* No component registers the empty path, and none is the user interface.
LEMMA BlockFacts ==
    \A r \in Block : r \in Route /\ r.base # <<>> /\ r.handler # "ui"
BY RedirectsFacts, PageFacts, BuiltFacts, StaticFacts, FSPageFacts, FSFacts, MemoryFacts,
   LiveFacts, ReadyFacts, EnvFacts, DNSFacts, KeyGenFacts, MemQFacts
   DEF Block, Plain, Named

\* The first name of the path tells the component.
LEMMA OwnersApart ==
    ASSUME NEW r \in Block
    PROVE  /\ r.base[1] \in {"", "-"} <=> r \in RedirectsOwn
           /\ r.base[1] \in {"pageinfo", "metrics"} <=> r \in PageOwn
           /\ r.base[1] \in {"built"} <=> r \in BuiltOwn
           /\ r.base[1] \in {"static"} <=> r \in StaticOwn
           /\ r.base[1] \in {"fs"} <=> r \in FSPageOwn
           /\ r.base[1] \in {"fsapi"} <=> r \in FSOwn
           /\ r.base[1] \in {"mem"} <=> r \in MemoryOwn
           /\ r.base[1] \in {"healthy"} <=> r \in LiveOwn
           /\ r.base[1] \in {"ready"} <=> r \in ReadyOwn
           /\ r.base[1] \in {"env"} <=> r \in EnvOwn
           /\ r.base[1] \in {"dns"} <=> r \in DNSOwn
           /\ r.base[1] \in {"keygen"} <=> r \in KeyGenOwn
           /\ r.base[1] \in {"memq"} <=> r \in MemQOwn
<1> USE RedirectsFacts, PageFacts, BuiltFacts, StaticFacts, FSPageFacts, FSFacts,
        MemoryFacts, LiveFacts, ReadyFacts, EnvFacts, DNSFacts, KeyGenFacts, MemQFacts
    DEF Block, Plain, Named
<1>1. r.base[1] \in {"", "-"} <=> r \in RedirectsOwn
  OBVIOUS
<1>2. r.base[1] \in {"pageinfo", "metrics"} <=> r \in PageOwn
  OBVIOUS
<1>3. r.base[1] \in {"built"} <=> r \in BuiltOwn
  OBVIOUS
<1>4. r.base[1] \in {"static"} <=> r \in StaticOwn
  OBVIOUS
<1>5. r.base[1] \in {"fs"} <=> r \in FSPageOwn
  OBVIOUS
<1>6. r.base[1] \in {"fsapi"} <=> r \in FSOwn
  OBVIOUS
<1>7. r.base[1] \in {"mem"} <=> r \in MemoryOwn
  OBVIOUS
<1>8. r.base[1] \in {"healthy"} <=> r \in LiveOwn
  OBVIOUS
<1>9. r.base[1] \in {"ready"} <=> r \in ReadyOwn
  OBVIOUS
<1>10. r.base[1] \in {"env"} <=> r \in EnvOwn
  OBVIOUS
<1>11. r.base[1] \in {"dns"} <=> r \in DNSOwn
  OBVIOUS
<1>12. r.base[1] \in {"keygen"} <=> r \in KeyGenOwn
  OBVIOUS
<1>13. r.base[1] \in {"memq"} <=> r \in MemQOwn
  OBVIOUS
<1> QED
  BY <1>1, <1>2, <1>3, <1>4, <1>5, <1>6, <1>7, <1>8, <1>9, <1>10, <1>11, <1>12, <1>13

\* Two routes below the same name are routes of the same component.
LEMMA SameName ==
    ASSUME NEW r \in Block, NEW s \in Block, r.base[1] = s.base[1]
    PROVE  \/ r.handler = s.handler
           \/ /\ ~r.wild /\ ~s.wild
              /\ r.base = s.base /\ r.method = s.method => r.handler = s.handler
<1>0. ASSUME NEW S, Alike(S), r \in S, s \in S
      PROVE  \/ r.handler = s.handler
             \/ /\ ~r.wild /\ ~s.wild
                /\ r.base = s.base /\ r.method = s.method => r.handler = s.handler
  BY <1>0 DEF Alike
<1>1. CASE r \in RedirectsOwn
  BY <1>0, <1>1, OwnersApart, RedirectsFacts
<1>2. CASE r \in PageOwn
  BY <1>0, <1>2, OwnersApart, PageFacts
<1>3. CASE r \in BuiltOwn
  BY <1>0, <1>3, OwnersApart, BuiltFacts
<1>4. CASE r \in StaticOwn
  BY <1>0, <1>4, OwnersApart, StaticFacts
<1>5. CASE r \in FSPageOwn
  BY <1>0, <1>5, OwnersApart, FSPageFacts
<1>6. CASE r \in FSOwn
  BY <1>0, <1>6, OwnersApart, FSFacts
<1>7. CASE r \in MemoryOwn
  BY <1>0, <1>7, OwnersApart, MemoryFacts
<1>8. CASE r \in LiveOwn
  BY <1>0, <1>8, OwnersApart, LiveFacts
<1>9. CASE r \in ReadyOwn
  BY <1>0, <1>9, OwnersApart, ReadyFacts
<1>10. CASE r \in EnvOwn
  BY <1>0, <1>10, OwnersApart, EnvFacts
<1>11. CASE r \in DNSOwn
  BY <1>0, <1>11, OwnersApart, DNSFacts
<1>12. CASE r \in KeyGenOwn
  BY <1>0, <1>12, OwnersApart, KeyGenFacts
<1>13. CASE r \in MemQOwn
  BY <1>0, <1>13, OwnersApart, MemQFacts
<1> QED
  BY <1>1, <1>2, <1>3, <1>4, <1>5, <1>6, <1>7, <1>8, <1>9, <1>10, <1>11, <1>12, <1>13
     DEF Block, Plain

-----------------------------------------------------------------------------
(* Matching, element by element.                                           *)

\* Matches, with the elements of the path compared one by one.
Fitting(b, wild, x) ==
    /\ IF wild THEN Len(x) > Len(b) ELSE Len(x) = Len(b)
    /\ \A i \in 1 .. Len(b) : x[i] = b[i]

\* matchPattern compares one by one.
LEMMA MatchesIff ==
    ASSUME NEW r \in Route, NEW x \in Seq(Word)
    PROVE  Matches(r, x) <=> Fitting(r.base, r.wild, x)
<1> DEFINE b == r.base
           k == Len(b)
<1>1. b \in Seq(Word) /\ k \in Nat /\ Len(x) \in Nat /\ r.wild \in BOOLEAN
  BY DEF Route
<1> HIDE DEF b
<1>2. CASE r.wild
  <2> SUFFICES ASSUME Len(x) > k
               PROVE  SubSeq(x, 1, k) = b <=> \A i \in 1 .. k : x[i] = b[i]
    BY <1>2 DEF Matches, Fitting, b
  <2> DEFINE s == SubSeq(x, 1, k)
  <2>1. \A i \in 1 .. k : x[i] \in Word
    BY <1>1, ElementOfSeq
  <2>2. /\ s \in Seq(Word) /\ Len(s) = k
        /\ \A i \in 1 .. k : s[i] = x[i]
    <3>1. /\ SubSeq(x, 1, k) \in Seq(Word)
          /\ Len(SubSeq(x, 1, k)) = IF 1 <= k THEN k - 1 + 1 ELSE 0
          /\ \A i \in 1 .. k - 1 + 1 : SubSeq(x, 1, k)[i] = x[1 + i - 1]
      <4>1. 1 \in Int /\ k \in Int
        BY <1>1
      <4> HIDE DEF k
      <4> QED
        BY <2>1, <4>1, SubSeqProperties
    <3>2. k - 1 + 1 = k /\ \A i \in 1 .. k : 1 + i - 1 = i
      BY <1>1
    <3>3. Len(SubSeq(x, 1, k)) = k
      BY <1>1, <3>1
    <3> HIDE DEF k
    <3> QED
      BY <3>1, <3>2, <3>3
  <2> HIDE DEF s
  <2>3. s = b <=> \A i \in 1 .. k : s[i] = b[i]
    BY <1>1, <2>2, SeqEqual
  <2> QED
    BY <2>2, <2>3 DEF s
<1>3. CASE ~r.wild
  <2>1. x = b <=> Len(x) = k /\ \A i \in 1 .. k : x[i] = b[i]
    BY <1>1, SeqEqual
  <2> QED
    BY <1>3, <2>1 DEF Matches, Fitting, b
<1> QED
  BY <1>2, <1>3

\* A route below a prefix matches what the route matches, below the prefix.
LEMMA AtMatches ==
    ASSUME NEW v \in Word, NEW r \in Route, NEW x \in Seq(Word), x # <<>>
    PROVE  /\ At(<<v>>, r) \in Route
           /\ Matches(At(<<v>>, r), x) <=> x[1] = v /\ Matches(r, Tail(x))
<1> DEFINE b == r.base
           k == Len(b)
           c == <<v>> \o b
           y == Tail(x)
<1>1. /\ b \in Seq(Word) /\ k \in Nat /\ <<v>> \in Seq(Word) /\ Len(<<v>>) = 1
      /\ <<v>>[1] = v /\ r.wild \in BOOLEAN /\ r.method \in Methods /\ r.handler \in Handlers
  BY DEF Route
<1>2. /\ y \in Seq(Word) /\ Len(x) \in Nat \ {0} /\ Len(y) = Len(x) - 1
      /\ \A i \in 1 .. Len(x) - 1 : y[i] = x[i + 1]
  BY HeadAndTail
<1>3. /\ c \in Seq(Word) /\ Len(c) = k + 1 /\ c[1] = v
      /\ \A i \in 1 .. k : c[i + 1] = b[i]
  <2> DEFINE u == <<v>>
  <2>1. u \in Seq(Word) /\ Len(u) = 1 /\ u[1] = v
    BY <1>1
  <2> HIDE DEF u, b
  <2>2. /\ u \o b \in Seq(Word) /\ Len(u \o b) = Len(u) + Len(b)
        /\ \A i \in 1 .. Len(u) + Len(b) :
             (u \o b)[i] = IF i <= Len(u) THEN u[i] ELSE b[i - Len(u)]
    BY <1>1, <2>1, ConcatProperties
  <2>3. \A i \in 1 .. k : (u \o b)[i + 1] = b[i]
    <3> TAKE i \in 1 .. k
    <3>1. i + 1 \in 1 .. 1 + k /\ ~(i + 1 <= 1) /\ i + 1 - 1 = i
      BY <1>1
    <3> QED
      BY <2>1, <2>2, <3>1
  <2>4. (u \o b)[1] = v
    <3>1. 1 \in 1 .. 1 + k
      BY <1>1
    <3> QED
      BY <2>1, <2>2, <3>1
  <2> QED
    BY <1>1, <2>1, <2>2, <2>3, <2>4 DEF u
<1>4. At(<<v>>, r) = [method |-> r.method, base |-> c, wild |-> r.wild, handler |-> r.handler]
  BY DEF At
<1> HIDE DEF b, c, y
<1>5. /\ At(<<v>>, r) \in Route
      /\ At(<<v>>, r).base = c /\ At(<<v>>, r).wild = r.wild
  BY <1>1, <1>3, <1>4 DEF Route
<1>6. Fitting(c, r.wild, x) <=> x[1] = v /\ Fitting(b, r.wild, y)
  <2>1. (\A i \in 1 .. k + 1 : x[i] = c[i]) <=> x[1] = v /\ \A i \in 1 .. k : x[i + 1] = b[i]
    <3>1. ASSUME \A i \in 1 .. k + 1 : x[i] = c[i]
          PROVE  x[1] = v /\ \A i \in 1 .. k : x[i + 1] = b[i]
      <4>1. 1 \in 1 .. k + 1 /\ \A i \in 1 .. k : i + 1 \in 1 .. k + 1
        BY <1>1
      <4> QED
        BY <1>3, <3>1, <4>1
    <3>2. ASSUME x[1] = v, \A i \in 1 .. k : x[i + 1] = b[i], NEW i \in 1 .. k + 1
          PROVE  x[i] = c[i]
      <4>1. CASE i = 1
        BY <1>3, <3>2, <4>1
      <4>2. CASE i # 1
        <5>1. i - 1 \in 1 .. k /\ i - 1 + 1 = i
          BY <1>1, <4>2
        <5> QED
          BY <1>3, <3>2, <5>1
      <4> QED
        BY <4>1, <4>2
    <3> QED
      BY <3>1, <3>2
  <2>2. Len(x) > k => ((\A i \in 1 .. k : x[i + 1] = b[i]) <=> \A i \in 1 .. k : y[i] = b[i])
    BY <1>1, <1>2
  <2>3. /\ Len(x) > k + 1 <=> Len(y) > k
        /\ Len(x) = k + 1 <=> Len(y) = k
        /\ Len(x) > k + 1 \/ Len(x) = k + 1 => Len(x) > k
    BY <1>1, <1>2
  <2>4. Len(c) = k + 1
    BY <1>3
  <2> QED
    BY <1>1, <2>1, <2>2, <2>3, <2>4 DEF Fitting
<1>7. Matches(At(<<v>>, r), x) <=> Fitting(c, r.wild, x)
  BY <1>5, MatchesIff
<1>8. Matches(r, y) <=> Fitting(b, r.wild, y)
  BY <1>2, MatchesIff DEF b
<1> QED
  BY <1>5, <1>6, <1>7, <1>8 DEF y

\* A path that a route matches starts with the name of the route.
LEMMA MatchesName ==
    ASSUME NEW r \in Route, r.base # <<>>, NEW x \in Seq(Word), Matches(r, x)
    PROVE  x # <<>> /\ x[1] = r.base[1]
<1> DEFINE b == r.base
<1>1. b \in Seq(Word) /\ b # <<>>
  BY DEF Route
<1>2. Len(b) \in Nat \ {0} /\ Len(x) \in Nat
  BY <1>1, HeadAndTail
<1>3. Fitting(b, r.wild, x)
  BY MatchesIff
<1>4. Len(x) >= Len(b) /\ x[1] = b[1]
  <2> HIDE DEF b
  <2> QED
    BY <1>2, <1>3 DEF Fitting
<1>5. x # <<>>
  BY <1>2, <1>4
<1> QED
  BY <1>4, <1>5

\* Two routes of the components that match a path answer it alike.
LEMMA BlockAgrees ==
    ASSUME NEW r \in Block, NEW s \in Block, NEW x \in Seq(Word),
           r.method = s.method, Matches(r, x), Matches(s, x)
    PROVE  r.handler = s.handler
<1>1. r.base[1] = s.base[1]
  BY BlockFacts, MatchesName
<1>2. CASE r.handler = s.handler
  BY <1>2
<1>3. CASE ~r.wild /\ ~s.wild /\ (r.base = s.base /\ r.method = s.method => r.handler = s.handler)
  BY <1>3 DEF Matches
<1> QED
  BY <1>1, <1>2, <1>3, SameName

-----------------------------------------------------------------------------
(* The table.                                                              *)

VariantNames == {Variants[k] : k \in DOMAIN Variants}

\* The routes of all components, below all prefixes.
Api == Plain \cup UNION {AllAt(<<v>>, Block) : v \in VariantNames}

LEMMA VariantsAreWords ==
    /\ Variants \in Seq(Word) /\ Len(Variants) \in Nat
    /\ \A k \in 1 .. Len(Variants) : Variants[k] \in Word
    /\ VariantNames = {Variants[k] : k \in 1 .. Len(Variants)}
    /\ VariantNames \subseteq Word
<1>1. STRING \subseteq Word
  BY DEF Word
<1>2. Variants \in Seq(Word)
  BY <1>1, RouterAssumption, SeqMonotonic
<1>3. Len(Variants) \in Nat /\ DOMAIN Variants = 1 .. Len(Variants)
  BY <1>2
<1>4. \A k \in 1 .. Len(Variants) : Variants[k] \in Word
  BY <1>2, ElementOfSeq
<1> QED
  BY <1>2, <1>3, <1>4 DEF VariantNames

\* The empty prefix adds the routes without redirects, ...
LEMMA PlainLists == Lists(ComponentRoutes(<<>>), Plain)
<1>1. <<>> \in Seq(Word)
  BY EmptySeq
<1>2. Lists(ComponentRoutes(<<>>), AllAt(<<>>, Plain))
  BY <1>1, ComponentLists
<1>3. ASSUME NEW r \in Plain PROVE At(<<>>, r) = r
  <2>1. r \in Route
    BY BlockFacts DEF Block
  <2>2. r.base \in Seq(Word)
    BY <2>1 DEF Route
  <2>3. <<>> \o r.base = r.base
    BY <2>2, ConcatEmptySeq
  <2> QED
    BY <2>1, <2>3 DEF At, Route
<1>4. AllAt(<<>>, Plain) = Plain
  BY <1>3 DEF AllAt
<1> QED
  BY <1>2, <1>4

\* ... a variant all of them, below its name, ...
LEMMA VariantLists ==
    ASSUME NEW v \in Word
    PROVE  Lists(ComponentRoutes(<<v>>), AllAt(<<v>>, Block))
<1>1. <<v>> \in Seq(Word) /\ <<v>> # <<>>
  BY OneWord
<1> QED
  BY <1>1, ComponentLists

\* The recursive definition of VariantRoutes is one of a function.
LEMMA VariantRoutesFollow ==
    /\ VariantRoutes[0] = ComponentRoutes(<<>>)
    /\ \A n \in 1 .. Len(Variants) :
         VariantRoutes[n] = VariantRoutes[n - 1] \o ComponentRoutes(<<Variants[n]>>)
<1> DEFINE N == Len(Variants)
           V == Seq(Route)
           v == ComponentRoutes(<<>>)
           G == [n \in 1 .. N |-> [s \in V |-> s \o ComponentRoutes(<<Variants[n]>>)]]
           P(f) == f = [n \in 0 .. N |-> IF n = 0 THEN v
                                         ELSE f[n - 1] \o ComponentRoutes(<<Variants[n]>>)]
<1>1. N \in Nat /\ v \in V
  BY VariantsAreWords, PlainLists DEF Lists
<1>2. \A n \in 1 .. N : \A s \in V : s \o ComponentRoutes(<<Variants[n]>>) \in V
  BY VariantsAreWords, VariantLists, ConcatProperties DEF Lists
<1>3. \E f : P(f)
  <2> HIDE DEF N, V, v
  <2>1. G \in [1 .. N -> [V -> V]]
    BY <1>2
  <2>2. \A n \in 1 .. N : \A s \in V : G[n][s] = s \o ComponentRoutes(<<Variants[n]>>)
    OBVIOUS
  <2> HIDE DEF G
  <2>3. PICK f \in [0 .. N -> V] : Follows(f, N, v, G)
    BY <1>1, <2>1, Recursion
  <2>4. \A n \in 1 .. N : f[n] = f[n - 1] \o ComponentRoutes(<<Variants[n]>>)
    <3> TAKE n \in 1 .. N
    <3>1. n - 1 \in 0 .. N
      BY <1>1
    <3>2. f[n - 1] \in V
      BY <2>3, <3>1
    <3>3. G[n][f[n - 1]] = f[n - 1] \o ComponentRoutes(<<Variants[n]>>)
      BY <2>2, <3>2
    <3> QED
      BY <2>3, <3>3 DEF Follows
  <2>5. f[0] = v
    BY <2>3 DEF Follows
  <2>6. \A n \in 0 .. N : f[n] = IF n = 0 THEN v
                                 ELSE f[n - 1] \o ComponentRoutes(<<Variants[n]>>)
    <3> TAKE n \in 0 .. N
    <3>1. n # 0 => n \in 1 .. N
      BY <1>1
    <3> QED
      BY <2>4, <2>5, <3>1
  <2>7. f = [n \in 0 .. N |-> f[n]]
    BY <2>3
  <2>8. P(f)
    BY <2>6, <2>7
  <2> QED
    BY <2>8
<1>4. VariantRoutes = CHOOSE f : P(f)
  BY DEF VariantRoutes
<1>5. P(VariantRoutes)
  <2> HIDE DEF P
  <2> QED
    BY <1>3, <1>4, Zenon
<1>6. \A n \in 0 .. N : VariantRoutes[n] = IF n = 0 THEN v
                            ELSE VariantRoutes[n - 1] \o ComponentRoutes(<<Variants[n]>>)
  <2> HIDE DEF N, v
  <2> QED
    BY <1>5
<1>7. VariantRoutes[0] = v
  <2>1. 0 \in 0 .. N
    BY <1>1
  <2> HIDE DEF N, v
  <2> QED
    BY <1>6, <2>1
<1>8. ASSUME NEW n \in 1 .. N
      PROVE  VariantRoutes[n] = VariantRoutes[n - 1] \o ComponentRoutes(<<Variants[n]>>)
  <2>1. n \in 0 .. N /\ n # 0
    BY <1>1
  <2> HIDE DEF N, v
  <2> QED
    BY <1>6, <2>1
<1> QED
  BY <1>7, <1>8

\* What the first n variants add.
BelowFirst(n) == UNION {AllAt(<<Variants[k]>>, Block) : k \in 1 .. n}

\* ... and the loop of NewApp those of every prefix.
LEMMA ApiLists == Lists(VariantRoutes[Len(Variants)], Api)
<1> DEFINE N == Len(Variants)
           S == {n \in 0 .. N : Lists(VariantRoutes[n], Plain \cup BelowFirst(n))}
<1>1. N \in Nat
  BY VariantsAreWords
<1>2. 0 \in S
  <2>1. BelowFirst(0) = {}
    BY DEF BelowFirst
  <2>2. Plain \cup BelowFirst(0) = Plain
    BY <2>1
  <2>3. VariantRoutes[0] = ComponentRoutes(<<>>)
    BY VariantRoutesFollow
  <2>4. Lists(VariantRoutes[0], Plain \cup BelowFirst(0))
    BY <2>2, <2>3, PlainLists
  <2> QED
    BY <1>1, <2>4
<1>3. ASSUME NEW n \in 0 .. N - 1, n \in S PROVE n + 1 \in S
  <2>1. n + 1 \in 1 .. N /\ n + 1 \in 0 .. N /\ n + 1 - 1 = n
    BY <1>1
  <2>2. VariantRoutes[n + 1] = VariantRoutes[n] \o ComponentRoutes(<<Variants[n + 1]>>)
    <3> DEFINE m == n + 1
    <3>1. m \in 1 .. Len(Variants) /\ m - 1 = n
      BY <2>1
    <3> HIDE DEF m
    <3>2. VariantRoutes[m] = VariantRoutes[m - 1] \o ComponentRoutes(<<Variants[m]>>)
      BY <3>1, VariantRoutesFollow
    <3> QED
      BY <3>1, <3>2 DEF m
  <2>3. Lists(ComponentRoutes(<<Variants[n + 1]>>), AllAt(<<Variants[n + 1]>>, Block))
    BY <2>1, VariantsAreWords, VariantLists
  <2>4. BelowFirst(n + 1) = BelowFirst(n) \cup AllAt(<<Variants[n + 1]>>, Block)
    <3>1. 1 .. n + 1 = (1 .. n) \cup {n + 1}
      BY <1>1
    <3> QED
      BY <3>1 DEF BelowFirst
  <2>5. Plain \cup BelowFirst(n + 1)
        = (Plain \cup BelowFirst(n)) \cup AllAt(<<Variants[n + 1]>>, Block)
    BY <2>4
  <2>6. Lists(VariantRoutes[n], Plain \cup BelowFirst(n))
    BY <1>3
  <2>7. Lists(VariantRoutes[n + 1], Plain \cup BelowFirst(n + 1))
    BY <2>2, <2>3, <2>5, <2>6, ListsBoth
  <2> QED
    BY <2>1, <2>7
<1> HIDE DEF S
<1>4. 0 .. N \subseteq S
  BY <1>1, <1>2, <1>3, UpTo
<1>5. Lists(VariantRoutes[N], Plain \cup BelowFirst(N))
  <2>1. N \in 0 .. N
    BY <1>1
  <2>2. N \in S
    BY <1>4, <2>1
  <2> QED
    BY <2>2 DEF S
<1>6. Plain \cup BelowFirst(N) = Api
  BY VariantsAreWords DEF Api, BelowFirst
<1> QED
  BY <1>5, <1>6

-----------------------------------------------------------------------------
(* The user interface.                                                     *)

UI ==
    {Below(<<"_next">>, "ui"), On("GET", <<"favicon.ico">>, "ui"),
     On("GET", <<"robots.txt">>, "ui"), On("GET", <<"manifest.json">>, "ui"),
     On("GET", <<"">>, "ui"), Below(<<>>, "ui")}

\* A route of the user interface is a file at the top, or matches what is below.
LEMMA UIFacts ==
    \A r \in UI : /\ r \in Route /\ r.handler = "ui"
                  /\ ~r.wild => /\ r.base # <<>> /\ Len(r.base) = 1
                                /\ r.base[1] \in {"", "favicon.ico", "robots.txt", "manifest.json"}
<1>0. "GET" \in Methods /\ "ui" \in Handlers
  BY DEF Methods, Handlers
<1>1. Below(<<"_next">>, "ui") \in Route /\ Below(<<"_next">>, "ui").handler = "ui"
      /\ Below(<<"_next">>, "ui").wild
  <2>1. <<"_next">> \in Seq(Word)
    BY OneWord DEF Word
  <2> QED
    BY <1>0, <2>1 DEF Below, Route
<1>2. Below(<<>>, "ui") \in Route /\ Below(<<>>, "ui").handler = "ui" /\ Below(<<>>, "ui").wild
  <2>1. <<>> \in Seq(Word)
    BY EmptySeq
  <2> QED
    BY <1>0, <2>1 DEF Below, Route
<1>3. ASSUME NEW a \in {"", "favicon.ico", "robots.txt", "manifest.json"}
      PROVE  /\ On("GET", <<a>>, "ui") \in Route /\ On("GET", <<a>>, "ui").handler = "ui"
             /\ On("GET", <<a>>, "ui").base = <<a>>
  <2>1. <<a>> \in Seq(Word)
    BY OneWord DEF Word
  <2> QED
    BY <1>0, <2>1 DEF On, Route
<1>4. ASSUME NEW a PROVE <<a>> # <<>> /\ Len(<<a>>) = 1 /\ <<a>>[1] = a
  OBVIOUS
<1>5. \A r \in UI : \/ r = Below(<<"_next">>, "ui") \/ r = Below(<<>>, "ui")
                    \/ \E a \in {"", "favicon.ico", "robots.txt", "manifest.json"} :
                          r = On("GET", <<a>>, "ui")
  BY DEF UI
<1> TAKE r \in UI
<1>6. CASE r = Below(<<"_next">>, "ui") \/ r = Below(<<>>, "ui")
  BY <1>1, <1>2, <1>6
<1>7. ASSUME NEW a \in {"", "favicon.ico", "robots.txt", "manifest.json"},
             r = On("GET", <<a>>, "ui")
      PROVE  /\ r \in Route /\ r.handler = "ui"
             /\ r.base # <<>> /\ Len(r.base) = 1 /\ r.base[1] = a
  BY <1>3, <1>4, <1>7
<1> QED
  BY <1>5, <1>6, <1>7

\* The user interface adds its own routes only.
LEMMA UILists ==
    ASSUME NEW how \in Serials
    PROVE  UIRoutes(how) \in Seq(UI)
<1>1. CatchAll \in Seq(UI)
  BY DEF CatchAll, UI
<1>2. CASE how = "proxy"
  <2> DEFINE s == <<Below(<<"_next">>, "ui"), On("GET", <<"favicon.ico">>, "ui"),
                    On("GET", <<"robots.txt">>, "ui"), On("GET", <<"manifest.json">>, "ui")>>
  <2>1. s \in Seq(UI)
    BY DEF UI
  <2>2. UIRoutes(how) = s \o CatchAll
    BY <1>2 DEF UIRoutes
  <2> HIDE DEF s
  <2> QED
    BY <1>1, <2>1, <2>2, ConcatProperties
<1>3. CASE how = "built"
  <2> DEFINE s == <<Below(<<"_next">>, "ui")>>
  <2>1. s \in Seq(UI)
    BY DEF UI
  <2>2. UIRoutes(how) = s \o CatchAll
    BY <1>3 DEF UIRoutes
  <2> HIDE DEF s
  <2> QED
    BY <1>1, <2>1, <2>2, ConcatProperties
<1>4. CASE how = "export"
  BY <1>1, <1>4 DEF UIRoutes
<1>5. CASE how = "none"
  <2>1. UIRoutes(how) = <<>>
    BY <1>5 DEF UIRoutes
  <2> QED
    BY <2>1, EmptySeq
<1> QED
  BY <1>2, <1>3, <1>4, <1>5, RouterAssumption

\* VariantsAssumption, route by route.
LEMMA NamesDiffer ==
    ASSUME NEW how \in Serials
    PROVE  /\ \A r \in Plain : r.base[1] \notin VariantNames
           /\ \A i \in 1 .. Len(UIRoutes(how)) :
                UIRoutes(how)[i].base # <<>> => UIRoutes(how)[i].base[1] \notin VariantNames
<1> DEFINE C == ComponentRoutes(<<>>)
           U == UIRoutes(how)
           s == C \o U
<1>1. C \in Seq(Route) /\ Range(C) = Plain
  BY PlainLists DEF Lists
<1>2. U \in Seq(Route)
  BY UILists, UIFacts, SeqMonotonic
<1>3. \A i \in DOMAIN s, k \in DOMAIN Variants : s[i].base # <<>> => s[i].base[1] # Variants[k]
  BY VariantsAssumption
<1> HIDE DEF C, U
<1>4. /\ s \in Seq(Route) /\ Len(s) = Len(C) + Len(U)
      /\ \A i \in 1 .. Len(C) + Len(U) : s[i] = IF i <= Len(C) THEN C[i] ELSE U[i - Len(C)]
  BY <1>1, <1>2, ConcatProperties
<1>5. DOMAIN s = 1 .. Len(C) + Len(U) /\ Len(C) \in Nat /\ Len(U) \in Nat
  BY <1>1, <1>2, <1>4
<1> HIDE DEF s
<1>6. \A i \in 1 .. Len(C) + Len(U) : s[i].base # <<>> => s[i].base[1] \notin VariantNames
  BY <1>3, <1>5 DEF VariantNames
<1>7. \A i \in 1 .. Len(C) : C[i].base # <<>> => C[i].base[1] \notin VariantNames
  <2> TAKE i \in 1 .. Len(C)
  <2>1. i \in 1 .. Len(C) + Len(U) /\ i <= Len(C)
    BY <1>5
  <2> QED
    BY <1>4, <1>6, <2>1
<1>8. \A i \in 1 .. Len(U) : U[i].base # <<>> => U[i].base[1] \notin VariantNames
  <2> TAKE i \in 1 .. Len(U)
  <2>1. Len(C) + i \in 1 .. Len(C) + Len(U) /\ ~(Len(C) + i <= Len(C)) /\ Len(C) + i - Len(C) = i
    BY <1>5
  <2>2. s[Len(C) + i] = U[i]
    BY <1>4, <2>1
  <2> QED
    BY <1>6, <2>1, <2>2
<1>9. Range(C) = {C[i] : i \in 1 .. Len(C)}
  BY <1>1, RangeEquality
<1>10. \A r \in Plain : r.base # <<>>
  BY BlockFacts DEF Block
<1> QED
  BY <1>1, <1>7, <1>8, <1>9, <1>10 DEF U

\* No route of a component is the user interface's.
LEMMA ApiFacts ==
    \A r \in Api : r \in Route /\ r.handler # "ui"
<1>1. ASSUME NEW v \in VariantNames, NEW b \in Block
      PROVE  At(<<v>>, b) \in Route /\ At(<<v>>, b).handler # "ui"
  <2>1. b \in Route /\ b.handler # "ui" /\ v \in Word
    BY BlockFacts, VariantsAreWords
  <2>2. <<v>> \in Seq(Word) /\ b.base \in Seq(Word)
    BY <2>1, OneWord DEF Route
  <2>3. <<v>> \o b.base \in Seq(Word)
    BY <2>2, ConcatProperties
  <2> QED
    BY <2>1, <2>3 DEF At, Route
<1>2. \A r \in Plain : r \in Route /\ r.handler # "ui"
  BY BlockFacts DEF Block
<1>3. ASSUME NEW v \in VariantNames, NEW r \in AllAt(<<v>>, Block)
      PROVE  r \in Route /\ r.handler # "ui"
  <2>1. PICK b \in Block : r = At(<<v>>, b)
    BY DEF AllAt
  <2> QED
    BY <1>1, <2>1
<1> QED
  BY <1>2, <1>3 DEF Api

\* The routes of the components come before those of the user interface.
LEMMA TableSplit ==
    ASSUME NEW how \in Serials
    PROVE  /\ Table[how] \in Seq(Route) /\ Len(Table[how]) \in Nat
           /\ \E n \in 0 .. Len(Table[how]) :
                /\ \A i \in 1 .. n : Table[how][i] \in Api
                /\ \A r \in Api : \E i \in 1 .. n : Table[how][i] = r
                /\ \A i \in n + 1 .. Len(Table[how]) :
                     /\ Table[how][i] \in UI
                     /\ Table[how][i].base # <<>> => Table[how][i].base[1] \notin VariantNames
<1> DEFINE V == VariantRoutes[Len(Variants)]
           U == UIRoutes(how)
           T == Table[how]
<1>1. V \in Seq(Route) /\ Range(V) = Api
  BY ApiLists DEF Lists
<1>2. /\ U \in Seq(UI) /\ U \in Seq(Route)
      /\ \A i \in 1 .. Len(U) : U[i].base # <<>> => U[i].base[1] \notin VariantNames
  BY UILists, UIFacts, SeqMonotonic, NamesDiffer
<1>3. T = V \o U
  BY DEF Table, AppRoutes
<1> HIDE DEF V, U, T
<1>4. /\ T \in Seq(Route) /\ Len(T) = Len(V) + Len(U)
      /\ \A i \in 1 .. Len(V) + Len(U) : T[i] = IF i <= Len(V) THEN V[i] ELSE U[i - Len(V)]
  BY <1>1, <1>2, <1>3, ConcatProperties
<1>5. Len(V) \in Nat /\ Len(U) \in Nat
  BY <1>1, <1>2
<1>6. Api = {V[i] : i \in 1 .. Len(V)}
  BY <1>1, RangeEquality
<1>7. \A i \in 1 .. Len(V) : T[i] = V[i]
  BY <1>4, <1>5
<1>8. ASSUME NEW i \in Len(V) + 1 .. Len(T)
      PROVE  T[i] \in UI /\ (T[i].base # <<>> => T[i].base[1] \notin VariantNames)
  <2>1. i - Len(V) \in 1 .. Len(U) /\ i \in 1 .. Len(V) + Len(U) /\ ~(i <= Len(V))
    BY <1>4, <1>5
  <2>2. T[i] = U[i - Len(V)]
    BY <1>4, <2>1
  <2> DEFINE j == i - Len(V)
  <2>3. j \in 1 .. Len(U) /\ T[i] = U[j]
    BY <2>1, <2>2
  <2> HIDE DEF j
  <2>4. U[j] \in UI
    BY <1>2, <2>3, ElementOfSeq
  <2> QED
    BY <1>2, <2>3, <2>4
<1>9. Len(V) \in 0 .. Len(T) /\ Len(T) \in Nat
  BY <1>4, <1>5
<1>10. /\ \A i \in 1 .. Len(V) : T[i] \in Api
       /\ \A r \in Api : \E i \in 1 .. Len(V) : T[i] = r
  BY <1>6, <1>7
<1> QED
  BY <1>4, <1>8, <1>9, <1>10 DEF T

\* A name that a route of a component starts with is no variant's.
LEMMA PlainOrBelow ==
    ASSUME Serials # {}, NEW r \in Api, NEW x \in Seq(Word), x # <<>>, Matches(r, x)
    PROVE  IF x[1] \in VariantNames
           THEN \E b \in Block : /\ r = At(<<x[1]>>, b) /\ Matches(b, Tail(x))
                                 /\ b.method = r.method /\ b.handler = r.handler
           ELSE r \in Plain
<1>1. PICK how \in Serials : TRUE
  OBVIOUS
<1>2. CASE r \in Plain
  <2>1. r \in Route /\ r.base # <<>>
    BY <1>2, BlockFacts DEF Block
  <2>2. x[1] = r.base[1]
    BY <2>1, MatchesName
  <2>3. x[1] \notin VariantNames
    BY <1>1, <1>2, <2>2, NamesDiffer
  <2> QED
    BY <1>2, <2>3
<1>3. ASSUME NEW v \in VariantNames, r \in AllAt(<<v>>, Block)
      PROVE  /\ x[1] = v
             /\ \E b \in Block : /\ r = At(<<v>>, b) /\ Matches(b, Tail(x))
                                 /\ b.method = r.method /\ b.handler = r.handler
  <2>1. PICK b \in Block : r = At(<<v>>, b)
    BY <1>3 DEF AllAt
  <2>2. b \in Route /\ v \in Word
    BY BlockFacts, VariantsAreWords
  <2>3. x[1] = v /\ Matches(b, Tail(x))
    BY <2>1, <2>2, AtMatches
  <2>4. b.method = r.method /\ b.handler = r.handler
    BY <2>1 DEF At
  <2> QED
    BY <2>1, <2>3, <2>4
<1> QED
  BY <1>2, <1>3 DEF Api

\* Two routes of components that fit a request answer it alike.
LEMMA ApiAgrees ==
    ASSUME Serials # {}, NEW r \in Api, NEW s \in Api, NEW x \in Seq(Word), x # <<>>,
           r.method = s.method, Matches(r, x), Matches(s, x)
    PROVE  r.handler = s.handler
<1>1. CASE x[1] \in VariantNames
  <2>1. PICK b \in Block : Matches(b, Tail(x)) /\ b.method = r.method /\ b.handler = r.handler
    BY <1>1, PlainOrBelow
  <2>2. PICK c \in Block : Matches(c, Tail(x)) /\ c.method = s.method /\ c.handler = s.handler
    BY <1>1, PlainOrBelow
  <2>3. Tail(x) \in Seq(Word)
    BY HeadAndTail
  <2> QED
    BY <2>1, <2>2, <2>3, BlockAgrees
<1>2. CASE x[1] \notin VariantNames
  <2>1. r \in Plain /\ s \in Plain
    BY <1>2, PlainOrBelow
  <2> QED
    BY <2>1, BlockAgrees DEF Block
<1> QED
  BY <1>1, <1>2

\* A request's path is not empty.
LEMMA PathFacts == \A x \in Paths : x \in Seq(Word) /\ x # <<>>
<1>1. Strange \subseteq Seq(Word) \ {<<>>}
  <2>1. STRING \subseteq Word
    BY DEF Word
  <2>2. \A x \in Seq(STRING) : x \in Seq(Word)
    BY <2>1, SeqMonotonic
  <2> QED
    BY <2>2, RouterAssumption
<1>2. Bases \subseteq Seq(Word)
  <2>1. ASSUME NEW how \in Serials, NEW i \in DOMAIN Table[how]
        PROVE  Table[how][i].base \in Seq(Word)
    <3>1. Table[how] \in Seq(Route)
      BY TableSplit
    <3>2. i \in 1 .. Len(Table[how])
      BY <3>1
    <3>3. Table[how][i] \in Route
      BY <3>1, <3>2, ElementOfSeq
    <3> QED
      BY <3>3 DEF Route
  <2> QED
    BY <2>1 DEF Bases
<1>3. ASSUME NEW b \in Seq(Word), NEW a \in Word
      PROVE  b \o <<a>> \in Seq(Word) /\ b \o <<a>> # <<>>
  <2> DEFINE s == <<a>>
  <2>1. s \in Seq(Word) /\ Len(s) = 1 /\ Len(b) \in Nat
    BY OneWord
  <2> HIDE DEF s
  <2>2. b \o s \in Seq(Word) /\ Len(b \o s) = Len(b) + Len(s)
    BY <2>1, ConcatProperties
  <2>3. b \o s # <<>>
    BY <2>1, <2>2
  <2> QED
    BY <2>2, <2>3 DEF s
<1>4. "x" \in Word
  BY DEF Word
<1>5. \A c \in Client : c.path \in Seq(Word) /\ c.path # <<>>
  <2> DEFINE q == <<"memq", "server", "queues", Queue>>
             t == <<"memq", "server", "stats">>
  <2>1. q \in Seq(Word) /\ t \in Seq(Word) /\ q # <<>> /\ t # <<>>
    <3>1. /\ "memq" \in Word /\ "server" \in Word /\ "queues" \in Word
          /\ "stats" \in Word /\ Queue \in Word
      BY RouterAssumption DEF Word
    <3> QED
      BY <3>1, ThreeWords, FourWords
  <2>2. "drain" \in Word /\ "enqueue" \in Word /\ "dequeue" \in Word
    BY DEF Word
  <2>3. \A c \in Client :
          c.path \in {q, t, q \o <<"drain">>, q \o <<"enqueue">>, q \o <<"dequeue">>}
    BY DEF Client, Call
  <2> HIDE DEF q, t
  <2> QED
    BY <1>3, <2>1, <2>2, <2>3
<1> QED
  BY <1>1, <1>2, <1>3, <1>4, <1>5 DEF Paths

-----------------------------------------------------------------------------
(* ServeHTTP.                                                              *)

\* The loop is at the first route that may still fit, or stopped at the first
\* that does.
FirstFit ==
    /\ ui \in Serials
    /\ req \in Requests
    /\ at \in 1 .. Len(Routes) + 1
    /\ \A i \in 1 .. at - 1 : ~Fits(Routes[i])
    /\ Done => IF at <= Len(Routes)
               THEN Fits(Routes[at]) /\ answer = Routes[at].handler
               ELSE answer = NotFound

LEMMA RoutesAreSeq ==
    ASSUME ui \in Serials
    PROVE  Routes \in Seq(Route) /\ Len(Routes) \in Nat /\ DOMAIN Routes = 1 .. Len(Routes)
<1>1. Routes \in Seq(Route)
  BY TableSplit DEF Routes
<1> QED
  BY <1>1

\* FirstFit is inductive.
LEMMA FirstFitStep == FirstFit /\ [Next]_vars => FirstFit'
<1> SUFFICES ASSUME FirstFit, [Next]_vars PROVE FirstFit'
  OBVIOUS
<1>1. Len(Routes) \in Nat
  BY RoutesAreSeq DEF FirstFit
<1>2. ui' = ui /\ req' = req
  BY DEF Next, Look, GiveUp, vars
<1>3. Routes' = Routes /\ \A i : Fits(Routes[i])' = Fits(Routes[i])
  BY <1>2 DEF Routes, Fits
<1>4. CASE Look /\ Fits(Routes[at])
  <2>1. at' = at /\ answer' = Routes[at].handler /\ at <= Len(Routes)
    BY <1>4 DEF Look
  <2> QED
    BY <1>2, <1>3, <1>4, <2>1 DEF FirstFit
<1>5. CASE Look /\ ~Fits(Routes[at])
  <2>1. at' = at + 1 /\ answer' = answer /\ answer = Pending /\ at <= Len(Routes)
    BY <1>5 DEF Look
  <2>2. at' \in 1 .. Len(Routes) + 1
    BY <1>1, <2>1 DEF FirstFit
  <2>3. \A i \in 1 .. at' - 1 : i \in 1 .. at - 1 \/ i = at
    BY <2>1 DEF FirstFit
  <2> QED
    BY <1>2, <1>3, <1>5, <2>1, <2>2, <2>3 DEF FirstFit, Done
<1>6. CASE GiveUp
  <2>1. at' = at /\ answer' = NotFound /\ ~(at <= Len(Routes))
    BY <1>1, <1>6 DEF GiveUp, FirstFit
  <2> QED
    BY <1>2, <1>3, <2>1 DEF FirstFit
<1>7. CASE UNCHANGED vars
  <2>1. at' = at /\ answer' = answer
    BY <1>7 DEF vars
  <2> QED
    BY <1>2, <1>3, <2>1 DEF FirstFit, Done
<1> QED
  BY <1>4, <1>5, <1>6, <1>7 DEF Next

LEMMA FirstFitAlways == Spec => []FirstFit
<1>1. Init => FirstFit
  <2> SUFFICES ASSUME Init PROVE FirstFit
    OBVIOUS
  <2>1. Len(Routes) \in Nat
    BY RoutesAreSeq DEF Init
  <2> QED
    BY <2>1 DEF Init, FirstFit, Done
<1> QED
  BY <1>1, FirstFitStep, PTL DEF Spec

\* TableSplit, for the table of this process.
LEMMA RoutesSplit ==
    ASSUME FirstFit
    PROVE  \E n \in 0 .. Len(Routes) :
             /\ \A i \in 1 .. n : Routes[i] \in Api
             /\ \A r \in Api : \E i \in 1 .. n : Routes[i] = r
             /\ \A i \in n + 1 .. Len(Routes) :
                  /\ Routes[i] \in UI
                  /\ Routes[i].base # <<>> => Routes[i].base[1] \notin VariantNames
BY TableSplit DEF FirstFit, Routes

\* A request that some route of a component fits is answered by a component, and
\* as that route says.
LEMMA ComponentAnswers ==
    ASSUME FirstFit, Done, NEW r \in Api, Fits(r)
    PROVE  answer = r.handler /\ answer # "ui" /\ answer # NotFound
<1>1. PICK n \in 0 .. Len(Routes) :
         /\ \A i \in 1 .. n : Routes[i] \in Api
         /\ \A s \in Api : \E i \in 1 .. n : Routes[i] = s
  BY RoutesSplit
<1>2. PICK i \in 1 .. n : Routes[i] = r
  BY <1>1
<1>3. Len(Routes) \in Nat
  BY RoutesAreSeq DEF FirstFit
<1>4. at \in 1 .. n /\ at <= Len(Routes)
  <2>1. i \notin 1 .. at - 1
    BY <1>2 DEF FirstFit
  <2> QED
    BY <1>2, <1>3, <2>1 DEF FirstFit
<1>5. Routes[at] \in Api /\ Fits(Routes[at]) /\ answer = Routes[at].handler
  BY <1>1, <1>4 DEF FirstFit
<1>6. req.path \in Seq(Word) /\ req.path # <<>> /\ Serials # {}
  BY PathFacts DEF FirstFit, Requests
<1>7. r.handler = Routes[at].handler
  BY <1>5, <1>6, ApiAgrees DEF Fits
<1>8. r.handler # "ui" /\ r.handler \in Handlers
  BY ApiFacts DEF Route
<1> QED
  BY <1>5, <1>7, <1>8 DEF NotFound, Handlers

\* The type invariant, for any variants and any user interface.
THEOREM TypesKept == Spec => []TypeOK
<1>1. FirstFit => TypeOK
  <2> SUFFICES ASSUME FirstFit PROVE TypeOK
    OBVIOUS
  <2>1. DOMAIN Routes = 1 .. Len(Routes) /\ Len(Routes) \in Nat
    BY RoutesAreSeq DEF FirstFit
  <2>2. at <= Len(Routes) => at \in DOMAIN Routes
    BY <2>1 DEF FirstFit
  <2> QED
    BY <2>1, <2>2 DEF FirstFit, TypeOK, Done
<1> QED
  BY <1>1, FirstFitAlways, PTL

\* app.go:228: for any variants and any user interface, a request that a route of a
\* component fits is not answered by the user interface.
THEOREM UIComesLast == Spec => []APIRoutesWin
<1>1. FirstFit => APIRoutesWin
  <2> SUFFICES ASSUME FirstFit, Done, NEW i \in DOMAIN Routes, Fits(Routes[i]),
                      Routes[i].handler # "ui"
               PROVE  answer # "ui"
    BY DEF APIRoutesWin
  <2>1. DOMAIN Routes = 1 .. Len(Routes) /\ Len(Routes) \in Nat
    BY RoutesAreSeq DEF FirstFit
  <2>2. Routes[i] \in Api
    <3>1. PICK n \in 0 .. Len(Routes) :
             /\ \A j \in 1 .. n : Routes[j] \in Api
             /\ \A j \in n + 1 .. Len(Routes) : Routes[j] \in UI
      BY RoutesSplit
    <3>2. i \in 1 .. n \/ i \in n + 1 .. Len(Routes)
      BY <2>1
    <3> QED
      BY <3>1, <3>2, UIFacts
  <2> QED
    BY <2>2, ComponentAnswers
<1> QED
  BY <1>1, FirstFitAlways, PTL

\* A static route of the user interface fits no path that a component's route fits.
LEMMA UIFilesApart ==
    ASSUME FirstFit, NEW i \in DOMAIN Routes, Routes[i] \in UI, ~Routes[i].wild,
           Routes[i].base[1] \notin VariantNames, Routes[i].base = req.path,
           NEW r \in Api
    PROVE  ~Fits(r)
<1> SUFFICES ASSUME Matches(r, req.path) PROVE FALSE
  BY DEF Fits
<1>1. req.path \in Seq(Word) /\ req.path # <<>> /\ Serials # {}
  BY PathFacts DEF FirstFit, Requests
<1>2. req.path[1] \notin VariantNames
  OBVIOUS
<1>3. r \in Plain
  BY <1>1, <1>2, PlainOrBelow
<1>4. r \in Route /\ r.base # <<>>
  BY <1>3, BlockFacts DEF Block
<1>5. req.path[1] = r.base[1]
  BY <1>1, <1>4, MatchesName
<1>6. req.path[1] \in {"", "favicon.ico", "robots.txt", "manifest.json"}
  BY UIFacts
<1>7. r.base[1] \notin {"", "favicon.ico", "robots.txt", "manifest.json"}
  BY <1>3, PageFacts, BuiltFacts, StaticFacts, FSPageFacts, FSFacts, MemoryFacts, LiveFacts,
     ReadyFacts, EnvFacts, DNSFacts, KeyGenFacts, MemQFacts DEF Plain, Named
<1> QED
  BY <1>5, <1>6, <1>7

\* The route itself fits; what fits before it is of the same kind and answers alike.
LEMMA OwnWins == FirstFit => OwnRouteWins
<1> SUFFICES ASSUME FirstFit, Done, NEW i \in DOMAIN Routes, Routes[i].method = req.method,
                    ~Routes[i].wild, Routes[i].base = req.path
             PROVE  answer = Routes[i].handler
  BY DEF OwnRouteWins
<1>1. /\ DOMAIN Routes = 1 .. Len(Routes) /\ Len(Routes) \in Nat
      /\ req.path \in Seq(Word) /\ req.path # <<>>
  BY RoutesAreSeq, PathFacts DEF FirstFit, Requests
<1>2. Fits(Routes[i])
  BY DEF Fits, Matches
<1>3. PICK n \in 0 .. Len(Routes) :
         /\ \A j \in 1 .. n : Routes[j] \in Api
         /\ \A j \in n + 1 .. Len(Routes) :
              /\ Routes[j] \in UI
              /\ Routes[j].base # <<>> => Routes[j].base[1] \notin VariantNames
  BY RoutesSplit
<1>4. CASE i \in 1 .. n
  BY <1>2, <1>3, <1>4, ComponentAnswers
<1>5. CASE i \in n + 1 .. Len(Routes)
  <2>1. Routes[i] \in UI /\ Routes[i].base[1] \notin VariantNames /\ Routes[i].handler = "ui"
    BY <1>1, <1>3, <1>5, UIFacts
  <2>2. at \in 1 .. i
    <3>1. i \notin 1 .. at - 1
      BY <1>2 DEF FirstFit
    <3> QED
      BY <1>1, <3>1 DEF FirstFit
  <2>3. Fits(Routes[at]) /\ answer = Routes[at].handler /\ at \in 1 .. Len(Routes)
    BY <1>1, <2>2 DEF FirstFit
  <2>4. Routes[at] \notin Api
    BY <2>1, <2>3, UIFilesApart
  <2>5. at \in n + 1 .. Len(Routes)
    BY <1>1, <1>3, <2>3, <2>4
  <2> QED
    BY <1>3, <2>1, <2>3, <2>5, UIFacts
<1> QED
  BY <1>1, <1>4, <1>5

\* A path that a route has as it stands is answered by that route's handler, for any
\* variants that no component and no file is named like.
THEOREM OwnRouteAnswers == Spec => []OwnRouteWins
BY OwnWins, FirstFitAlways, PTL

\* Route i fits what is left of the request without the variant.
PlainlyFits(i) == Routes[i].method = req.method /\ Matches(Routes[i], Tail(req.path))

\* The request is answered as without the variant.
AnsweredPlainly ==
    IF answer = NotFound
    THEN \A i \in DOMAIN Routes : PlainlyFits(i) => Routes[i].handler = "ui"
    ELSE \E i \in DOMAIN Routes :
            /\ PlainlyFits(i) /\ Routes[i].handler = answer
            /\ \A j \in 1 .. i - 1 : ~PlainlyFits(j)

\* The request is for the path x: the path y below the variant v.
AsksBelow(x, y, v) ==
    /\ x = req.path /\ y = Tail(x) /\ v = x[1]
    /\ y \in Seq(Word) /\ y # <<>> /\ y # <<"">>
    /\ v \in VariantNames /\ y[1] \notin VariantNames /\ y[1] # "-"

\* Below a variant a request is answered as without it.
LEMMA AnsweredAlike ==
    ASSUME FirstFit, Done, answer # "ui", NEW x, NEW y, NEW v, AsksBelow(x, y, v)
    PROVE  AnsweredPlainly
<1>1. /\ x \in Seq(Word) /\ x # <<>> /\ Serials # {} /\ v \in Word
      /\ y \in Seq(Word) /\ y # <<>>
      /\ DOMAIN Routes = 1 .. Len(Routes)
  BY RoutesAreSeq, PathFacts, VariantsAreWords DEF FirstFit, Requests, AsksBelow
<1>0. Len(Routes) \in Nat
  BY RoutesAreSeq DEF FirstFit
<1>2. PICK n \in 0 .. Len(Routes) :
         /\ \A j \in 1 .. n : Routes[j] \in Api
         /\ \A s \in Api : \E j \in 1 .. n : Routes[j] = s
         /\ \A j \in n + 1 .. Len(Routes) : Routes[j] \in UI
  BY RoutesSplit
<1>3. \A j \in 1 .. Len(Routes) : j \in 1 .. n \/ j \in n + 1 .. Len(Routes)
  BY <1>0
<1>4. ASSUME NEW b \in Plain, b.method = req.method, Matches(b, y)
      PROVE  answer = b.handler /\ answer # NotFound
  <2>1. b \in Block /\ b \in Route
    BY BlockFacts DEF Block
  <2>2. At(<<v>>, b) \in Api
    <3>1. At(<<v>>, b) \in AllAt(<<v>>, Block)
      BY <2>1 DEF AllAt
    <3> QED
      BY <3>1 DEF Api, AsksBelow
  <2>3. Matches(At(<<v>>, b), x)
    BY <1>1, <1>4, <2>1, AtMatches DEF AsksBelow
  <2>4. Fits(At(<<v>>, b)) /\ At(<<v>>, b).handler = b.handler
    BY <1>4, <2>3 DEF Fits, At, AsksBelow
  <2> QED
    BY <2>2, <2>4, ComponentAnswers
<1>5. ASSUME NEW r \in Api, r.method = req.method, Matches(r, y)
      PROVE  r \in Plain /\ answer = r.handler /\ answer # NotFound
  <2>1. r \in Plain
    BY <1>1, <1>5, PlainOrBelow DEF AsksBelow
  <2> QED
    BY <1>4, <1>5, <2>1
<1>6. CASE answer = NotFound
  <2>1. ASSUME NEW i \in DOMAIN Routes, PlainlyFits(i) PROVE Routes[i].handler = "ui"
    <3>1. Routes[i] \notin Api
      BY <1>5, <1>6, <2>1 DEF PlainlyFits, AsksBelow
    <3>2. i \in n + 1 .. Len(Routes)
      BY <1>1, <1>2, <1>3, <3>1
    <3> QED
      BY <1>2, <3>2, UIFacts
  <2> QED
    BY <1>6, <2>1 DEF AnsweredPlainly
<1>7. CASE answer # NotFound
  <2>1. at <= Len(Routes) /\ Fits(Routes[at]) /\ answer = Routes[at].handler
    BY <1>7 DEF FirstFit
  <2>2. at \in 1 .. Len(Routes)
    BY <1>0, <2>1 DEF FirstFit
  <2>3. Routes[at] \in Api
    BY <1>2, <1>3, <2>1, <2>2, UIFacts
  <2>4. PICK b \in Block : /\ Routes[at] = At(<<v>>, b) /\ Matches(b, y)
                           /\ b.method = Routes[at].method /\ b.handler = Routes[at].handler
    <3>1. Matches(Routes[at], x)
      BY <2>1 DEF Fits, AsksBelow
    <3> QED
      BY <1>1, <2>3, <3>1, PlainOrBelow DEF AsksBelow
  <2>5. b \in Plain
    <3> SUFFICES ASSUME b \in RedirectsOwn PROVE FALSE
      BY DEF Block
    <3>1. CASE b = On("GET", <<"">>, "redirect")
      BY <2>4, <3>1 DEF Matches, On, AsksBelow
    <3>2. CASE b = Below(<<"-">>, "redirect")
      <4>1. b \in Route /\ b.base = <<"-">>
        BY <3>2, BlockFacts DEF Below
      <4>2. b.base # <<>> /\ b.base[1] = "-"
        <5>1. \A a : <<a>> # <<>> /\ <<a>>[1] = a
          OBVIOUS
        <5> QED
          BY <4>1, <5>1
      <4> QED
        BY <1>1, <2>4, <4>1, <4>2, MatchesName DEF AsksBelow
    <3> QED
      BY <3>1, <3>2 DEF RedirectsOwn
  <2>6. b.method = req.method /\ b \in Api
    BY <2>1, <2>4, <2>5 DEF Fits, Api
  <2>7. PICK k \in 1 .. n : Routes[k] = b
    BY <1>2, <2>6
  <2> DEFINE F == {i \in 1 .. n : PlainlyFits(i)}
  <2>8. k \in F
    BY <2>4, <2>6, <2>7 DEF PlainlyFits, AsksBelow
  <2>9. F \in SUBSET Nat /\ F # {}
    <3>1. F \subseteq 1 .. n /\ 1 .. n \subseteq Nat
      <4> HIDE DEF PlainlyFits
      <4> QED
        BY <1>0
    <3> QED
      BY <2>8, <3>1
  <2>10. PICK i \in F : \A j \in F : i <= j
    <3> HIDE DEF F
    <3> QED
      BY <2>9, LeastOf
  <2>11. i \in 1 .. n /\ PlainlyFits(i)
    OBVIOUS
  <2>12. \A j \in 1 .. i - 1 : ~PlainlyFits(j)
    <3> TAKE j \in 1 .. i - 1
    <3>1. j \in 1 .. n /\ ~(i <= j)
      BY <1>0, <2>11
    <3> QED
      BY <2>10, <3>1
  <2>13. Routes[i].handler = answer
    BY <1>2, <1>5, <2>11 DEF PlainlyFits, AsksBelow
  <2>14. i \in DOMAIN Routes
    <3>1. i \in 1 .. Len(Routes)
      BY <1>0, <2>11
    <3> QED
      BY <1>1, <3>1
  <2> QED
    BY <1>7, <2>11, <2>12, <2>13, <2>14 DEF AnsweredPlainly
<1> QED
  BY <1>6, <1>7

\* VariantsAlike asks for AnsweredPlainly wherever it says something.
LEMMA Alikes == FirstFit => VariantsAlike
<1> DEFINE x == req.path
           y == Tail(x)
           v == Head(x)
<1>1. ASSUME FirstFit, Done, answer # "ui", Len(x) > 1, v \in VariantNames,
             Head(y) \notin VariantNames \cup {"-"}, y # <<"">>
      PROVE  AnsweredPlainly
  <2>1. x \in Seq(Word) /\ x # <<>>
    BY <1>1, PathFacts DEF FirstFit, Requests
  <2>2. y \in Seq(Word) /\ v = x[1]
    BY <2>1, HeadAndTail, HeadTailProperties
  <2>3. y # <<>>
    <3>1. Len(y) = Len(x) - 1 /\ Len(x) \in Nat
      BY <2>1, HeadAndTail
    <3>2. Len(x) > 1
      BY <1>1, Zenon
    <3>3. Len(y) # 0
      <4> HIDE DEF x, y
      <4> QED
        BY <3>1, <3>2
    <3> QED
      BY <3>3, EmptySeq
  <2>4. Head(y) = y[1]
    BY <2>2, <2>3, HeadTailProperties
  <2>5. AsksBelow(x, y, v)
    BY <1>1, <2>2, <2>3, <2>4 DEF AsksBelow
  <2> HIDE DEF x, y, v
  <2> QED
    BY <1>1, <2>5, AnsweredAlike
<1>2. VariantsAlike = ( /\ Done /\ answer # "ui"
                        /\ Len(x) > 1
                        /\ v \in VariantNames /\ Head(y) \notin VariantNames \cup {"-"}
                        /\ y # <<"">>
                        => AnsweredPlainly)
  BY DEF VariantsAlike, VariantNames, AnsweredPlainly, PlainlyFits
<1> QED
  BY <1>1, <1>2

\* For any number of variants, a request below one is answered as without it.
THEOREM VariantsServeAlike == Spec => []VariantsAlike
BY Alikes, FirstFitAlways, PTL

\* What the pages call are routes of the components.
LEMMA CallsAreRoutes ==
    ASSUME NEW c \in PageCalls
    PROVE  On(c.method, c.path, c.handler) \in Plain
<1>1. CASE c \in MemQPage
  BY <1>1 DEF MemQPage, Call, Plain, MemQOwn
<1>2. CASE c \in MemPage
  BY <1>2 DEF MemPage, Call, Plain, MemoryOwn
<1>3. CASE c \in KeyGenPage
  BY <1>3 DEF KeyGenPage, Call, Plain, KeyGenOwn, PageOwn
<1>4. CASE c \in OtherPages
  <2>1. On("GET", <<"healthy", "api">>, "live.status") \in Plain
    BY DEF Plain, LiveOwn
  <2>2. On("GET", <<"ready", "api">>, "ready.status") \in Plain
    BY DEF Plain, ReadyOwn
  <2>3. On("GET", <<"env", "api">>, "env") \in Plain
    BY DEF Plain, EnvOwn
  <2>4. On("POST", <<"dns", "api">>, "dns") \in Plain
    BY DEF Plain, DNSOwn
  <2>5. On("GET", <<"pageinfo">>, "pageinfo") \in Plain
    BY DEF Plain, PageOwn
  <2>6. On("GET", <<"fsapi">>, "fsapi") \in Plain
    BY DEF Plain, FSOwn
  <2> QED
    BY <1>4, <2>1, <2>2, <2>3, <2>4, <2>5, <2>6 DEF OtherPages, Call
<1> QED
  BY <1>1, <1>2, <1>3, <1>4 DEF PageCalls

\* Whatever the variants and the user interface, every request of a page reaches the
\* handler it is meant for.
THEOREM CallsReachHandlers == Spec => []PageCallsArrive
<1>1. FirstFit => PageCallsArrive
  <2> SUFFICES ASSUME FirstFit, Done, NEW c \in PageCalls,
                      c.method = req.method, c.path = req.path
               PROVE  answer = c.handler
    BY DEF PageCallsArrive
  <2> DEFINE r == On(c.method, c.path, c.handler)
  <2>1. r \in Api
    BY CallsAreRoutes DEF Api
  <2>2. Fits(r) /\ r.handler = c.handler
    BY DEF Fits, Matches, On
  <2> QED
    BY <2>1, <2>2, ComponentAnswers
<1> QED
  BY <1>1, FirstFitAlways, PTL

=============================================================================
