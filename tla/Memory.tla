------------------------------- MODULE Memory -------------------------------
(***************************************************************************)
(* The memory API, pkg/memory/api.go.  Handlers append to and clear one    *)
(* slice, m.leaks, without a lock: each reads its header (array, length,   *)
(* capacity), computes another and stores it word by word.  What matters   *)
(* of a header is how much it keeps from the garbage collector.            *)
(***************************************************************************)
EXTENDS Naturals, Process

CONSTANT
    MaxLeaks   \* bound: nothing is appended to more, and a torn header keeps no more

VARIABLES
    leaks,    \* the allocations that m.leaks keeps
    torn,     \* its words come from the stores of two handlers
    at,       \* at[c]: where the handler of c is
    next,     \* next[c]: what the header keeps that the append of c has computed
    crossed,  \* the handlers that store, and whose store another one crossed
    \* history, read by no action
    kept,     \* the allocations answered since the last clear
    muddled   \* two of these requests overlapped since the last clear that was alone

memoryVars == <<leaks, torn, at, next, crossed, kept, muddled>>

MemoryTypeOK ==
    /\ leaks \in Nat
    /\ torn \in BOOLEAN
    /\ at \in [Conns -> {"none", "alloc", "store", "storeEmpty", "clear"}]
    /\ next \in [Conns -> Nat]
    /\ crossed \subseteq Conns
    /\ kept \in Nat
    /\ muddled \in BOOLEAN

MemoryInit ==
    /\ leaks = 0
    /\ torn = FALSE
    /\ at = [c \in Conns |-> "none"]
    /\ next = [c \in Conns |-> 0]
    /\ crossed = {}
    /\ kept = 0
    /\ muddled = FALSE

-----------------------------------------------------------------------------
Others(c) == {d \in Conns \ {c} : at[d] # "none"}

\* A request for an allocation or a clear reaches its handler.
BeginMemory(c, where) ==
    /\ Begin(c)
    /\ at[c] = "none"
    /\ at' = [at EXCEPT ![c] = where]
    /\ muddled' = (muddled \/ Others(c) # {})
    /\ UNCHANGED <<leaks, torn, next, crossed, kept>>

Leave(c) ==
    /\ at' = [at EXCEPT ![c] = "none"]
    /\ next' = [next EXCEPT ![c] = 0]

\* Mutant: the branch for a missing size answers and does not return.
NoAllocGoesOn(c) ==
    /\ at[c] = "alloc"
    /\ Answer(c)
    /\ UNCHANGED <<leaks, torn, at, next, crossed, kept, muddled>>

\* Nothing is allocated: no size is answered 400; make panics for a size that is
\* negative, larger than memory or no int64 (which leaves the largest one), and
\* so may an append to a torn header.
NoAlloc(c) ==
    /\ at[c] = "alloc"
    /\ Leave(c)
    /\ Answer(c) \/ Abort(c)
    /\ UNCHANGED <<leaks, torn, crossed, kept, muddled>>

\* The append has read the header and made the new one.  After a size that is
\* no number, and an answer of 400, an allocation of nothing is appended.
AppendLeak(c) ==
    /\ at[c] = "alloc"
    /\ leaks < MaxLeaks /\ kept < MaxLeaks
    /\ \E n \in IF torn THEN 0 .. MaxLeaks - 1 ELSE {leaks} :
         \/ /\ next' = [next EXCEPT ![c] = n + 1]
            /\ at' = [at EXCEPT ![c] = "store"]
         \/ /\ next' = [next EXCEPT ![c] = n]
            /\ at' = [at EXCEPT ![c] = "storeEmpty"]
    /\ UNCHANGED <<processVars, leaks, torn, crossed, kept, muddled>>

\* The header is stored; a store that another one crossed may mix with it.
StoreHeader(c, n) ==
    /\ leaks' = n
    /\ torn' \in IF c \in crossed THEN BOOLEAN ELSE {FALSE}
    /\ crossed' = (crossed \cup {d \in Conns : at[d] \in {"store", "storeEmpty", "clear"}}) \ {c}
    /\ Leave(c)
    /\ Answer(c)

Store(c) ==
    /\ at[c] \in {"store", "storeEmpty"}
    /\ StoreHeader(c, next[c])
    /\ kept' = IF at[c] = "store" THEN kept + 1 ELSE kept
    /\ UNCHANGED muddled

\* Mutant: the newest allocation survives a clear.
ClearAllButOne(c) ==
    /\ at[c] = "clear"
    /\ StoreHeader(c, IF leaks > 0 THEN 1 ELSE 0)
    /\ kept' = 0
    /\ muddled' = (Others(c) # {} \/ c \in crossed)

\* m.leaks = nil.
Clear(c) ==
    /\ at[c] = "clear"
    /\ StoreHeader(c, 0)
    /\ kept' = 0
    /\ muddled' = (Others(c) # {} \/ c \in crossed)

ServeMemory(c) ==
    \/ \E where \in {"alloc", "clear"} : BeginMemory(c, where)
    \/ NoAlloc(c) \/ AppendLeak(c) \/ Store(c) \/ Clear(c)

-----------------------------------------------------------------------------
(* Properties.                                                             *)

\* api.go:73: the memory that stays allocated is what clients were answered for
\* since the last clear, as long as no two of their requests overlap; and a clear
\* that runs alone frees everything, whatever requests raced before it.
LeaksAsAsked ==
    ~muddled /\ (\A c \in Conns : at[c] = "none") => leaks = kept /\ ~torn
=============================================================================
