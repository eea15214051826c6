---------------------------- MODULE SliceBudget ----------------------------
(***************************************************************************)
(* What a slice may hold (arena.hpp, hashtable.hpp, and SetGlobalLimits,   *)
(* SetSharedAbandon and RaiseSharedAbandon of join.cpp).  A worker thread  *)
(* has one account.  It outlives the queries the thread serves: each sets  *)
(* its limit, and the slices of one query share a flag that says one of    *)
(* them has given up.  Charged to the account are the arenas a join holds  *)
(* and the two vectors of its hash table, each checked where it grows.     *)
(*                                                                         *)
(* A thread's step is one call on one structure.  Only the flag is shared, *)
(* and it is read once in a call.                                          *)
(***************************************************************************)
EXTENDS Integers, FiniteSets, FiniteSetsExt

CONSTANTS
    Threads, Queries,
    Sharing,            \* the queries whose slices share a flag
    LimitOf,            \* query -> memory_per_slice, 0 for no limit
    NoQuery,
    Sizes,              \* bytes asked of an arena at a time
    EntrySize, Pointer, \* sizeof(Entry) and sizeof(Entry *)
    FirstChunk,         \* an arena's first chunk, and the size from which
    ChunkCeiling,       \* chunks no longer double
    MaxDoublings,       \* bound: how often a size doubles at once
    MaxEntries,         \* bound: entries of one table
    MaxHeld             \* bound: what a thread without a limit holds

ASSUME QueriesAssumption ==
    /\ NoQuery \notin Queries /\ Sharing \subseteq Queries
    /\ LimitOf \in [Queries -> Nat]
ASSUME SizesAssumption ==
    /\ Sizes \subseteq Nat \ {0} /\ FirstChunk \in Nat \ {0} /\ ChunkCeiling \in Nat
    /\ EntrySize \in Nat \ {0} /\ Pointer \in Nat \ {0}
    /\ MaxEntries \in Nat /\ MaxHeld \in Nat

\* The sizes a first size grows to by doubling, enough for every request.
Doublings == {2 ^ k : k \in 0 .. MaxDoublings}
Requested(entries) == entries + entries \div 8 + 1

ASSUME DoublingsAssumption ==
    /\ Doublings \subseteq Nat \ {0}
    /\ \A need \in Sizes \cup {EntrySize} : \E d \in Doublings : need <= d
    /\ \A entries \in 0 .. MaxEntries : \E d \in Doublings : Requested(entries) <= d

Slots == {"accumulated", "scan", "output", "snapshots", "entries"}

VARIABLES
    serving,    \* thread -> the query whose bucket it counts
    stage,      \* thread -> how far its piece has come
    why,        \* thread -> what the last exception said
    budget,     \* thread -> its SliceBudget
    arena,      \* thread -> slot -> Arena
    index,      \* thread -> the hash table's vectors
    abandoned,  \* query -> the flag
    open        \* the queries whose state, and flag, still exist

vars == <<serving, stage, why, budget, arena, index, abandoned, open>>

\* room is capacity - used: what is left of the last chunk.
NewArena == [reserved |-> 0, room |-> 0, allocated |-> 0, next |-> FirstChunk]
NewIndex == [entries |-> 0, capacity |-> 0, directory |-> 0, charged |-> 0]
NewBudget == [limit |-> 0, used |-> 0, flag |-> NoQuery]

Init ==
    /\ serving = [t \in Threads |-> NoQuery]
    /\ stage = [t \in Threads |-> "idle"]
    /\ why = [t \in Threads |-> "none"]
    /\ budget = [t \in Threads |-> NewBudget]
    /\ arena = [t \in Threads |-> [s \in Slots |-> NewArena]]
    /\ index = [t \in Threads |-> NewIndex]
    /\ abandoned = [q \in Queries |-> FALSE]
    /\ open = Queries

(***************************************************************************)
(* The account.                                                            *)
(***************************************************************************)
LimitsKeepingFlag(b, limit) == [b EXCEPT !.limit = limit]    \* mutant

\* SetGlobalLimits forgets the last query's flag.
SetGlobalLimits(b, limit) == [b EXCEPT !.limit = limit, !.flag = NoQuery]
SetSharedAbandon(b, q) == [b EXCEPT !.flag = q]

NeverAbandoned(t) == FALSE    \* mutant

\* CheckAbandoned: through the thread's pointer, whatever it points at.
CheckAbandoned(t) == budget[t].flag # NoQuery /\ abandoned[budget[t].flag]

OverLimitBefore(t, growth) ==    \* mutant
    budget[t].limit # 0 /\ budget[t].used > budget[t].limit

OverLimit(t, growth) == budget[t].limit # 0 /\ budget[t].used + growth > budget[t].limit

ChargedTo(b, growth) == [b EXCEPT !.used = @ + growth]

(***************************************************************************)
(* Arena.                                                                  *)
(***************************************************************************)
\* The chunk size doubles until the request fits.
ChunkFor(next, need) == Min({next * d : d \in Doublings} \ 0 .. need - 1)
AfterChunk(next, bytes) == IF next < ChunkCeiling THEN bytes * 2 ELSE next

OwnLimit(t, s, need) ==
    budget[t].limit # 0 /\ arena[t][s].allocated + need > budget[t].limit
MustGrow(t, s, need) == need > arena[t][s].room
Chunk(t, s, need) == IF MustGrow(t, s, need) THEN ChunkFor(arena[t][s].next, need) ELSE 0

\* Why Allocate throws, or "none": its own limit, a sibling, the slice's limit.
AllocateThrows(t, s, need) ==
    CASE OwnLimit(t, s, need) -> "memory"
      [] ~OwnLimit(t, s, need) /\ MustGrow(t, s, need) /\ CheckAbandoned(t) -> "sibling"
      [] ~OwnLimit(t, s, need) /\ MustGrow(t, s, need) /\ ~CheckAbandoned(t)
             /\ OverLimit(t, Chunk(t, s, need)) -> "memory"
      [] OTHER -> "none"

Allocated(t, s, need) ==
    LET a == arena[t][s]
        bytes == Chunk(t, s, need)
    IN  [reserved |-> a.reserved + bytes, allocated |-> a.allocated + need,
         room |-> (IF bytes = 0 THEN a.room ELSE bytes) - need,
         next |-> IF bytes = 0 THEN a.next ELSE AfterChunk(a.next, bytes)]

(***************************************************************************)
(* Exceptions and destruction.  What a slice holds is local to the call    *)
(* that built it, so an exception destroys all of it on its way out, and   *)
(* each structure gives back what it was charged.                          *)
(***************************************************************************)
ChargedTwo(t, slots, a, b) ==
    (IF a \in slots THEN arena[t][a].reserved ELSE 0) + IF b \in slots THEN arena[t][b].reserved ELSE 0
ChargedIn(t, slots) ==
    ChargedTwo(t, slots, "accumulated", "scan") + ChargedTwo(t, slots, "output", "snapshots")
        + IF "entries" \in slots THEN arena[t]["entries"].reserved ELSE 0

ReleasesMovedToo(t, slots) == ChargedIn(t, Slots) + index[t].charged    \* mutant
ReleasesArenasOnly(t, slots) == ChargedIn(t, slots)    \* mutant

\* What destroying the arenas of the slots, and the table with its arena, returns.
Returned(t, slots) ==
    ChargedIn(t, slots) + (IF "entries" \in slots THEN index[t].charged ELSE 0)

Destroy(t, slots) ==
    /\ arena' = [arena EXCEPT ![t] = [s \in Slots |-> IF s \in slots THEN NewArena ELSE @[s]]]
    /\ index' = IF "entries" \in slots THEN [index EXCEPT ![t] = NewIndex] ELSE index
    /\ budget' = [budget EXCEPT ![t].used = @ - Returned(t, slots)]

Throw(t, reason) ==
    /\ Destroy(t, Slots)
    /\ stage' = [stage EXCEPT ![t] = "failed"]
    /\ why' = [why EXCEPT ![t] = reason]

Elsewhere == UNCHANGED <<serving, abandoned, open>>

(***************************************************************************)
(* A thread that takes a bucket of a query, and what it does with it.      *)
(***************************************************************************)
Begin(t, q) ==
    /\ stage[t] = "idle" /\ q \in open
    /\ serving' = [serving EXCEPT ![t] = q]
    /\ stage' = [stage EXCEPT ![t] = "first"]
    /\ LET set == SetGlobalLimits(budget[t], LimitOf[q])
       IN  budget' = [budget EXCEPT ![t] = IF q \in Sharing THEN SetSharedAbandon(set, q) ELSE set]
    /\ UNCHANGED <<why, arena, index, abandoned, open>>

\* MakeScan fills the first input, then one per join; a join fills its
\* output, and the build side's snapshots when that is the lower input.
Fills(s) ==
    CASE s = "accumulated" -> {"first"} [] s = "scan" -> {"read"}
      [] s = "snapshots" -> {"index"}   [] s = "output" -> {"index", "probe"}
      [] OTHER -> {}

WithinBound(t, growth) == budget[t].used + growth <= MaxHeld

Allocate(t, s, need) ==
    /\ stage[t] \in Fills(s)
    /\ WithinBound(t, Chunk(t, s, need))
    /\ IF AllocateThrows(t, s, need) # "none" THEN Throw(t, AllocateThrows(t, s, need))
       ELSE /\ arena' = [arena EXCEPT ![t][s] = Allocated(t, s, need)]
            /\ budget' = [budget EXCEPT ![t] = ChargedTo(@, Chunk(t, s, need))]
            /\ UNCHANGED <<stage, why, index>>
    /\ Elsewhere

\* ChainingHashTable: CheckHeld against the table's own limit, CheckSlice
\* against the slice's, before an index vector grows.
Growth(t) ==
    IF index[t].entries < index[t].capacity THEN 0
    ELSE IF index[t].capacity = 0 THEN Pointer ELSE index[t].capacity * Pointer

CheckHeldFails(t, growth) ==
    /\ budget[t].limit # 0
    /\ arena[t]["entries"].allocated + (index[t].capacity + index[t].directory) * Pointer + growth
           > budget[t].limit

IndexThrows(t, growth) ==
    CASE growth = 0 -> "none"
      [] growth # 0 /\ CheckHeldFails(t, growth) -> "memory"
      [] growth # 0 /\ ~CheckHeldFails(t, growth) /\ CheckAbandoned(t) -> "sibling"
      [] growth # 0 /\ ~CheckHeldFails(t, growth) /\ ~CheckAbandoned(t)
             /\ OverLimit(t, growth) -> "memory"
      [] OTHER -> "none"

\* ChargeVectors: the account follows what the vectors now hold.
Vectors(x) == (x.capacity + x.directory) * Pointer
Recharged(x) == [x EXCEPT !.charged = Vectors(x)]

Insert(t) ==
    /\ stage[t] = "index" /\ index[t].entries < MaxEntries
    /\ WithinBound(t, Growth(t) + Chunk(t, "entries", EntrySize))
    /\ LET pushed == Recharged([index[t] EXCEPT !.entries = @ + 1,
                                                !.capacity = @ + Growth(t) \div Pointer])
       IN  IF IndexThrows(t, Growth(t)) # "none" THEN Throw(t, IndexThrows(t, Growth(t)))
           ELSE IF AllocateThrows(t, "entries", EntrySize) # "none"
           THEN Throw(t, AllocateThrows(t, "entries", EntrySize))
           ELSE /\ arena' = [arena EXCEPT ![t]["entries"] = Allocated(t, "entries", EntrySize)]
                /\ index' = [index EXCEPT ![t] = pushed]
                /\ budget' = [budget EXCEPT ![t] =
                       ChargedTo(ChargedTo(@, Chunk(t, "entries", EntrySize)),
                                 pushed.charged - index[t].charged)]
                /\ UNCHANGED <<stage, why>>
    /\ Elsewhere

\* Finalize: a directory of the next power of two above nine eighths.
DirectorySize(entries) == Min(Doublings \ 0 .. Requested(entries) - 1)

Finalize(t) ==
    /\ stage[t] = "index"
    /\ LET size == DirectorySize(index[t].entries)
           built == Recharged([index[t] EXCEPT !.directory = size])
       IN  /\ WithinBound(t, size * Pointer)
           /\ IF IndexThrows(t, size * Pointer) # "none" THEN Throw(t, IndexThrows(t, size * Pointer))
              ELSE /\ index' = [index EXCEPT ![t] = built]
                   /\ budget' = [budget EXCEPT ![t] = ChargedTo(@, built.charged - index[t].charged)]
                   /\ stage' = [stage EXCEPT ![t] = "probe"]
                   /\ UNCHANGED <<why, arena>>
    /\ Elsewhere

\* From one structure to the next: the first input is read, a join's input
\* is read.
NextStage(t) ==
    /\ stage[t] \in {"first", "read"}
    /\ stage' = [stage EXCEPT ![t] = IF @ = "first" THEN "read" ELSE "index"]
    /\ UNCHANGED <<why, budget, arena, index>> /\ Elsewhere

\* accumulated = FactorizedJoin(...): the output's arena moves, charge and
\* all, over the one it replaces; the scan, the table and the snapshots die.
FinishJoin(t) ==
    /\ stage[t] = "probe"
    /\ arena' = [arena EXCEPT ![t] =
                    [s \in Slots |-> IF s = "accumulated" THEN @["output"] ELSE NewArena]]
    /\ index' = [index EXCEPT ![t] = NewIndex]
    /\ budget' = [budget EXCEPT ![t].used = @ - Returned(t, Slots \ {"output"})]
    /\ stage' = [stage EXCEPT ![t] = "read"]
    /\ UNCHANGED why /\ Elsewhere

\* The piece is counted: everything it built dies.  The bucket is over, or
\* has another piece.
EndPiece(t) ==
    /\ stage[t] \in {"first", "probe"}
    /\ Destroy(t, Slots)
    /\ \/ /\ stage' = [stage EXCEPT ![t] = "first"] /\ UNCHANGED serving
       \/ /\ stage' = [stage EXCEPT ![t] = "idle"]
          /\ serving' = [serving EXCEPT ![t] = NoQuery]
    /\ UNCHANGED <<why, abandoned, open>>

\* Anything else that throws: operator new, an overflow, a lost cause.
Fails(t) ==
    /\ stage[t] \in {"first", "read", "index", "probe"}
    /\ Throw(t, "error") /\ Elsewhere

\* A piece that did not fit is cut finer.
Retry(t) ==
    /\ stage[t] = "failed" /\ why[t] = "memory"
    /\ stage' = [stage EXCEPT ![t] = "first"]
    /\ why' = [why EXCEPT ![t] = "none"]
    /\ UNCHANGED <<budget, arena, index>> /\ Elsewhere

\* Out of ways to cut it: RaiseSharedAbandon, through the thread's pointer.
GiveUp(t) ==
    /\ stage[t] = "failed"
    /\ abandoned' = IF why[t] = "memory" /\ budget[t].flag # NoQuery
                    THEN [abandoned EXCEPT ![budget[t].flag] = TRUE] ELSE abandoned
    /\ stage' = [stage EXCEPT ![t] = "idle"]
    /\ why' = [why EXCEPT ![t] = "none"]
    /\ serving' = [serving EXCEPT ![t] = NoQuery]
    /\ UNCHANGED <<budget, arena, index, open>>

\* The query's state is destroyed once none of its slices runs.
Close(q) ==
    /\ q \in open /\ \A t \in Threads : serving[t] # q
    /\ open' = open \ {q}
    /\ UNCHANGED <<serving, stage, why, budget, arena, index, abandoned>>

Step(t) ==
    \/ \E q \in Queries : Begin(t, q)
    \/ \E s \in Slots, need \in Sizes : Allocate(t, s, need)
    \/ Insert(t) \/ Finalize(t) \/ NextStage(t) \/ FinishJoin(t)
    \/ EndPiece(t) \/ Fails(t) \/ Retry(t) \/ GiveUp(t)

AllClosed == open = {} /\ UNCHANGED vars

Next == (\E t \in Threads : Step(t)) \/ (\E q \in Queries : Close(q)) \/ AllClosed

Spec == Init /\ [][Next]_vars

(***************************************************************************)
(* Properties.                                                             *)
(***************************************************************************)
ArenaType == [reserved : Nat, room : Nat, allocated : Nat, next : Nat \ {0}]
IndexType == [entries : 0 .. MaxEntries, capacity : Nat, directory : Nat, charged : Nat]
BudgetType == [limit : Nat, used : Nat, flag : Queries \cup {NoQuery}]

\* Every counter stays a natural number: a size_t that is released once too
\* often wraps.
TypeOK ==
    /\ serving \in [Threads -> Queries \cup {NoQuery}]
    /\ stage \in [Threads -> {"idle", "first", "read", "index", "probe", "failed"}]
    /\ why \in [Threads -> {"none", "memory", "sibling", "error"}]
    /\ budget \in [Threads -> BudgetType]
    /\ arena \in [Threads -> [Slots -> ArenaType]]
    /\ index \in [Threads -> IndexType]
    /\ abandoned \in [Queries -> BOOLEAN]
    /\ open \subseteq Queries

\* The account is what the structures alive hold, to the byte: nothing is
\* charged twice, lost in a move, or left behind by an exception.
AccountIsExact ==
    \A t \in Threads :
        /\ budget[t].used = ChargedIn(t, Slots) + index[t].charged
        /\ index[t].charged = Vectors(index[t])
        /\ stage[t] = "idle" => budget[t].used = 0

\* A slice stays within its limit, but for the last growth of its table's
\* list of entries: that is checked before the entry's own chunk is charged.
BudgetIsKept ==
    \A t \in Threads :
        budget[t].limit # 0 /\ stage[t] # "idle" =>
            budget[t].used <= budget[t].limit + ((index[t].capacity + 1) \div 2) * Pointer

\* A thread at work never looks at a flag that is not its query's, least of
\* all at that of a query that is gone.
NoStaleFlag ==
    \A t \in Threads :
        stage[t] # "idle" =>
            /\ serving[t] \in open
            /\ budget[t].flag \in {NoQuery, serving[t]}

\* Once a slice has given up, its siblings take nothing more.
GrowsNoMore(t) ==
    serving[t] # NoQuery /\ serving[t] \in Sharing /\ abandoned[serving[t]]
        => budget[t].used' <= budget[t].used
AbandonedStopsGrowing == [][\A t \in Threads : GrowsNoMore(t)]_vars
=============================================================================
