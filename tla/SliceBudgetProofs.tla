------------------------- MODULE SliceBudgetProofs -------------------------
(***************************************************************************)
(* That a slice's account is exact, that its limit is kept, that no thread *)
(* reads the flag of a query that is not its own, and that a thread stops  *)
(* growing once a sibling has given up: for any number of threads and      *)
(* queries, any limits and any sizes.                                      *)
(*                                                                         *)
(* The argument.  Each growth charges the account with exactly what the    *)
(* arena or the table then reports as its own, and each destruction        *)
(* returns what it reports, so the account stays the sum over what is      *)
(* alive.  That sum is a sum of natural numbers: the account never goes    *)
(* below zero, and an idle thread, which holds nothing, has nothing on it. *)
(***************************************************************************)
EXTENDS SliceBudget, FiniteSetTheorems, TLAPS

\* A working thread points at its own query's flag, or at none when its
\* query shares none, and a query in service is open.
FlagIsOwn(t) ==
    /\ stage[t] = "idle" => serving[t] = NoQuery
    /\ stage[t] # "idle" =>
          /\ serving[t] \in open
          /\ budget[t].flag = IF serving[t] \in Sharing THEN serving[t] ELSE NoQuery

\* The account is the sum over what is alive, and the table's part of it
\* what its vectors hold.
Exact(t) ==
    /\ budget[t].used = ChargedIn(t, Slots) + index[t].charged
    /\ index[t].charged = Vectors(index[t])

\* A thread that waits, or has failed, holds nothing.
HoldsNothing(t) ==
    stage[t] \in {"idle", "failed"} => \A s \in Slots : arena[t][s].reserved = 0
HoldsNoTable(t) == stage[t] \in {"idle", "failed"} => index[t].charged = 0

\* A table that is being built has no directory yet.
NoDirectoryYet(t) == stage[t] # "probe" => index[t].directory = 0

\* The limit, and what the last growth of the entries may add to it.
Kept(t) ==
    budget[t].limit # 0 =>
        budget[t].used <= budget[t].limit + ((index[t].capacity + 1) \div 2) * Pointer

Local(t) ==
    /\ FlagIsOwn(t) /\ Exact(t) /\ HoldsNothing(t) /\ HoldsNoTable(t)
    /\ NoDirectoryYet(t) /\ (stage[t] # "idle" => Kept(t))

IInv == TypeOK /\ \A t \in Threads : Local(t)

-----------------------------------------------------------------------------
\* A non-empty set of natural numbers has a least element, which Min picks.
LEMMA MinIsLeast ==
  ASSUME NEW S \in SUBSET Nat, S # {}
  PROVE  Min(S) \in S /\ \A n \in S : Min(S) <= n
<1> DEFINE Below(n) == 0 .. (n - 1)
           Initial == {Below(n) : n \in S}
<1>1. Initial \subseteq FiniteSubsetsOf(Nat)
  <2>1. ASSUME NEW n \in S PROVE Below(n) \in FiniteSubsetsOf(Nat)
    <3>1. IsFiniteSet(Below(n)) BY FS_Interval
    <3>2. Below(n) \subseteq Nat OBVIOUS
    <3> QED BY <3>1, <3>2 DEF FiniteSubsetsOf
  <2> QED BY <2>1
<1>2. PICK x \in Initial : \A y \in Initial : <<y, x>> \notin StrictSubsetOrdering(Nat)
  <2>1. Initial # {} OBVIOUS
  <2> HIDE DEF Initial
  <2> QED BY <1>1, <2>1, FS_StrictSubsetOrderingWellFounded, WFMin
<1>3. PICK m \in S : x = Below(m) BY <1>2
<1>4. ASSUME NEW n \in S, n < m PROVE FALSE
  <2>1. Below(n) \subseteq Below(m) /\ Below(n) # Below(m)
    <3>1. n \in Below(m) /\ n \notin Below(n) BY <1>4
    <3> QED BY <3>1, <1>4
  <2>2. <<Below(n), Below(m)>> \in StrictSubsetOrdering(Nat)
    <3>1. Below(n) \subseteq Nat /\ Below(m) \subseteq Nat OBVIOUS
    <3> HIDE DEF Below
    <3> QED BY <2>1, <3>1 DEF StrictSubsetOrdering
  <2>3. Below(n) \in Initial OBVIOUS
  <2> QED BY <1>2, <1>3, <2>2, <2>3
<1>5. \A n \in S : m <= n BY <1>4
<1> QED BY <1>5 DEF Min

-----------------------------------------------------------------------------
\* Facts about products that the sizes need.
LEMMA Products ==
  /\ \A a, b \in Nat : a * b \in Nat
  /\ \A a, b \in Nat \ {0} : a * b \in Nat \ {0} /\ a * b >= b
  /\ \A a, b, p \in Nat : (a + b) * p = a * p + b * p
  /\ \A a, b, p \in Nat : a <= b => a * p <= b * p
  /\ \A a \in Nat, p \in Nat \ {0} : (a * p) \div p = a
<1>1. \A a, b \in Nat : a * b \in Nat OBVIOUS
<1>2. \A a, b \in Nat \ {0} : a * b \in Nat \ {0} /\ a * b >= b OBVIOUS
<1>3. \A a, b, p \in Nat : (a + b) * p = a * p + b * p OBVIOUS
<1>4. \A a, b, p \in Nat : a <= b => a * p <= b * p OBVIOUS
<1>5. \A a \in Nat, p \in Nat \ {0} : (a * p) \div p = a OBVIOUS
<1> QED BY <1>1, <1>2, <1>3, <1>4, <1>5

\* Allocate's chunk: large enough for the request, and never empty.
LEMMA ChunkFits ==
  ASSUME NEW next \in Nat \ {0}, NEW need \in Sizes \cup {EntrySize}
  PROVE  ChunkFor(next, need) \in Nat \ {0} /\ need <= ChunkFor(next, need)
<1> DEFINE large == {next * d : d \in Doublings} \ 0 .. need - 1
<1>1. need \in Nat \ {0} BY SizesAssumption
<1>2. \A d \in Doublings : next * d \in Nat \ {0} /\ next * d >= d
  <2>1. ASSUME NEW d \in Doublings PROVE next * d \in Nat \ {0} /\ next * d >= d
    <3>1. d \in Nat \ {0} BY DoublingsAssumption
    <3> QED BY <3>1, Products
  <2> QED BY <2>1
<1>3. PICK d \in Doublings : need <= d BY DoublingsAssumption
<1>4. large \in SUBSET Nat BY <1>2
<1>5. next * d \in large
  <2>1. d \in Nat BY DoublingsAssumption
  <2> QED BY <1>1, <1>2, <1>3, <2>1
<1>6. Min(large) \in large
  <2> HIDE DEF large
  <2> QED BY <1>4, <1>5, MinIsLeast
<1>7. Min(large) \in Nat /\ need <= Min(large) BY <1>1, <1>4, <1>6
<1> QED BY <1>1, <1>7 DEF ChunkFor

\* Finalize's directory is never empty.
LEMMA DirectoryFits ==
  ASSUME NEW entries \in 0 .. MaxEntries
  PROVE  DirectorySize(entries) \in Nat \ {0}
<1> DEFINE large == Doublings \ 0 .. Requested(entries) - 1
<1>1. large \in SUBSET (Nat \ {0}) BY DoublingsAssumption
<1>2. Requested(entries) \in Nat BY SizesAssumption DEF Requested
<1>3. PICK d \in Doublings : Requested(entries) <= d BY DoublingsAssumption
<1>4. d \in large
  <2>1. d \in Nat BY DoublingsAssumption
  <2> QED BY <1>2, <1>3, <2>1
<1>5. Min(large) \in large
  <2> HIDE DEF large
  <2>1. large \in SUBSET Nat BY <1>1
  <2> QED BY <1>4, <2>1, MinIsLeast
<1> QED BY <1>1, <1>5 DEF DirectorySize

-----------------------------------------------------------------------------
\* What the typed state says of one thread.
LEMMA Typed ==
  ASSUME TypeOK, NEW t \in Threads
  PROVE  /\ budget[t] \in BudgetType /\ index[t] \in IndexType
         /\ arena[t] \in [Slots -> ArenaType]
         /\ \A s \in Slots : arena[t][s].reserved \in Nat
         /\ ChargedIn(t, Slots) \in Nat /\ Vectors(index[t]) \in Nat
         /\ Pointer \in Nat \ {0}
<1>1. /\ budget[t] \in BudgetType /\ index[t] \in IndexType
      /\ arena[t] \in [Slots -> ArenaType]
  BY DEF TypeOK
<1>2. \A s \in Slots : arena[t][s].reserved \in Nat BY <1>1 DEF ArenaType
<1>3. ChargedIn(t, Slots) \in Nat BY <1>2 DEF ChargedIn, ChargedTwo, Slots
<1>4. Vectors(index[t]) \in Nat BY <1>1, Products, SizesAssumption DEF IndexType, Vectors
<1> QED BY <1>1, <1>2, <1>3, <1>4, SizesAssumption

\* A step of one thread leaves the others as they were.
LEMMA OthersKeep ==
  ASSUME IInv, NEW t \in Threads, open' = open,
         \A u \in Threads \ {t} :
             /\ serving'[u] = serving[u] /\ stage'[u] = stage[u] /\ budget'[u] = budget[u]
             /\ arena'[u] = arena[u] /\ index'[u] = index[u]
  PROVE  \A u \in Threads \ {t} : Local(u)'
<1> SUFFICES ASSUME NEW u \in Threads \ {t} PROVE Local(u)' OBVIOUS
<1>1. Local(u) BY DEF IInv
<1>2. /\ serving'[u] = serving[u] /\ stage'[u] = stage[u] /\ budget'[u] = budget[u]
      /\ arena'[u] = arena[u] /\ index'[u] = index[u]
  OBVIOUS
<1>3. FlagIsOwn(u)' BY <1>1, <1>2 DEF Local, FlagIsOwn
<1>4. Exact(u)' BY <1>1, <1>2 DEF Local, Exact, ChargedIn, ChargedTwo, Vectors
<1>5. HoldsNothing(u)' /\ HoldsNoTable(u)' /\ NoDirectoryYet(u)'
  BY <1>1, <1>2 DEF Local, HoldsNothing, HoldsNoTable, NoDirectoryYet
<1>6. (stage[u] # "idle" => Kept(u))' BY <1>1, <1>2 DEF Local, Kept
<1> QED BY <1>3, <1>4, <1>5, <1>6 DEF Local

\* Destroying all slots, and the table, takes the account back to nothing.
LEMMA DestroyAll ==
  ASSUME IInv, NEW t \in Threads, Destroy(t, Slots)
  PROVE  /\ budget' = [budget EXCEPT ![t] = [limit |-> budget[t].limit, used |-> 0,
                                             flag |-> budget[t].flag]]
         /\ arena' = [arena EXCEPT ![t] = [s \in Slots |-> NewArena]]
         /\ index' = [index EXCEPT ![t] = NewIndex]
<1>1. Exact(t) /\ budget[t] \in BudgetType BY Typed DEF IInv, Local
<1>2. "entries" \in Slots BY DEF Slots
<1>3. Returned(t, Slots) = budget[t].used BY <1>1, <1>2 DEF Returned, Exact
<1>4. budget' = [budget EXCEPT ![t].used = 0]
  <2>1. budget[t].used - budget[t].used = 0 BY <1>1 DEF BudgetType
  <2> QED BY <1>3, <2>1 DEF Destroy
<1>5. [budget[t] EXCEPT !.used = 0] = [limit |-> budget[t].limit, used |-> 0, flag |-> budget[t].flag]
  BY <1>1 DEF BudgetType
<1> QED BY <1>2, <1>4, <1>5 DEF Destroy

LEMMA NewTyped == NewArena \in ArenaType /\ NewIndex \in IndexType
  BY SizesAssumption DEF NewArena, NewIndex, ArenaType, IndexType

\* A thread that has lost all it held, whatever stage it goes to.
LEMMA Emptied ==
  ASSUME IInv, NEW t \in Threads, Destroy(t, Slots)
  PROVE  /\ (Exact(t) /\ HoldsNothing(t) /\ HoldsNoTable(t) /\ NoDirectoryYet(t) /\ Kept(t))'
         /\ budget'[t].used = 0 /\ budget'[t].flag = budget[t].flag
         /\ budget' \in [Threads -> BudgetType] /\ index' \in [Threads -> IndexType]
         /\ arena' \in [Threads -> [Slots -> ArenaType]]
         /\ \A u \in Threads \ {t} :
                budget'[u] = budget[u] /\ arena'[u] = arena[u] /\ index'[u] = index[u]
<1>1. TypeOK BY DEF IInv
<1>2. /\ budget' = [budget EXCEPT ![t] = [limit |-> budget[t].limit, used |-> 0,
                                          flag |-> budget[t].flag]]
      /\ arena' = [arena EXCEPT ![t] = [s \in Slots |-> NewArena]]
      /\ index' = [index EXCEPT ![t] = NewIndex]
  BY DestroyAll
<1>3. budget[t] \in BudgetType BY <1>1, Typed
<1>4. /\ budget' \in [Threads -> BudgetType] /\ index' \in [Threads -> IndexType]
      /\ arena' \in [Threads -> [Slots -> ArenaType]]
  BY <1>1, <1>2, <1>3, NewTyped DEF TypeOK, BudgetType
<1>5. /\ budget'[t] = [limit |-> budget[t].limit, used |-> 0, flag |-> budget[t].flag]
      /\ arena'[t] = [s \in Slots |-> NewArena] /\ index'[t] = NewIndex
  BY <1>1, <1>2 DEF TypeOK
<1>6. (Exact(t) /\ HoldsNothing(t) /\ HoldsNoTable(t) /\ NoDirectoryYet(t) /\ Kept(t))'
  <2>1. budget'[t].used = 0 /\ budget'[t].limit \in Nat BY <1>3, <1>5 DEF BudgetType
  <2> QED BY <1>5, <2>1, SizesAssumption DEF Exact, HoldsNothing, HoldsNoTable, NoDirectoryYet,
          Kept, ChargedIn, ChargedTwo, Vectors, NewArena, NewIndex, Slots
<1>7. \A u \in Threads \ {t} :
          budget'[u] = budget[u] /\ arena'[u] = arena[u] /\ index'[u] = index[u]
  BY <1>1, <1>2 DEF TypeOK
<1> QED BY <1>4, <1>5, <1>6, <1>7

\* The typed variables no call on a structure writes.
LEMMA ElsewhereTyped ==
  ASSUME TypeOK, Elsewhere
  PROVE  /\ serving' \in [Threads -> Queries \cup {NoQuery}]
         /\ abandoned' \in [Queries -> BOOLEAN] /\ open' \subseteq Queries
         /\ serving' = serving /\ abandoned' = abandoned /\ open' = open
  BY DEF TypeOK, Elsewhere

\* Whatever is thrown, and from wherever, the account is settled.
LEMMA ThrowStep ==
  ASSUME IInv, NEW t \in Threads, NEW reason \in {"memory", "sibling", "error"},
         stage[t] # "idle", Throw(t, reason), Elsewhere
  PROVE  IInv' /\ budget'[t].used = 0 /\ \A u \in Threads \ {t} : budget'[u] = budget[u]
<1>1. TypeOK /\ Local(t) BY DEF IInv
<1>2. Destroy(t, Slots) /\ stage' = [stage EXCEPT ![t] = "failed"] /\ why' = [why EXCEPT ![t] = reason]
  BY DEF Throw
<1>3. TypeOK' BY <1>1, <1>2, Emptied, ElsewhereTyped DEF TypeOK
<1>4. Local(t)'
  <2>1. stage'[t] = "failed" /\ serving'[t] = serving[t] /\ open' = open
    BY <1>1, <1>2, ElsewhereTyped DEF TypeOK
  <2>2. FlagIsOwn(t)' BY <1>1, <1>2, <2>1, Emptied DEF Local, FlagIsOwn
  <2> QED BY <1>2, <2>2, Emptied DEF Local
<1>5. \A u \in Threads \ {t} : Local(u)'
  <2>1. \A u \in Threads \ {t} : serving'[u] = serving[u] /\ stage'[u] = stage[u]
    BY <1>1, <1>2, ElsewhereTyped DEF TypeOK
  <2> QED BY <1>1, <1>2, <2>1, Emptied, ElsewhereTyped, OthersKeep
<1> QED BY <1>2, <1>3, <1>4, <1>5, Emptied DEF IInv

\* The same for the end of a piece, of a bucket, and of a wait.
LEMMA EndPieceStep ==
  ASSUME IInv, NEW t \in Threads, EndPiece(t)
  PROVE  IInv' /\ budget'[t].used = 0 /\ \A u \in Threads \ {t} : budget'[u] = budget[u]
<1>1. TypeOK /\ Local(t) BY DEF IInv
<1>2. Destroy(t, Slots) /\ why' = why /\ abandoned' = abandoned /\ open' = open /\ stage[t] # "idle"
  BY DEF EndPiece
<1>3. \/ stage' = [stage EXCEPT ![t] = "first"] /\ serving' = serving
      \/ stage' = [stage EXCEPT ![t] = "idle"] /\ serving' = [serving EXCEPT ![t] = NoQuery]
  BY DEF EndPiece
<1>4. TypeOK' BY <1>1, <1>2, <1>3, Emptied DEF TypeOK
<1>5. Local(t)'
  <2>1. \/ stage'[t] = "first" /\ serving'[t] = serving[t]
        \/ stage'[t] = "idle" /\ serving'[t] = NoQuery
    BY <1>1, <1>3 DEF TypeOK
  <2>2. FlagIsOwn(t)' BY <1>1, <1>2, <2>1, Emptied DEF Local, FlagIsOwn
  <2> QED BY <1>2, <2>2, Emptied DEF Local
<1>6. \A u \in Threads \ {t} : Local(u)'
  <2>1. \A u \in Threads \ {t} : serving'[u] = serving[u] /\ stage'[u] = stage[u]
    BY <1>1, <1>3 DEF TypeOK
  <2> QED BY <1>1, <1>2, <2>1, Emptied, OthersKeep
<1> QED BY <1>2, <1>4, <1>5, <1>6, Emptied DEF IInv

-----------------------------------------------------------------------------
\* What Allocate makes of an arena that has room, or gets it.
LEMMA ArenaGrows ==
  ASSUME TypeOK, NEW t \in Threads, NEW s \in Slots, NEW need \in Sizes \cup {EntrySize}
  PROVE  /\ Chunk(t, s, need) \in Nat /\ (Chunk(t, s, need) # 0 => MustGrow(t, s, need))
         /\ Allocated(t, s, need) \in ArenaType
         /\ Allocated(t, s, need).reserved = arena[t][s].reserved + Chunk(t, s, need)
<1> DEFINE a == arena[t][s]
           bytes == Chunk(t, s, need)
<1>1. a \in ArenaType BY Typed
<1>2. need \in Nat \ {0} BY SizesAssumption
<1>3. a.next \in Nat \ {0} /\ a.room \in Nat /\ a.reserved \in Nat /\ a.allocated \in Nat
  BY <1>1 DEF ArenaType
<1>4. CASE MustGrow(t, s, need)
  <2>1. bytes \in Nat \ {0} /\ need <= bytes BY <1>3, <1>4, ChunkFits DEF Chunk
  <2>2. AfterChunk(a.next, bytes) \in Nat \ {0} BY <1>3, <2>1 DEF AfterChunk
  <2>3. Allocated(t, s, need) =
            [reserved |-> a.reserved + bytes, allocated |-> a.allocated + need,
             room |-> bytes - need, next |-> AfterChunk(a.next, bytes)]
    BY <2>1 DEF Allocated
  <2> QED BY <1>2, <1>3, <1>4, <2>1, <2>2, <2>3 DEF ArenaType
<1>5. CASE ~ MustGrow(t, s, need)
  <2>1. bytes = 0 /\ need <= a.room BY <1>2, <1>3, <1>5 DEF Chunk, MustGrow
  <2>2. Allocated(t, s, need) =
            [reserved |-> a.reserved + 0, allocated |-> a.allocated + need,
             room |-> a.room - need, next |-> a.next]
    BY <2>1 DEF Allocated
  <2> QED BY <1>2, <1>3, <2>1, <2>2 DEF ArenaType
<1> QED BY <1>4, <1>5

\* A chunk that is taken was checked: nobody had given up, and it fitted.
LEMMA ChunkWasChecked ==
  ASSUME NEW t, NEW s, NEW need,
         AllocateThrows(t, s, need) = "none", MustGrow(t, s, need)
  PROVE  ~ CheckAbandoned(t) /\ ~ OverLimit(t, Chunk(t, s, need))
BY DEF AllocateThrows

LEMMA ThrowReasons ==
  ASSUME NEW t
  PROVE  /\ \A s, need : AllocateThrows(t, s, need) \in {"none", "memory", "sibling"}
         /\ \A growth : IndexThrows(t, growth) \in {"none", "memory", "sibling"}
<1>1. \A s, need : AllocateThrows(t, s, need) \in {"none", "memory", "sibling"}
  BY DEF AllocateThrows
<1>2. \A growth : IndexThrows(t, growth) \in {"none", "memory", "sibling"}
  BY DEF IndexThrows
<1> QED BY <1>1, <1>2

\* A slot that grows takes the sum over the slots along.
LEMMA SumGrows ==
  ASSUME TypeOK, NEW t \in Threads, NEW s \in Slots, NEW grown \in ArenaType, NEW bytes \in Nat,
         grown.reserved = arena[t][s].reserved + bytes,
         arena' = [arena EXCEPT ![t][s] = grown]
  PROVE  /\ arena' \in [Threads -> [Slots -> ArenaType]]
         /\ ChargedIn(t, Slots)' = ChargedIn(t, Slots) + bytes
         /\ \A u \in Threads \ {t} : arena'[u] = arena[u]
<1>1. arena' \in [Threads -> [Slots -> ArenaType]] BY DEF TypeOK
<1>2. /\ arena'[t][s].reserved = arena[t][s].reserved + bytes
      /\ \A r \in Slots \ {s} : arena'[t][r] = arena[t][r]
  BY DEF TypeOK
<1>3. \A r \in Slots : arena[t][r].reserved \in Nat BY Typed
<1>4. ChargedIn(t, Slots)' = ChargedIn(t, Slots) + bytes
  BY <1>2, <1>3 DEF ChargedIn, ChargedTwo, Slots
<1> QED BY <1>1, <1>4 DEF TypeOK

LEMMA ChargedTyped ==
  ASSUME NEW b \in BudgetType, NEW growth \in Nat
  PROVE  /\ ChargedTo(b, growth) \in BudgetType /\ ChargedTo(b, growth).used = b.used + growth
         /\ ChargedTo(b, growth).flag = b.flag /\ ChargedTo(b, growth).limit = b.limit
BY DEF ChargedTo, BudgetType

\* Allocate, whichever way it ends.
LEMMA AllocateStep ==
  ASSUME IInv, NEW t \in Threads, NEW s \in Slots, NEW need \in Sizes, Allocate(t, s, need)
  PROVE  /\ IInv' /\ \A u \in Threads \ {t} : budget'[u] = budget[u]
         /\ CheckAbandoned(t) => budget'[t].used <= budget[t].used
<1>1. TypeOK /\ Local(t) BY DEF IInv
<1>2. stage[t] \in {"first", "read", "index", "probe"} /\ Elsewhere BY DEF Allocate, Fills
<1>3. budget[t].used \in Nat BY <1>1, Typed DEF BudgetType
<1>4. CASE AllocateThrows(t, s, need) # "none"
  <2>1. Throw(t, AllocateThrows(t, s, need)) BY <1>4 DEF Allocate
  <2>2. AllocateThrows(t, s, need) \in {"memory", "sibling", "error"} BY <1>4, ThrowReasons
  <2> QED BY <1>2, <1>3, <2>1, <2>2, ThrowStep
<1>5. CASE AllocateThrows(t, s, need) = "none"
  <2> DEFINE bytes == Chunk(t, s, need)
  <2>1. /\ arena' = [arena EXCEPT ![t][s] = Allocated(t, s, need)]
        /\ budget' = [budget EXCEPT ![t] = ChargedTo(@, bytes)]
        /\ UNCHANGED <<stage, why, index>>
    BY <1>5 DEF Allocate
  <2>2. /\ bytes \in Nat /\ Allocated(t, s, need) \in ArenaType
        /\ Allocated(t, s, need).reserved = arena[t][s].reserved + bytes
        /\ bytes # 0 => MustGrow(t, s, need)
    BY <1>1, ArenaGrows
  <2> HIDE DEF bytes
  <2>3. budget[t] \in BudgetType BY <1>1, Typed
  <2>4. /\ ChargedTo(budget[t], bytes) \in BudgetType
        /\ ChargedTo(budget[t], bytes).used = budget[t].used + bytes
        /\ ChargedTo(budget[t], bytes).flag = budget[t].flag
        /\ ChargedTo(budget[t], bytes).limit = budget[t].limit
    BY <2>2, <2>3, ChargedTyped
  <2>5. /\ budget' \in [Threads -> BudgetType]
        /\ budget'[t].used = budget[t].used + bytes
        /\ budget'[t].flag = budget[t].flag /\ budget'[t].limit = budget[t].limit
        /\ \A u \in Threads \ {t} : budget'[u] = budget[u]
    BY <1>1, <2>1, <2>4 DEF TypeOK
  <2>6. /\ arena' \in [Threads -> [Slots -> ArenaType]]
        /\ ChargedIn(t, Slots)' = ChargedIn(t, Slots) + bytes
        /\ \A u \in Threads \ {t} : arena'[u] = arena[u]
    BY <1>1, <2>1, <2>2, SumGrows
  <2>7. TypeOK' BY <1>1, <1>2, <2>1, <2>5, <2>6, ElsewhereTyped DEF TypeOK
  <2>8. Exact(t)'
    <3>1. ChargedIn(t, Slots) \in Nat /\ index[t].charged \in Nat BY <1>1, Typed DEF IndexType
    <3> QED BY <1>1, <2>1, <2>2, <2>5, <2>6, <3>1 DEF Local, Exact, Vectors
  <2>9. bytes # 0 => ~ CheckAbandoned(t) /\ ~ OverLimit(t, bytes)
    BY <1>5, <2>2, ChunkWasChecked DEF bytes
  <2>10. Kept(t)'
    <3>1. ((index[t].capacity + 1) \div 2) * Pointer \in Nat
      BY <1>1, Typed, Products DEF IndexType
    <3>2. budget[t].limit \in Nat BY <2>3 DEF BudgetType
    <3>3. CASE bytes = 0 BY <1>1, <1>2, <1>3, <2>1, <2>5, <3>3 DEF Local, Kept
    <3>4. CASE bytes # 0 BY <1>3, <2>1, <2>2, <2>5, <2>9, <3>1, <3>2, <3>4 DEF Kept, OverLimit
    <3> QED BY <3>3, <3>4
  <2>11. (FlagIsOwn(t) /\ HoldsNothing(t) /\ HoldsNoTable(t) /\ NoDirectoryYet(t))'
    BY <1>1, <1>2, <2>1, <2>5, ElsewhereTyped
       DEF Local, FlagIsOwn, HoldsNothing, HoldsNoTable, NoDirectoryYet
  <2>12. \A u \in Threads \ {t} : Local(u)'
    BY <1>1, <1>2, <2>1, <2>5, <2>6, ElsewhereTyped, OthersKeep
  <2> QED BY <1>3, <2>2, <2>5, <2>7, <2>8, <2>9, <2>10, <2>11, <2>12 DEF IInv, Local
<1> QED BY <1>4, <1>5

-----------------------------------------------------------------------------
\* The table after an insertion.
Pushed(t) == Recharged([index[t] EXCEPT !.entries = @ + 1, !.capacity = @ + Growth(t) \div Pointer])

LEMMA EntriesUpdated ==
  ASSUME NEW x \in IndexType, NEW e, NEW c
  PROVE  [x EXCEPT !.entries = e, !.capacity = c] =
             [entries |-> e, capacity |-> c, directory |-> x.directory, charged |-> x.charged]
<1> DEFINE w == [x EXCEPT !.entries = e]
<1>1. w = [entries |-> e, capacity |-> x.capacity, directory |-> x.directory, charged |-> x.charged]
  BY DEF IndexType
<1>2. [x EXCEPT !.entries = e, !.capacity = c] = [w EXCEPT !.capacity = c] OBVIOUS
<1> HIDE DEF w
<1>3. [w EXCEPT !.capacity = c] =
          [entries |-> e, capacity |-> c, directory |-> x.directory, charged |-> x.charged]
  BY <1>1
<1> QED BY <1>2, <1>3

\* Its vectors hold what the check was told they would, and that is at most
\* what half the entries they now have room for take.
LEMMA TableGrows ==
  ASSUME TypeOK, NEW t \in Threads, index[t].entries < MaxEntries
  PROVE  /\ Growth(t) \in Nat /\ Pushed(t) \in IndexType
         /\ Pushed(t).charged = Vectors(Pushed(t))
         /\ Vectors(Pushed(t)) = Vectors(index[t]) + Growth(t)
         /\ Growth(t) <= ((Pushed(t).capacity + 1) \div 2) * Pointer
         /\ Pushed(t).directory = index[t].directory
         /\ ((index[t].capacity + 1) \div 2) * Pointer <= ((Pushed(t).capacity + 1) \div 2) * Pointer
<1> DEFINE x == index[t]
           more == Growth(t) \div Pointer
<1>1. /\ x \in IndexType /\ x.capacity \in Nat /\ x.directory \in Nat
      /\ x.entries \in 0 .. MaxEntries /\ Pointer \in Nat \ {0} /\ MaxEntries \in Nat
  BY Typed, SizesAssumption DEF IndexType
<1>2. /\ Growth(t) = more * Pointer
      /\ more = 0 \/ (x.capacity = 0 /\ more = 1) \/ more = x.capacity
      /\ more \in Nat
  <2>1. CASE x.entries < x.capacity BY <1>1, <2>1 DEF Growth
  <2>2. CASE ~(x.entries < x.capacity) /\ x.capacity = 0 BY <1>1, <2>2 DEF Growth
  <2>3. CASE ~(x.entries < x.capacity) /\ x.capacity # 0
    <3>1. Growth(t) = x.capacity * Pointer BY <2>3 DEF Growth
    <3>2. (x.capacity * Pointer) \div Pointer = x.capacity BY <1>1, Products
    <3> QED BY <1>1, <3>1, <3>2
  <2> QED BY <2>1, <2>2, <2>3
<1> HIDE DEF more
<1>3. Pushed(t) = [entries |-> x.entries + 1, capacity |-> x.capacity + more,
                   directory |-> x.directory, charged |-> (x.capacity + more + x.directory) * Pointer]
  <2> DEFINE y == [entries |-> x.entries + 1, capacity |-> x.capacity + more,
                   directory |-> x.directory, charged |-> x.charged]
  <2> HIDE DEF x
  <2>2. [x EXCEPT !.entries = @ + 1, !.capacity = @ + more] = y BY <1>1, EntriesUpdated
  <2>3. [y EXCEPT !.charged = Vectors(y)] =
            [entries |-> x.entries + 1, capacity |-> x.capacity + more,
             directory |-> x.directory, charged |-> (x.capacity + more + x.directory) * Pointer]
    BY DEF Vectors
  <2>4. Pushed(t) = Recharged([x EXCEPT !.entries = @ + 1, !.capacity = @ + more])
    BY DEF Pushed, x, more
  <2> QED BY <2>2, <2>3, <2>4 DEF Recharged
<1>4. (x.capacity + more + x.directory) * Pointer \in Nat BY <1>1, <1>2, Products
<1>5. Pushed(t) \in IndexType BY <1>1, <1>2, <1>3, <1>4 DEF IndexType
<1>6. Pushed(t).charged = Vectors(Pushed(t)) BY <1>3 DEF Vectors
<1>7. Vectors(Pushed(t)) = Vectors(index[t]) + Growth(t)
  <2>1. x.capacity + more + x.directory = (x.capacity + x.directory) + more BY <1>1, <1>2
  <2>2. x.capacity + x.directory \in Nat BY <1>1
  <2>3. ((x.capacity + x.directory) + more) * Pointer = (x.capacity + x.directory) * Pointer + more * Pointer
    BY <1>1, <1>2, <2>2, Products
  <2> QED BY <1>2, <1>3, <2>1, <2>3 DEF Vectors
<1>8. /\ more <= (x.capacity + more + 1) \div 2
      /\ (x.capacity + 1) \div 2 <= (x.capacity + more + 1) \div 2
      /\ (x.capacity + more + 1) \div 2 \in Nat /\ (x.capacity + 1) \div 2 \in Nat
  BY <1>1, <1>2
<1>9. /\ more * Pointer <= ((x.capacity + more + 1) \div 2) * Pointer
      /\ ((x.capacity + 1) \div 2) * Pointer <= ((x.capacity + more + 1) \div 2) * Pointer
  BY <1>1, <1>2, <1>8, Products
<1> QED BY <1>1, <1>2, <1>3, <1>5, <1>6, <1>7, <1>9, Products

LEMMA GrowthWasChecked ==
  ASSUME NEW t, NEW growth, IndexThrows(t, growth) = "none", growth # 0
  PROVE  ~ CheckAbandoned(t) /\ ~ OverLimit(t, growth)
BY DEF IndexThrows

\* Insert, whichever way it ends.
LEMMA InsertStep ==
  ASSUME IInv, NEW t \in Threads, Insert(t)
  PROVE  /\ IInv' /\ \A u \in Threads \ {t} : budget'[u] = budget[u]
         /\ CheckAbandoned(t) => budget'[t].used <= budget[t].used
<1>1. TypeOK /\ Local(t) BY DEF IInv
<1>2. stage[t] = "index" /\ index[t].entries < MaxEntries /\ Elsewhere BY DEF Insert
<1>3. budget[t].used \in Nat BY <1>1, Typed DEF BudgetType
<1>4. CASE IndexThrows(t, Growth(t)) # "none"
  <2>1. Throw(t, IndexThrows(t, Growth(t))) BY <1>4 DEF Insert
  <2>2. IndexThrows(t, Growth(t)) \in {"memory", "sibling", "error"} BY <1>4, ThrowReasons
  <2> QED BY <1>2, <1>3, <2>1, <2>2, ThrowStep
<1>5. CASE /\ IndexThrows(t, Growth(t)) = "none"
           /\ AllocateThrows(t, "entries", EntrySize) # "none"
  <2>1. Throw(t, AllocateThrows(t, "entries", EntrySize)) BY <1>5 DEF Insert
  <2>2. AllocateThrows(t, "entries", EntrySize) \in {"memory", "sibling", "error"}
    BY <1>5, ThrowReasons
  <2> QED BY <1>2, <1>3, <2>1, <2>2, ThrowStep
<1>6. CASE /\ IndexThrows(t, Growth(t)) = "none"
           /\ AllocateThrows(t, "entries", EntrySize) = "none"
  <2> DEFINE bytes == Chunk(t, "entries", EntrySize)
             growth == Growth(t)
             pushed == Pushed(t)
             grown == Allocated(t, "entries", EntrySize)
  <2>1. /\ arena' = [arena EXCEPT ![t]["entries"] = grown]
        /\ index' = [index EXCEPT ![t] = pushed]
        /\ budget' = [budget EXCEPT ![t] =
               ChargedTo(ChargedTo(@, bytes), pushed.charged - index[t].charged)]
        /\ UNCHANGED <<stage, why>>
    BY <1>6 DEF Insert, Pushed
  <2>2. /\ bytes \in Nat /\ grown \in ArenaType
        /\ grown.reserved = arena[t]["entries"].reserved + bytes
        /\ bytes # 0 => MustGrow(t, "entries", EntrySize)
    BY <1>1, ArenaGrows DEF Slots
  <2>3. /\ growth \in Nat /\ pushed \in IndexType /\ pushed.charged = Vectors(pushed)
        /\ Vectors(pushed) = Vectors(index[t]) + growth
        /\ growth <= ((pushed.capacity + 1) \div 2) * Pointer
        /\ pushed.directory = index[t].directory
        /\ ((index[t].capacity + 1) \div 2) * Pointer <= ((pushed.capacity + 1) \div 2) * Pointer
    BY <1>1, <1>2, TableGrows
  <2>4. /\ bytes # 0 => ~ CheckAbandoned(t) /\ ~ OverLimit(t, bytes)
        /\ growth # 0 => ~ CheckAbandoned(t) /\ ~ OverLimit(t, growth)
    BY <1>6, <2>2, ChunkWasChecked, GrowthWasChecked
  <2> HIDE DEF bytes, growth, pushed, grown
  <2>5. /\ index[t].charged = Vectors(index[t]) /\ index[t].charged \in Nat
        /\ pushed.charged - index[t].charged = growth
    BY <1>1, <2>3, Typed DEF Local, Exact, IndexType
  <2>6. budget[t] \in BudgetType BY <1>1, Typed
  <2> DEFINE b == ChargedTo(ChargedTo(budget[t], bytes), growth)
  <2>7. /\ b \in BudgetType /\ b.used = budget[t].used + bytes + growth
        /\ b.flag = budget[t].flag /\ b.limit = budget[t].limit
    <3>1. LET c == ChargedTo(budget[t], bytes)
          IN  /\ c \in BudgetType /\ c.used = budget[t].used + bytes
              /\ c.flag = budget[t].flag /\ c.limit = budget[t].limit
      BY <2>2, <2>6, ChargedTyped
    <3> QED BY <2>3, <3>1, ChargedTyped
  <2>8. budget' = [budget EXCEPT ![t] = b] BY <2>1, <2>5
  <2> HIDE DEF b
  <2>9. /\ budget' \in [Threads -> BudgetType] /\ budget'[t] = b
        /\ \A u \in Threads \ {t} : budget'[u] = budget[u]
    BY <1>1, <2>7, <2>8 DEF TypeOK
  <2>10. /\ arena' \in [Threads -> [Slots -> ArenaType]]
         /\ ChargedIn(t, Slots)' = ChargedIn(t, Slots) + bytes
         /\ \A u \in Threads \ {t} : arena'[u] = arena[u]
    <3>1. "entries" \in Slots BY DEF Slots
    <3> QED BY <1>1, <2>1, <2>2, <3>1, SumGrows
  <2>11. /\ index' \in [Threads -> IndexType] /\ index'[t] = pushed
         /\ \A u \in Threads \ {t} : index'[u] = index[u]
    BY <1>1, <2>1, <2>3 DEF TypeOK
  <2>12. TypeOK' BY <1>1, <1>2, <2>1, <2>9, <2>10, <2>11, ElsewhereTyped DEF TypeOK
  <2>13. Exact(t)'
    <3>1. ChargedIn(t, Slots) \in Nat BY <1>1, Typed
    <3>2. budget[t].used = ChargedIn(t, Slots) + index[t].charged BY <1>1 DEF Local, Exact
    <3>3. budget'[t].used = ChargedIn(t, Slots)' + pushed.charged
      BY <2>2, <2>3, <2>5, <2>7, <2>9, <2>10, <3>1, <3>2
    <3> QED BY <2>3, <2>11, <3>3 DEF Exact, Vectors
  <2>14. Kept(t)'
    <3>1. /\ ((index[t].capacity + 1) \div 2) * Pointer \in Nat
          /\ ((pushed.capacity + 1) \div 2) * Pointer \in Nat
      BY <1>1, <2>3, Typed, Products DEF IndexType
    <3>2. budget[t].limit \in Nat BY <2>6 DEF BudgetType
    <3>3. budget'[t].used = budget[t].used + bytes + growth /\ budget'[t].limit = budget[t].limit
      BY <2>7, <2>9
    <3>4. CASE bytes = 0 /\ growth = 0
      <4>1. Kept(t) BY <1>1, <1>2 DEF Local
      <4> QED BY <1>3, <2>3, <2>11, <3>1, <3>2, <3>3, <3>4, <4>1 DEF Kept
    <3>5. CASE bytes # 0
      BY <1>3, <2>2, <2>3, <2>4, <2>11, <3>1, <3>2, <3>3, <3>5 DEF Kept, OverLimit
    <3>6. CASE bytes = 0 /\ growth # 0
      BY <1>3, <2>3, <2>4, <2>11, <3>1, <3>2, <3>3, <3>6 DEF Kept, OverLimit
    <3> QED BY <3>4, <3>5, <3>6
  <2>15. FlagIsOwn(t)' BY <1>1, <1>2, <2>1, <2>7, <2>9, ElsewhereTyped DEF Local, FlagIsOwn
  <2>16. (HoldsNothing(t) /\ HoldsNoTable(t) /\ NoDirectoryYet(t))'
    BY <1>1, <1>2, <2>1, <2>3, <2>11 DEF Local, HoldsNothing, HoldsNoTable, NoDirectoryYet
  <2>17. \A u \in Threads \ {t} : Local(u)'
    BY <1>1, <1>2, <2>1, <2>9, <2>10, <2>11, ElsewhereTyped, OthersKeep
  <2>18. CheckAbandoned(t) => budget'[t].used <= budget[t].used
    BY <1>3, <2>4, <2>7, <2>9
  <2> QED BY <2>9, <2>12, <2>13, <2>14, <2>15, <2>16, <2>17, <2>18 DEF IInv, Local
<1> QED BY <1>4, <1>5, <1>6

\* A slot's bound on what the vectors hold: the slack of Kept is within it.
LEMMA SlackIsHeld ==
  ASSUME NEW x \in IndexType
  PROVE  /\ ((x.capacity + 1) \div 2) * Pointer \in Nat
         /\ ((x.capacity + 1) \div 2) * Pointer <= Vectors(x)
<1>1. x.capacity \in Nat /\ x.directory \in Nat /\ Pointer \in Nat BY SizesAssumption DEF IndexType
<1>2. (x.capacity + 1) \div 2 \in Nat /\ (x.capacity + 1) \div 2 <= x.capacity + x.directory BY <1>1
<1>3. x.capacity + x.directory \in Nat BY <1>1
<1> QED BY <1>1, <1>2, <1>3, Products DEF Vectors

\* Finalize, whichever way it ends.
LEMMA FinalizeStep ==
  ASSUME IInv, NEW t \in Threads, Finalize(t)
  PROVE  /\ IInv' /\ \A u \in Threads \ {t} : budget'[u] = budget[u]
         /\ CheckAbandoned(t) => budget'[t].used <= budget[t].used
<1>1. TypeOK /\ Local(t) BY DEF IInv
<1> DEFINE size == DirectorySize(index[t].entries)
           growth == size * Pointer
           built == Recharged([index[t] EXCEPT !.directory = size])
<1>2. stage[t] = "index" /\ Elsewhere BY DEF Finalize
<1>3. budget[t] \in BudgetType /\ budget[t].used \in Nat /\ index[t] \in IndexType
  BY <1>1, Typed DEF BudgetType
<1>4. size \in Nat \ {0} BY <1>3, DirectoryFits DEF IndexType
<1>5. /\ index[t].capacity \in Nat /\ index[t].directory = 0 /\ Pointer \in Nat \ {0}
      /\ index[t].entries \in 0 .. MaxEntries
  BY <1>1, <1>2, <1>3, SizesAssumption DEF Local, NoDirectoryYet, IndexType
<1>6. growth \in Nat \ {0} BY <1>4, <1>5, Products
<1>7. CASE IndexThrows(t, growth) # "none"
  <2>1. Throw(t, IndexThrows(t, growth)) BY <1>7 DEF Finalize
  <2>2. IndexThrows(t, growth) \in {"memory", "sibling", "error"} BY <1>7, ThrowReasons
  <2> QED BY <1>2, <1>3, <2>1, <2>2, ThrowStep
<1>8. CASE IndexThrows(t, growth) = "none"
  <2>1. /\ index' = [index EXCEPT ![t] = built]
        /\ budget' = [budget EXCEPT ![t] = ChargedTo(@, built.charged - index[t].charged)]
        /\ stage' = [stage EXCEPT ![t] = "probe"] /\ UNCHANGED <<why, arena>>
    BY <1>8 DEF Finalize
  <2>2. ~ CheckAbandoned(t) /\ ~ OverLimit(t, growth) BY <1>6, <1>8, GrowthWasChecked
  <2>3. /\ built = [entries |-> index[t].entries, capacity |-> index[t].capacity,
                    directory |-> size, charged |-> (index[t].capacity + size) * Pointer]
    <3> HIDE DEF size
    <3> DEFINE y == [index[t] EXCEPT !.directory = size]
    <3>1. y = [entries |-> index[t].entries, capacity |-> index[t].capacity,
               directory |-> size, charged |-> index[t].charged]
      BY <1>3 DEF IndexType
    <3> HIDE DEF y
    <3>2. Recharged(y) =
              [entries |-> index[t].entries, capacity |-> index[t].capacity,
               directory |-> size, charged |-> (index[t].capacity + size) * Pointer]
      BY <3>1 DEF Recharged, Vectors
    <3> QED BY <3>2 DEF y
  <2>4. /\ (index[t].capacity + size) * Pointer = index[t].capacity * Pointer + growth
        /\ index[t].capacity * Pointer \in Nat
    <3> HIDE DEF size
    <3>1. size \in Nat /\ Pointer \in Nat BY <1>4, <1>5
    <3>2. \A a, b, p \in Nat : (a + b) * p = a * p + b * p BY Products
    <3>3. (index[t].capacity + size) * Pointer = index[t].capacity * Pointer + size * Pointer
      BY <1>5, <3>1, <3>2
    <3> QED BY <1>5, <3>1, <3>3, Products
  <2>5. index[t].charged = index[t].capacity * Pointer BY <1>1, <1>5 DEF Local, Exact, Vectors
  <2>6. /\ built \in IndexType /\ built.charged = Vectors(built)
        /\ built.charged - index[t].charged = growth
        /\ built.capacity = index[t].capacity
    BY <1>4, <1>5, <1>6, <2>3, <2>4, <2>5 DEF IndexType, Vectors
  <2> HIDE DEF growth, built
  <2>7. budget' = [budget EXCEPT ![t] = ChargedTo(budget[t], growth)] BY <2>1, <2>6
  <2>8. /\ budget' \in [Threads -> BudgetType]
        /\ budget'[t].used = budget[t].used + growth
        /\ budget'[t].flag = budget[t].flag /\ budget'[t].limit = budget[t].limit
        /\ \A u \in Threads \ {t} : budget'[u] = budget[u]
    BY <1>1, <1>3, <1>6, <2>7, ChargedTyped DEF TypeOK
  <2>9. /\ index' \in [Threads -> IndexType] /\ index'[t] = built
        /\ \A u \in Threads \ {t} : index'[u] = index[u]
    BY <1>1, <2>1, <2>6 DEF TypeOK
  <2>10. stage'[t] = "probe" /\ arena' = arena /\ \A u \in Threads \ {t} : stage'[u] = stage[u]
    BY <1>1, <2>1 DEF TypeOK
  <2>11. TypeOK' BY <1>1, <1>2, <2>1, <2>8, <2>9, ElsewhereTyped DEF TypeOK
  <2>12. Exact(t)'
    <3>1. ChargedIn(t, Slots) \in Nat /\ ChargedIn(t, Slots)' = ChargedIn(t, Slots)
      BY <1>1, <2>10, Typed DEF ChargedIn, ChargedTwo
    <3>2. budget[t].used = ChargedIn(t, Slots) + index[t].charged /\ index[t].charged \in Nat
      BY <1>1, <1>3 DEF Local, Exact, IndexType
    <3>3. built.charged = index[t].charged + growth BY <1>6, <2>4, <2>5, <2>6, <3>2, <2>3
    <3>4. budget'[t].used = ChargedIn(t, Slots)' + built.charged
      BY <1>6, <2>8, <3>1, <3>2, <3>3
    <3> QED BY <2>6, <2>9, <3>4 DEF Exact, Vectors
  <2>13. Kept(t)'
    <3>1. ((built.capacity + 1) \div 2) * Pointer \in Nat BY <2>6, SlackIsHeld
    <3>2. budget[t].limit \in Nat BY <1>3 DEF BudgetType
    <3> QED BY <1>3, <1>6, <2>2, <2>8, <2>9, <3>1, <3>2 DEF Kept, OverLimit
  <2>14. (FlagIsOwn(t) /\ HoldsNothing(t) /\ HoldsNoTable(t) /\ NoDirectoryYet(t))'
    BY <1>1, <1>2, <2>8, <2>10, ElsewhereTyped
       DEF Local, FlagIsOwn, HoldsNothing, HoldsNoTable, NoDirectoryYet
  <2>15. \A u \in Threads \ {t} : Local(u)'
    BY <1>1, <1>2, <2>8, <2>9, <2>10, ElsewhereTyped, OthersKeep
  <2> QED BY <2>2, <2>8, <2>11, <2>12, <2>13, <2>14, <2>15 DEF IInv, Local
<1> QED BY <1>7, <1>8

-----------------------------------------------------------------------------
\* A join's output moves over its first input with its charge; the rest dies.
LEMMA FinishJoinStep ==
  ASSUME IInv, NEW t \in Threads, FinishJoin(t)
  PROVE  /\ IInv' /\ \A u \in Threads \ {t} : budget'[u] = budget[u]
         /\ budget'[t].used <= budget[t].used
<1>1. TypeOK /\ Local(t) BY DEF IInv
<1>2. /\ arena' = [arena EXCEPT ![t] =
                      [s \in Slots |-> IF s = "accumulated" THEN arena[t]["output"] ELSE NewArena]]
      /\ index' = [index EXCEPT ![t] = NewIndex]
      /\ budget' = [budget EXCEPT ![t].used = @ - Returned(t, Slots \ {"output"})]
      /\ stage[t] = "probe" /\ stage' = [stage EXCEPT ![t] = "read"] /\ why' = why /\ Elsewhere
  BY DEF FinishJoin
<1>3. /\ budget[t] \in BudgetType /\ budget[t].used \in Nat /\ budget[t].limit \in Nat
      /\ index[t] \in IndexType /\ index[t].charged \in Nat
      /\ \A s \in Slots : arena[t][s].reserved \in Nat /\ arena[t][s] \in ArenaType
  BY <1>1, Typed DEF BudgetType, IndexType
<1> DEFINE kept == arena[t]["output"].reserved
           rest == ChargedIn(t, Slots \ {"output"})
<1>4. /\ kept \in Nat /\ rest \in Nat /\ ChargedIn(t, Slots) = rest + kept
      /\ Returned(t, Slots \ {"output"}) = rest + index[t].charged
  BY <1>3 DEF ChargedIn, ChargedTwo, Returned, Slots
<1> HIDE DEF rest
<1>5. budget[t].used - Returned(t, Slots \ {"output"}) = kept
  BY <1>1, <1>3, <1>4 DEF Local, Exact
<1> HIDE DEF kept
<1>6. budget' = [budget EXCEPT ![t].used = kept] BY <1>2, <1>5
<1>7. /\ budget' \in [Threads -> BudgetType] /\ budget'[t].used = kept
      /\ budget'[t].flag = budget[t].flag /\ budget'[t].limit = budget[t].limit
      /\ \A u \in Threads \ {t} : budget'[u] = budget[u]
  <2>1. /\ [budget[t] EXCEPT !.used = kept] \in BudgetType
        /\ [budget[t] EXCEPT !.used = kept].used = kept
        /\ [budget[t] EXCEPT !.used = kept].flag = budget[t].flag
        /\ [budget[t] EXCEPT !.used = kept].limit = budget[t].limit
    BY <1>3, <1>4 DEF BudgetType
  <2>2. budget' = [budget EXCEPT ![t] = [budget[t] EXCEPT !.used = kept]] BY <1>6
  <2> QED BY <1>1, <2>1, <2>2 DEF TypeOK
<1>8. /\ arena' \in [Threads -> [Slots -> ArenaType]]
      /\ arena'[t] = [s \in Slots |-> IF s = "accumulated" THEN arena[t]["output"] ELSE NewArena]
      /\ \A u \in Threads \ {t} : arena'[u] = arena[u]
  BY <1>1, <1>2, <1>3, NewTyped DEF TypeOK, Slots
<1>9. /\ index' \in [Threads -> IndexType] /\ index'[t] = NewIndex
      /\ \A u \in Threads \ {t} : index'[u] = index[u]
  BY <1>1, <1>2, NewTyped DEF TypeOK
<1>10. stage'[t] = "read" /\ \A u \in Threads \ {t} : stage'[u] = stage[u]
  BY <1>1, <1>2 DEF TypeOK
<1>11. TypeOK' BY <1>1, <1>2, <1>7, <1>8, <1>9, ElsewhereTyped DEF TypeOK
<1>12. Exact(t)'
  <2>1. /\ arena'[t]["accumulated"].reserved = kept
        /\ \A s \in Slots \ {"accumulated"} : arena'[t][s].reserved = 0
    BY <1>8 DEF NewArena, Slots, kept
  <2>2. ChargedIn(t, Slots)' = kept BY <1>4, <2>1 DEF ChargedIn, ChargedTwo, Slots
  <2>3. index'[t].charged = 0 /\ Vectors(index'[t]) = 0
    BY <1>9, SizesAssumption DEF NewIndex, Vectors
  <2> QED BY <1>4, <1>7, <2>2, <2>3 DEF Exact, Vectors
<1>13. budget[t].used = rest + kept + index[t].charged
  BY <1>1, <1>4 DEF Local, Exact
<1>14. Kept(t)'
  <2>1. ((NewIndex.capacity + 1) \div 2) * Pointer = 0 BY SizesAssumption DEF NewIndex
  <2>2. ((index[t].capacity + 1) \div 2) * Pointer \in Nat
    /\ ((index[t].capacity + 1) \div 2) * Pointer <= index[t].charged
    BY <1>1, <1>3, SlackIsHeld DEF Local, Exact
  <2>3. Kept(t) BY <1>1, <1>2 DEF Local
  <2> QED BY <1>3, <1>4, <1>7, <1>9, <1>13, <2>1, <2>2, <2>3 DEF Kept
<1>15. (FlagIsOwn(t) /\ HoldsNothing(t) /\ HoldsNoTable(t) /\ NoDirectoryYet(t))'
  BY <1>1, <1>2, <1>7, <1>9, <1>10, ElsewhereTyped
     DEF Local, FlagIsOwn, HoldsNothing, HoldsNoTable, NoDirectoryYet, NewIndex
<1>16. \A u \in Threads \ {t} : Local(u)'
  BY <1>1, <1>2, <1>7, <1>8, <1>9, <1>10, ElsewhereTyped, OthersKeep
<1> QED BY <1>3, <1>4, <1>7, <1>11, <1>12, <1>13, <1>14, <1>15, <1>16 DEF IInv, Local

-----------------------------------------------------------------------------
\* A thread takes a bucket: SetGlobalLimits, and the query's flag if it has one.
LEMMA BeginStep ==
  ASSUME IInv, NEW t \in Threads, NEW q \in Queries, Begin(t, q)
  PROVE  IInv' /\ \A u \in Threads : budget'[u].used = budget[u].used
<1>1. TypeOK /\ Local(t) BY DEF IInv
<1> DEFINE set == SetGlobalLimits(budget[t], LimitOf[q])
           b == IF q \in Sharing THEN SetSharedAbandon(set, q) ELSE set
<1>2. /\ stage[t] = "idle" /\ q \in open /\ stage' = [stage EXCEPT ![t] = "first"]
      /\ serving' = [serving EXCEPT ![t] = q] /\ budget' = [budget EXCEPT ![t] = b]
      /\ UNCHANGED <<why, arena, index, abandoned, open>>
  BY DEF Begin
<1>3. budget[t] \in BudgetType /\ LimitOf[q] \in Nat BY <1>1, Typed, QueriesAssumption
<1>4. set = [limit |-> LimitOf[q], used |-> budget[t].used, flag |-> NoQuery]
  <2>1. [budget[t] EXCEPT !.limit = LimitOf[q]] =
            [limit |-> LimitOf[q], used |-> budget[t].used, flag |-> budget[t].flag]
    BY <1>3 DEF BudgetType
  <2>2. set = [[budget[t] EXCEPT !.limit = LimitOf[q]] EXCEPT !.flag = NoQuery]
    BY DEF SetGlobalLimits
  <2> QED BY <2>1, <2>2
<1> HIDE DEF set
<1>5. b = [limit |-> LimitOf[q], used |-> budget[t].used,
           flag |-> IF q \in Sharing THEN q ELSE NoQuery]
  BY <1>4 DEF SetSharedAbandon
<1> HIDE DEF b
<1>6. /\ budget' \in [Threads -> BudgetType] /\ budget'[t] = b
      /\ \A u \in Threads \ {t} : budget'[u] = budget[u]
  BY <1>1, <1>2, <1>3, <1>5 DEF TypeOK, BudgetType
<1>7. /\ stage'[t] = "first" /\ serving'[t] = q
      /\ \A u \in Threads \ {t} : stage'[u] = stage[u] /\ serving'[u] = serving[u]
  BY <1>1, <1>2 DEF TypeOK
<1>8. TypeOK' BY <1>1, <1>2, <1>6 DEF TypeOK
<1>9. Exact(t)' BY <1>1, <1>2, <1>5, <1>6 DEF Local, Exact, ChargedIn, ChargedTwo, Vectors
<1>10. Kept(t)'
  <2>1. budget[t].used = 0
    <3>1. ChargedIn(t, Slots) = 0
      BY <1>1, <1>2 DEF Local, HoldsNothing, ChargedIn, ChargedTwo, Slots
    <3> QED BY <1>1, <1>2, <3>1 DEF Local, Exact, HoldsNoTable
  <2>2. ((index[t].capacity + 1) \div 2) * Pointer \in Nat BY <1>1, SlackIsHeld, Typed
  <2> QED BY <1>2, <1>3, <1>5, <1>6, <2>1, <2>2 DEF Kept
<1>11. FlagIsOwn(t)' BY <1>2, <1>5, <1>6, <1>7 DEF FlagIsOwn
<1>12. (HoldsNothing(t) /\ HoldsNoTable(t) /\ NoDirectoryYet(t))'
  BY <1>1, <1>2, <1>7 DEF Local, HoldsNothing, HoldsNoTable, NoDirectoryYet
<1>13. \A u \in Threads \ {t} : Local(u)' BY <1>1, <1>2, <1>6, <1>7, OthersKeep
<1> QED BY <1>5, <1>6, <1>8, <1>9, <1>10, <1>11, <1>12, <1>13 DEF IInv, Local

\* A step from one stage of a thread to another that touches no structure.
LEMMA StageStep ==
  ASSUME IInv, NEW t \in Threads, UNCHANGED <<budget, arena, index, open>>,
         NEW to \in {"idle", "first", "read", "index"},
         stage' = [stage EXCEPT ![t] = to], why' \in [Threads -> {"none", "memory", "sibling", "error"}],
         abandoned' \in [Queries -> BOOLEAN], stage[t] \in {"first", "read", "failed"},
         to = "idle" => stage[t] = "failed" /\ serving' = [serving EXCEPT ![t] = NoQuery],
         to # "idle" => serving' = serving
  PROVE  IInv'
<1>1. TypeOK /\ Local(t) BY DEF IInv
<1>2. TypeOK' BY <1>1 DEF TypeOK
<1>3. stage'[t] = to /\ \A u \in Threads \ {t} : stage'[u] = stage[u] BY <1>1 DEF TypeOK
<1>4. /\ serving'[t] = IF to = "idle" THEN NoQuery ELSE serving[t]
      /\ \A u \in Threads \ {t} : serving'[u] = serving[u]
  BY <1>1 DEF TypeOK
<1>5. Exact(t)' /\ Kept(t)'
  BY <1>1 DEF Local, Exact, Kept, ChargedIn, ChargedTwo, Vectors
<1>6. (FlagIsOwn(t) /\ HoldsNothing(t) /\ HoldsNoTable(t) /\ NoDirectoryYet(t))'
  BY <1>1, <1>3, <1>4 DEF Local, FlagIsOwn, HoldsNothing, HoldsNoTable, NoDirectoryYet
<1>7. \A u \in Threads \ {t} : Local(u)' BY <1>3, <1>4, OthersKeep
<1> QED BY <1>2, <1>5, <1>6, <1>7 DEF IInv, Local

LEMMA NextStageStep == ASSUME IInv, NEW t \in Threads, NextStage(t) PROVE IInv'
<1> DEFINE to == IF stage[t] = "first" THEN "read" ELSE "index"
<1>1. TypeOK BY DEF IInv
<1>2. /\ stage[t] \in {"first", "read"} /\ UNCHANGED <<why, budget, arena, index>> /\ Elsewhere
      /\ stage' = [stage EXCEPT ![t] = to]
  BY DEF NextStage
<1>3. to \in {"read", "index"} OBVIOUS
<1> HIDE DEF to
<1> QED BY <1>1, <1>2, <1>3, ElsewhereTyped, StageStep DEF TypeOK

LEMMA RetryStep == ASSUME IInv, NEW t \in Threads, Retry(t) PROVE IInv'
<1>1. TypeOK BY DEF IInv
<1>2. /\ stage[t] = "failed" /\ UNCHANGED <<budget, arena, index>> /\ Elsewhere
      /\ stage' = [stage EXCEPT ![t] = "first"] /\ why' = [why EXCEPT ![t] = "none"]
  BY DEF Retry
<1>3. why' \in [Threads -> {"none", "memory", "sibling", "error"}] BY <1>1, <1>2 DEF TypeOK
<1> QED BY <1>1, <1>2, <1>3, ElsewhereTyped, StageStep DEF TypeOK

\* Raising the flag writes one query's flag, the thread's own.
LEMMA GiveUpStep == ASSUME IInv, NEW t \in Threads, GiveUp(t) PROVE IInv'
<1>1. TypeOK BY DEF IInv
<1>2. /\ stage[t] = "failed" /\ UNCHANGED <<budget, arena, index, open>>
      /\ stage' = [stage EXCEPT ![t] = "idle"] /\ why' = [why EXCEPT ![t] = "none"]
      /\ serving' = [serving EXCEPT ![t] = NoQuery]
      /\ \/ abandoned' = [abandoned EXCEPT ![budget[t].flag] = TRUE]
         \/ abandoned' = abandoned
  BY DEF GiveUp
<1>3. why' \in [Threads -> {"none", "memory", "sibling", "error"}] BY <1>1, <1>2 DEF TypeOK
<1>4. abandoned' \in [Queries -> BOOLEAN] BY <1>1, <1>2 DEF TypeOK
<1> QED BY <1>2, <1>3, <1>4, StageStep

\* A query is closed only when nobody serves it.
LEMMA CloseStep == ASSUME IInv, NEW q \in Queries, Close(q) PROVE IInv'
<1>1. TypeOK BY DEF IInv
<1>2. /\ \A t \in Threads : serving[t] # q
      /\ open' = open \ {q}
      /\ UNCHANGED <<serving, stage, why, budget, arena, index, abandoned>>
  BY DEF Close
<1>3. TypeOK' BY <1>1, <1>2 DEF TypeOK
<1>4. ASSUME NEW t \in Threads PROVE Local(t)'
  <2>1. Local(t) BY DEF IInv
  <2>2. FlagIsOwn(t)' BY <1>2, <2>1 DEF Local, FlagIsOwn
  <2>3. (Exact(t) /\ HoldsNothing(t) /\ HoldsNoTable(t) /\ NoDirectoryYet(t))'
    BY <1>2, <2>1 DEF Local, Exact, HoldsNothing, HoldsNoTable, NoDirectoryYet, ChargedIn,
       ChargedTwo, Vectors
  <2>4. (stage[t] # "idle" => Kept(t))' BY <1>2, <2>1 DEF Local, Kept
  <2> QED BY <2>2, <2>3, <2>4 DEF Local
<1> QED BY <1>3, <1>4 DEF IInv

-----------------------------------------------------------------------------
LEMMA InitInv == Init => IInv
<1> SUFFICES ASSUME Init PROVE IInv OBVIOUS
<1> USE DEF Init
<1>1. NewBudget \in BudgetType BY DEF NewBudget, BudgetType
<1>2. TypeOK BY <1>1, NewTyped DEF TypeOK
<1>3. ASSUME NEW t \in Threads PROVE Local(t)
  <2>1. /\ stage[t] = "idle" /\ serving[t] = NoQuery /\ budget[t].used = 0
        /\ \A s \in Slots : arena[t][s].reserved = 0
        /\ index[t].charged = 0 /\ index[t].directory = 0 /\ index[t].capacity = 0
    BY DEF NewBudget, NewArena, NewIndex
  <2>2. Exact(t) BY <2>1, SizesAssumption DEF Exact, ChargedIn, ChargedTwo, Slots, Vectors
  <2> QED BY <2>1, <2>2 DEF Local, FlagIsOwn, HoldsNothing, HoldsNoTable, NoDirectoryYet
<1> QED BY <1>2, <1>3 DEF IInv

\* A thread whose query has been given up looks at that query's flag.
LEMMA SeesTheFlag ==
  ASSUME IInv, NEW t \in Threads,
         serving[t] # NoQuery, serving[t] \in Sharing, abandoned[serving[t]]
  PROVE  CheckAbandoned(t) /\ stage[t] # "idle"
<1>1. FlagIsOwn(t) BY DEF IInv, Local
<1> QED BY <1>1 DEF FlagIsOwn, CheckAbandoned

\* Every step keeps the invariant, and takes nothing more for a query that
\* has been given up.
LEMMA StepInv == IInv /\ [Next]_vars => IInv' /\ \A t \in Threads : GrowsNoMore(t)
<1> SUFFICES ASSUME IInv, [Next]_vars PROVE IInv' /\ \A t \in Threads : GrowsNoMore(t)
  OBVIOUS
<1>0. \A u \in Threads : budget[u].used \in Nat BY Typed DEF IInv, BudgetType
<1>1. ASSUME UNCHANGED vars PROVE IInv' /\ \A t \in Threads : GrowsNoMore(t)
  <2>1. IInv' BY <1>1 DEF IInv, vars, TypeOK, Local, FlagIsOwn, Exact, HoldsNothing, HoldsNoTable,
                      NoDirectoryYet, Kept, ChargedIn, ChargedTwo, Vectors
  <2>2. budget' = budget BY <1>1 DEF vars
  <2> QED BY <1>0, <2>1, <2>2 DEF GrowsNoMore
<1>2. ASSUME NEW q \in Queries, Close(q) PROVE IInv' /\ \A t \in Threads : GrowsNoMore(t)
  <2>1. budget' = budget BY <1>2 DEF Close
  <2> QED BY <1>0, <1>2, <2>1, CloseStep DEF GrowsNoMore
<1>3. ASSUME NEW t \in Threads, NEW q \in Queries, Begin(t, q)
      PROVE  IInv' /\ \A u \in Threads : GrowsNoMore(u)
  <2>1. IInv' /\ \A u \in Threads : budget'[u].used = budget[u].used BY <1>3, BeginStep
  <2> QED BY <1>0, <2>1 DEF GrowsNoMore
<1>4. ASSUME NEW t \in Threads, NextStage(t) \/ Retry(t) \/ GiveUp(t)
      PROVE  IInv' /\ \A u \in Threads : GrowsNoMore(u)
  <2>1. IInv' BY <1>4, NextStageStep, RetryStep, GiveUpStep
  <2>2. budget' = budget BY <1>4 DEF NextStage, Retry, GiveUp
  <2> QED BY <1>0, <2>1, <2>2 DEF GrowsNoMore
<1>5. ASSUME NEW t \in Threads,
             \/ \E s \in Slots, need \in Sizes : Allocate(t, s, need)
             \/ Insert(t) \/ Finalize(t)
      PROVE  IInv' /\ \A u \in Threads : GrowsNoMore(u)
  <2>1. /\ IInv' /\ \A u \in Threads \ {t} : budget'[u] = budget[u]
        /\ CheckAbandoned(t) => budget'[t].used <= budget[t].used
    BY <1>5, AllocateStep, InsertStep, FinalizeStep
  <2> QED BY <1>0, <2>1, SeesTheFlag DEF GrowsNoMore
<1>6. ASSUME NEW t \in Threads, FinishJoin(t)
      PROVE  IInv' /\ \A u \in Threads : GrowsNoMore(u)
  <2>1. /\ IInv' /\ \A u \in Threads \ {t} : budget'[u] = budget[u]
        /\ budget'[t].used <= budget[t].used
    BY <1>6, FinishJoinStep
  <2> QED BY <1>0, <2>1 DEF GrowsNoMore
<1>7. ASSUME NEW t \in Threads, EndPiece(t) \/ Fails(t)
      PROVE  IInv' /\ \A u \in Threads : GrowsNoMore(u)
  <2>1. CASE EndPiece(t) BY <1>0, <2>1, EndPieceStep DEF GrowsNoMore
  <2>2. CASE Fails(t)
    <3>1. stage[t] # "idle" /\ Throw(t, "error") /\ Elsewhere BY <2>2 DEF Fails
    <3> QED BY <1>0, <3>1, ThrowStep DEF GrowsNoMore
  <2> QED BY <1>7, <2>1, <2>2
<1> QED BY <1>1, <1>2, <1>3, <1>4, <1>5, <1>6, <1>7 DEF Next, Step, AllClosed

\* The inductive invariant holds in every reachable state.
LEMMA Invariance == Spec => []IInv
<1>1. Init => IInv BY InitInv
<1>2. IInv /\ [Next]_vars => IInv' BY StepInv
<1> QED BY <1>1, <1>2, PTL DEF Spec

-----------------------------------------------------------------------------
\* No counter of an account, an arena or a table ever goes below zero: a
\* size_t that is given back once too often would wrap.
THEOREM CountersStayNatural == Spec => []TypeOK
<1>1. IInv => TypeOK BY DEF IInv
<1> QED BY <1>1, Invariance, PTL

\* What a thread is charged is what its arenas and its table hold, through
\* moves, exceptions and retries, and nothing once its bucket is over.
THEOREM AccountAlwaysExact == Spec => []AccountIsExact
<1>1. IInv => AccountIsExact
  <2> SUFFICES ASSUME IInv, NEW t \in Threads
               PROVE  /\ budget[t].used = ChargedIn(t, Slots) + index[t].charged
                      /\ index[t].charged = Vectors(index[t])
                      /\ stage[t] = "idle" => budget[t].used = 0
    BY DEF AccountIsExact
  <2>1. Exact(t) /\ HoldsNothing(t) /\ HoldsNoTable(t) BY DEF IInv, Local
  <2>2. stage[t] = "idle" => ChargedIn(t, Slots) = 0
    BY <2>1 DEF HoldsNothing, ChargedIn, ChargedTwo, Slots
  <2> QED BY <2>1, <2>2 DEF Exact, HoldsNoTable
<1> QED BY <1>1, Invariance, PTL

\* A slice keeps its limit, but for the last growth of its list of entries.
THEOREM BudgetAlwaysKept == Spec => []BudgetIsKept
<1>1. IInv => BudgetIsKept BY DEF IInv, Local, Kept, BudgetIsKept
<1> QED BY <1>1, Invariance, PTL

\* No thread at work looks at another query's flag, or at one that is gone.
THEOREM NeverAStaleFlag == Spec => []NoStaleFlag
<1>1. IInv => NoStaleFlag BY DEF IInv, Local, FlagIsOwn, NoStaleFlag
<1> QED BY <1>1, Invariance, PTL

\* After one slice has given up, no sibling's account grows.
THEOREM AbandonedAlwaysStops == Spec => AbandonedStopsGrowing
<1>1. IInv /\ [Next]_vars => [\A t \in Threads : GrowsNoMore(t)]_vars BY StepInv
<1> QED BY <1>1, Invariance, PTL DEF Spec, AbandonedStopsGrowing
=============================================================================
