----------------------------- MODULE SliceMemory -----------------------------
(***************************************************************************)
(* Counting, or listing, a join that may not fit in memory. A call counts  *)
(* a bucket of a hash partition of the join key; a piece that does not fit *)
(* throws away what was counted of the bucket, and the bucket is cut finer *)
(* and counted again: by a larger modulus of the same key, then by a       *)
(* second key. The callers are the buckets of a sliced count, each on its  *)
(* own thread and joined by the flag that tells siblings to give up; the   *)
(* count under LIMIT, bucket after bucket; and the table functions, which  *)
(* count or list the whole join.                                           *)
(*                                                                         *)
(* A tuple of the join is an element of Tuples with the hashes of its two  *)
(* keys. SlicedSource filters every relation that holds the key, and so    *)
(* yields the tuples of the join with that hash. How often each tuple has  *)
(* been counted is kept, where the code keeps a number.                    *)
(***************************************************************************)
EXTENDS Naturals, Sequences, FiniteSets

CONSTANTS
  Tuples,       (* tuples that a join may have                              *)
  KeyHash,      (* HashKey of the key chosen to slice on, of each tuple     *)
  OtherHash,    (* HashKey of the next key that reaches two relations       *)
  Inputs,       (* choices of the tuples that the join does have            *)
  Slices,       (* buckets of a sliced count                                *)
  ProbeSlices,  (* kProbeSlices, buckets of a count under LIMIT             *)
  Factors,      (* 8, 64, 512, 4096: pieces a bucket is cut into            *)
  SecondParts,  (* 8, 64: pieces by the second key                          *)
  Limits        (* limits a query may have; 0 is none when it lists         *)

ASSUME TuplesAssumption ==
  /\ IsFiniteSet(Tuples) /\ Inputs \subseteq SUBSET Tuples
  /\ KeyHash \in [Tuples -> Nat] /\ OtherHash \in [Tuples -> Nat]
ASSUME PartsAssumption ==
  /\ Slices \in Nat \ {0} /\ ProbeSlices \in Nat \ {0}
  /\ Factors \in Seq(Nat \ {0}) /\ SecondParts \in Seq(Nat \ {0})
  /\ Limits \subseteq Nat

VARIABLES
  query,      (* what is asked; constant during the query                   *)
  input,      (* the tuples of the join; constant as well                   *)
  bucket,     (* the bucket that each call is counting                      *)
  attempt,    (* how it is cut: 0 whole, then by Factors, then SecondParts  *)
  part,       (* the next piece of that                                     *)
  got,        (* how often each tuple was counted in this attempt           *)
  total,      (* and in the buckets before                                  *)
  verdict,    (* how each call ended                                        *)
  abandoned   (* gstate.abandoned, which all slices of a query look at      *)

progress == <<bucket, attempt, part, got, total>>
vars     == <<query, input, progress, verdict, abandoned>>

Kinds == {"slice", "atMost", "whole", "list"}

Queries == [kind : Kinds, limit : Limits, sliceable : BOOLEAN, otherKey : BOOLEAN,
            secondKey : BOOLEAN]

(* How many calls the query makes, and how many buckets there are. *)
Calls   == IF query.kind = "slice" THEN 0 .. Slices - 1 ELSE {0}
AllCalls == 0 .. Slices - 1

Modulus ==
  IF query.kind = "slice" THEN Slices
  ELSE IF query.kind = "atMost" /\ query.sliceable THEN ProbeSlices ELSE 1

NoTuples == [x \in Tuples |-> 0]
Once(S)  == [x \in Tuples |-> IF x \in S THEN 1 ELSE 0]
Plus(a, b) == [x \in Tuples |-> a[x] + b[x]]

(* The number the code keeps in place of the bag: each time that a tuple   *)
(* was counted makes one.                                                  *)
Size(bag) == Cardinality(UNION {{x} \X (1 .. bag[x]) : x \in Tuples})

-----------------------------------------------------------------------------
(* The ways to cut a bucket. *)

LastFactor == Len(Factors)

(* CountBySecondKey is off, or there is no second key, or tuples are       *)
(* listed rather than counted.                                             *)
LastAttempt ==
  IF query.kind # "list" /\ query.secondKey /\ query.otherKey
  THEN LastFactor + Len(SecondParts)
  ELSE LastFactor

Pieces(a) ==
  IF a = 0 THEN 1
  ELSE IF a <= LastFactor THEN Factors[a] ELSE SecondParts[a - LastFactor]

InBucket(x, b) == KeyHash[x] % Modulus = b

(* A modulus of slices * factor splits bucket b into those congruent to it. *)
CongruentUnscaled(x, b, factor, p) ==                            \* mutant
  KeyHash[x] % (Modulus * factor) = b + p

Congruent(x, b, factor, p) == KeyHash[x] % (Modulus * factor) = b + p * Modulus

(* Piece p of bucket b in attempt a. The second key is nested in the       *)
(* bucket, not taken instead of it.                                        *)
Piece(b, a, p) ==
  {x \in input :
     IF a = 0 THEN InBucket(x, b)
     ELSE IF a <= LastFactor THEN Congruent(x, b, Factors[a], p)
     ELSE InBucket(x, b) /\ OtherHash[x] % SecondParts[a - LastFactor] = p}

-----------------------------------------------------------------------------
Init ==
  /\ query \in Queries
  /\ query.kind = "slice" /\ Slices > 1 => query.sliceable
  /\ query.otherKey => query.sliceable
  /\ query.kind \in {"slice", "whole"} => query.limit = 0
  /\ input \in Inputs
  /\ bucket = [c \in AllCalls |-> IF query.kind = "slice" THEN c ELSE 0]
  /\ attempt = [c \in AllCalls |-> 0]
  /\ part = [c \in AllCalls |-> 0]
  /\ got = [c \in AllCalls |-> NoTuples]
  /\ total = [c \in AllCalls |-> NoTuples]
  /\ verdict = [c \in AllCalls |-> "running"]
  /\ abandoned = FALSE

(* LIMIT 0 reads nothing. *)
WantsNothing == query.kind = "atMost" /\ query.limit = 0

AnswerNothing(c) ==
  /\ verdict[c] = "running"
  /\ WantsNothing
  /\ verdict' = [verdict EXCEPT ![c] = "ok"]
  /\ UNCHANGED <<query, input, progress, abandoned>>

Counting(c) == verdict[c] = "running" /\ ~WantsNothing

(* What the next piece supplies: all of its tuples when they are counted,  *)
(* as many as are still wanted when they are listed.                       *)
RemainingOfAll(c) == query.limit    \* mutant

Remaining(c) == query.limit - Size(got[c])

Supplies(c) ==
  LET piece == Piece(bucket[c], attempt[c], part[c])
  IN  IF query.kind = "list" /\ query.limit > 0 /\ Cardinality(piece) > Remaining(c)
      THEN {found \in SUBSET piece : Cardinality(found) = Remaining(c)}
      ELSE {piece}

(* A limit, once reached, leaves the buckets and pieces after it unread.   *)
ListedEnough(bag) ==
  query.kind = "list" /\ query.limit > 0 /\ Size(bag) >= query.limit

CountedEnough(bag) == query.kind = "atMost" /\ Size(bag) >= query.limit

(* The bucket is complete: the next one, or the answer. *)
FinishBucket(c, bag) ==
  LET counted == Plus(total[c], bag)
      more    == query.kind = "atMost" /\ bucket[c] + 1 < Modulus /\ ~CountedEnough(counted)
  IN  /\ total' = [total EXCEPT ![c] = counted]
      /\ got' = [got EXCEPT ![c] = NoTuples]
      /\ part' = [part EXCEPT ![c] = 0]
      /\ IF more
         THEN /\ bucket' = [bucket EXCEPT ![c] = @ + 1]
              /\ attempt' = [attempt EXCEPT ![c] = 0]
              /\ UNCHANGED verdict
         ELSE /\ verdict' = [verdict EXCEPT ![c] = "ok"]
              /\ UNCHANGED <<bucket, attempt>>

PieceFits(c) ==
  /\ Counting(c)
  /\ \E found \in Supplies(c) :
       LET bag == Plus(got[c], Once(found))
       IN  IF part[c] + 1 < Pieces(attempt[c]) /\ ~ListedEnough(bag)
           THEN /\ got' = [got EXCEPT ![c] = bag]
                /\ part' = [part EXCEPT ![c] = @ + 1]
                /\ UNCHANGED <<bucket, attempt, total, verdict>>
           ELSE FinishBucket(c, bag)
  /\ UNCHANGED <<query, input, abandoned>>

(* RaiseSharedAbandon: a sliced count, or a count under LIMIT, has no way  *)
(* left to cut its bucket.                                                 *)
MayRaise == query.kind \in {"slice", "atMost"} /\ query.sliceable

RaisesAtOnce(c) == MayRaise    \* mutant

Raises(c) == MayRaise /\ attempt[c] = LastAttempt

(* What was counted of a bucket is thrown away when a piece does not fit.  *)
StartedOver(c) == [got EXCEPT ![c] = NoTuples]

FirstFactorAgain(c) == 1    \* mutant

NextAttempt(c) == attempt[c] + 1

(* MemoryLimitExceeded: cut finer, if the join has a key to cut on. *)
PieceTooBig(c) ==
  /\ Counting(c)
  /\ abandoned' = (abandoned \/ Raises(c))
  /\ IF query.sliceable /\ attempt[c] < LastAttempt
     THEN /\ attempt' = [attempt EXCEPT ![c] = NextAttempt(c)]
          /\ part' = [part EXCEPT ![c] = 0]
          /\ got' = StartedOver(c)
          /\ UNCHANGED verdict
     ELSE /\ verdict' = [verdict EXCEPT ![c] = "failed"]
          /\ UNCHANGED <<attempt, part, got>>
  /\ UNCHANGED <<query, input, bucket, total>>

(* Any other error of a piece is not answered by cutting finer. In a piece *)
(* by the second key it only says that this did not work either.           *)
BySecondKey(c) == attempt[c] > LastFactor

PieceFails(c) ==
  /\ Counting(c)
  /\ verdict' = [verdict EXCEPT ![c] = "failed"]
  /\ abandoned' = (abandoned \/ (MayRaise /\ BySecondKey(c)))
  /\ UNCHANGED <<query, input, progress>>

(* SiblingGaveUp, thrown where the piece next allocates. *)
SiblingStops(c) ==
  /\ Counting(c)
  /\ abandoned
  /\ verdict' = [verdict EXCEPT ![c] = IF BySecondKey(c) THEN "failed" ELSE "stopped"]
  /\ UNCHANGED <<query, input, progress, abandoned>>

(* CheckedCardinalityAdd throws out of the call altogether, when a piece   *)
(* or a bucket has been counted before.                                    *)
AddOverflows(c) ==
  /\ Counting(c)
  /\ query.kind # "list"
  /\ part[c] > 0 \/ (query.kind = "atMost" /\ bucket[c] > 0)
  /\ verdict' = [verdict EXCEPT ![c] = "failed"]
  /\ UNCHANGED <<query, input, progress, abandoned>>

Step(c) ==
  \/ AnswerNothing(c)
  \/ PieceFits(c)
  \/ PieceTooBig(c)
  \/ PieceFails(c)
  \/ SiblingStops(c)
  \/ AddOverflows(c)

Done == \A c \in Calls : verdict[c] # "running"

Next == (\E c \in Calls : Step(c)) \/ (Done /\ UNCHANGED vars)

Spec == Init /\ [][Next]_vars

(* Each call runs on a thread of its own, and counting a piece ends. *)
FairSpec == Spec /\ \A c \in AllCalls : WF_vars(c \in Calls /\ Step(c))

-----------------------------------------------------------------------------
(* The counts of the buckets that were counted add up: no tuple is in two  *)
(* of them, whatever each was cut into on the way, and when all have been  *)
(* counted every tuple of the join is in one (physical_factorized.cpp sums *)
(* the calls; the table functions take the one).                           *)
CountIsExact ==
  query.kind \in {"slice", "whole"} =>
    LET ok == {c \in Calls : verdict[c] = "ok"}
    IN  /\ \A c \in ok : \A x \in Tuples :
             total[c][x] > 0 =>
               /\ x \in input /\ total[c][x] = 1
               /\ \A d \in ok \ {c} : total[d][x] = 0
        /\ ok = Calls => \A x \in input : \E c \in ok : total[c][x] = 1

(* A count under LIMIT, once the walk has stopped early or not, is the     *)
(* size of the join or the limit; a list holds that many tuples of the     *)
(* join, each once (ExecuteCountAtMost, ExecuteMaterializeWithinMemory).   *)
LimitIsExact ==
  query.kind \in {"atMost", "list"} /\ verdict[0] = "ok" =>
    LET held   == Size(total[0])
        size   == Cardinality(input)
        wanted == IF (query.kind = "list" /\ query.limit = 0) \/ query.limit > size
                  THEN size ELSE query.limit
    IN  IF query.kind = "atMost"
        THEN (IF held >= query.limit THEN query.limit ELSE held) = wanted
        ELSE /\ held = wanted
             /\ \A x \in Tuples : total[0][x] <= Once(input)[x]

(* A slice is stopped on account of its siblings only when one of them has *)
(* failed after every modulus of its own key: nobody else may raise the    *)
(* flag that they share (RaiseSharedAbandon, CheckAbandoned).              *)
StoppedForCause ==
  \A c \in Calls : verdict[c] = "stopped" =>
    \E d \in Calls \ {c} : verdict[d] = "failed" /\ attempt[d] >= LastFactor

(* However often a bucket does not fit, its call ends.                     *)
EveryCallEnds == <>Done
=============================================================================
