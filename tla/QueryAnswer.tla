----------------------------- MODULE QueryAnswer -----------------------------
(***************************************************************************)
(* What a query that the optimizer rule has rewritten promises its user:   *)
(* the rows of the factorized answer, or all the rows of the plan that was *)
(* replaced, never a mixture of the two and never a part of either, unless *)
(* the query fails. The rows of a query that fails are thrown away, so     *)
(* what is still delivered then is of no interest.                         *)
(***************************************************************************)
EXTENDS Naturals

CONSTANT
  StockChunks         (* chunks in the answer of the replaced plan          *)

VARIABLES
  factorizedChunks,   (* chunks in the factorized answer, which the query   *)
                      (* settles and nothing changes                        *)
  source,             (* which plan is answering                            *)
  chunks,             (* chunks the user has been given                     *)
  outcome             (* how the query ended                                *)

vars == <<factorizedChunks, source, chunks, outcome>>

Promised == IF source = "factorized" THEN factorizedChunks ELSE StockChunks

Init ==
  /\ factorizedChunks \in Nat
  /\ source = "none"
  /\ chunks = 0
  /\ outcome = "running"

(* The plan that answers is chosen once, but a factorized answer of which  *)
(* nothing has been delivered may still give way to the stock plan.        *)
Undelivered == source = "none" \/ (source = "factorized" /\ chunks = 0)

Choose(plan) ==
  /\ outcome # "answered"
  /\ source' = plan
  /\ UNCHANGED <<factorizedChunks, outcome>>

(* A single row is chosen and delivered in one step, a list of groups may  *)
(* be complete before any of it is delivered.                              *)
AnswerFactorized ==
  /\ source = "none"
  /\ Choose("factorized")
  /\ chunks' \in {0, 1}
  /\ chunks' <= factorizedChunks

AnswerStock == Undelivered /\ Choose("stock") /\ UNCHANGED chunks

Deliver ==
  /\ outcome # "answered"
  /\ source # "none"
  /\ chunks < Promised
  /\ chunks' = chunks + 1
  /\ UNCHANGED <<factorizedChunks, source, outcome>>

(* A query ends without an error only with all of its answer delivered. *)
Finish ==
  /\ outcome = "running"
  /\ source # "none"
  /\ chunks = Promised
  /\ outcome' = "answered"
  /\ UNCHANGED <<factorizedChunks, source, chunks>>

Fail ==
  /\ outcome = "running"
  /\ outcome' = "failed"
  /\ UNCHANGED <<factorizedChunks, source, chunks>>

Next == AnswerFactorized \/ AnswerStock \/ Deliver \/ Finish \/ Fail

(* What may happen to a query. That every query ends is the operators'     *)
(* QueryEnds: no thread is left with anything to do.                       *)
Spec == Init /\ [][Next]_vars
=============================================================================
