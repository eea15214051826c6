--------------------------- MODULE MCCountOperator ---------------------------
(* CountOperator on small instances. *)
EXTENDS CountOperator, TLC

CONSTANTS t1, t2

TwoThreads == {t1, t2}
FatalError == {"fatal"}
UnrecordedError == {"recoverable"}
=============================================================================
