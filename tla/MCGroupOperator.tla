--------------------------- MODULE MCGroupOperator ---------------------------
(* GroupOperator on small instances. *)
EXTENDS GroupOperator, TLC

CONSTANTS t1, t2

TwoThreads == {t1, t2}
FirstMayFail == {{}, {1}}
LastFails == {{MaxGroups}}
NoErrors == {}
AnyError == ErrorKinds
Recoverable == {"recoverable"}
Fatal == {"fatal"}
=============================================================================
