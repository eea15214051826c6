---------------------------- MODULE MCSliceMemory ----------------------------
(* SliceMemory over six tuples. Two of them share the key, so that only    *)
(* the second key tells them apart; the last shares their bucket of moduli *)
(* 3 and 6 but not of 12.                                                 *)
EXTENDS SliceMemory

SixTuples == 1 .. 6
KeyHashes == <<1, 1, 4, 2, 0, 7>>
OtherHashes == <<0, 1, 1, 2, 0, 3>>

(* Nothing, the skewed key, a tuple or two of each bucket, and all. *)
SomeInputs == {{}, {1, 2}, {2, 3, 4, 6}, SixTuples}

TwoFactors   == <<2, 4>>
OneSplit     == <<2>>
SmallLimits  == {0, 1, 2, 3}
=============================================================================
