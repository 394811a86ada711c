----------------------------- MODULE MCWebClient -----------------------------
(* Constants for checking WebClient: a bootloader chunk, two application    *)
(* pages of one chunk.                                                      *)
EXTENDS WebClient, TLC

CONSTANTS t1, t2

MCInitialFlash == <<"00", "old1", "old2">>
MCCapacity == [t \in Targets |-> 3]
MCNative == [board |-> {}, mcu |-> {}]
MCForeign == [board |-> {"f1"}, mcu |-> {}]
ShortUploads == {<<"a1">>, <<"b1">>}

\* The two controllers begin alike and differ in their identity only.
Alike == Permutations(Targets)
=============================================================================
