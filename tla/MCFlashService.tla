--------------------------- MODULE MCFlashService ---------------------------
(* Constants for checking FlashService: a bootloader page, two application  *)
(* pages of two chunks.                                                     *)
EXTENDS FlashService, TLC

CONSTANTS t1, t2

MCContent == {"00", "ff", "torn", "old1", "old2", "old3", "old4",
              "a1", "a2", "a3", "b1", "n1", "f2", "m2"}
MCVectors == {"a1", "b1", "n1"}
MCNative == [board |-> {"n1"}, mcu |-> {}]
MCForeign == [board |-> {"f2"}, mcu |-> {"m2"}]
MCInitialFlash == <<"00", "00", "old1", "old2", "old3", "old4">>

Long == <<"a1", "a2", "a3">>
Short == <<"b1">>
Invalid == <<"a2", "a1">>
OtherBoard == <<"a1", "f2">>
TwoMarkers == <<"n1", "f2">>
OtherMcu == <<"n1", "m2">>
OneOver == <<"a1", "a2", "a3", "a2", "a3">>
Oversize == <<"a1", "a2", "a3", "a2", "a3", "a2">>

TwoUploads == {Long, Short}
KindsOfUploads == {Long, Invalid, OtherBoard, TwoMarkers, OtherMcu, OneOver, Oversize}

\* One controller of the full size, one with half the application flash.
SmallAndLarge == t1 :> 6 @@ t2 :> 4
BothLarge == t1 :> 6 @@ t2 :> 6
OnlyLarge == t1 :> 6
=============================================================================
