-------------------------- MODULE MCFlashController --------------------------
(* Constants for checking FlashController: a bootloader page, two pages for *)
(* the application, a page that is nobody's.                                *)
EXTENDS FlashController

MCOld == [c \in 0 .. 7 |-> IF c < 2 THEN "boot" ELSE "old"]
MCFiles == {<<"a", "b", "a">>, <<"old", "old">>}
=============================================================================
