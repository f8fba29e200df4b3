------------------------------ MODULE ScreenMC ------------------------------
(***************************************************************************)
(* Every scan code a keyboard can send.                                    *)
(***************************************************************************)
EXTENDS Screen

AnyCode == 0..255
=============================================================================
