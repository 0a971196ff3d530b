---------------------------- MODULE MCDvCapture ----------------------------
(* Instances of DvCapture for TLC: a .cfg cannot write a negative number,  *)
(* so the unlimited capture gets its value here.                           *)
EXTENDS DvCapture

MCUnlimited == Unlimited
=============================================================================
