------------------------------ MODULE MCDvSend ------------------------------
(* Instances of DvSend for TLC: sequences and negative numbers cannot be   *)
(* written in a .cfg.                                                      *)
EXTENDS DvSend

MCUnlimited == Unlimited

(* One input; four with an empty one among them, then one that cannot be   *)
(* opened, which ends the input.                                           *)
MCOneFile   == <<4>>
MCManyFiles == <<1, 2, 0, 2, Missing, 1>>
=============================================================================
