------------------------------ MODULE MCDvFrame ------------------------------
(* The parts of a DV frame for TLC: one of them, chosen at the start, is     *)
(* written and read.  They share the frame, but none reads what another has  *)
(* written (FrameIsFull says that their blocks are apart).                   *)
EXTENDS DvPicture, DvMetaData, DvAudio, VlcQuant

CONSTANT Parts
VARIABLE part
mcVars == <<part, vars, metaVars, audioVars, quantVars>>

QuantOff == /\ passes = 0 /\ static_qno = 0 /\ segment = <<>> /\ qpc = "off"
            /\ qm = 0 /\ qb = 0 /\ qno = <<>> /\ bits_used = <<>> /\ fitted = {}
            /\ halving = <<>>

MCInit == /\ part \in Parts
          /\ part # "picture" => system \in {"ntsc", "pal"}
          /\ part = "quant" => system = "pal"
          /\ Init /\ MetaInit(system) /\ AudioInit(system)
          /\ part # "sound" => rate = 0
          /\ \/ part = "quant" /\ QuantInit
             \/ part # "quant" /\ QuantOff
MCNext ==
  \/ /\ part = "picture" /\ Next
     /\ UNCHANGED <<part, metaVars, audioVars, quantVars>>
  \/ /\ part = "packs" /\ MetaNext(system)
     /\ UNCHANGED <<part, vars, audioVars, quantVars>>
  \/ /\ part = "sound" /\ AudioNext(system)
     /\ UNCHANGED <<part, vars, metaVars, quantVars>>
  \/ /\ part = "quant" /\ QuantNext
     /\ UNCHANGED <<part, vars, metaVars, audioVars>>
MCSpec == MCInit /\ [][MCNext]_mcVars

(* localtime on both sides of a new year, of the turn of the century, and in *)
(* a year beyond the century window.                                         *)
Date(y, mo, d, h, mi, s) ==
  [year |-> y, mon |-> mo, mday |-> d, hour |-> h, min |-> mi, sec |-> s]
MCClock == 1 :> Date(1999, 11, 31, 23, 59, 59) @@ 2 :> Date(2000, 0, 1, 0, 0, 0)
             @@ 3 :> Date(2024, 9, 20, 19, 8, 30) @@ 4 :> Date(2025, 1, 28, 10, 40, 7)
MCCounts == {0, 29, 750, 107999}
MCFrameNumbers == {0, 2, 30}
MCSpare == {0, 15}
MCLevels == {-16, -2, 0, 15, 16}

(* Blocks from flat to as busy as can be; one (the sixth) that takes fewer   *)
(* bits with quantiser 13 than with 12, and one that needs 12.               *)
Every(first, step, last, amp) ==
  [i \in 1 .. ((last - first) \div step + 1) |-> <<first + step * (i - 1), amp>>]
MCPatterns ==
  << <<>>, Every(1, 1, 10, 4), Every(1, 1, 63, 3), Every(1, 2, 63, 30), Every(1, 1, 63, 200),
     << <<27, 10>>, <<28, 2>>, <<29, 120>>, <<34, 120>>, <<43, 10>>, <<56, 10>> >>,
     Every(21, 1, 29, 40) >>
MCMbs == {<<1, 1, 1, 1, 1, 1>>, <<2, 2, 2, 2, 2, 2>>, <<3, 4, 4, 3, 2, 2>>,
          <<5, 5, 5, 5, 5, 5>>, <<6, 7, 1, 1, 1, 1>>, <<4, 3, 3, 4, 3, 3>>}
MCSegments == {[m \in Mbs |-> IF m = 1 THEN a ELSE IF m < 4 THEN b ELSE c] :
                 a, b \in MCMbs, c \in {<<1, 1, 1, 1, 1, 1>>, <<5, 5, 5, 5, 5, 5>>}}

SoundIsBack == SoundComesBack(system)
ErrorsHidden == ErrorsAreHidden(system)
Mixed4 == MixedInStep(system)
FourFound == FourChannelsFound(system)
=============================================================================
