---------------------------- MODULE FrameChannel ----------------------------
(***************************************************************************)
(* What dvconnect promises about the frames it moves between its two       *)
(* threads, whichever way they travel: a bounded channel that hands over   *)
(* every frame put into it once and in order.                              *)
(***************************************************************************)
EXTENDS Naturals, Sequences

CONSTANTS Capacity, (* the most frames the channel may hold                *)
          None      (* stands for "no frame handed over yet"               *)

VARIABLES chan,     (* frames put in and not yet handed over, oldest first *)
          last      (* the frame handed over most recently                 *)

chanVars == <<chan, last>>

Init == chan = <<>> /\ last = None

(* A producer adds one frame, of any content, behind those already there. *)
Put ==
  /\ Len(chan) < Capacity
  /\ Len(chan') = Len(chan) + 1
  /\ SubSeq(chan', 1, Len(chan)) = chan
  /\ UNCHANGED last

(* The consumer takes the oldest frame. *)
Deliver ==
  /\ chan # <<>>
  /\ chan' = Tail(chan)
  /\ last' = Head(chan)

Next == Put \/ Deliver

Spec == Init /\ [][Next]_chanVars
=============================================================================
