----------------------------- MODULE DvRecording -----------------------------
(* dv_is_new_recording: called for each frame of a tape it tells where a new *)
(* recording begins, by the start mark of the frame or by an end mark some   *)
(* frames ago; between the calls it keeps a time stamp and a flag.           *)
EXTENDS Integers, Sequences

CONSTANTS MaxStamp,   \* time stamps are 0 .. MaxStamp; 0 stands for 00:00:00.00
          MaxFrames   \* frames of the tape
ASSUME RecordingAssumption == MaxStamp \in Nat /\ MaxFrames \in Nat

VARIABLES
  on_next_frame,   \* new_recording_on_next_frame
  current_stamp,   \* new_recording_current_time_stamp
  seen,            \* number of frames seen
  answer,          \* what was returned for the last one
  recTape,            \* the 12-bit frames seen, with what was returned for each
  unstamped        \* some 12-bit frame had no time code
recVars == <<on_next_frame, current_stamp, seen, answer, recTape, unstamped>>

Stamps == 0 .. MaxStamp

RecInit == /\ on_next_frame = FALSE /\ current_stamp = 0
           /\ seen = 0 /\ answer = FALSE /\ recTape = <<>> /\ unstamped = FALSE

(* Only in a frame of 32 kHz and 12 bits the second pair of channels can     *)
(* carry an end mark, and state is kept.                                     *)
Plain(start) ==
  /\ answer' = start
  /\ UNCHANGED <<on_next_frame, current_stamp, recTape, unstamped>>

\* A mutant: the stamp is not reset by another one.
KeepStamp(temp) == current_stamp
(* A stamp that was reported, or that has passed, is reset by another one.   *)
ResetStamp(temp) == IF ~on_next_frame /\ current_stamp # temp THEN 0 ELSE current_stamp

TwelveBit(temp, start, end) ==
  LET current == ResetStamp(temp)
      waiting == on_next_frame /\ current = temp
      new     == start \/ (current # 0 /\ ~waiting)
  IN /\ answer' = new
     /\ recTape' = Append(recTape, [stamp |-> temp, end |-> end, start |-> start, new |-> new])
     /\ current_stamp' = IF end THEN temp ELSE current
     /\ on_next_frame' = (end \/ waiting)

(* Without a time code in the frame the stamp compared is never initialised. *)
Unstamped(start, end) ==
  /\ \E garbage \in Stamps : TwelveBit(garbage, start, end)
  /\ unstamped' = TRUE

IsNewRecording ==
  /\ seen < MaxFrames /\ seen' = seen + 1
  /\ \/ \E start \in BOOLEAN : Plain(start)
     \/ \E start, end \in BOOLEAN :
          \/ \E stamp \in Stamps : TwelveBit(stamp, start, end) /\ UNCHANGED unstamped
          \/ Unstamped(start, end)

RecSpec == RecInit /\ [][IsNewRecording]_recVars

-----------------------------------------------------------------------------
(* A tape whose time stamps never come back.                                 *)
StampsGoOn ==
  \A i, j \in DOMAIN recTape : i < j /\ recTape[i].stamp = recTape[j].stamp =>
    \A k \in i .. j : recTape[k].stamp = recTape[i].stamp

(* On such a tape a recording is reported exactly at its start mark and at   *)
(* the first frame after one with an end mark and the same time code: once,  *)
(* however often that frame is repeated, and wherever other frames are in    *)
(* between.  An end mark at time zero is never followed up.                  *)
RecordingsAreFound ==
  ~unstamped /\ StampsGoOn =>
    \A j \in DOMAIN recTape :
      recTape[j].new <=>
        \/ recTape[j].start
        \/ \E i \in 1 .. j - 1 :
             /\ recTape[i].end /\ recTape[i].stamp \notin {0, recTape[j].stamp}
             /\ \A k \in i .. j - 1 : recTape[k].stamp = recTape[i].stamp
=============================================================================
