--------------------------------- MODULE DvDub ---------------------------------
(* dubdv: puts the sound of a WAV file into the frames of a DV stream, from  *)
(* stdin to stdout, or into a file that it reads and writes at once.  A      *)
(* frame is its number in the input, 0 is an empty frame; sound is counted   *)
(* in bytes.  Both files of the input can be opened.  (In a file nothing is  *)
(* repeated here: what is read behind the place written would depend on the  *)
(* buffers of stdio.)                                                        *)
EXTENDS Integers, Sequences, FiniteSets

CONSTANT DubJobs    \* command lines, with their input
WholeKinds == {"pal", "ntsc"}
CutKinds == {"cut", "cut pal"}    \* less than a frame of NTSC, or than one of PAL
(* Only where the input ends a frame can be cut.  What the header of the WAV *)
(* file says of its sound need not agree with itself.                        *)
ASSUME DubAssumption ==
  \A j \in DubJobs :
    /\ j.repeat \in Nat /\ (j.pipes \/ j.repeat = 0)
    /\ j.frames \in Seq(WholeKinds \cup CutKinds)
    /\ \A k \in 1 .. Len(j.frames) - 1 : j.frames[k] \in WholeKinds
    /\ j.rate \in Nat /\ j.channels \in Nat /\ j.bits \in Nat
    /\ j.bytespersecond \in Nat /\ j.length \in Nat

VARIABLES
  dub,         \* the job: frames, header and bytes of the sound, pipes, truncate, repeat
  dubPc,
  inFrame,     \* frames read
  frameBuf,    \* the frame in frame_buf
  dubPal,      \* isPAL
  gotframe,
  dubHeard,    \* bytes of the WAV file read
  repeats,     \* repeat_count
  dubOut,      \* frames stored, each with its sound
  copied       \* frames copied to stdout with their own sound
dubVars == <<dub, dubPc, inFrame, frameBuf, dubPal, gotframe, dubHeard, repeats,
             dubOut, copied>>

DubInit == /\ dub \in DubJobs /\ dubPc = "start"
           /\ inFrame = 0 /\ frameBuf = 0 /\ dubPal = TRUE /\ gotframe = FALSE
           /\ dubHeard = 0 /\ repeats = dub.repeat /\ dubOut = <<>> /\ copied = <<>>

(* read_frame: the header of the frame tells its standard; a frame that is   *)
(* not whole, or not there, is made an empty one of the standard known.      *)
Kind == IF inFrame < Len(dub.frames) THEN dub.frames[inFrame + 1] ELSE "end"
ReadFrame ==
  /\ gotframe' = (Kind \in WholeKinds)
  /\ frameBuf' = IF gotframe' THEN inFrame + 1 ELSE 0
  /\ dubPal' = CASE Kind \in {"pal", "cut pal"} -> TRUE
                 [] Kind = "ntsc" -> FALSE
                 [] OTHER -> dubPal
  /\ inFrame' = IF Kind = "end" THEN inFrame ELSE inFrame + 1

(* parse_wave_header: the sound that wav_init takes.                         *)
SoundTaken == /\ dub.bits = 16
              /\ \/ dub.rate \in {44100, 48000} /\ dub.channels = 2
                 \/ dub.rate = 32000 /\ dub.channels \in {2, 4}
SoundRefused == /\ dubPc = "start" /\ ~SoundTaken /\ dubPc' = "failed"
                /\ UNCHANGED <<dub, inFrame, frameBuf, dubPal, gotframe, dubHeard, repeats,
                               dubOut, copied>>
Start == /\ dubPc = "start" /\ SoundTaken /\ ReadFrame
         /\ dubPc' = IF gotframe' THEN "repeat" ELSE "load"
         /\ UNCHANGED <<dub, dubHeard, repeats, dubOut, copied>>

(* _dv_raw_insert_audio cannot put in four channels, although wav_init takes *)
(* them: store then writes no frame, and the program ends.                   *)
Unsupported == \/ dub.rate \notin {32000, 44100, 48000}
               \/ dub.rate = 32000 /\ dub.channels # 2
Fail == /\ Unsupported /\ dubPc' = "failed"
        /\ UNCHANGED <<dub, inFrame, frameBuf, dubPal, gotframe, repeats, dubOut, copied>>
Store(piece) ==
  /\ ~Unsupported
  /\ dubOut' = Append(dubOut, [picture |-> frameBuf, pal |-> dubPal, sound |-> piece])

(* The first frame once more, with sound from a buffer that nothing has      *)
(* been loaded into yet.                                                     *)
Garbage == [from |-> -1, size |-> 0]
Repeat ==
  /\ dubPc = "repeat"
  /\ \/ repeats = 0 /\ dubPc' = "load" /\ UNCHANGED <<dubOut, repeats>>
     \/ repeats # 0 /\ Store(Garbage) /\ repeats' = repeats - 1 /\ UNCHANGED dubPc
     \/ repeats # 0 /\ Fail
  /\ UNCHANGED <<dub, inFrame, frameBuf, dubPal, gotframe, dubHeard, copied>>

\* A mutant: the size of PAL for all frames.
DubSizePal == dub.bytespersecond \div 25
(* The sound of one frame, and what wav_load finds of it: a short read is    *)
(* the end of the sound, and more than the buffer of wav_load overruns it.   *)
DubSize == dub.bytespersecond \div (IF dubPal THEN 25 ELSE 30)
LoadBuffer == 1944 * 2 * 2
Loaded == IF dubHeard + DubSize <= dub.length THEN DubSize ELSE dub.length - dubHeard
Loading == dubPc = "load" /\ (gotframe \/ ~dub.truncate)
Overrun == /\ Loading /\ Loaded > LoadBuffer /\ dubPc' = "overrun"
           /\ UNCHANGED <<dub, inFrame, frameBuf, dubPal, gotframe, dubHeard, repeats,
                          dubOut, copied>>
Dub ==
  /\ Loading /\ Loaded <= LoadBuffer /\ dubHeard + DubSize <= dub.length
  /\ dubHeard' = dubHeard + DubSize
  /\ \/ /\ Store([from |-> dubHeard, size |-> DubSize]) /\ ReadFrame
        /\ UNCHANGED <<dub, dubPc, repeats, copied>>
     \/ Fail
Truncate == /\ dubPc = "load" /\ ~gotframe /\ dub.truncate /\ dubPc' = "done"
            /\ UNCHANGED <<dub, inFrame, frameBuf, dubPal, gotframe, dubHeard, repeats,
                           dubOut, copied>>
SoundEnds == /\ Loading /\ Loaded <= LoadBuffer /\ dubHeard + DubSize > dub.length
             /\ dubHeard' = dub.length
             /\ dubPc' = IF dub.truncate THEN "done" ELSE "copy"
             /\ UNCHANGED <<dub, inFrame, frameBuf, dubPal, gotframe, repeats, dubOut, copied>>
(* What is left goes to stdout, with the sound it has.                       *)
Copy == /\ dubPc = "copy"
        /\ IF gotframe THEN copied' = Append(copied, frameBuf) /\ ReadFrame /\ UNCHANGED dubPc
           ELSE dubPc' = "done" /\ UNCHANGED <<copied, inFrame, frameBuf, dubPal, gotframe>>
        /\ UNCHANGED <<dub, dubHeard, repeats, dubOut>>

DubNext == SoundRefused \/ Start \/ Repeat \/ Overrun \/ Dub \/ Truncate \/ SoundEnds \/ Copy
DubSpec == DubInit /\ [][DubNext]_dubVars

-----------------------------------------------------------------------------
(* With sound that can be put in the pictures come out in the order they     *)
(* came in, none twice, and none left out if the program comes to its end    *)
(* without --truncate; behind them there are empty frames only as long as    *)
(* there is sound and --truncate was not given; each frame has the next      *)
(* piece of sound, of the size its own standard needs.  With sound that      *)
(* cannot be put in (four channels) no frame is stored, and where the        *)
(* program fails it has written nothing at all.  Nothing is claimed of what  *)
(* the program does after an overrun.                                        *)
Whole == Cardinality({k \in DOMAIN dub.frames : dub.frames[k] \in WholeKinds})
Repeated == dub.repeat - repeats
DubKeepsPictures ==
  LET n == Len(dubOut) - Repeated
      first == SubSeq(dubOut, 1, Repeated)
      At(k) == dubOut[Repeated + k]
  IN /\ \A k \in 1 .. Repeated : first[k].picture = 1
     /\ \A k \in 1 .. n :
          /\ At(k).picture = IF k <= Whole THEN k ELSE 0
          /\ At(k).picture = 0 => ~dub.truncate
          /\ At(k).sound.from = IF k = 1 THEN 0 ELSE At(k - 1).sound.from + At(k - 1).sound.size
          /\ At(k).pal = (k <= Whole /\ dub.frames[k] = "pal") \/ At(k).picture = 0
          /\ At(k).sound.size = dub.bytespersecond \div (IF At(k).pal THEN 25 ELSE 30)
     /\ \A k \in DOMAIN copied : copied[k] = n + k
     /\ dubPc = "done" /\ ~dub.truncate => n + Len(copied) >= Whole
     /\ Unsupported => dubOut = <<>>
     /\ dubPc = "failed" => dubOut = <<>> /\ copied = <<>>
=============================================================================
