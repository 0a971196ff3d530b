----------------------------- MODULE DvEncoderLoop -----------------------------
(* encodedv: its main program checks the options, dv_encoder_loop takes the  *)
(* pictures of a series of files, or of stdin, and the sound of a WAV file or *)
(* of /dev/dsp, and stores one frame for each picture.  A picture is the     *)
(* number of its file or its place on stdin; sound is counted in bytes.      *)
EXTENDS Integers, Sequences, FiniteSets

CONSTANTS EncJobs,      \* command lines, with the files they name
          StaleBytes    \* what bytesperframe may hold before it is first set
PictureKinds == {"pal", "ntsc", "cut pal", "bad"}
(* What the code takes for granted and never checks: the pictures of a series*)
(* are of one standard, the header of a WAV file with two channels is right  *)
(* about the bytes in a second, and 65536 * fps is an int.                   *)
MaxFps == 32767
ASSUME EncAssumption ==
  /\ StaleBytes \subseteq Nat
  /\ \A j \in EncJobs :
       /\ j.start \in Nat /\ j.end \in Int /\ j.fps \in 0 .. MaxFps /\ j.stdin \in BOOLEAN
       /\ j.pictures \in Seq(PictureKinds)
       /\ \A a, b \in DOMAIN j.pictures :
            j.pictures[a] = "ntsc" => j.pictures[b] \notin {"pal", "cut pal"}
       /\ j.audio = "wav" =>
            /\ j.source.length \in Nat /\ j.source.bytespersecond \in Nat
            /\ j.source.channels = 2 => j.source.bytespersecond = 4 * j.source.rate

VARIABLES
  job,             \* the options, the pictures and the sound
  encPc,           \* what the loop does next
  frameNo,         \* i
  isPAL,           \* -1 until the first picture is read
  streamPos,       \* pictures read from stdin
  readbuf,         \* pictures that have rows in the input buffer
  skipFrameCount,
  target,          \* picture that was encoded last, -1: never written
  sound,           \* bytesperframe, bytes read, and the piece in data
  stored           \* frames written: picture, sound, whether it was encoded
encVars == <<job, encPc, frameNo, isPAL, streamPos, readbuf, skipFrameCount,
             target, sound, stored>>

-----------------------------------------------------------------------------
(* The converters to 16 bits, signed, high byte first.                       *)
\* A mutant: low byte first.
LowHigh(val) == <<val % 256, (val \div 256) % 256>>
HighLow(val) == <<(val \div 256) % 256, val % 256>>
Convert(format, b) ==
  CASE format = "u8"    -> HighLow(b[1] - 128)
    [] format = "s16le" -> <<b[2], b[1]>>
    [] format = "s16be" -> <<b[1], b[2]>>
    [] format = "u16le" -> HighLow(b[1] + 256 * b[2] - 32768)
    [] format = "u16be" -> HighLow(b[2] + 256 * b[1] - 32768)

(* dsp_init takes the first format of its list that the device has, and the  *)
(* first rate that the device keeps.                                         *)
DspFormats == <<"s16be", "s16le", "u16be", "u16le", "u8">>
DspRates == <<48000, 44100, 32000>>
Offered(list, set) == {i \in DOMAIN list : list[i] \in set}
FirstOf(list, set) == list[CHOOSE i \in Offered(list, set) : \A k \in Offered(list, set) : i <= k]
DspReady(s) == Offered(DspFormats, s.formats) # {} /\ Offered(DspRates, s.rates) # {}
DspInit(s) == LET rate == FirstOf(DspRates, s.rates)
              IN [format |-> FirstOf(DspFormats, s.formats), rate |-> rate,
                  bytespersecond |-> 4 * rate]

(* parse_wave_header; the length in the file is ignored.                     *)
WavReady(s) == /\ s.there /\ s.bits = 16
               /\ \/ s.rate \in {48000, 44100} /\ s.channels = 2
                  \/ s.rate = 32000 /\ s.channels \in {2, 4}
WavInit(s) == [format |-> "s16le", rate |-> s.rate, bytespersecond |-> s.bytespersecond]

NoPiece == [from |-> -1, size |-> 0, fresh |-> 0]
\* A mutant: a standard that is not known counts as NTSC.
BytesperframeNtsc(isPal) == sound.bytespersecond \div (IF isPal = 1 THEN 25 ELSE 30)
Bytesperframe(isPal) == sound.bytespersecond \div (IF isPal # 0 THEN 25 ELSE 30)

-----------------------------------------------------------------------------
(* main: unknown filters, an audio filter without a source and a quantiser   *)
(* or transform that is not there are refused.                               *)
Accepted(j) == /\ j.input \in {"ppm", "pgm"}
               /\ j.audio # "none" => j.audio \in {"wav", "dsp"} /\ j.source.named
               /\ j.qno \in 0 .. 2 /\ j.forceDct \in {-1, 88, 248}
AudioReady(j) == CASE j.audio = "none" -> TRUE
                   [] j.audio = "wav"  -> WavReady(j.source)
                   [] j.audio = "dsp"  -> DspReady(j.source)
AudioInit(j) == CASE j.audio = "none" -> [format |-> "none", rate |-> 0, bytespersecond |-> 0]
                  [] j.audio = "wav"  -> WavInit(j.source)
                  [] j.audio = "dsp"  -> DspInit(j.source)

EncInit ==
  /\ job \in EncJobs
  /\ encPc = "main" /\ frameNo = 0 /\ isPAL = -1 /\ streamPos = 0 /\ readbuf = {}
  /\ skipFrameCount = 0 /\ target = -1 /\ sound = <<>> /\ stored = <<>>

Main ==
  /\ encPc = "main"
  /\ IF ~Accepted(job) THEN encPc' = "refused" /\ UNCHANGED sound
     ELSE IF ~AudioReady(job) THEN encPc' = "failed" /\ UNCHANGED sound
     ELSE /\ encPc' = "sound"
          /\ \E stale \in StaleBytes :
               sound' = [bytesperframe |-> stale, read |-> 0, data |-> NoPiece,
                         format |-> AudioInit(job).format, rate |-> AudioInit(job).rate,
                         bytespersecond |-> AudioInit(job).bytespersecond]
  /\ UNCHANGED <<job, frameNo, isPAL, streamPos, readbuf, skipFrameCount, target, stored>>

(* wav_load: a short read leaves the piece before in place, and is no error  *)
(* for the loop.  dsp_load reads as much as the frame before needed.         *)
Hears(n, size) == sound' = [sound EXCEPT !.bytesperframe = size, !.read = @ + n,
                              !.data = [from |-> sound.read, size |-> size, fresh |-> n]]
HearsLess(n, size) == sound' = [sound EXCEPT !.bytesperframe = size, !.read = @ + n]
WavLoad ==
  LET size == Bytesperframe(isPAL)
      left == job.source.length - sound.read
  IN IF left >= size THEN Hears(size, size) ELSE HearsLess(left, size)
DspLoad ==
  LET size   == Bytesperframe(isPAL)
      wanted == IF sound.format = "u8" THEN sound.bytesperframe \div 2
                ELSE sound.bytesperframe
  IN Hears(wanted, size) \/ HearsLess(wanted \div 2, size)

LoadSound ==
  /\ encPc = "sound" /\ (frameNo < job.start \/ frameNo <= job.end)
  /\ encPc' = "picture"
  /\ CASE job.audio = "none" -> UNCHANGED sound
       [] job.audio = "wav"  -> WavLoad
       [] job.audio = "dsp"  -> DspLoad
  /\ UNCHANGED <<job, frameNo, isPAL, streamPos, readbuf, skipFrameCount, target, stored>>

-----------------------------------------------------------------------------
(* ppm_load and ppm_skip, pgm_load and pgm_skip.  A truncated picture leaves *)
(* rows of the picture before in the buffer.                                 *)
PictureAt(k) == IF k < Len(job.pictures) THEN job.pictures[k + 1] ELSE "none"
Readable(k) == PictureAt(k) \in {"pal", "ntsc", "cut pal"}
ReadStream(k) ==
  /\ Readable(k)
  /\ isPAL' = IF PictureAt(k) = "ntsc" THEN 0 ELSE 1
  /\ readbuf' = IF PictureAt(k) = "cut pal" THEN readbuf \cup {k} ELSE {k}
Place == IF job.stdin THEN streamPos ELSE frameNo
LoadPicture == ReadStream(Place) /\ streamPos' = (IF job.stdin THEN streamPos + 1 ELSE 0)
SkipPicture == IF job.stdin THEN LoadPicture ELSE UNCHANGED <<isPAL, readbuf, streamPos>>
Fails == encPc' = "failed" /\ UNCHANGED <<isPAL, readbuf, streamPos>>

(* The pictures before --start-frame.                                        *)
SkipToStart ==
  /\ encPc = "picture" /\ frameNo < job.start
  /\ IF job.stdin /\ ~Readable(Place) THEN Fails /\ UNCHANGED frameNo
     ELSE SkipPicture /\ frameNo' = frameNo + 1 /\ encPc' = "sound"
  /\ UNCHANGED <<job, skipFrameCount, target, sound, stored>>

\* A mutant: one step for both standards.
StepNtsc(norm) == IF job.fps = 0 THEN 65536 ELSE (job.fps * 65536) \div 30
Step(norm) == IF job.fps = 0 THEN 65536
              ELSE IF norm # 0 THEN (job.fps * 65536) \div 25 ELSE (job.fps * 65536) \div 30
(* A picture is read, or skipped to come down to the wanted rate.            *)
TakePicture ==
  /\ encPc = "picture" /\ frameNo >= job.start
  /\ skipFrameCount' = skipFrameCount + 65536 - Step(isPAL)
  /\ LET loads == skipFrameCount' < 65536 \/ isPAL = -1
     IN IF (loads \/ job.stdin) /\ ~Readable(Place) THEN Fails
        ELSE (IF loads THEN LoadPicture ELSE SkipPicture) /\ encPc' = "store"
  /\ UNCHANGED <<job, frameNo, target, sound, stored>>

(* encode, unless the picture is to be dropped: then raw_store writes the    *)
(* frame before once more, with the new sound.  Four channels are refused.   *)
Sounds == job.audio # "none"
EncodeAndStore ==
  /\ encPc = "store"
  /\ LET encodes == skipFrameCount < 65536
     IN /\ target' = IF encodes THEN Place - (IF job.stdin THEN 1 ELSE 0) ELSE target
        /\ skipFrameCount' = IF encodes THEN skipFrameCount ELSE skipFrameCount - 65536
        /\ IF Sounds /\ job.source.channels = 4
             THEN encPc' = "failed" /\ UNCHANGED <<stored, frameNo>>
             ELSE /\ stored' = Append(stored, [picture |-> target', encoded |-> encodes,
                                               norm |-> isPAL,
                                               sound |-> IF Sounds THEN sound.data ELSE NoPiece])
                  /\ frameNo' = frameNo + 1 /\ encPc' = "sound"
  /\ UNCHANGED <<job, isPAL, streamPos, readbuf, sound>>

(* After the loop the filters are finished; its result is dropped.  A WAV    *)
(* file that was not opened is closed all the same.                          *)
Finish ==
  /\ encPc = "failed" \/ (encPc = "sound" /\ frameNo >= job.start /\ frameNo > job.end)
  /\ encPc' = IF job.audio = "wav" /\ ~job.source.there THEN "crashed" ELSE "exit 0"
  /\ UNCHANGED <<job, frameNo, isPAL, streamPos, readbuf, skipFrameCount, target, sound, stored>>

EncNext == Main \/ LoadSound \/ SkipToStart \/ TakePicture \/ EncodeAndStore \/ Finish
EncSpec == EncInit /\ [][EncNext]_encVars

-----------------------------------------------------------------------------
(* --fps: of the first n pictures as many are encoded as that rate needs, in *)
(* even steps, the first one always; the others show the picture before, and *)
(* every frame has a picture.  Until the standard is known it counts as PAL; *)
(* the step is rounded to 1/65536, so less than one picture in 65536 is lost.*)
EncRateKept ==
  \A n \in DOMAIN stored :
    LET Encoded == Cardinality({k \in 1 .. n : stored[k].encoded})
        perSecond == IF stored[n].norm # 0 THEN 25 ELSE 30
    IN /\ stored[n].picture = IF stored[n].encoded THEN job.start + n - 1
                                                   ELSE stored[n - 1].picture
       /\ IF job.fps \in 1 .. perSecond
          THEN Encoded * perSecond \in n * job.fps - (n * perSecond) \div 65536
                                         .. (n + 1) * job.fps + perSecond
          ELSE stored[n].encoded

(* The sound of a WAV file stays in step with the pictures, dropped ones     *)
(* included: each frame has the piece of its own time, cut between samples,  *)
(* and when the file is over the last piece is kept.  The pieces loaded      *)
(* before the standard is known have the size of PAL; at 32 kHz a frame of   *)
(* NTSC is no whole number of samples (enc_audio_input.c:226).               *)
SoundInStep ==
  job.audio = "wav" => \A n \in DOMAIN stored :
    LET piece   == stored[n].sound
        ntsc    == stored[n].norm = 0
        bps     == sound.bytespersecond
        fps     == IF ntsc THEN 30 ELSE 25
        time    == job.start + n - 1
        unknown == IF job.stdin THEN 1 ELSE job.start + 1
        ahead   == IF ntsc THEN unknown * (bps \div 25 - bps \div 30) ELSE 0
        inTime  == (piece.from - ahead) * fps \in (bps - fps) * time .. bps * time
    IN \/ n = 1 /\ time < unknown /\ piece.from = time * (bps \div 25)
       \/ /\ inTime
          /\ piece.from % 4 = 0 \/ (ntsc /\ sound.rate = 32000)
       \/ /\ sound.read = job.source.length
          /\ n > 1 => piece = stored[n - 1].sound
          /\ piece.from + 2 * (bps \div 25) > job.source.length

(* Whatever format the source has, the sample stored has its value, highest  *)
(* byte first (a sample of 8 bits keeps its small range).                    *)
Edges == {0, 1, 127, 128, 255}
Signed(val) == IF val < 32768 THEN val ELSE val - 65536
Meaning(format, b) ==
  CASE format = "u8"    -> b[1] - 128
    [] format = "s16le" -> Signed(b[1] + 256 * b[2])
    [] format = "s16be" -> Signed(b[2] + 256 * b[1])
    [] format = "u16le" -> b[1] + 256 * b[2] - 32768
    [] format = "u16be" -> b[2] + 256 * b[1] - 32768
SamplesKept ==
  sound # <<>> /\ sound.format # "none" =>
    \A b \in Edges \X Edges :
      LET out == Convert(sound.format, b)
      IN Signed(256 * out[1] + out[2]) = Meaning(sound.format, b)
=============================================================================
