------------------------------ MODULE DvAudio ------------------------------
(* The sound of a DV frame: _dv_raw_insert_audio spreads the samples of each *)
(* channel over the audio blocks, dv_decode_full_audio collects them again,  *)
(* hides what was lost and mixes four channels into two.                     *)
(*                                                                           *)
(* A sample is a tuple that tells where it comes from: <<"pcm", channel, i>>,*)
(* the error code <<"err">>, silence <<"zero">>, a point between two samples *)
(* or a mixture of two.  Arithmetic on the values is left out, and so are    *)
(* the upsampling of 12 bits and the deemphasis filter.                      *)
EXTENDS DvMacroblock

CONSTANTS FrameNumbers,  \* frame numbers dv_calculate_samples is asked about
          Spare,         \* camera's numbers of samples above the minimum
          Levels         \* mixing levels

ASSUME AudioAssumption == FrameNumbers \subseteq Nat /\ Spare \subseteq 0 .. 63
                          /\ Levels \subseteq Int

VARIABLES
  rate,     \* sampling frequency of the encoder's sound, 0 for a camera's tape
  samples,  \* dv_encoder_t.samples_this_frame
  sound,    \* audio part of the frame: [freq, quant, counts, mode2, lost]
  out,      \* output buffers after decoding: channel -> samples 0 .. count - 1
  told,     \* [ok, raw, num, method, level] of the last dv_decode_full_audio
  sent      \* number of samples handed to the encoder, for the properties
audioVars == <<rate, samples, sound, out, told, sent>>

Pal(system) == system # "ntsc"
Rate(system) == IF Pal(system) THEN 25 ELSE 30
HalfDs(system) == IF Pal(system) THEN 6 ELSE 5
Stride(system) == IF Pal(system) THEN 54 ELSE 45
PerBlock(quant) == IF quant = 16 THEN 36 ELSE 24

Unshuffle60 ==
  << <<0, 15, 30, 10, 25, 40, 5, 20, 35>>, <<3, 18, 33, 13, 28, 43, 8, 23, 38>>,
     <<6, 21, 36, 1, 16, 31, 11, 26, 41>>, <<9, 24, 39, 4, 19, 34, 14, 29, 44>>,
     <<12, 27, 42, 7, 22, 37, 2, 17, 32>> >>
Unshuffle50 ==
  << <<0, 18, 36, 13, 31, 49, 8, 26, 44>>, <<3, 21, 39, 16, 34, 52, 11, 29, 47>>,
     <<6, 24, 42, 1, 19, 37, 14, 32, 50>>, <<9, 27, 45, 4, 22, 40, 17, 35, 53>>,
     <<12, 30, 48, 7, 25, 43, 2, 20, 38>>, <<15, 33, 51, 10, 28, 46, 5, 23, 41>> >>
Unshuffle(system) == IF Pal(system) THEN Unshuffle50 ELSE Unshuffle60

(* The sample the encoder puts in place k of block a of sequence ds of a     *)
(* channel, and the one the decoder takes from there.  A sample that equals  *)
(* the error code is changed to its neighbour; every seventh one does here.  *)
\* Mutants: rows counted through both channels; the loudest sample left.
PutIndexOf6(system, ds, a, k) == Unshuffle(system)[(ds % 5) + 1][a + 1] + k * Stride(system)
PutIndex(system, ds, a, k) ==
  Unshuffle(system)[(ds % HalfDs(system)) + 1][a + 1] + k * Stride(system)

IsLoudest(i) == i % 7 = 3
PutRaw(channel, i) == IF IsLoudest(i) THEN <<"err">> ELSE <<"pcm", channel, i>>
Put16Bit(channel, i) == <<"pcm", channel, i>>

(* Place of sample i: the block of the half frame and the place in it.       *)
Rows(system) == (0 .. HalfDs(system) - 1) \X (0 .. 8)
Places60 == [m \in 0 .. 44 |-> {p \in Rows("ntsc") : Unshuffle60[p[1] + 1][p[2] + 1] = m}]
Places50 == [m \in 0 .. 53 |-> {p \in Rows("pal") : Unshuffle50[p[1] + 1][p[2] + 1] = m}]
Place(system, i) ==
  LET p == CHOOSE q \in (IF Pal(system) THEN Places50 ELSE Places60)[i % Stride(system)] : TRUE
  IN [ds |-> p[1], a |-> p[2], k |-> i \div Stride(system)]

-----------------------------------------------------------------------------
(* Numbers of samples.                                                       *)
Column == 48000 :> 1 @@ 44100 :> 2 @@ 32000 :> 3
MinSamples(system, freq) ==
  (IF Pal(system) THEN <<1896, 1742, 1264>> ELSE <<1580, 1452, 1053>>)[Column[freq]]
MaxSamples(system, freq) ==
  (IF Pal(system) THEN <<1944, 1786, 1296>> ELSE <<1620, 1489, 1080>>)[Column[freq]]

(* dv_calculate_samples.                                                     *)
Samples(system, freq, f) ==
  CASE Pal(system) -> (freq \div 25) - (IF freq = 48000 /\ f % 25 = 0 THEN 1 ELSE 0)
    [] ~Pal(system) /\ freq = 48000 -> IF f % 5 # 0 THEN 1602 ELSE 1600
    [] ~Pal(system) /\ freq = 44100 ->
         IF f % 300 = 0 THEN 1471 ELSE IF f % 30 = 0 THEN 1470
         ELSE IF f % 2 = 0 THEN 1472 ELSE 1471
    [] ~Pal(system) /\ freq = 32000 ->
         IF f % 30 = 0 THEN 1068 ELSE IF f % 29 = 0 \/ f % 4 = 2 THEN 1067 ELSE 1068

NoSound == [freq |-> 0, quant |-> 0, counts |-> <<0, 0>>, mode2 |-> 15, lost |-> {}]
Untold == [ok |-> FALSE, raw |-> 2, num |-> <<0, 0>>, method |-> "none", level |-> 0]

AudioInit(system) ==
  /\ rate \in DOMAIN Column \cup {0}
  /\ samples = 0 /\ sound = NoSound /\ sent = 0
  /\ out = <<>> /\ told = Untold

(* With the next frame what was decoded before is forgotten.                 *)
NewSound == out' = <<>> /\ told' = Untold

CalculateSamples(system, f) ==
  /\ rate # 0
  /\ samples' = Samples(system, rate, f)
  /\ NewSound /\ UNCHANGED <<rate, sound, sent>>

(* The encoder of the picture wipes the audio blocks of the frame.           *)
WriteAudioHeaders ==
  /\ sound' = NoSound
  /\ NewSound /\ UNCHANGED <<rate, samples, sent>>

\* A mutant: the minimum of the other system.
AfSizeOfNtsc(system, freq, n) == (n - MinSamples("ntsc", freq)) % 64
(* Six bits of the AAUX source pack give the number of samples.              *)
AfSize(system, freq, n) == (n - MinSamples(system, freq)) % 64

(* _dv_raw_insert_audio, of two channels; it fails for four.  The second     *)
(* half of the frame gets audio mode 1.                                      *)
InsertAudio(system, freq, n) ==
  /\ sound' = [freq |-> freq, quant |-> 16, mode2 |-> 1, lost |-> {},
               counts |-> <<AfSize(system, freq, n), AfSize(system, freq, n)>>]
  /\ sent' = n

(* dv_encode_full_audio: an estimate if the number was never calculated.     *)
EncodeFullAudio(system) ==
  /\ rate # 0
  /\ InsertAudio(system, rate, IF samples = 0 THEN rate \div Rate(system) ELSE samples)
  /\ NewSound /\ UNCHANGED <<rate, samples>>

(* A camera's frame with 12 bits: two channels, or four when the second half *)
(* has an audio mode of its own.                                             *)
CameraSound(first, second, mode2) ==
  /\ rate = 0
  /\ sound' = [freq |-> 32000, quant |-> 12, counts |-> <<first, second>>,
               mode2 |-> mode2, lost |-> {}]
  /\ sent' = 0
  /\ NewSound /\ UNCHANGED <<rate, samples>>

(* Audio blocks that could not be read from the tape hold error codes.       *)
LoseBlocks(blocks) ==
  /\ sound # NoSound /\ sound.lost = {}
  /\ sound' = [sound EXCEPT !.lost = blocks]
  /\ NewSound /\ UNCHANGED <<rate, samples, sent>>

-----------------------------------------------------------------------------
(* Decoding.  The AAUX source pack is in block 3 of even sequences and in    *)
(* block 0 of odd ones; that of the second half is looked for in sequence 6. *)
AsBlock(ds) == IF ds % 2 = 0 THEN 3 ELSE 0
FoundMode2(system) ==
  IF (IF Pal(system) THEN 3 ELSE 0) = AsBlock(6) THEN sound.mode2 ELSE 15

\* A mutant: detected by frequency and quantisation alone.
RawChannelsOf12Bit(system) == IF sound.freq = 32000 /\ sound.quant = 12 THEN 4 ELSE 2
RawChannels(system) ==
  IF sound.freq = 32000 /\ sound.quant = 12 /\ FoundMode2(system) # 15 THEN 4 ELSE 2

RawSamples(system) ==
  LET n(half) == sound.counts[half] + MinSamples(system, sound.freq)
  IN <<n(1), IF RawChannels(system) = 4 THEN n(2) ELSE 0>>

(* dv_decode_audio_block, seen from the output: what sample i of an output   *)
(* buffer is set to.  With 12 bits each half of the frame has two channels.  *)
DecodeBlocks(system, channel, n) ==
  LET half == IF sound.quant = 16 THEN channel ELSE channel \div 2
  IN [i \in 0 .. n - 1 |->
        LET p == Place(system, i)
        IN IF <<p.ds + half * HalfDs(system), p.a>> \in sound.lost THEN <<"err">>
           ELSE Put16Bit(channel, PutIndex(system, p.ds + half * HalfDs(system), p.a, p.k))]

(* dv_audio_correct_errors.  A run of errors becomes a line from the last    *)
(* valid sample to the next one; the ends of the frame count as silence.     *)
Valid(buf, i) == buf[i] # <<"err">>
Gap(buf, i, step, end) ==   \* distance to the nearest valid sample, or the end
  CHOOSE d \in 1 .. Cardinality(DOMAIN buf) :
    /\ i + d * step = end \/ (i + d * step \in DOMAIN buf /\ Valid(buf, i + d * step))
    /\ \A e \in 1 .. d - 1 : i + e * step \in DOMAIN buf /\ ~Valid(buf, i + e * step)
At(buf, i) == IF i \in DOMAIN buf THEN buf[i] ELSE <<"zero">>

\* A mutant: the run takes on the last valid sample.
AverageHold(buf) ==
  [i \in DOMAIN buf |->
     IF Valid(buf, i) THEN buf[i] ELSE At(buf, i - Gap(buf, i, -1, -1))]
Average(buf) ==
  [i \in DOMAIN buf |->
     IF Valid(buf, i) THEN buf[i]
     ELSE LET before == Gap(buf, i, -1, -1)
              after  == Gap(buf, i, 1, Cardinality(DOMAIN buf))
          IN <<"mid", At(buf, i - before), At(buf, i + after), before, before + after>>]

(* The valid samples move together; of the k places left, k bytes are        *)
(* cleared, the other places keep what they had.                             *)
Silence(buf) ==
  LET n     == Cardinality(DOMAIN buf)
      valid == SelectSeq([j \in 1 .. n |-> buf[j - 1]], LAMBDA s : s # <<"err">>)
      k     == n - Len(valid)
  IN [i \in DOMAIN buf |-> IF i < Len(valid) THEN valid[i + 1]
                           ELSE IF i < Len(valid) + k \div 2 THEN <<"zero">>
                           ELSE buf[i]]

Correct(method, buf) ==
  CASE method = "average" -> Average(buf)
    [] method = "silence" -> Silence(buf)
    [] method = "none"    -> buf

(* dv_audio_mix4ch: the mixing level chooses a pair of channels or the       *)
(* divisors of the two.                                                      *)
Mix(level, a, b) ==
  <<"mix", a, IF level < 0 THEN 2 ^ (1 - level) ELSE 2,
           b, IF level > 0 THEN 2 ^ (1 + level) ELSE 2>>
\* A mutant: all the samples of the first pair are mixed.
MixLengthFirst(num) == num[1]
MixLength(num) == IF num[1] > num[2] THEN num[2] ELSE num[1]
MixedNum(level, num) ==
  IF level >= 16 THEN num
  ELSE IF level <= -16 THEN <<num[2], num[2]>>
  ELSE <<MixLength(num), num[2]>>
Mixed(level, buf, num) ==
  [channel \in DOMAIN buf |->
     IF channel >= 2 \/ level >= 16 THEN buf[channel]
     ELSE [i \in 0 .. MixedNum(level, num)[1] - 1 |->
             IF level <= -16 THEN buf[channel + 2][i]
             ELSE Mix(level, buf[channel][i], At(buf[channel + 2], i))]]

(* dv_decode_full_audio: without the packs nothing is touched.               *)
DecodeFullAudio(system, method, level) ==
  /\ ~told.ok   \* bound: a frame is decoded once
  /\ IF sound = NoSound
     THEN told' = [told EXCEPT !.ok = FALSE] /\ out' = out
     ELSE LET num == RawSamples(system)
              raw == RawChannels(system)
              buf == [c \in 0 .. raw - 1 |->
                        LET b == DecodeBlocks(system, c, num[IF c < 2 THEN 1 ELSE 2])
                        IN IF sound.lost = {} THEN b ELSE Correct(method, b)]
          IN /\ out' = IF raw = 4 THEN Mixed(level, buf, num) ELSE buf
             /\ told' = [ok |-> TRUE, raw |-> raw, method |-> method, level |-> level,
                         num |-> IF raw = 4 THEN MixedNum(level, num) ELSE num]
  /\ UNCHANGED <<rate, samples, sound, sent>>

-----------------------------------------------------------------------------
(* What a tape can lose: nothing, one sequence, one block, or the sequences  *)
(* read by one of two heads.                                                 *)
Losses(system) ==
  {{s} \X (0 .. 8) : s \in {0, HalfDs(system) + 1}} \cup {{<<1, 3>>}}
    \cup {{s \in 0 .. DifSeqs(system) - 1 : s % 2 = 0} \X (0 .. 8)}

(* Bounds: the number is calculated before the sound is in the frame, whose   *)
(* decoding does not depend on it; blocks are lost from frames of the size   *)
(* that is estimated and from a camera's, and then only one level mixes two  *)
(* pairs, and one leaves them as they are.                                   *)
AudioNext(system) ==
  \/ /\ sound = NoSound
     /\ \E f \in FrameNumbers : CalculateSamples(system, f)
  \/ WriteAudioHeaders
  \/ EncodeFullAudio(system)
  \/ \E first, second \in Spare, mode2 \in {0, 15} :
       /\ mode2 = 15 => first = second     \* there is no second pair
       /\ CameraSound(first, second, mode2)
  \/ /\ samples = 0
     /\ \E blocks \in Losses(system) : LoseBlocks(blocks)
  \/ DecodeFullAudio(system, "average", 0)
  \/ /\ sound.lost # {}   \* else the method makes no difference
     /\ \E method \in {"silence", "none"} : DecodeFullAudio(system, method, 0)
  \/ /\ sound.quant = 12 /\ sound.mode2 # 15
     /\ \E level \in {l \in Levels : sound.lost = {} \/ l >= 16} :
          DecodeFullAudio(system, "average", level)

IsPcm(s, channel, i) == s = <<"pcm", channel, i>>
BlockLost(system, channel, i) ==
  LET p == Place(system, i)
      half == IF sound.quant = 16 THEN channel ELSE channel \div 2
  IN <<p.ds + half * HalfDs(system), p.a>> \in sound.lost

(* As many samples come back as went in, every one of both channels at its   *)
(* time: the shuffling over the blocks, the six bits of the count and the    *)
(* code for errors take no sample away, at any frequency and in any frame of *)
(* the sequence of frame sizes.                                              *)
SoundComesBack(system) ==
  told.ok /\ sound.quant = 16 /\ sound.lost = {} =>
    /\ told.num[1] = sent /\ sent <= MaxSamples(system, rate)
    /\ \A c \in {0, 1} : \A i \in 0 .. sent - 1 : IsPcm(out[c][i], c, i)

(* What is not lost stays where it is, and a lost sample becomes a point on  *)
(* the line between valid neighbours.  When one whole sequence is lost both  *)
(* direct neighbours of every lost sample are there.  (Silencing keeps the   *)
(* order of what is left, but closes the gaps.)                              *)
ErrorsAreHidden(system) ==
  told.ok /\ sound.lost # {} /\ (told.raw = 2 \/ told.level >= 16) =>
    \A c \in DOMAIN out :
      /\ told.method = "average" =>
           \A i \in DOMAIN out[c] :
             LET s == out[c][i] IN
             IF ~BlockLost(system, c, i) THEN IsPcm(s, c, i)
             ELSE /\ s[1] = "mid"
                  /\ IsPcm(s[2], c, i - s[4]) \/ i - s[4] = -1
                  /\ IsPcm(s[3], c, i + s[5] - s[4]) \/ i + s[5] - s[4] \notin DOMAIN out[c]
                  /\ Cardinality({b[1] : b \in sound.lost}) = 1 => s[4] = 1 /\ s[5] = 2
      /\ told.method = "silence" =>
           \A i \in DOMAIN out[c] \ {0} :
             out[c][i][1] = "pcm" /\ out[c][i - 1][1] = "pcm" /\ ~BlockLost(system, c, 0)
               => out[c][i - 1][3] < out[c][i][3] \/ i > Cardinality(DOMAIN out[c]) \div 2

(* Two pairs of channels are mixed sample by sample as far as both go, and   *)
(* the divisors leave room for the sum.                                      *)
MixedInStep(system) ==
  told.ok /\ told.raw = 4 /\ sound.lost = {} =>
    /\ told.num[1] \in {sound.counts[h] + MinSamples(system, 32000) : h \in {1, 2}}
    /\ \A c \in {0, 1} : \A i \in 0 .. told.num[1] - 1 :
         CASE told.level >= 16  -> IsPcm(out[c][i], c, i)
           [] told.level <= -16 -> IsPcm(out[c][i], c + 2, i)
           [] OTHER -> LET s == out[c][i] IN
                /\ IsPcm(s[2], c, i) /\ IsPcm(s[4], c + 2, i)
                /\ s[3] * s[5] >= s[3] + s[5]

(* audio.c:432 says where the packs of even and odd sequences are: with the  *)
(* pack of the second half in place, four channels are found.                *)
FourChannelsFound(system) ==
  told.ok /\ sound.quant = 12 /\ sound.mode2 # 15 => told.raw = 4
=============================================================================
