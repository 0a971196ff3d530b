-------------------------- MODULE DvEncoderLoopProofs --------------------------
(* Theorems about the encoder.  encodedv, for any command line, series of    *)
(* pictures of one standard and sound: which pictures are encoded, and the   *)
(* sound they get.  VlcQuant, for any segments: where the search for the     *)
(* quantisers ends.                                                          *)
EXTENDS DvEncoderLoop, VlcQuant, SumsProofs, SequenceTheorems

Running == encPc \in {"sound", "picture", "store"}
Norm == IF \E k \in DOMAIN job.pictures : job.pictures[k] = "ntsc" THEN 0 ELSE 1
PerSecond == IF Norm = 0 THEN 30 ELSE 25
Frames == Len(stored)
Unknown == IF job.stdin THEN 1 ELSE job.start + 1
SourceFormats == {"none", "u8", "s16le", "s16be", "u16le", "u16be"}
SoundPiece == [from : Int, size : Int, fresh : Int]
SoundState == [bytesperframe : Int, read : Int, data : SoundPiece, format : SourceFormats,
               rate : Int, bytespersecond : Int]
EncFrame == [picture : Int, encoded : BOOLEAN, norm : {0, 1}, sound : SoundPiece]

SoundOpened ==
  /\ sound \in SoundState /\ job.audio \in {"none", "wav", "dsp"}
  /\ job.audio = "wav" => /\ WavReady(job.source) /\ sound.rate = job.source.rate
                          /\ sound.bytespersecond = job.source.bytespersecond
EncType ==
  /\ job \in EncJobs /\ stored \in Seq(EncFrame)
  /\ encPc \in {"main", "sound", "picture", "store", "refused", "failed", "exit 0", "crashed"}
  /\ \/ sound = <<>> /\ stored = <<>> /\ ~Running
     \/ SoundOpened /\ encPc # "main"
  /\ job.audio = "wav" /\ job.source.channels # 2 => stored = <<>>
  /\ encPc = "main" => /\ frameNo = 0 /\ isPAL = -1 /\ streamPos = 0
                       /\ skipFrameCount = 0 /\ target = -1

(* Where the loop is: in the series, on stdin, in what it knows.             *)
EncPlace ==
  /\ frameNo \in Nat /\ streamPos \in Nat /\ skipFrameCount \in Int /\ target \in Int
  /\ isPAL = IF encPc = "store" \/ frameNo >= Unknown THEN Norm ELSE -1
  /\ frameNo = job.start + Frames \/ (frameNo < job.start /\ Frames = 0 /\ encPc # "store")
  /\ job.stdin => streamPos = frameNo + (IF encPc = "store" THEN 1 ELSE 0)
  /\ Frames > 0 => target = stored[Frames].picture

Encoded(n) == Cardinality({k \in 1 .. n : stored[k].encoded})
(* After n pictures, the last with the count at skip.                        *)
InStep(first, n, e, skip) == 65536 * e = first + (n - 1) * Step(Norm) + skip
Slowed == job.fps \in 1 .. PerSecond
EncRate ==
  \E first \in {Step(-1), Step(Norm)} :
    IF encPc = "store"
    THEN /\ InStep(first, Frames + 1, Encoded(Frames) + 1, skipFrameCount)
         /\ skipFrameCount < 131072
         /\ Slowed /\ skipFrameCount < 0 => Encoded(Frames) = Frames
         /\ ~Slowed => skipFrameCount <= 0
    ELSE IF Frames = 0 THEN skipFrameCount = 0
    ELSE /\ InStep(first, Frames, Encoded(Frames), skipFrameCount)
         /\ skipFrameCount < 65536
         /\ Slowed /\ skipFrameCount < 0 => Encoded(Frames) = Frames
         /\ ~Slowed => skipFrameCount <= 0

(* Bytes of sound for the first k pictures.                                  *)
PieceOf(norm) == sound.bytespersecond \div (IF norm = 0 THEN 30 ELSE 25)
SoundOf(k) == IF k <= Unknown THEN k * PieceOf(1)
              ELSE Unknown * PieceOf(1) + (k - Unknown) * PieceOf(Norm)
Loads == IF encPc = "sound" THEN frameNo ELSE frameNo + 1
FileOver == /\ sound.read = job.source.length
            /\ sound.data.from + 2 * PieceOf(1) > sound.read
            /\ Frames > 0 => sound.data = stored[Frames].sound
FileInStep == /\ sound.read = SoundOf(Loads) /\ sound.read <= job.source.length
              /\ IF Loads = 0 THEN sound.data = NoPiece
                 ELSE sound.data.from = SoundOf(Loads - 1)
              /\ encPc = "sound" /\ Frames > 0 => sound.data = stored[Frames].sound
EncSound == job.audio = "wav" /\ job.source.channels = 2 => FileInStep \/ FileOver

RateAt(n) ==
  /\ stored[n].picture = IF stored[n].encoded THEN job.start + n - 1 ELSE stored[n - 1].picture
  /\ IF Slowed
     THEN Encoded(n) * PerSecond \in n * job.fps - (n * PerSecond) \div 65536
                                       .. (n + 1) * job.fps + PerSecond
     ELSE stored[n].encoded
InStepAt(n, time, unknown, ntsc, piece, before, bps, rate, read, length) ==
  LET fps     == IF ntsc THEN 30 ELSE 25
      ahead   == IF ntsc THEN unknown * (bps \div 25 - bps \div 30) ELSE 0
      inTime  == (piece.from - ahead) * fps \in (bps - fps) * time .. bps * time
  IN \/ n = 1 /\ time < unknown /\ piece.from = time * (bps \div 25)
     \/ /\ inTime
        /\ piece.from % 4 = 0 \/ (ntsc /\ rate = 32000)
     \/ /\ read = length
        /\ n > 1 => piece = before
        /\ piece.from + 2 * (bps \div 25) > length
SoundAt(n) ==
  InStepAt(n, job.start + n - 1, IF job.stdin THEN 1 ELSE job.start + 1, stored[n].norm = 0,
           stored[n].sound, stored[n - 1].sound, sound.bytespersecond, sound.rate, sound.read,
           job.source.length)
EncOutput ==
  \A n \in 1 .. Frames :
    /\ stored[n].norm = Norm /\ RateAt(n) /\ (n = 1 => stored[n].encoded)
    /\ job.audio = "wav" => SoundAt(n)
EncInv == EncType /\ EncOutput /\ (Running => EncPlace /\ EncRate /\ EncSound)

(* Sixteen bits, the high byte first.                                        *)
LEMMA BytesOfValue ==
  ASSUME NEW val \in Int, val >= -32768, val <= 32767
  PROVE  Signed(256 * HighLow(val)[1] + HighLow(val)[2]) = val
<1> DEFINE q == val \div 256
           m == val % 256
<1>1. q \in Int /\ m \in 0 .. 255 /\ val = 256 * q + m
  OBVIOUS
<1>2. HighLow(val)[1] = q % 256 /\ HighLow(val)[2] = m
  BY DEF HighLow
<1> HIDE DEF q, m
<1>3. q \in Int /\ -128 <= q /\ q <= 127
  BY <1>1
<1>4. q % 256 = IF q >= 0 THEN q ELSE q + 256
  BY <1>3
<1>5. 256 * (q % 256) + m = IF val >= 0 THEN val ELSE val + 65536
  <2>1. CASE q >= 0
    BY <1>1, <1>3, <1>4, <2>1
  <2>2. CASE q < 0
    <3>1. q % 256 = q + 256 /\ val < 0
      BY <1>1, <1>3, <1>4, <2>2
    <3> QED BY <1>1, <3>1
  <2> QED BY <1>3, <2>1, <2>2
<1> QED BY <1>2, <1>5 DEF Signed

LEMMA ValuesKept ==
  ASSUME NEW format \in SourceFormats \ {"none"}, NEW b \in (0 .. 255) \X (0 .. 255)
  PROVE  LET out == Convert(format, b)
         IN  Signed(256 * out[1] + out[2]) = Meaning(format, b)
<1> DEFINE x == b[1]
           y == b[2]
<1>1. x \in 0 .. 255 /\ y \in 0 .. 255
  OBVIOUS
<1> HIDE DEF x, y
<1> HIDE DEF SourceFormats
<1>3. CASE format = "u8"
  <2>1. Convert(format, b) = HighLow(x - 128) /\ Meaning(format, b) = x - 128
    BY <1>3 DEF Convert, Meaning, x, y
  <2>2. x - 128 \in Int /\ x - 128 >= -32768
    BY <1>1
  <2>3. x - 128 <= 32767
    BY <1>1
  <2> QED BY <2>1, <2>2, <2>3, BytesOfValue
<1>4. CASE format = "s16le"
  <2>1. Convert(format, b) = <<y, x>> /\ Meaning(format, b) = Signed(x + 256 * y)
    BY <1>4 DEF Convert, Meaning, x, y
  <2>2. x + 256 * y = 256 * y + x
    BY <1>1
  <2> QED BY <2>1, <2>2
<1>5. CASE format = "s16be"
  <2>1. Convert(format, b) = <<x, y>> /\ Meaning(format, b) = Signed(y + 256 * x)
    BY <1>5 DEF Convert, Meaning, x, y
  <2>2. y + 256 * x = 256 * x + y
    BY <1>1
  <2> QED BY <2>1, <2>2
<1>6. CASE format = "u16le"
  <2>1. /\ Convert(format, b) = HighLow(x + 256 * y - 32768)
        /\ Meaning(format, b) = x + 256 * y - 32768
    BY <1>6 DEF Convert, Meaning, x, y
  <2>2. x + 256 * y - 32768 \in Int /\ x + 256 * y - 32768 >= -32768
    BY <1>1
  <2>3. x + 256 * y - 32768 <= 32767
    BY <1>1
  <2> QED BY <2>1, <2>2, <2>3, BytesOfValue
<1>7. CASE format = "u16be"
  <2>1. /\ Convert(format, b) = HighLow(y + 256 * x - 32768)
        /\ Meaning(format, b) = y + 256 * x - 32768
    BY <1>7 DEF Convert, Meaning, x, y
  <2>2. y + 256 * x - 32768 \in Int /\ y + 256 * x - 32768 >= -32768
    BY <1>1
  <2>3. y + 256 * x - 32768 <= 32767
    BY <1>1
  <2> QED BY <2>1, <2>2, <2>3, BytesOfValue
<1> QED BY <1>3, <1>4, <1>5, <1>6, <1>7 DEF SourceFormats

(* The first of a list of at most five that is offered is one of the list.   *)
LEMMA FirstIsOffered ==
  ASSUME NEW list, NEW set, NEW n \in Nat, DOMAIN list = 1 .. n, Offered(list, set) # {}
  PROVE  \E i \in DOMAIN list : FirstOf(list, set) = list[i] /\ list[i] \in set
<1>1. \E i \in Offered(list, set) : \A k \in Offered(list, set) : i <= k
  <2>1. PICK m \in Offered(list, set) : TRUE
    OBVIOUS
  <2>2. Offered(list, set) \subseteq Nat
    BY DEF Offered
  <2>3. PICK i \in Offered(list, set) : \A k \in Offered(list, set) : ~(k < i)
    BY <2>1, <2>2, Least
  <2> QED BY <2>2, <2>3
<1> DEFINE i == CHOOSE j \in Offered(list, set) : \A k \in Offered(list, set) : j <= k
<1>2. i \in Offered(list, set)
  BY <1>1
<1>3. FirstOf(list, set) = list[i]
  BY DEF FirstOf
<1> HIDE DEF i
<1> QED BY <1>2, <1>3 DEF Offered

(* What a step is at most and at least, in either standard.                  *)
LEMMA StepSizes ==
  ASSUME job \in EncJobs
  PROVE  /\ Step(-1) \in Nat /\ Step(Norm) \in Nat /\ Norm \in {0, 1} /\ PerSecond \in {25, 30}
         /\ Step(-1) >= 1 /\ Step(Norm) >= 1 /\ Step(-1) >= Step(Norm)
         /\ PerSecond = 25 => Step(-1) = Step(Norm)
         /\ ~Slowed => Step(-1) >= 65536 /\ Step(Norm) >= 65536
         /\ Slowed => /\ Step(-1) = (job.fps * 65536) \div 25
                      /\ Step(Norm) = (job.fps * 65536) \div PerSecond
                      /\ Step(Norm) <= 65536
<1>1. PICK fps \in Nat : fps = job.fps
  <2>1. job.fps \in 0 .. MaxFps
    BY EncAssumption
  <2>2. MaxFps \in Int
    BY SMT DEF MaxFps
  <2> QED BY <2>1, <2>2
<1>2. PICK pal \in Int, ntsc \in Int : pal = (fps * 65536) \div 25 /\ ntsc = (fps * 65536) \div 30
  OBVIOUS
<1>3. /\ 25 * pal <= fps * 65536 /\ fps * 65536 < 25 * pal + 25
      /\ 30 * ntsc <= fps * 65536 /\ fps * 65536 < 30 * ntsc + 30
  <2>1. PICK n \in Nat : n = fps * 65536
    OBVIOUS
  <2>2. n \div 25 = pal /\ n \div 30 = ntsc
    BY <1>2, <2>1
  <2>3. 25 * (n \div 25) <= n /\ n < 25 * (n \div 25) + 25
    OBVIOUS
  <2>4. 30 * (n \div 30) <= n /\ n < 30 * (n \div 30) + 30
    OBVIOUS
  <2> QED BY <2>1, <2>2, <2>3, <2>4
<1>4. Norm \in {0, 1} /\ PerSecond = (IF Norm = 0 THEN 30 ELSE 25)
  BY DEF Norm, PerSecond
<1>5. /\ Step(-1) = IF fps = 0 THEN 65536 ELSE pal
      /\ Step(Norm) = IF fps = 0 THEN 65536 ELSE IF Norm # 0 THEN pal ELSE ntsc
  BY <1>1, <1>2 DEF Step
<1>6. fps # 0 => pal >= 1 /\ ntsc >= 1 /\ pal >= ntsc
  BY <1>3
<1>7. fps >= 26 => pal >= 65536
  BY <1>3
<1>8. fps >= 31 => ntsc >= 65536
  BY <1>3
<1>9. (fps <= 25 => pal <= 65536) /\ (fps <= 30 => ntsc <= 65536)
  BY <1>3
<1>10. Slowed <=> fps >= 1 /\ fps <= PerSecond
  BY <1>1, <1>4 DEF Slowed
<1>11. pal >= 0 /\ ntsc >= 0
  BY <1>3
<1>a. CASE Norm = 0
  <2>1. /\ Step(-1) = (IF fps = 0 THEN 65536 ELSE pal)
        /\ Step(Norm) = (IF fps = 0 THEN 65536 ELSE ntsc)
    BY <1>5, <1>a
  <2>2. PerSecond = 30 /\ (Slowed <=> fps >= 1 /\ fps <= 30)
    BY <1>4, <1>10, <1>a
  <2> HIDE DEF Norm, PerSecond, Slowed
  <2>3. /\ Step(-1) \in Nat /\ Step(Norm) \in Nat
        /\ Step(-1) >= 1 /\ Step(Norm) >= 1 /\ Step(-1) >= Step(Norm)
    BY <1>6, <1>11, <2>1
  <2>4. ~Slowed => Step(-1) >= 65536 /\ Step(Norm) >= 65536
    BY <1>7, <1>8, <2>1, <2>2
  <2>5. Slowed => /\ Step(-1) = (fps * 65536) \div 25
                  /\ Step(Norm) = (fps * 65536) \div 30
                  /\ Step(Norm) <= 65536
    BY <1>2, <1>9, <2>1, <2>2
  <2> QED BY <1>1, <1>a, <2>2, <2>3, <2>4, <2>5
<1>b. CASE Norm = 1
  <2>1. /\ Step(-1) = (IF fps = 0 THEN 65536 ELSE pal)
        /\ Step(Norm) = (IF fps = 0 THEN 65536 ELSE pal)
    BY <1>5, <1>b
  <2>2. PerSecond = 25 /\ (Slowed <=> fps >= 1 /\ fps <= 25)
    BY <1>4, <1>10, <1>b
  <2> HIDE DEF Norm, PerSecond, Slowed
  <2>3. /\ Step(-1) \in Nat /\ Step(Norm) \in Nat
        /\ Step(-1) >= 1 /\ Step(Norm) >= 1 /\ Step(-1) = Step(Norm)
    BY <1>6, <1>11, <2>1
  <2>4. ~Slowed => Step(-1) >= 65536 /\ Step(Norm) >= 65536
    BY <1>7, <2>1, <2>2
  <2>5. Slowed => /\ Step(-1) = (fps * 65536) \div 25
                  /\ Step(Norm) = (fps * 65536) \div 25
                  /\ Step(Norm) <= 65536
    BY <1>2, <1>9, <2>1, <2>2
  <2> QED BY <1>1, <1>b, <2>2, <2>3, <2>4, <2>5
<1> QED BY <1>4, <1>a, <1>b

(* As many pictures as the rate needs: what the step loses is at most one    *)
(* 65536th of a picture each time.                                           *)
AtRate(ps, fps, step, first, n, e, skip) ==
  /\ ps \in {25, 30} /\ fps \in Nat /\ 1 <= fps /\ fps <= ps
  /\ step \in Nat /\ step = (fps * 65536) \div ps
  /\ first \in Nat /\ (first = step \/ (ps = 30 /\ first = (fps * 65536) \div 25))
  /\ n \in Nat /\ n >= 1 /\ e \in Nat /\ skip \in Int /\ skip < 65536
  /\ skip < 0 => e = n
  /\ 65536 * e = first + (n - 1) * step + skip
LEMMA RateIsRight ==
  ASSUME NEW ps, NEW fps, NEW step, NEW first, NEW n, NEW e, NEW skip,
         AtRate(ps, fps, step, first, n, e, skip)
  PROVE  e * ps \in n * fps - (n * ps) \div 65536 .. (n + 1) * fps + ps
<1>0. /\ ps \in {25, 30} /\ fps \in Nat /\ 1 <= fps /\ fps <= ps
      /\ step \in Nat /\ step = (fps * 65536) \div ps
      /\ first \in Nat /\ (first = step \/ (ps = 30 /\ first = (fps * 65536) \div 25))
      /\ n \in Nat /\ n >= 1 /\ e \in Nat /\ skip \in Int /\ skip < 65536
      /\ skip < 0 => e = n
      /\ 65536 * e = first + (n - 1) * step + skip
  BY DEF AtRate
<1> USE <1>0
<1> DEFINE r == fps * 65536 - ps * step
           p == (n - 1) * step
           m == (n - 1) * r
           f == (n - 1) * fps
<1>2. r \in Nat /\ r <= ps - 1
  <2>1. PICK k \in Nat : k = fps * 65536
    OBVIOUS
  <2>2. CASE ps = 25
    <3>1. 25 * (k \div 25) <= k /\ k < 25 * (k \div 25) + 25
      OBVIOUS
    <3> QED BY <2>1, <2>2, <3>1
  <2>3. CASE ps = 30
    <3>1. 30 * (k \div 30) <= k /\ k < 30 * (k \div 30) + 30
      OBVIOUS
    <3> QED BY <2>1, <2>3, <3>1
  <2> QED BY <2>2, <2>3
<1>3. p \in Nat /\ m \in Nat /\ f \in Nat /\ m <= (n - 1) * (ps - 1)
  <2>1. n - 1 \in Nat
    OBVIOUS
  <2>2. ASSUME NEW a \in Nat, NEW b \in Nat, NEW c \in Nat, b <= c
        PROVE  a * b \in Nat /\ a * b <= a * c
    <3>a. PICK g \in Nat : g = c - b
      BY <2>2
    <3>1. a * b \in Nat /\ a * g \in Nat
      OBVIOUS
    <3>2. a * c = a * (b + g)
      BY <3>a
    <3>3. a * (b + g) = a * b + a * g
      OBVIOUS
    <3> QED BY <3>1, <3>2, <3>3
  <2>3. ps - 1 \in Nat
    OBVIOUS
  <2> QED BY <1>2, <2>1, <2>2, <2>3
<1>4. ps * p = f * 65536 - m
  <2>1. ps \in Int /\ n \in Int /\ step \in Int /\ fps \in Int
    OBVIOUS
  <2>2. ps * ((n - 1) * step) = ((n - 1) * fps) * 65536 - (n - 1) * (fps * 65536 - ps * step)
    BY ONLY <2>1
  <2> QED BY <2>2
<1>5. n * fps = f + fps /\ (n + 1) * fps = f + fps + fps
  OBVIOUS
<1>6. PICK d \in Nat : d = (n * ps) \div 65536 /\ 65536 * d <= n * ps /\ n * ps < 65536 * d + 65536
  <2>1. PICK k \in Nat : k = n * ps
    OBVIOUS
  <2>2. 65536 * (k \div 65536) <= k /\ k < 65536 * (k \div 65536) + 65536 /\ k \div 65536 \in Nat
    OBVIOUS
  <2> QED BY <2>1, <2>2
<1>7. ps * first >= fps * 65536 - (ps - 1) /\ ps * first <= 2 * (fps * 65536)
  <2>1. PICK k \in Nat : k = fps * 65536
    OBVIOUS
  <2>2. CASE first = step
    <3>1. ps * first = ps * step /\ ps * step \in Int
      BY <2>2
    <3>2. ps * first = k - r
      BY <2>1, <3>1
    <3> HIDE DEF r
    <3> QED BY <1>2, <2>1, <3>2
  <2>3. CASE ps = 30 /\ first = (fps * 65536) \div 25
    <3>1. 25 * first <= k /\ k < 25 * first + 25
      <4>1. 25 * (k \div 25) <= k /\ k < 25 * (k \div 25) + 25
        OBVIOUS
      <4> QED BY <2>1, <2>3, <4>1
    <3>2. k >= 65536
      BY <2>1
    <3> QED BY <2>1, <2>3, <3>1, <3>2
  <2> QED BY <2>2, <2>3
<1>8. 65536 * (ps * e) = ps * first + ps * p + ps * skip
  <2>1. p \in Nat
    BY <1>3
  <2>2. 65536 * e = first + p + skip
    OBVIOUS
  <2> HIDE DEF p
  <2>3. ps * (65536 * e) = ps * (first + p + skip)
    BY <2>2
  <2>4. ps * (first + p + skip) = ps * first + ps * p + ps * skip
    BY <2>1
  <2>5. ps * (65536 * e) = 65536 * (ps * e)
    OBVIOUS
  <2> QED BY <2>3, <2>4, <2>5
<1>9. ps * skip <= ps * 65535 /\ (skip >= 0 => ps * skip >= 0)
  <2>1. CASE ps = 25
    BY <2>1
  <2>2. CASE ps = 30
    BY <2>2
  <2> QED BY <2>1, <2>2
<1>10. (n - 1) * (ps - 1) <= n * ps - (ps - 1)
  <2>1. (n - 1) * (ps - 1) = n * ps - n - (ps - 1)
    OBVIOUS
  <2>2. n * ps \in Nat
    OBVIOUS
  <2> QED BY <2>1, <2>2
<1> DEFINE x == ps * e
           k == n * ps
<1>11. x \in Nat /\ k \in Nat /\ e * ps = x
  OBVIOUS
<1> DEFINE pf == ps * first
           pp == ps * p
           psk == ps * skip
<1>12. pf \in Int /\ pp \in Int /\ psk \in Int
  BY <1>3
<1>13. x <= f + fps + fps + ps
  <2> HIDE DEF x, k, pf, pp, psk, f, m
  <2>1. 65536 * x = pf + pp + psk /\ pp = f * 65536 - m /\ psk <= ps * 65535 /\ pf <= 2 * (fps * 65536)
    BY <1>4, <1>7, <1>8, <1>9 DEF x, pf, pp, psk
  <2>2. CASE ps = 25
    BY <1>3, <1>11, <1>12, <2>1, <2>2
  <2>3. CASE ps = 30
    BY <1>3, <1>11, <1>12, <2>1, <2>3
  <2> QED BY <2>2, <2>3
<1>14. x >= f + fps - d
  <2>1. CASE skip < 0
    <3>1. x = n * ps
      BY <2>1
    <3>2. n * ps = n * fps + n * (ps - fps) /\ n * (ps - fps) >= 0
      <4>1. ps - fps \in Nat
        OBVIOUS
      <4> QED BY <4>1
    <3> HIDE DEF x, f
    <3>3. n * fps \in Nat /\ n * (ps - fps) \in Int
      OBVIOUS
    <3> QED BY <1>3, <1>5, <1>6, <1>11, <3>1, <3>2, <3>3
  <2>2. CASE skip >= 0
    <3> HIDE DEF x, k, pf, pp, psk, f, m
    <3>1. 65536 * x = pf + pp + psk /\ pp = f * 65536 - m /\ psk >= 0
      BY <1>4, <1>8, <1>9, <2>2 DEF x, pf, pp, psk
    <3>2. pf >= fps * 65536 - (ps - 1)
      BY <1>7 DEF pf
    <3>3. PICK z \in Int : z = (n - 1) * (ps - 1)
      OBVIOUS
    <3>4. m <= z /\ z <= k - (ps - 1) /\ k < 65536 * d + 65536
      BY <1>3, <1>6, <1>10, <3>3 DEF k
    <3> QED BY <1>3, <1>11, <1>12, <3>1, <3>2, <3>4
  <2> QED BY <2>1, <2>2
<1>15. x \in n * fps - d .. (n + 1) * fps + ps
  <2> HIDE DEF x, f
  <2>1. n * fps \in Int /\ (n + 1) * fps \in Int
    OBVIOUS
  <2> QED BY <1>3, <1>5, <1>6, <1>11, <1>13, <1>14, <2>1
<1> QED BY <1>6, <1>11, <1>15

LEMMA FrameIsAdded ==
  ASSUME stored \in Seq(EncFrame), NEW r \in EncFrame, stored' = Append(stored, r),
         NEW last \in Nat, last = Frames
  PROVE  /\ stored' \in Seq(EncFrame) /\ Frames' = last + 1 /\ stored'[last + 1] = r
         /\ \A n \in 1 .. last : stored'[n] = stored[n]
         /\ \A n \in 0 .. last : Encoded(n) \in Nat /\ Encoded(n)' = Encoded(n)
         /\ Encoded(last + 1)' = Encoded(last) + (IF r.encoded THEN 1 ELSE 0)
<1>1. /\ stored' \in Seq(EncFrame) /\ Len(stored') = last + 1 /\ stored'[last + 1] = r
      /\ \A n \in 1 .. last : stored'[n] = stored[n]
  BY AppendProperties DEF Frames
<1>2. ASSUME NEW n \in 0 .. last
      PROVE  /\ Encoded(n) \in Nat /\ Encoded(n)' = Encoded(n)
             /\ IsFiniteSet({k \in 1 .. n : stored[k].encoded})
  <2> DEFINE T == {k \in 1 .. n : stored[k].encoded}
  <2>1. IsFiniteSet(1 .. n) /\ T \subseteq 1 .. n
    BY FS_Interval
  <2>2. IsFiniteSet(T) /\ Cardinality(T) \in Nat
    BY <2>1, FS_Subset, FS_CardinalityType
  <2>3. \A k \in 1 .. n : stored'[k] = stored[k]
    BY <1>1
  <2>4. {k \in 1 .. n : stored'[k].encoded} = T
    BY <2>3
  <2> QED BY <2>2, <2>4 DEF Encoded
<1>3. Encoded(last + 1)' = Encoded(last) + (IF r.encoded THEN 1 ELSE 0)
  <2> DEFINE T == {k \in 1 .. last : stored[k].encoded}
             U == {k \in 1 .. last + 1 : stored'[k].encoded}
  <2>1. IsFiniteSet(T) /\ last + 1 \notin T
    BY <1>2
  <2>2. U = IF r.encoded THEN T \cup {last + 1} ELSE T
    <3>1. 1 .. last + 1 = (1 .. last) \cup {last + 1}
      OBVIOUS
    <3> QED BY <1>1, <3>1
  <2> HIDE DEF T, U
  <2>3. Cardinality(U) = Cardinality(T) + (IF r.encoded THEN 1 ELSE 0)
    <3>1. Cardinality(T) \in Nat /\ Cardinality(T \cup {last + 1}) = Cardinality(T) + 1
      BY <2>1, FS_AddElement, FS_CardinalityType
    <3> QED BY <2>2, <3>1
  <2> QED BY <2>3 DEF T, U, Encoded
<1> QED BY <1>1, <1>2, <1>3 DEF Frames

LEMMA EncodedType ==
  ASSUME stored \in Seq(EncFrame)
  PROVE  Encoded(Frames) \in Nat
<1>1. Frames \in Nat
  BY DEF Frames
<1> DEFINE T == {k \in 1 .. Frames : stored[k].encoded}
<1>2. IsFiniteSet(1 .. Frames) /\ T \subseteq 1 .. Frames
  BY <1>1, FS_Interval
<1>3. Cardinality(T) \in Nat
  BY <1>2, FS_Subset, FS_CardinalityType
<1> QED BY <1>3 DEF Encoded

LEMMA NoneEncoded == Encoded(0) = 0
<1>1. {k \in 1 .. 0 : stored[k].encoded} = {}
  OBVIOUS
<1> QED BY <1>1, FS_EmptySet DEF Encoded

LEMMA SoundStays ==
  ASSUME NEW n, SoundAt(n), job' = job, stored'[n] = stored[n], n > 1 => stored'[n - 1] = stored[n - 1],
         sound'.bytespersecond = sound.bytespersecond, sound'.rate = sound.rate,
         sound.read = job.source.length => sound'.read = job.source.length
  PROVE  SoundAt(n)'
<1>1. stored'[n].sound = stored[n].sound /\ stored'[n].norm = stored[n].norm
  OBVIOUS
<1>2. n > 1 => stored'[n - 1].sound = stored[n - 1].sound
  OBVIOUS
<1> QED BY <1>1, <1>2 DEF SoundAt, InStepAt

LEMMA RateStays ==
  ASSUME NEW n, RateAt(n), job' = job, stored'[n] = stored[n],
         stored[n].encoded \/ stored'[n - 1] = stored[n - 1], Encoded(n)' = Encoded(n)
  PROVE  RateAt(n)'
<1>1. Norm' = Norm /\ PerSecond' = PerSecond /\ Slowed' = Slowed
  BY DEF Norm, PerSecond, Slowed
<1> QED BY <1>1 DEF RateAt

LEMMA OutputStays ==
  ASSUME EncType, EncOutput, UNCHANGED <<job, stored>>,
         stored # <<>> => /\ sound'.bytespersecond = sound.bytespersecond /\ sound'.rate = sound.rate
                          /\ job.audio = "wav" /\ sound.read = job.source.length
                               => sound'.read = job.source.length
  PROVE  EncOutput'
<1>1. Frames' = Frames /\ Norm' = Norm /\ \A n : Encoded(n)' = Encoded(n)
  BY DEF Frames, Norm, Encoded
<1>2. ASSUME NEW n \in 1 .. Frames, job.audio = "wav" PROVE SoundAt(n)'
  <2>1. SoundAt(n)
    BY <1>2 DEF EncOutput
  <2>2. stored # <<>>
    BY DEF Frames
  <2> QED BY <1>2, <2>1, <2>2, SoundStays
<1>3. ASSUME NEW n \in 1 .. Frames PROVE RateAt(n)'
  BY <1>1, RateStays DEF EncOutput
<1> QED BY <1>1, <1>2, <1>3 DEF EncOutput

(* The steps that leave the loop.                                            *)
LEMMA EndKeeps ==
  ASSUME EncInv, encPc' \in {"refused", "failed", "exit 0", "crashed"},
         UNCHANGED <<job, sound, stored>>
  PROVE  EncInv'
<1>1. EncType'
  BY DEF EncInv, EncType, Running, SoundOpened
<1>2. EncOutput'
  BY OutputStays DEF EncInv
<1>3. ~Running'
  BY DEF Running
<1> QED BY <1>1, <1>2, <1>3 DEF EncInv

LEMMA EncInitInv == EncInit => EncInv
<1> SUFFICES ASSUME EncInit PROVE EncInv
  OBVIOUS
<1>1. /\ job \in EncJobs /\ encPc = "main" /\ stored = <<>> /\ sound = <<>>
  BY DEF EncInit
<1>2. Len(stored) = 0 /\ stored \in Seq(EncFrame)
  BY <1>1
<1> QED BY <1>1, <1>2 DEF EncInit, EncInv, EncType, EncOutput, Running, Frames

LEMMA FinishKeeps == EncInv /\ Finish => EncInv'
BY EndKeeps DEF Finish

LEMMA MainKeeps == EncInv /\ Main => EncInv'
<1> SUFFICES ASSUME EncInv, Main PROVE EncInv'
  OBVIOUS
<1>1. CASE encPc' = "refused" \/ encPc' = "failed"
  <2>1. UNCHANGED <<job, sound, stored>>
    BY <1>1 DEF Main
  <2> QED BY <1>1, <2>1, EndKeeps
<1>2. CASE encPc' # "refused" /\ encPc' # "failed"
  <2>1. PICK stale \in StaleBytes :
          /\ Accepted(job) /\ AudioReady(job) /\ encPc' = "sound"
          /\ sound' = [bytesperframe |-> stale, read |-> 0, data |-> NoPiece,
                       format |-> AudioInit(job).format, rate |-> AudioInit(job).rate,
                       bytespersecond |-> AudioInit(job).bytespersecond]
    BY <1>2 DEF Main
  <2>2. /\ UNCHANGED <<job, frameNo, isPAL, streamPos, skipFrameCount, target, stored>>
        /\ encPc = "main"
    BY DEF Main
  <2>3. /\ stored = <<>> /\ frameNo = 0 /\ isPAL = -1 /\ streamPos = 0
        /\ skipFrameCount = 0 /\ target = -1 /\ job \in EncJobs /\ stored \in Seq(EncFrame)
    BY <2>2 DEF EncInv, EncType, Running
  <2>4. stale \in Int /\ NoPiece \in SoundPiece
    <3>1. stale \in Int
      <4>1. StaleBytes \subseteq Nat
        BY EncAssumption, Zenon
      <4> QED BY <4>1
    <3>2. NoPiece \in SoundPiece
      BY DEF NoPiece, SoundPiece
    <3> QED BY <3>1, <3>2
  <2> DEFINE a == AudioInit(job)
  <2>5. a.format \in SourceFormats /\ a.rate \in Int /\ a.bytespersecond \in Int
    <3>1. CASE job.audio = "none"
      BY <3>1 DEF AudioInit, SourceFormats
    <3>2. CASE job.audio = "wav"
      <4>1. WavReady(job.source) /\ a = WavInit(job.source)
        BY <2>1, <3>2 DEF AudioInit, AudioReady
      <4>2. job.source.bytespersecond \in Nat
        BY <2>3, <3>2, EncAssumption
      <4> QED BY <4>1, <4>2 DEF WavInit, WavReady, SourceFormats
    <3>3. CASE job.audio = "dsp"
      <4>1. DspReady(job.source) /\ a = DspInit(job.source)
        BY <2>1, <3>3 DEF AudioInit, AudioReady
      <4>2. DOMAIN DspFormats = 1 .. 5 /\ DOMAIN DspRates = 1 .. 3
        BY DEF DspFormats, DspRates
      <4>3. FirstOf(DspFormats, job.source.formats) \in SourceFormats
        <5>1. PICK i \in 1 .. 5 : FirstOf(DspFormats, job.source.formats) = DspFormats[i]
          BY <4>1, <4>2, FirstIsOffered DEF DspReady
        <5> QED BY <5>1 DEF DspFormats, SourceFormats
      <4>4. FirstOf(DspRates, job.source.rates) \in Int
        <5>1. PICK i \in 1 .. 3 : FirstOf(DspRates, job.source.rates) = DspRates[i]
          BY <4>1, <4>2, FirstIsOffered DEF DspReady
        <5> QED BY <5>1 DEF DspRates
      <4> QED BY <4>1, <4>3, <4>4 DEF DspInit
    <3> QED BY <2>1, <3>1, <3>2, <3>3 DEF Accepted
  <2>6. SoundOpened'
    <3>1. sound' \in SoundState
      BY <2>1, <2>4, <2>5 DEF SoundState
    <3>2. job.audio = "wav" => /\ WavReady(job.source) /\ sound'.rate = job.source.rate
                               /\ sound'.bytespersecond = job.source.bytespersecond
      BY <2>1 DEF AudioReady, AudioInit, WavInit
    <3>3. job.audio \in {"none", "wav", "dsp"}
      BY <2>1 DEF Accepted
    <3> QED BY <2>2, <3>1, <3>2, <3>3 DEF SoundOpened
  <2>7. EncType'
    BY <2>1, <2>2, <2>3, <2>6 DEF EncType
  <2>8. Frames' = 0 /\ EncOutput'
    BY <2>2, <2>3 DEF Frames, EncOutput
  <2>9. EncPlace'
    <3>1. job.start \in Nat
      BY <2>3, EncAssumption
    <3>2. Unknown' \in Nat /\ Unknown' >= 1
      BY <2>2, <3>1 DEF Unknown
    <3> QED BY <2>1, <2>2, <2>3, <2>8, <3>1, <3>2 DEF EncPlace
  <2>10. EncRate'
    BY <2>1, <2>2, <2>3, <2>8 DEF EncRate
  <2>11. EncSound'
    <3> SUFFICES ASSUME job.audio = "wav" PROVE FileInStep'
      BY <2>2 DEF EncSound
    <3>1. Loads' = 0 /\ sound'.read = 0 /\ sound'.data = NoPiece /\ sound'.bytespersecond \in Int
      BY <2>1, <2>2, <2>3, <2>5 DEF Loads
    <3>2. job.source.length \in Nat /\ job.start \in Nat
      BY <2>3, EncAssumption
    <3>3. PieceOf(1)' \in Int
      BY <3>1 DEF PieceOf
    <3>4. SoundOf(0)' = 0
      BY <2>2, <3>2, <3>3 DEF SoundOf, Unknown
    <3> QED BY <2>1, <2>2, <2>8, <3>1, <3>2, <3>4 DEF FileInStep
  <2> QED BY <2>7, <2>8, <2>9, <2>10, <2>11 DEF EncInv
<1> QED BY <1>1, <1>2

(* A second of sound in pieces for pictures of the two standards.            *)
LEMMA PieceSizes ==
  ASSUME EncType, job.audio = "wav", job.source.channels = 2, Running
  PROVE  /\ sound.rate \in {32000, 44100, 48000} /\ sound.bytespersecond = 4 * sound.rate
         /\ sound.rate = 32000 => PieceOf(1) = 5120 /\ PieceOf(0) = 4266
         /\ sound.rate = 44100 => PieceOf(1) = 7056 /\ PieceOf(0) = 5880
         /\ sound.rate = 48000 => PieceOf(1) = 7680 /\ PieceOf(0) = 6400
<1>1. SoundOpened /\ job \in EncJobs
  BY DEF EncType
<1>2. /\ sound.rate \in {32000, 44100, 48000} /\ sound.bytespersecond = 4 * sound.rate
  <2>1. /\ WavReady(job.source) /\ sound.rate = job.source.rate
        /\ sound.bytespersecond = job.source.bytespersecond
    BY <1>1 DEF SoundOpened
  <2>2. job.source.bytespersecond = 4 * job.source.rate
    BY <1>1, EncAssumption
  <2> QED BY <2>1, <2>2 DEF WavReady
<1>3. /\ PieceOf(1) = sound.bytespersecond \div 25 /\ PieceOf(0) = sound.bytespersecond \div 30
  BY DEF PieceOf
<1>4. /\ 128000 \div 25 = 5120 /\ 128000 \div 30 = 4266 /\ 176400 \div 25 = 7056
      /\ 176400 \div 30 = 5880 /\ 192000 \div 25 = 7680 /\ 192000 \div 30 = 6400
  OBVIOUS
<1> QED BY <1>2, <1>3, <1>4

LEMMA SoundGrows ==
  ASSUME EncType, job.audio = "wav", job.source.channels = 2, Running, NEW k \in Nat
  PROVE  /\ SoundOf(k) \in Nat
         /\ SoundOf(k + 1) = SoundOf(k) + (IF k < Unknown THEN PieceOf(1) ELSE PieceOf(Norm))
         /\ PieceOf(1) \in Nat /\ PieceOf(Norm) \in Nat /\ PieceOf(Norm) >= 1
         /\ PieceOf(Norm) <= PieceOf(1)
<1>1. PICK u \in Nat : u = Unknown
  <2>1. job \in EncJobs
    BY DEF EncType
  <2>2. job.start \in Nat
    BY <2>1, EncAssumption
  <2>3. Unknown \in Nat
    BY <2>2 DEF Unknown
  <2> QED BY <2>3
<1>2. PieceOf(1) \in Nat /\ PieceOf(Norm) \in Nat /\ PieceOf(Norm) >= 1 /\ PieceOf(Norm) <= PieceOf(1)
  <2>1. Norm \in {0, 1}
    BY DEF Norm
  <2> QED BY <2>1, PieceSizes
<1>3. PICK p \in Nat, q \in Nat : p = PieceOf(1) /\ q = PieceOf(Norm)
  BY <1>2
<1>4. ASSUME NEW i \in Nat PROVE i * p \in Nat /\ i * q \in Nat
  OBVIOUS
<1>5. SoundOf(k) = IF k <= u THEN k * p ELSE u * p + (k - u) * q
  BY <1>1, <1>3 DEF SoundOf
<1>6. SoundOf(k + 1) = IF k + 1 <= u THEN (k + 1) * p ELSE u * p + (k + 1 - u) * q
  BY <1>1, <1>3 DEF SoundOf
<1>7. CASE k < u
  <2>1. (k + 1) * p = k * p + p /\ k * p \in Nat
    BY <1>4
  <2>2. SoundOf(k) = k * p /\ SoundOf(k + 1) = (k + 1) * p
    BY <1>5, <1>6, <1>7
  <2> QED BY <1>1, <1>2, <1>3, <1>7, <2>1, <2>2
<1>8. CASE k = u
  <2>1. SoundOf(k) = u * p /\ SoundOf(k + 1) = u * p + q /\ u * p \in Nat
    BY <1>4, <1>5, <1>6, <1>8
  <2> QED BY <1>1, <1>2, <1>3, <1>8, <2>1
<1>9. CASE k > u
  <2>1. PICK i \in Nat : i = k - u
    BY <1>9
  <2>2. SoundOf(k) = u * p + i * q /\ SoundOf(k + 1) = u * p + (i + 1) * q
    BY <1>5, <1>6, <1>9, <2>1
  <2>3. (i + 1) * q = i * q + q /\ i * q \in Nat /\ u * p \in Nat
    BY <1>4
  <2> QED BY <1>1, <1>2, <1>3, <1>9, <2>2, <2>3
<1> QED BY <1>7, <1>8, <1>9

(* A piece of sound is loaded, with what was known before of the standard.   *)
LEMMA PieceIsHeard ==
  ASSUME sound \in SoundState, NEW n \in Int, NEW size \in Int, Hears(n, size)
  PROVE  /\ sound' \in SoundState
         /\ sound'.rate = sound.rate /\ sound'.bytespersecond = sound.bytespersecond
         /\ sound'.read = sound.read + n /\ sound'.data.from = sound.read
<1>1. [from |-> sound.read, size |-> size, fresh |-> n] \in SoundPiece /\ sound.read + n \in Int
  BY DEF SoundState, SoundPiece
<1> QED BY <1>1 DEF Hears, SoundState

LEMMA LessIsHeard ==
  ASSUME sound \in SoundState, NEW n \in Int, NEW size \in Int, HearsLess(n, size)
  PROVE  /\ sound' \in SoundState
         /\ sound'.rate = sound.rate /\ sound'.bytespersecond = sound.bytespersecond
         /\ sound'.read = sound.read + n /\ sound'.data = sound.data
<1>1. sound.read + n \in Int
  BY DEF SoundState
<1> QED BY <1>1 DEF HearsLess, SoundState

LEMMA WavIsLoaded ==
  ASSUME EncType, EncPlace, EncSound, job.audio = "wav", job.source.channels = 2,
         encPc = "sound", WavLoad, encPc' = "picture",
         UNCHANGED <<job, frameNo, stored>>
  PROVE  EncSound' /\ (sound.read = job.source.length => sound'.read = job.source.length)
<1>1. PICK k \in Nat : k = frameNo
  BY DEF EncPlace
<1>2. Running /\ Loads = k /\ Loads' = k + 1 /\ Norm' = Norm /\ Unknown' = Unknown /\ Frames' = Frames
  BY <1>1 DEF Running, Loads, Norm, Unknown, Frames
<1>3. sound \in SoundState /\ job.source.length \in Nat /\ sound.read \in Int
  <2>1. SoundOpened /\ job \in EncJobs
    BY <1>2 DEF EncType
  <2>2. job.source.length \in Nat
    BY <2>1, EncAssumption
  <2> QED BY <2>1, <2>2 DEF SoundOpened, SoundState
<1> DEFINE size == Bytesperframe(isPAL)
<1>4. size = IF k < Unknown THEN PieceOf(1) ELSE PieceOf(Norm)
  <2>1. isPAL = IF k >= Unknown THEN Norm ELSE -1
    BY <1>1 DEF EncPlace
  <2>2. Norm \in {0, 1} /\ Unknown \in Nat
    <3>1. job \in EncJobs
      BY DEF EncType
    <3>2. job.start \in Nat
      BY <3>1, EncAssumption
    <3> QED BY <3>2 DEF Norm, Unknown
  <2> QED BY <2>1, <2>2 DEF Bytesperframe, PieceOf
<1>5. /\ SoundOf(k) \in Nat /\ SoundOf(k + 1) = SoundOf(k) + size /\ size \in Nat /\ size >= 1
      /\ PieceOf(1) \in Nat /\ size <= PieceOf(1)
  BY <1>2, <1>4, SoundGrows
<1> DEFINE left == job.source.length - sound.read
<1> HIDE DEF size
<1>6. left \in Int /\ (left >= size => Hears(size, size)) /\ (~(left >= size) => HearsLess(left, size))
  <2>1. IF left >= size THEN Hears(size, size) ELSE HearsLess(left, size)
    BY DEF WavLoad, size
  <2> QED BY <1>3, <2>1
<1>7. FileInStep \/ FileOver
  BY DEF EncSound
<1>8. sound.data.from \in Int
  BY <1>3 DEF SoundState, SoundPiece
<1>a. CASE left >= size
  <2>1. Hears(size, size)
    BY <1>6, <1>a
  <2>2. /\ sound'.bytespersecond = sound.bytespersecond
        /\ sound'.read = sound.read + size /\ sound'.data.from = sound.read
    BY <1>3, <1>5, <2>1, PieceIsHeard
  <2>3. sound.read # job.source.length
    BY <1>3, <1>5, <1>a
  <2>4. FileInStep
    BY <1>7, <2>3 DEF FileOver
  <2>5. sound'.read = SoundOf(k + 1) /\ sound'.read <= job.source.length
        /\ sound'.data.from = SoundOf(k)
    BY <1>2, <1>3, <1>5, <1>a, <2>2, <2>4 DEF FileInStep
  <2>6. SoundOf(k + 1)' = SoundOf(k + 1) /\ SoundOf(k)' = SoundOf(k)
    BY <1>2, <2>2 DEF SoundOf, PieceOf
  <2>7. Loads' # 0 /\ Loads' - 1 = k
    BY <1>2
  <2>8. FileInStep'
    BY <1>2, <2>5, <2>6, <2>7 DEF FileInStep
  <2> QED BY <2>3, <2>8 DEF EncSound
<1>b. CASE ~(left >= size)
  <2>1. HearsLess(left, size)
    BY <1>6, <1>b
  <2>2. /\ sound'.bytespersecond = sound.bytespersecond
        /\ sound'.read = sound.read + left /\ sound'.data = sound.data
    BY <1>3, <1>5, <1>6, <2>1, LessIsHeard
  <2>3. sound'.read = job.source.length
    BY <1>3, <2>2
  <2>4. Frames > 0 => sound.data = stored[Frames].sound
    BY <1>7 DEF FileInStep, FileOver
  <2>5. sound.data.from + 2 * PieceOf(1) > job.source.length
    <3>1. CASE FileOver
      BY <3>1 DEF FileOver
    <3>2. CASE FileInStep /\ k = 0
      <4>1. SoundOf(0) = 0
        <5>1. Unknown >= 0
          <6>1. job \in EncJobs
            BY DEF EncType
          <6>2. job.start \in Nat
            BY <6>1, EncAssumption
          <6> QED BY <6>2 DEF Unknown
        <5> QED BY <1>5, <5>1 DEF SoundOf
      <4>2. sound.read = 0 /\ sound.data.from = -1
        BY <1>2, <3>2, <4>1 DEF FileInStep, NoPiece
      <4> QED BY <1>3, <1>5, <1>b, <4>2
    <3>3. CASE FileInStep /\ k # 0
      <4>1. PICK i \in Nat : k = i + 1
        BY <3>3
      <4>2. sound.read = SoundOf(i + 1) /\ sound.data.from = SoundOf(i)
        BY <1>2, <3>3, <4>1 DEF FileInStep
      <4>3. SoundOf(i) \in Nat /\ SoundOf(i + 1) <= SoundOf(i) + PieceOf(1)
        BY <1>2, SoundGrows
      <4> QED BY <1>3, <1>5, <1>b, <4>2, <4>3
    <3> QED BY <1>7, <3>1, <3>2, <3>3
  <2>6. PieceOf(1)' = PieceOf(1)
    BY <2>2 DEF PieceOf
  <2>7. FileOver'
    BY <1>2, <2>2, <2>3, <2>4, <2>5, <2>6 DEF FileOver
  <2> QED BY <2>3, <2>7 DEF EncSound
<1> QED BY <1>a, <1>b

LEMMA LoadSoundKeeps == EncInv /\ LoadSound => EncInv'
<1> SUFFICES ASSUME EncInv, LoadSound PROVE EncInv'
  OBVIOUS
<1>1. /\ encPc = "sound" /\ encPc' = "picture"
      /\ UNCHANGED <<job, frameNo, isPAL, streamPos, skipFrameCount, target, stored>>
      /\ CASE job.audio = "none" -> UNCHANGED sound
            [] job.audio = "wav"  -> WavLoad
            [] job.audio = "dsp"  -> DspLoad
  BY DEF LoadSound
<1>2. EncType /\ EncOutput /\ EncPlace /\ EncRate /\ EncSound /\ SoundOpened
  BY <1>1 DEF EncInv, EncType, Running
<1>3. /\ sound' \in SoundState
      /\ sound'.rate = sound.rate /\ sound'.bytespersecond = sound.bytespersecond
  <2>1. /\ sound \in SoundState /\ job.audio \in {"none", "wav", "dsp"} /\ job \in EncJobs
    BY <1>2 DEF SoundOpened, EncType
  <2>2. /\ Bytesperframe(isPAL) \in Int /\ sound.bytesperframe \in Int /\ sound.read \in Int
        /\ sound.bytesperframe \div 2 \in Int /\ (sound.bytesperframe \div 2) \div 2 \in Int
    BY <2>1 DEF Bytesperframe, SoundState
  <2> DEFINE size == Bytesperframe(isPAL)
             left == job.source.length - sound.read
             wanted == IF sound.format = "u8" THEN sound.bytesperframe \div 2
                       ELSE sound.bytesperframe
  <2>3. size \in Int /\ wanted \in Int /\ wanted \div 2 \in Int
    BY <2>2
  <2>4. CASE job.audio = "wav"
    <3>1. job.source.length \in Nat
      BY <2>1, <2>4, EncAssumption
    <3>2. left \in Int
      BY <2>2, <3>1
    <3>3. Hears(size, size) \/ HearsLess(left, size)
      BY <1>1, <2>4 DEF WavLoad
    <3> HIDE DEF size, left, wanted
    <3> QED BY <2>1, <2>3, <3>2, <3>3, PieceIsHeard, LessIsHeard
  <2>5. CASE job.audio = "dsp"
    <3>1. Hears(wanted, size) \/ HearsLess(wanted \div 2, size)
      BY <1>1, <2>5 DEF DspLoad
    <3> HIDE DEF size, left, wanted
    <3> QED BY <2>1, <2>3, <3>1, PieceIsHeard, LessIsHeard
  <2>6. CASE job.audio = "none"
    BY <1>1, <2>1, <2>6
  <2> QED BY <2>1, <2>4, <2>5, <2>6
<1>4. job.audio = "wav" /\ job.source.channels = 2
        => EncSound' /\ (sound.read = job.source.length => sound'.read = job.source.length)
  <2> SUFFICES ASSUME job.audio = "wav", job.source.channels = 2
               PROVE  EncSound' /\ (sound.read = job.source.length => sound'.read = job.source.length)
    OBVIOUS
  <2>1. WavLoad
    BY <1>1
  <2> QED BY <1>1, <1>2, <2>1, WavIsLoaded
<1>5. EncSound'
  BY <1>1, <1>4 DEF EncSound
<1>6. EncOutput'
  <2>1. stored # <<>> /\ job.audio = "wav" => job.source.channels = 2
    BY <1>2 DEF EncType
  <2> QED BY <1>1, <1>2, <1>3, <1>4, <2>1, OutputStays
<1>7. EncType'
  <2>1. SoundOpened'
    BY <1>1, <1>2, <1>3 DEF SoundOpened
  <2> QED BY <1>1, <1>2, <2>1 DEF EncType
<1>8. EncPlace' /\ EncRate'
  <2>1. /\ Frames' = Frames /\ Norm' = Norm /\ Unknown' = Unknown /\ Slowed' = Slowed
        /\ Step(-1)' = Step(-1) /\ Step(Norm)' = Step(Norm)
    BY <1>1 DEF Frames, Norm, Unknown, Slowed, PerSecond, Step
  <2>2. \A n : Encoded(n)' = Encoded(n)
    BY <1>1 DEF Encoded
  <2>3. EncPlace'
    BY <1>1, <1>2, <2>1 DEF EncPlace
  <2>4. EncRate'
    BY <1>1, <1>2, <2>1, <2>2 DEF EncRate, InStep
  <2> QED BY <2>3, <2>4
<1> QED BY <1>5, <1>6, <1>7, <1>8 DEF EncInv

LEMMA PictureStandard ==
  ASSUME job \in EncJobs, NEW k \in Nat, Readable(k)
  PROVE  Norm = IF PictureAt(k) = "ntsc" THEN 0 ELSE 1
<1>1. /\ job.pictures \in Seq(PictureKinds)
      /\ \A a, b \in DOMAIN job.pictures :
           job.pictures[a] = "ntsc" => job.pictures[b] \notin {"pal", "cut pal"}
  BY EncAssumption
<1>2. k < Len(job.pictures) /\ PictureAt(k) = job.pictures[k + 1]
  BY DEF Readable, PictureAt
<1>3. k + 1 \in DOMAIN job.pictures
  <2>1. Len(job.pictures) \in Nat /\ DOMAIN job.pictures = 1 .. Len(job.pictures)
    BY <1>1, LenProperties
  <2> QED BY <1>2, <2>1
<1>4. job.pictures[k + 1] \in {"pal", "ntsc", "cut pal"}
  BY <1>2 DEF Readable
<1>5. CASE \E a \in DOMAIN job.pictures : job.pictures[a] = "ntsc"
  BY <1>1, <1>2, <1>3, <1>4, <1>5 DEF Norm
<1>6. CASE ~\E a \in DOMAIN job.pictures : job.pictures[a] = "ntsc"
  BY <1>2, <1>3, <1>6 DEF Norm
<1> QED BY <1>5, <1>6

LEMMA PictureIsLoaded ==
  ASSUME job \in EncJobs, streamPos \in Nat, frameNo \in Nat, LoadPicture
  PROVE  isPAL' = Norm /\ streamPos' \in Nat /\ (job.stdin => streamPos' = streamPos + 1)
<1>1. Place \in Nat
  BY DEF Place
<1>2. /\ Readable(Place) /\ isPAL' = IF PictureAt(Place) = "ntsc" THEN 0 ELSE 1
      /\ streamPos' = IF job.stdin THEN streamPos + 1 ELSE 0
  BY DEF LoadPicture, ReadStream
<1>3. isPAL' = Norm
  BY Zenon, <1>1, <1>2, PictureStandard
<1> QED BY <1>2, <1>3

LEMMA EncConstants ==
  ASSUME UNCHANGED <<job, stored>>
  PROVE  /\ Frames' = Frames /\ Norm' = Norm /\ Unknown' = Unknown /\ Slowed' = Slowed
         /\ Step(-1)' = Step(-1) /\ Step(Norm)' = Step(Norm) /\ \A n : Encoded(n)' = Encoded(n)
BY DEF Frames, Norm, Unknown, Slowed, PerSecond, Step, Encoded

LEMMA EncNumbers ==
  ASSUME EncType, EncPlace
  PROVE  /\ job \in EncJobs /\ job.start \in Nat /\ job.stdin \in BOOLEAN
         /\ Frames \in Nat /\ frameNo \in Nat /\ streamPos \in Nat
         /\ Norm \in {0, 1} /\ Unknown \in Nat /\ Unknown >= 1
         /\ Unknown = (IF job.stdin THEN 1 ELSE job.start + 1)
<1>1. job \in EncJobs /\ stored \in Seq(EncFrame) /\ frameNo \in Nat /\ streamPos \in Nat
  BY DEF EncType, EncPlace
<1>2. job.start \in Nat /\ job.stdin \in BOOLEAN
  BY <1>1, EncAssumption
<1> QED BY <1>1, <1>2 DEF Frames, Norm, Unknown

(* Between two loads of sound the sound keeps in step.                       *)
LEMMA StepKeepsSound ==
  ASSUME EncSound, UNCHANGED <<job, sound, stored>>, Loads' = Loads,
         encPc' = "sound" => Frames = 0
  PROVE  EncSound'
<1>1. Frames' = Frames /\ Norm' = Norm /\ Unknown' = Unknown /\ PieceOf(1)' = PieceOf(1)
  BY DEF Frames, Norm, Unknown, PieceOf
<1>2. \A n : SoundOf(n)' = SoundOf(n)
  BY <1>1 DEF SoundOf, PieceOf
<1>3. FileOver => FileOver'
  BY <1>1 DEF FileOver
<1>4. SoundOf(Loads)' = SoundOf(Loads) /\ SoundOf(Loads - 1)' = SoundOf(Loads - 1)
  BY <1>1 DEF SoundOf, PieceOf
<1>5. FileInStep => FileInStep'
  <2>1. ~(Frames > 0) <=> ~(Frames' > 0)
    BY <1>1
  <2>2. encPc' = "sound" => ~(Frames' > 0)
    BY <1>1
  <2> QED BY <1>4, <2>2 DEF FileInStep
<1> QED BY <1>3, <1>5 DEF EncSound

LEMMA SkipKeeps == EncInv /\ SkipToStart => EncInv'
<1> SUFFICES ASSUME EncInv, SkipToStart PROVE EncInv'
  OBVIOUS
<1>1. /\ encPc = "picture" /\ frameNo < job.start
      /\ UNCHANGED <<job, skipFrameCount, target, sound, stored>>
  BY DEF SkipToStart
<1>2. CASE Fails
  BY <1>1, <1>2, EndKeeps DEF Fails
<1>3. CASE SkipPicture /\ frameNo' = frameNo + 1 /\ encPc' = "sound"
  <2>1. EncType /\ EncOutput /\ EncPlace /\ EncRate /\ EncSound /\ SoundOpened
    BY <1>1 DEF EncInv, EncType, Running
  <2>2. /\ job \in EncJobs /\ job.start \in Nat /\ job.stdin \in BOOLEAN /\ Frames \in Nat
        /\ frameNo \in Nat /\ streamPos \in Nat /\ Unknown = (IF job.stdin THEN 1 ELSE job.start + 1)
    BY <2>1, EncNumbers
  <2>3. Frames = 0
    BY <1>1, <2>1, <2>2 DEF EncPlace
  <2>4. /\ Frames' = Frames /\ Norm' = Norm /\ Unknown' = Unknown
    BY <1>1, EncConstants
  <2>5. EncPlace'
    <3>1. CASE job.stdin
      <4>1. isPAL' = Norm /\ streamPos' = streamPos + 1 /\ streamPos' \in Nat
        BY <1>3, <2>2, <3>1, PictureIsLoaded DEF SkipPicture
      <4> QED BY <1>1, <1>3, <2>1, <2>2, <2>3, <2>4, <3>1, <4>1 DEF EncPlace
    <3>2. CASE ~job.stdin
      <4>1. UNCHANGED <<isPAL, streamPos>>
        BY <1>3, <3>2 DEF SkipPicture
      <4>2. isPAL' = -1 /\ ~(frameNo' >= Unknown)
        BY <1>1, <1>3, <2>1, <2>2, <3>2, <4>1 DEF EncPlace
      <4> QED BY <1>1, <1>3, <2>1, <2>2, <2>3, <2>4, <3>2, <4>1, <4>2 DEF EncPlace
    <3> QED BY <3>1, <3>2
  <2>6. EncRate'
    <3>1. skipFrameCount = 0
      BY <1>1, <2>1, <2>3 DEF EncRate
    <3> QED BY <1>1, <1>3, <2>3, <2>4, <3>1 DEF EncRate
  <2>7. EncSound'
    <3>1. Loads' = Loads
      BY <1>1, <1>3 DEF Loads
    <3> QED BY <1>1, <2>1, <2>3, <3>1, StepKeepsSound
  <2>8. EncOutput'
    BY <1>1, <2>1, OutputStays
  <2>9. EncType'
    <3>1. SoundOpened'
      BY <1>1, <2>1 DEF SoundOpened
    <3> QED BY <1>1, <1>3, <2>1, <3>1 DEF EncType
  <2> QED BY <2>5, <2>6, <2>7, <2>8, <2>9 DEF EncInv
<1> QED BY <1>2, <1>3 DEF SkipToStart

LEMMA TakeKeeps == EncInv /\ TakePicture => EncInv'
<1> SUFFICES ASSUME EncInv, TakePicture PROVE EncInv'
  OBVIOUS
<1>1. /\ encPc = "picture" /\ frameNo >= job.start
      /\ UNCHANGED <<job, frameNo, target, sound, stored>>
      /\ skipFrameCount' = skipFrameCount + 65536 - Step(isPAL)
  BY DEF TakePicture
<1>2. CASE encPc' = "failed"
  BY <1>1, <1>2, EndKeeps
<1>3. CASE encPc' # "failed"
  <2>1. EncType /\ EncOutput /\ EncPlace /\ EncRate /\ EncSound /\ SoundOpened
    BY <1>1 DEF EncInv, EncType, Running
  <2>2. /\ job \in EncJobs /\ job.start \in Nat /\ job.stdin \in BOOLEAN /\ Frames \in Nat
        /\ frameNo \in Nat /\ streamPos \in Nat /\ Unknown = (IF job.stdin THEN 1 ELSE job.start + 1)
        /\ Norm \in {0, 1}
    BY <2>1, EncNumbers
  <2>3. /\ encPc' = "store"
        /\ \/ LoadPicture
           \/ SkipPicture /\ isPAL # -1
    BY <1>3 DEF TakePicture, Fails
  <2>4. /\ frameNo = job.start + Frames /\ isPAL = IF frameNo >= Unknown THEN Norm ELSE -1
        /\ job.stdin => streamPos = frameNo
        /\ skipFrameCount \in Int /\ target \in Int /\ (Frames > 0 => target = stored[Frames].picture)
    BY <1>1, <2>1, <2>2 DEF EncPlace
  <2>5. isPAL' = Norm /\ streamPos' \in Nat /\ (job.stdin => streamPos' = streamPos + 1)
    <3>1. CASE LoadPicture
      BY <2>2, <3>1, PictureIsLoaded
    <3>2. CASE SkipPicture /\ job.stdin
      BY <2>2, <3>2, PictureIsLoaded DEF SkipPicture
    <3>3. CASE SkipPicture /\ ~job.stdin /\ isPAL # -1
      BY <2>2, <2>4, <3>3 DEF SkipPicture
    <3> QED BY <2>2, <2>3, <3>1, <3>2, <3>3
  <2>6. /\ Frames' = Frames /\ Norm' = Norm /\ Unknown' = Unknown /\ Slowed' = Slowed
        /\ Step(-1)' = Step(-1) /\ Step(Norm)' = Step(Norm) /\ \A n : Encoded(n)' = Encoded(n)
    BY <1>1, EncConstants
  <2>e. Encoded(Frames)' = Encoded(Frames)
    BY <1>1 DEF Encoded, Frames
  <2> DEFINE s == Step(Norm)
  <2>7. /\ Step(-1) \in Nat /\ s \in Nat /\ Step(-1) >= 1 /\ s >= 1
        /\ ~Slowed => Step(-1) >= 65536 /\ s >= 65536
        /\ Slowed => s <= 65536
    BY <2>2, StepSizes
  <2>8. Step(isPAL) \in Nat /\ skipFrameCount' \in Int
    BY <1>1, <2>4, <2>7
  <2>9. EncPlace'
    BY <1>1, <2>2, <2>3, <2>4, <2>5, <2>6, <2>8 DEF EncPlace
  <2>10. EncRate'
    <3>1. CASE Frames = 0
      <4>1. skipFrameCount = 0 /\ Encoded(0) = 0
        BY <1>1, <2>1, <3>1, NoneEncoded DEF EncRate
      <4>f. PICK first \in Nat : first = Step(isPAL)
        BY <2>8
      <4>2. first \in {Step(-1), Step(Norm)} /\ first \in Nat
        BY <2>4, <4>f
      <4>3. skipFrameCount' = 65536 - first /\ (~Slowed => first >= 65536)
        BY <1>1, <2>4, <2>7, <4>1, <4>f
      <4> HIDE DEF s
      <4>4. 65536 * (0 + 1) = first + (0 + 1 - 1) * s + skipFrameCount'
        BY <2>7, <4>2, <4>3
      <4>5. InStep(first, Frames + 1, Encoded(Frames) + 1, skipFrameCount')
        BY <3>1, <4>1, <4>4 DEF InStep, s
      <4>6. InStep(first, Frames + 1, Encoded(Frames) + 1, skipFrameCount)'
        BY <2>6, <2>e, <4>5 DEF InStep
      <4>7. /\ skipFrameCount' < 131072 /\ (~Slowed => skipFrameCount' <= 0)
            /\ Encoded(Frames)' = Frames'
        <5>1. Encoded(Frames)' = Frames'
          BY <2>6, <2>e, <3>1, <4>1
        <5> QED BY <4>2, <4>3, <5>1
      <4> QED BY <2>3, <2>6, <4>2, <4>6, <4>7 DEF EncRate
    <3>2. CASE Frames # 0
      <4>1. isPAL = Norm
        BY <2>2, <2>4, <3>2
      <4>2. PICK first \in {Step(-1), Step(Norm)} :
              /\ InStep(first, Frames, Encoded(Frames), skipFrameCount)
              /\ skipFrameCount < 65536
              /\ Slowed /\ skipFrameCount < 0 => Encoded(Frames) = Frames
              /\ ~Slowed => skipFrameCount <= 0
        BY <1>1, <2>1, <3>2 DEF EncRate
      <4>3. Encoded(Frames) \in Nat
        BY <2>1, EncodedType DEF EncType
      <4>4. skipFrameCount' = skipFrameCount + 65536 - s
        BY <1>1, <4>1
      <4> HIDE DEF s
      <4>5. InStep(first, Frames + 1, Encoded(Frames) + 1, skipFrameCount')
        <5>1. PICK n \in Nat, e \in Nat, f \in Nat : n = Frames /\ e = Encoded(Frames) /\ f = first
          BY <2>2, <2>7, <4>2, <4>3 DEF s
        <5>2. 65536 * e = f + (n - 1) * s + skipFrameCount
          BY <4>2, <5>1 DEF InStep, s
        <5>3. (n + 1 - 1) * s = (n - 1) * s + s /\ (n - 1) * s \in Int
          BY <2>7
        <5>4. 65536 * (e + 1) = f + (n + 1 - 1) * s + skipFrameCount'
          BY <2>4, <2>7, <4>4, <5>2, <5>3
        <5> QED BY <5>1, <5>4 DEF InStep, s
      <4>6. InStep(first, Frames + 1, Encoded(Frames) + 1, skipFrameCount)'
        BY <2>6, <2>e, <4>5 DEF InStep
      <4>7. /\ skipFrameCount' < 131072 /\ (~Slowed => skipFrameCount' <= 0)
            /\ Slowed /\ skipFrameCount' < 0 => Encoded(Frames)' = Frames'
        BY <2>4, <2>6, <2>7, <2>e, <4>2, <4>4
      <4> QED BY <2>3, <2>6, <4>2, <4>6, <4>7 DEF EncRate
    <3> QED BY <3>1, <3>2
  <2>11. EncSound'
    <3>1. Loads' = Loads
      BY <1>1, <2>3 DEF Loads
    <3> QED BY <1>1, <2>1, <2>3, <3>1, StepKeepsSound
  <2>12. EncOutput'
    BY <1>1, <2>1, OutputStays
  <2>13. EncType'
    <3>1. SoundOpened'
      BY <1>1, <2>1 DEF SoundOpened
    <3> QED BY <1>1, <2>1, <2>3, <3>1 DEF EncType
  <2> QED BY <2>9, <2>10, <2>11, <2>12, <2>13 DEF EncInv
<1> QED BY <1>2, <1>3

(* The piece of sound stored with picture k is that of its time.             *)
LEMMA FourTimes ==
  ASSUME NEW x \in Nat
  PROVE  (4 * x) % 4 = 0
OBVIOUS

LEMMA PieceInTime ==
  ASSUME NEW p \in Nat, NEW q \in Nat, NEW bps \in Nat, NEW k \in Nat, NEW u \in Nat,
         25 * p = bps, 30 * q <= bps, bps < 30 * q + 30
  PROVE  /\ (k * p) * 25 \in (bps - 25) * k .. bps * k
         /\ (k * q) * 30 \in (bps - 30) * k .. bps * k
<1> DEFINE kp == k * p
           kq == k * q
           kb == bps * k
           rest == bps - 30 * q
           kr == k * rest
<1>1. kp \in Nat /\ kq \in Nat /\ kb \in Nat /\ 25 * kp = kb
  <2>1. k * p \in Nat /\ k * q \in Nat /\ bps * k \in Nat
    OBVIOUS
  <2>2. bps * k = (25 * p) * k
    OBVIOUS
  <2>3. (25 * p) * k = 25 * (k * p)
    OBVIOUS
  <2> QED BY <2>1, <2>2, <2>3
<1>2. rest \in 0 .. 29 /\ kr \in Nat /\ kr <= 30 * k
  <2>1. rest \in 0 .. 29
    OBVIOUS
  <2>2. PICK c \in Nat : c = rest /\ c <= 30
    BY <2>1
  <2>3. k * c \in Nat /\ k * (30 - c) \in Nat
    <3>1. PICK d \in Nat : d = 30 - c
      BY <2>2
    <3>2. k * c \in Nat /\ k * d \in Nat
      OBVIOUS
    <3> QED BY <3>1, <3>2
  <2>4. k * c + k * (30 - c) = 30 * k
    OBVIOUS
  <2> QED BY <2>1, <2>2, <2>3, <2>4
<1>3. kb = 30 * kq + kr
  <2>1. bps = 30 * q + rest
    OBVIOUS
  <2> HIDE DEF rest
  <2>2. rest \in Int
    BY <1>2
  <2>3. bps * k = (30 * q + rest) * k
    BY <2>1
  <2>4. (30 * q + rest) * k = 30 * (k * q) + k * rest
    BY <2>2
  <2> QED BY <2>3, <2>4
<1>4. (bps - 25) * k = kb - 25 * k /\ (bps - 30) * k = kb - 30 * k
  OBVIOUS
<1> HIDE DEF kp, kq, kb, kr
<1>5. kp * 25 \in kb - 25 * k .. kb /\ kq * 30 \in kb - 30 * k .. kb
  BY <1>1, <1>2, <1>3
<1> QED BY <1>4, <1>5 DEF kp, kq, kb

LEMMA PieceOfItsTime ==
  ASSUME NEW rate \in {32000, 44100, 48000}, NEW p \in Nat, NEW q \in Nat,
         rate = 32000 => p = 5120 /\ q = 4266,
         rate = 44100 => p = 7056 /\ q = 5880,
         rate = 48000 => p = 7680 /\ q = 6400,
         NEW k \in Nat, NEW u \in Nat, k >= u
  PROVE  LET bps == 4 * rate
             ntsc == u * p + (k - u) * q
         IN  /\ (k * p) * 25 \in (bps - 25) * k .. bps * k
             /\ (ntsc - u * (p - q)) * 30 \in (bps - 30) * k .. bps * k
             /\ (k * p) % 4 = 0 /\ (rate # 32000 => ntsc % 4 = 0)
<1>1. PICK bps \in Nat : bps = 4 * rate
  OBVIOUS
<1>2. 25 * p = bps /\ 30 * q <= bps /\ bps < 30 * q + 30
  BY <1>1
<1>3. (k * p) * 25 \in (bps - 25) * k .. bps * k /\ (k * q) * 30 \in (bps - 30) * k .. bps * k
  BY <1>2, PieceInTime
<1>4. PICK i \in Nat : k = u + i
  <2>1. k - u \in Nat /\ k = u + (k - u)
    OBVIOUS
  <2> QED BY <2>1
<1>5. k - u = i
  BY <1>4
<1>6. u * p + i * q - u * (p - q) = k * q
  <2>1. u * p \in Nat /\ u * q \in Nat /\ i * q \in Nat
    OBVIOUS
  <2>2. u * (p - q) = u * p - u * q /\ (u + i) * q = u * q + i * q
    OBVIOUS
  <2> QED BY <1>4, <2>1, <2>2
<1>7. PICK a \in Nat : p = 4 * a
  <2>1. p = 4 * 1280 \/ p = 4 * 1764 \/ p = 4 * 1920
    OBVIOUS
  <2> QED BY <2>1
<1>8. (k * p) % 4 = 0
  <2>1. k * p = 4 * (k * a) /\ k * a \in Nat
    BY <1>7
  <2> QED BY <2>1, FourTimes
<1>9. ASSUME rate # 32000 PROVE (u * p + i * q) % 4 = 0
  <2>1. PICK b \in Nat : q = 4 * b
    <3>1. q = 4 * 1470 \/ q = 4 * 1600
      BY <1>9
    <3> QED BY <3>1
  <2>2. u * p = 4 * (u * a) /\ i * q = 4 * (i * b) /\ u * a \in Nat /\ i * b \in Nat
    BY <1>7, <2>1
  <2>3. u * p + i * q = 4 * (u * a + i * b) /\ u * a + i * b \in Nat
    BY <2>2
  <2> QED BY <2>3, FourTimes
<1> QED BY <1>1, <1>3, <1>5, <1>6, <1>8, <1>9

(* The sound of the frame that is stored is that of its own time.            *)
LEMMA NewSoundIsRight ==
  ASSUME EncType, EncPlace, EncSound, encPc = "store",
         job.audio = "wav", job.source.channels = 2, UNCHANGED <<job, sound>>,
         NEW n \in Nat, n = Frames + 1, stored'[n].norm = Norm, stored'[n].sound = sound.data,
         n > 1 => stored'[n - 1] = stored[n - 1]
  PROVE  SoundAt(n)'
<1>1. /\ job.start \in Nat /\ job.stdin \in BOOLEAN /\ Frames \in Nat /\ Norm \in {0, 1}
      /\ Unknown = (IF job.stdin THEN 1 ELSE job.start + 1) /\ frameNo = job.start + Frames
  BY EncNumbers DEF EncPlace
<1>2. PICK k \in Nat : k = job.start + n - 1 /\ k = frameNo /\ Loads = k + 1
  BY <1>1 DEF Loads
<1>3. PICK p \in Nat, q \in Nat, u \in Nat, rate \in {32000, 44100, 48000}, bps \in Nat :
        /\ p = bps \div 25 /\ q = bps \div 30 /\ u = Unknown /\ u >= 1
        /\ rate = sound.rate /\ bps = sound.bytespersecond /\ bps = 4 * rate
        /\ p = PieceOf(1) /\ q = PieceOf(0)
        /\ rate = 32000 => p = 5120 /\ q = 4266
        /\ rate = 44100 => p = 7056 /\ q = 5880
        /\ rate = 48000 => p = 7680 /\ q = 6400
  <2>1. Running
    BY DEF Running
  <2>2. PieceOf(1) = sound.bytespersecond \div 25 /\ PieceOf(0) = sound.bytespersecond \div 30
    BY DEF PieceOf
  <2>3. Unknown \in Nat /\ Unknown >= 1
    BY <1>1
  <2>4. PieceOf(1) \in Nat /\ PieceOf(0) \in Nat
    BY <2>1, PieceSizes
  <2>5. sound.bytespersecond \in Nat
    BY <2>1, PieceSizes
  <2> QED BY <2>1, <2>2, <2>3, <2>4, <2>5, PieceSizes
<1>4. sound.data.from \in Int
  BY DEF EncType, Running, SoundOpened, SoundState, SoundPiece
<1> DEFINE ntsc == Norm = 0
           ahead == IF ntsc THEN u * (p - q) ELSE 0
           fps == IF ntsc THEN 30 ELSE 25
<1>5. SUFFICES
        \/ n = 1 /\ k < u /\ sound.data.from = k * p
        \/ /\ (sound.data.from - ahead) * fps \in (bps - fps) * k .. bps * k
           /\ sound.data.from % 4 = 0 \/ (ntsc /\ rate = 32000)
        \/ /\ sound.read = job.source.length
           /\ n > 1 => sound.data = stored[n - 1].sound
           /\ sound.data.from + 2 * p > job.source.length
  <2>0. InStepAt(n, k, u, ntsc, sound.data, stored[n - 1].sound, bps, rate, sound.read,
                 job.source.length)
    BY <1>3, <1>5 DEF InStepAt
  <2>1. CASE n > 1
    <3>1. stored'[n - 1].sound = stored[n - 1].sound
      BY <2>1
    <3>2. /\ stored'[n].sound = sound.data /\ ((stored'[n].norm = 0) = ntsc)
          /\ (job.start + n - 1)' = k /\ sound'.rate = rate /\ sound'.bytespersecond = bps
          /\ (IF job'.stdin THEN 1 ELSE job'.start + 1) = u
          /\ sound' = sound /\ job' = job
      BY <1>1, <1>2, <1>3
    <3> HIDE DEF ntsc
    <3> QED BY <2>0, <3>1, <3>2 DEF SoundAt
  <2>2. CASE ~(n > 1)
    <3>1. /\ stored'[n].sound = sound.data /\ ((stored'[n].norm = 0) = ntsc)
          /\ (job.start + n - 1)' = k /\ sound'.rate = rate /\ sound'.bytespersecond = bps
          /\ (IF job'.stdin THEN 1 ELSE job'.start + 1) = u
          /\ sound' = sound /\ job' = job
      BY <1>1, <1>2, <1>3
    <3>2. InStepAt(n, k, u, ntsc, sound.data, stored'[n - 1].sound, bps, rate, sound.read,
                   job.source.length)
      BY <2>0, <2>2 DEF InStepAt
    <3> HIDE DEF ntsc
    <3> QED BY <3>1, <3>2 DEF SoundAt
  <2> QED BY <2>1, <2>2
<1>6. CASE FileOver
  BY <1>1, <1>3, <1>6 DEF FileOver
<1>7. CASE FileInStep
  <2>1. sound.data.from = SoundOf(k)
    BY <1>2, <1>7 DEF FileInStep
  <2>2. SoundOf(k) = IF k <= u THEN k * p ELSE u * p + (k - u) * PieceOf(Norm)
    BY <1>3 DEF SoundOf
  <2>3. CASE k < u
    <3>1. n = 1
      BY <1>1, <1>2, <1>3, <2>3
    <3> QED BY <1>3, <2>1, <2>2, <2>3, <3>1
  <2>4. CASE k >= u
    <3>1. /\ (k * p) * 25 \in (bps - 25) * k .. bps * k
          /\ ((u * p + (k - u) * q) - u * (p - q)) * 30 \in (bps - 30) * k .. bps * k
          /\ (k * p) % 4 = 0 /\ (rate # 32000 => (u * p + (k - u) * q) % 4 = 0)
      BY <1>3, <2>4, PieceOfItsTime
    <3>2. k = u => u * p + (k - u) * q = k * p /\ k * p = u * p + (k - u) * p
      OBVIOUS
    <3>3. CASE Norm = 1
      <4>1. SoundOf(k) = k * p
        <5>1. PieceOf(Norm) = p
          BY <1>3, <3>3
        <5>2. u * p + (k - u) * p = k * p
          OBVIOUS
        <5> QED BY <2>2, <2>4, <5>1, <5>2
      <4>2. ahead = 0 /\ fps = 25 /\ k * p \in Int
        BY <3>3
      <4> QED BY <2>1, <3>1, <4>1, <4>2
    <3>4. CASE Norm = 0
      <4>1. SoundOf(k) = u * p + (k - u) * q
        <5>1. PieceOf(Norm) = q
          BY <1>3, <3>4
        <5>2. k = u => u * p + (k - u) * q = k * p
          OBVIOUS
        <5>3. SoundOf(k) = IF k <= u THEN k * p ELSE u * p + (k - u) * q
          BY <2>2, <5>1
        <5>4. CASE k = u
          BY <5>2, <5>3, <5>4
        <5>5. CASE k # u
          <6>1. ~(k <= u)
            BY <2>4, <5>5
          <6> QED BY <5>3, <6>1
        <5> QED BY <5>4, <5>5
      <4>2. ahead = u * (p - q) /\ fps = 30 /\ ntsc
        BY <3>4
      <4> QED BY <2>1, <3>1, <4>1, <4>2
    <3> QED BY <1>1, <3>3, <3>4
  <2> QED BY <2>3, <2>4
<1> QED BY <1>6, <1>7 DEF EncSound

LEMMA FrameIsStored ==
  ASSUME EncodeAndStore, skipFrameCount \in Int, ~(Sounds /\ job.source.channels = 4),
         NEW encodes \in BOOLEAN, encodes <=> skipFrameCount < 65536
  PROVE  stored' = Append(stored, [picture |-> target', encoded |-> encodes, norm |-> isPAL,
                                   sound |-> IF Sounds THEN sound.data ELSE NoPiece])
<1> DEFINE piece == IF Sounds THEN sound.data ELSE NoPiece
<1>1. stored' = Append(stored, [picture |-> target', encoded |-> skipFrameCount < 65536, norm |-> isPAL,
                                   sound |-> piece])
  BY DEF EncodeAndStore
<1> HIDE DEF piece
<1>2. stored' = Append(stored, [picture |-> target', encoded |-> encodes, norm |-> isPAL,
                                   sound |-> piece])
  BY <1>1
<1> QED BY <1>2 DEF piece
LEMMA StoreKeeps == EncInv /\ EncodeAndStore => EncInv'
<1> SUFFICES ASSUME EncInv, EncodeAndStore PROVE EncInv'
  OBVIOUS
<1>1. encPc = "store" /\ UNCHANGED <<job, isPAL, streamPos, sound>>
  BY DEF EncodeAndStore
<1>2. CASE Sounds /\ job.source.channels = 4
  <2>1. encPc' = "failed" /\ UNCHANGED stored
    BY <1>2 DEF EncodeAndStore
  <2> QED BY <1>1, <2>1, EndKeeps
<1>3. CASE ~(Sounds /\ job.source.channels = 4)
  <2>1. EncType /\ EncOutput /\ EncPlace /\ EncRate /\ EncSound /\ SoundOpened
    BY <1>1 DEF EncInv, EncType, Running
  <2>2. /\ job \in EncJobs /\ job.start \in Nat /\ job.stdin \in BOOLEAN /\ Frames \in Nat
        /\ frameNo \in Nat /\ streamPos \in Nat /\ Norm \in {0, 1}
        /\ Unknown \in Nat /\ Unknown >= 1 /\ Unknown = (IF job.stdin THEN 1 ELSE job.start + 1)
    BY <2>1, EncNumbers
  <2>3. /\ skipFrameCount \in Int /\ target \in Int /\ isPAL = Norm
        /\ frameNo = job.start + Frames /\ (job.stdin => streamPos = frameNo + 1)
        /\ Frames > 0 => target = stored[Frames].picture
    BY <1>1, <2>1 DEF EncPlace
  <2>4. PICK last \in Nat : last = Frames
    BY <2>2
  <2>5. PICK count \in Nat : count = Encoded(Frames)
    BY <2>1, EncodedType DEF EncType
  <2> DEFINE encodes == skipFrameCount < 65536
  <2>6. encodes \in BOOLEAN /\ (encodes <=> skipFrameCount < 65536)
    BY <2>3
  <2>7. /\ target' = (IF encodes THEN job.start + last ELSE target)
        /\ skipFrameCount' = (IF encodes THEN skipFrameCount ELSE skipFrameCount - 65536)
        /\ frameNo' = frameNo + 1 /\ encPc' = "sound"
    <3>1. Place - (IF job.stdin THEN 1 ELSE 0) = job.start + last
      BY <2>2, <2>3, <2>4 DEF Place
    <3> QED BY <1>3, <3>1 DEF EncodeAndStore
  <2> HIDE DEF encodes
  <2> DEFINE piece == IF Sounds THEN sound.data ELSE NoPiece
  <2>8. piece \in SoundPiece
    BY <2>1 DEF SoundOpened, SoundState, NoPiece, SoundPiece
  <2>9. PICK r \in EncFrame :
          /\ stored' = Append(stored, r) /\ (r.encoded <=> encodes) /\ r.norm = Norm /\ r.sound = piece
          /\ r.picture = IF encodes THEN job.start + last ELSE target
    <3>1. PICK pic \in Int : pic = target' /\ pic = IF encodes THEN job.start + last ELSE target
      BY <2>2, <2>3, <2>4, <2>7
    <3> DEFINE r == [picture |-> pic, encoded |-> encodes, norm |-> Norm, sound |-> piece]
    <3>2. r \in EncFrame
      BY <2>2, <2>6, <2>8 DEF EncFrame
    <3>3. stored' = Append(stored, r)
      BY <1>3, <2>3, <2>6, <3>1, FrameIsStored
    <3>4. (r.encoded <=> encodes) /\ r.norm = Norm /\ r.sound = piece /\ r.picture = pic
      BY <2>6
    <3> HIDE DEF r
    <3> QED BY <3>1, <3>2, <3>3, <3>4
  <2>10. stored \in Seq(EncFrame)
    BY <2>1 DEF EncType
  <2>11. /\ stored' \in Seq(EncFrame) /\ Frames' = last + 1 /\ stored'[last + 1] = r
         /\ \A n \in 1 .. last : stored'[n] = stored[n]
         /\ \A n \in 0 .. last : Encoded(n)' = Encoded(n)
         /\ Encoded(last + 1)' = count + (IF encodes THEN 1 ELSE 0)
    <3>1. /\ stored' \in Seq(EncFrame) /\ Frames' = last + 1 /\ stored'[last + 1] = r
          /\ \A n \in 1 .. last : stored'[n] = stored[n]
          /\ \A n \in 0 .. last : Encoded(n) \in Nat /\ Encoded(n)' = Encoded(n)
          /\ Encoded(last + 1)' = Encoded(last) + (IF r.encoded THEN 1 ELSE 0)
      <4>1. /\ stored' = Append(stored, r) /\ r \in EncFrame
        BY <2>9
      <4> HIDE DEF piece
      <4> QED BY <2>4, <2>10, <4>1, FrameIsAdded
    <3>2. Encoded(last) = count
      BY <2>4, <2>5
    <3>3. (IF r.encoded THEN 1 ELSE 0) = (IF encodes THEN 1 ELSE 0)
      BY <2>9
    <3> QED BY <3>1, <3>2, <3>3
  <2>12. /\ Norm' = Norm /\ Unknown' = Unknown /\ Slowed' = Slowed /\ PerSecond' = PerSecond
         /\ Step(-1)' = Step(-1) /\ Step(Norm)' = Step(Norm)
    BY <1>1 DEF Norm, Unknown, Slowed, PerSecond, Step
  <2>13. PICK first \in {Step(-1), Step(Norm)} :
           /\ 65536 * (count + 1) = first + last * Step(Norm) + skipFrameCount
           /\ skipFrameCount < 131072
           /\ Slowed /\ skipFrameCount < 0 => count = last
           /\ ~Slowed => skipFrameCount <= 0
    <3>1. PICK first \in {Step(-1), Step(Norm)} :
            /\ InStep(first, Frames + 1, Encoded(Frames) + 1, skipFrameCount)
            /\ skipFrameCount < 131072
            /\ Slowed /\ skipFrameCount < 0 => Encoded(Frames) = Frames
            /\ ~Slowed => skipFrameCount <= 0
      BY <1>1, <2>1 DEF EncRate
    <3>2. last + 1 - 1 = last
      OBVIOUS
    <3> QED BY <2>4, <2>5, <3>1, <3>2 DEF InStep
  <2>14. PICK s \in Nat, f \in Nat : s = Step(Norm) /\ f = first /\ s >= 1 /\ f >= 1
    BY <2>2, <2>13, StepSizes
  <2>15. last = 0 => encodes
    <3> SUFFICES ASSUME last = 0 PROVE skipFrameCount < 65536
      BY <2>6
    <3>1. count = 0
      BY <2>4, <2>5, NoneEncoded
    <3>2. last * s = 0
      BY <2>14
    <3> QED BY <2>3, <2>13, <2>14, <3>1, <3>2
  <2>16. /\ Encoded(last + 1)' \in Nat /\ skipFrameCount' \in Int
         /\ Encoded(last + 1)' = count + (IF encodes THEN 1 ELSE 0)
         /\ skipFrameCount' = IF encodes THEN skipFrameCount ELSE skipFrameCount - 65536
    <3>1. (count + (IF encodes THEN 1 ELSE 0)) \in Nat
      OBVIOUS
    <3> QED BY <2>3, <2>7, <2>11, <3>1
  <2>e. PICK e \in Nat : e = Encoded(last + 1)' /\ e = count + (IF encodes THEN 1 ELSE 0)
    BY <2>16
  <2>k. PICK skip \in Int : /\ skip = skipFrameCount'
                          /\ skip = IF encodes THEN skipFrameCount ELSE skipFrameCount - 65536
    BY <2>16
  <2>17. /\ 65536 * e = f + last * s + skip /\ skip < 65536
         /\ Slowed /\ skip < 0 => e = last + 1
         /\ ~Slowed => skip <= 0 /\ encodes
    <3>1. last * s \in Int
      BY <2>14
    <3> DEFINE p == last * s
    <3>2. 65536 * (count + 1) = f + p + skipFrameCount
      BY <2>13, <2>14
    <3> HIDE DEF p
    <3>3. p \in Int
      BY <3>1 DEF p
    <3>4. CASE encodes
      <4>1. 65536 * e = f + p + skip
        BY <2>3, <2>e, <2>k, <3>2, <3>3, <3>4
      <4> QED BY <2>3, <2>6, <2>13, <2>e, <2>k, <3>4, <4>1 DEF p
    <3>5. CASE ~encodes
      <4>1. 65536 * e = f + p + skip
        BY <2>3, <2>e, <2>k, <3>2, <3>3, <3>5
      <4> QED BY <2>3, <2>6, <2>13, <2>e, <2>k, <3>5, <4>1 DEF p
    <3> QED BY <3>4, <3>5
  <2> HIDE DEF piece
  <2>18. EncPlace'
    <3>1. /\ isPAL' = Norm /\ frameNo' = job.start + (last + 1) /\ frameNo' >= Unknown
      BY <1>1, <2>2, <2>3, <2>4, <2>7
    <3>2. streamPos' \in Nat /\ (job.stdin => streamPos' = frameNo')
      BY <1>1, <2>2, <2>3, <2>7
    <3>3. target' \in Int /\ target' = stored'[last + 1].picture
      BY <2>2, <2>3, <2>4, <2>7, <2>9, <2>11
    <3>4. frameNo' \in Nat /\ skipFrameCount' \in Int
      BY <2>2, <2>7, <2>e, <2>k
    <3> QED BY <1>1, <2>7, <2>11, <2>12, <3>1, <3>2, <3>3, <3>4 DEF EncPlace
  <2>19. EncRate'
    <3>1. Encoded(Frames)' = e
      BY <2>11, <2>e, <2>k DEF Encoded
    <3>2. InStep(f, Frames, Encoded(Frames), skipFrameCount)'
      <4>1. last + 1 - 1 = last
        OBVIOUS
      <4> QED BY <2>11, <2>12, <2>14, <2>e, <2>k, <2>17, <3>1, <4>1 DEF InStep
    <3>3. f \in {Step(-1), Step(Norm)}' /\ Frames' # 0
      BY <2>11, <2>12, <2>13, <2>14
    <3> QED BY <2>7, <2>11, <2>12, <2>e, <2>k, <2>17, <3>1, <3>2, <3>3, SMTT(30) DEF EncRate
  <2>20. ASSUME NEW n \in 1 .. last + 1 PROVE RateAt(n)' /\ (n = 1 => stored'[n].encoded)
    <3>1. CASE n = last + 1
      <4>1. stored'[n] = r /\ stored'[n].encoded = r.encoded /\ Encoded(n)' = e
        BY <2>11, <2>e, <2>k, <3>1
      <4>2. n = 1 => r.encoded
        BY <2>9, <2>15, <3>1
      <4>3. r.picture = IF r.encoded THEN job'.start + n - 1 ELSE stored'[n - 1].picture
        <5>1. CASE encodes
          <6>1. job'.start + n - 1 = job.start + last
            BY <1>1, <2>2, <3>1
          <6> QED BY <2>9, <5>1, <6>1
        <5>2. CASE ~encodes
          <6>1. last \in 1 .. last /\ n - 1 = last
            BY <2>15, <3>1, <5>2
          <6>2. stored'[n - 1] = stored[last] /\ target = stored[last].picture
            BY <2>3, <2>4, <2>11, <6>1
          <6> QED BY <2>9, <5>2, <6>2
        <5> QED BY <5>1, <5>2
      <4>4. CASE Slowed
        <5>1. PICK ps \in {25, 30}, fps \in Nat, g \in Nat :
                /\ ps = PerSecond /\ fps = job.fps /\ g = Step(-1)
                /\ 1 <= fps /\ fps <= ps
                /\ s = (fps * 65536) \div ps /\ g = (fps * 65536) \div 25
                /\ ps = 25 => g = s
          <6>1. job.fps \in Nat /\ PerSecond \in {25, 30}
            <7>1. job.fps \in 0 .. MaxFps
              BY <2>2, EncAssumption
            <7>2. MaxFps \in Int
              BY SMT DEF MaxFps
            <7> QED BY <7>1, <7>2 DEF PerSecond
          <6> QED BY <2>2, <2>14, <4>4, <6>1, StepSizes DEF Slowed
        <5>2. f = s \/ (ps = 30 /\ f = (fps * 65536) \div 25)
          BY <2>13, <2>14, <5>1
        <5>3. n \in Nat /\ n >= 1 /\ n - 1 = last
          BY <3>1
        <5>4. 65536 * e = f + (n - 1) * s + skip
          BY <2>17, <5>3
        <5>5. skip < 65536 /\ (skip < 0 => e = n)
          BY <2>17, <3>1, <4>4
        <5>6. e * ps \in n * fps - (n * ps) \div 65536 .. (n + 1) * fps + ps
          <6>1. /\ ps \in {25, 30} /\ fps \in Nat /\ 1 <= fps /\ fps <= ps
                /\ s \in Nat /\ s = (fps * 65536) \div ps
                /\ f \in Nat /\ (f = s \/ (ps = 30 /\ f = (fps * 65536) \div 25))
            BY <2>14, <5>1, <5>2
          <6>2. n \in Nat /\ n >= 1 /\ e \in Nat
            BY <2>e, <5>3
          <6>3. skip \in Int /\ skip < 65536
            BY <2>k, <5>5
          <6>4. skip < 0 => e = n
            BY <5>5
          <6>5. 65536 * e = f + (n - 1) * s + skip
            BY <5>4
          <6>6. AtRate(ps, fps, s, f, n, e, skip)
            BY <6>1, <6>2, <6>3, <6>4, <6>5 DEF AtRate
          <6> QED BY <6>6, RateIsRight
        <5>7. Encoded(n)' * PerSecond' \in n * job'.fps - (n * PerSecond') \div 65536
                                              .. (n + 1) * job'.fps + PerSecond'
          BY <1>1, <2>12, <4>1, <5>1, <5>6
        <5> QED BY <1>1, <2>12, <4>1, <4>2, <4>3, <4>4, <5>7 DEF RateAt
      <4>5. CASE ~Slowed
        <5>1. r.encoded
          BY <2>9, <2>17, <4>5
        <5> QED BY <1>1, <2>12, <4>1, <4>2, <4>3, <4>5, <5>1 DEF RateAt
      <4> QED BY <4>4, <4>5
    <3>2. CASE n # last + 1
      <4>1. n \in 1 .. last /\ n \in 0 .. last
        BY <3>2
      <4>2. RateAt(n) /\ (n = 1 => stored[n].encoded)
        BY <2>1, <2>4, <4>1 DEF EncOutput
      <4>3. stored'[n] = stored[n] /\ Encoded(n)' = Encoded(n)
        BY <2>11, <4>1
      <4>4. n # 1 => stored'[n - 1] = stored[n - 1]
        <5>1. n # 1 => n - 1 \in 1 .. last
          BY <4>1
        <5> QED BY <2>11, <5>1
      <4> QED BY <1>1, <4>2, <4>3, <4>4, RateStays
    <3> QED BY <3>1, <3>2
  <2>21. ASSUME NEW n \in 1 .. last + 1, job.audio = "wav" PROVE SoundAt(n)'
    <3>0. Sounds
      BY <2>21 DEF Sounds
    <3>1. job.source.channels = 2
      BY <1>3, <2>1, <2>21, <3>0 DEF SoundOpened, WavReady
    <3>2. n > 1 => stored'[n - 1] = stored[n - 1]
      <4>1. n > 1 => n - 1 \in 1 .. last
        OBVIOUS
      <4> QED BY <2>11, <4>1
    <3>3. CASE n = last + 1
      <4>1. stored'[n].norm = Norm /\ stored'[n].sound = sound.data
        BY <2>9, <2>11, <3>0, <3>3 DEF piece
      <4>2. n \in Nat /\ n = Frames + 1
        BY <2>4, <3>3
      <4> QED BY <1>1, <2>1, <2>21, <3>1, <3>2, <4>1, <4>2, NewSoundIsRight
    <3>4. CASE n # last + 1
      <4>1. n \in 1 .. last
        BY <3>4
      <4>2. SoundAt(n)
        BY <2>1, <2>4, <2>21, <4>1 DEF EncOutput
      <4>3. stored'[n] = stored[n]
        BY <2>11, <4>1
      <4> QED BY <1>1, <3>2, <4>2, <4>3, SoundStays
    <3> QED BY <3>3, <3>4
  <2>22. EncOutput'
    <3>1. ASSUME NEW n \in 1 .. last + 1 PROVE stored'[n].norm = Norm
      <4>1. n = last + 1 \/ n \in 1 .. last
        OBVIOUS
      <4> QED BY <2>1, <2>4, <2>9, <2>11, <4>1 DEF EncOutput
    <3> QED BY <1>1, <2>11, <2>12, <2>20, <2>21, <3>1 DEF EncOutput
  <2>23. EncSound'
    <3>1. CASE ~(job.audio = "wav" /\ job.source.channels = 2)
      BY <1>1, <3>1 DEF EncSound
    <3>2. CASE job.audio = "wav" /\ job.source.channels = 2
      <4>1. stored'[Frames'].sound = sound.data
        BY <2>9, <2>11, <3>2 DEF piece, Sounds
      <4>2. Loads' = Loads
        BY <1>1, <2>7 DEF Loads
      <4>3. PieceOf(1)' = PieceOf(1) /\ \A k : SoundOf(k)' = SoundOf(k)
        BY <1>1, <2>12 DEF PieceOf, SoundOf
      <4>4. SoundOf(Loads)' = SoundOf(Loads) /\ SoundOf(Loads - 1)' = SoundOf(Loads - 1)
        BY <1>1, <2>12, <4>2 DEF PieceOf, SoundOf
      <4>5. FileOver => FileOver'
        BY <1>1, <4>1, <4>3 DEF FileOver
      <4>6. FileInStep => FileInStep'
        BY <1>1, <4>1, <4>2, <4>4 DEF FileInStep
      <4> QED BY <2>1, <3>2, <4>5, <4>6 DEF EncSound
    <3> QED BY <3>1, <3>2
  <2>24. EncType'
    <3>1. SoundOpened'
      BY <1>1, <2>1 DEF SoundOpened
    <3>2. job.audio = "wav" => job.source.channels = 2
      BY <1>3, <2>1 DEF SoundOpened, WavReady, Sounds
    <3> QED BY <1>1, <2>1, <2>7, <2>11, <3>1, <3>2 DEF EncType
  <2> QED BY <2>18, <2>19, <2>22, <2>23, <2>24 DEF EncInv
<1> QED BY <1>2, <1>3

LEMMA EncStep == EncInv /\ [EncNext]_encVars => EncInv'
<1> SUFFICES ASSUME EncInv, [EncNext]_encVars PROVE EncInv'
  OBVIOUS
<1>1. CASE UNCHANGED encVars
  <2>1. UNCHANGED <<job, encPc, frameNo, isPAL, streamPos, skipFrameCount, target, sound, stored>>
    BY <1>1 DEF encVars
  <2>2. EncType' /\ Running' = Running
    BY <2>1 DEF EncInv, EncType, Running, SoundOpened
  <2>3. EncOutput'
    BY <2>1, OutputStays DEF EncInv
  <2>4. CASE Running
    <3>1. EncPlace /\ EncRate /\ EncSound
      BY <2>4 DEF EncInv
    <3>2. /\ Frames' = Frames /\ Norm' = Norm /\ Unknown' = Unknown /\ Slowed' = Slowed
          /\ Step(-1)' = Step(-1) /\ Step(Norm)' = Step(Norm) /\ Encoded(Frames)' = Encoded(Frames)
      BY <2>1 DEF Frames, Norm, Unknown, Slowed, PerSecond, Step, Encoded
    <3>3. EncPlace'
      BY <2>1, <3>1, <3>2 DEF EncPlace
    <3>4. EncRate'
      BY <2>1, <3>1, <3>2 DEF EncRate, InStep
    <3>5. EncSound'
      <4>1. PieceOf(1)' = PieceOf(1) /\ Loads' = Loads
        BY <2>1 DEF PieceOf, Loads
      <4>2. SoundOf(Loads)' = SoundOf(Loads) /\ SoundOf(Loads - 1)' = SoundOf(Loads - 1)
        BY <2>1, <3>2, <4>1 DEF PieceOf, SoundOf
      <4> QED BY <2>1, <3>1, <3>2, <4>1, <4>2 DEF EncSound, FileOver, FileInStep
    <3> QED BY <2>2, <2>3, <3>3, <3>4, <3>5 DEF EncInv
  <2> QED BY <2>2, <2>3, <2>4 DEF EncInv
<1>2. CASE Main
  BY <1>2, MainKeeps
<1>3. CASE LoadSound
  BY <1>3, LoadSoundKeeps
<1>4. CASE SkipToStart
  BY <1>4, SkipKeeps
<1>5. CASE TakePicture
  BY <1>5, TakeKeeps
<1>6. CASE EncodeAndStore
  BY <1>6, StoreKeeps
<1>7. CASE Finish
  BY <1>7, FinishKeeps
<1> QED BY <1>1, <1>2, <1>3, <1>4, <1>5, <1>6, <1>7 DEF EncNext

LEMMA EncAlways == EncSpec => []EncInv
BY EncInitInv, EncStep, PTL DEF EncSpec

LEMMA FramesInOrder ==
  ASSUME EncInv PROVE DOMAIN stored = 1 .. Frames
<1>1. stored \in Seq(EncFrame)
  BY DEF EncInv, EncType
<1> QED BY <1>1, LenProperties DEF Frames

(* encodedv writes pictures at the rate that --fps asks for: the remainder   *)
(* carried in skip_frame_count is that of the pictures encoded, whatever the *)
(* rate, the first picture and the order of the loads.                       *)
THEOREM RateIsKept == EncSpec => []EncRateKept
<1>1. EncInv => EncRateKept
  <2> SUFFICES ASSUME EncInv PROVE EncRateKept
    OBVIOUS
  <2>1. DOMAIN stored = 1 .. Frames
    BY FramesInOrder
  <2>2. Norm \in {0, 1}
    BY DEF Norm
  <2> USE DEF EncRateKept
  <2> TAKE n \in DOMAIN stored
  <2>3. stored[n].norm = Norm /\ RateAt(n)
    BY <2>1 DEF EncInv, EncOutput
  <2>4. PerSecond = IF stored[n].norm # 0 THEN 25 ELSE 30
    BY <2>2, <2>3 DEF PerSecond
  <2> QED BY <2>3, <2>4 DEF RateAt, Slowed, Encoded
<1> QED BY <1>1, EncAlways, PTL

(* audio_input and the loop: each frame has the sound of its own time, and   *)
(* a file that is over does not shift it.                                    *)
THEOREM SoundKeepsInStep == EncSpec => []SoundInStep
<1>1. EncInv => SoundInStep
  <2> SUFFICES ASSUME EncInv PROVE SoundInStep
    OBVIOUS
  <2> USE DEF SoundInStep
  <2> HAVE job.audio = "wav"
  <2> TAKE n \in DOMAIN stored
  <2>1. SoundAt(n)
    BY FramesInOrder DEF EncInv, EncOutput
  <2> QED BY <2>1 DEF SoundAt, InStepAt
<1> QED BY <1>1, EncAlways, PTL

(* Every format that a source of sound can have is converted by value.       *)
THEOREM SamplesAreKept == EncSpec => []SamplesKept
<1>1. EncInv => SamplesKept
  <2> SUFFICES ASSUME EncInv, sound # <<>>, sound.format # "none", NEW b \in Edges \X Edges
               PROVE  LET out == Convert(sound.format, b)
                      IN  Signed(256 * out[1] + out[2]) = Meaning(sound.format, b)
    BY DEF SamplesKept
  <2>1. sound.format \in SourceFormats \ {"none"}
    BY DEF EncInv, EncType, SoundOpened, SoundState
  <2>2. b \in (0 .. 255) \X (0 .. 255)
    BY DEF Edges
  <2> QED BY <2>1, <2>2, ValuesKept
<1> QED BY <1>1, EncAlways, PTL

(***************************************************************************)
(* VlcQuant: the search for the quantisers.                                  *)
(***************************************************************************)
QuantValues == 0 .. 15
Coefficients == (1 .. 63) \X (Nat \ {0})
BitsOf(m, q) == [b \in MbBlocks |-> Bits(m, b, q)]
BitsOfAll == [k \in All |-> Bits(k[1], k[2], qno[k[1]])]

LEMMA MaxOfSome ==
  ASSUME NEW n \in Nat, NEW T, T \subseteq 0 .. n, T # {}
  PROVE  Max(T) \in T
<1> DEFINE D == {n - t : t \in T}
<1>t. \A t \in T : t \in Int /\ 0 <= t /\ t <= n
  OBVIOUS
<1>1. D \subseteq Nat /\ D # {}
  <2>1. \A t \in T : n - t \in Nat
    BY <1>t
  <2>2. PICK t \in T : TRUE
    OBVIOUS
  <2> QED BY <2>1, <2>2, Zenon
<1>2. PICK i \in D : \A j \in D : ~(j < i)
  <2> HIDE DEF D
  <2> QED BY <1>1, Least
<1>3. PICK x \in T : i = n - x
  BY <1>2, Zenon
<1>4. ASSUME NEW y \in T PROVE x >= y
  <2>1. ~(n - y < i)
    BY <1>2, Zenon
  <2> QED BY <1>t, <1>3, <2>1
<1> HIDE DEF D
<1> QED BY <1>4, Zenon DEF Max

LEMMA MaxOfQuantisers ==
  ASSUME NEW T, T \subseteq QuantValues, T # {}
  PROVE  Max(T) \in QuantValues
BY MaxOfSome DEF QuantValues

LEMMA MaxInRange ==
  ASSUME NEW T, T \subseteq QuantValues
  PROVE  Max({0} \cup T) \in QuantValues
<1>1. {0} \cup T \subseteq QuantValues /\ {0} \cup T # {}
  BY DEF QuantValues
<1> QED BY <1>1, MaxOfQuantisers

LEMMA MinOfSome ==
  ASSUME NEW T, T \subseteq Int, \A t \in T : t >= 0, T # {}
  PROVE  Min(T) \in T /\ \A t \in T : Min(T) <= t
<1>1. PICK i \in T : \A j \in T : ~(j < i)
  <2>1. T \subseteq Nat
    OBVIOUS
  <2> QED BY <2>1, Least
<1>2. \A y \in T : i <= y
  BY <1>1
<1> QED BY <1>2, Zenon DEF Min

(* How many steps at once: one to three.                                     *)
LEMMA RunsInRange ==
  ASSUME NEW excess \in Int, excess > 0, NEW cycle \in {500, 750}
  PROVE  Runs(excess, cycle) \in 1 .. 3
<1> DEFINE T == {excess \div cycle + 1, 3}
<1>1. excess \div cycle \in Int /\ excess \div cycle >= 0
  BY SMT
<1>2. T \subseteq Int /\ \A t \in T : t >= 1
  BY <1>1
<1>3. Min(T) \in T /\ \A t \in T : Min(T) <= t
  BY <1>2, MinOfSome
<1>4. Min(T) \in 1 .. 3
  BY <1>2, <1>3
<1> QED BY <1>4 DEF Runs

(* The entries of the tables are quantisers.                                 *)
LEMMA EntriesInRange ==
  ASSUME static_qno \in 1 .. 2, NEW bits \in Int, StaticHits(bits) # {} \/ bits > 512
  PROVE  /\ StaticQno(bits) \in QuantValues
         /\ bits > 512 => StaticQno(bits) # 15
<1> DEFINE T == StaticHits(bits)
<1>1. /\ \A i \in 1 .. 9 : /\ StaticTable[static_qno][i][1] \in Int
                            /\ StaticTable[static_qno][i][2] \in QuantValues
      /\ \A i \in 1 .. 8 : StaticTable[static_qno][i][2] # 15
      /\ StaticTable[static_qno][8][1] = 512
  <2>1. CASE static_qno = 1
    BY <2>1 DEF StaticTable, QuantValues
  <2>2. CASE static_qno = 2
    BY <2>2 DEF StaticTable, QuantValues
  <2> QED BY <2>1, <2>2
<1>2. T \subseteq 1 .. 9 /\ (bits > 512 => 8 \in T)
  BY <1>1 DEF StaticHits
<1>3. T # {} /\ T \subseteq Int /\ \A t \in T : t >= 0
  BY <1>2
<1>4. Min(T) \in T /\ \A t \in T : Min(T) <= t
  <2> HIDE DEF T
  <2> QED BY <1>3, MinOfSome
<1>5. StaticQno(bits) = StaticTable[static_qno][Min(T)][2]
  BY DEF StaticQno
<1> HIDE DEF T
<1>6. PICK least \in T : least = Min(T) /\ \A t \in T : least <= t
  BY <1>4
<1>7. least \in 1 .. 9 /\ (bits > 512 => least <= 8)
  BY <1>2, <1>6
<1> QED BY <1>1, <1>5, <1>6, <1>7

LEMMA CombinedInRange ==
  ASSUME NEW classes, classes \subseteq 0 .. 3, classes # {}
  PROVE  Combined(classes) \subseteq QuantValues
<1> DEFINE Entry(c, q) == Max({v \in Qnos[c + 1] : v <= q})
<1>1. \A c \in 0 .. 3 : Qnos[c + 1] \subseteq QuantValues /\ 0 \in Qnos[c + 1]
  BY DEF Qnos, QuantValues
<1>2. ASSUME NEW c \in 0 .. 3, NEW q \in 0 .. 15 PROVE Entry(c, q) \in QuantValues
  <2> DEFINE T == {v \in Qnos[c + 1] : v <= q}
  <2>1. T \subseteq QuantValues /\ T # {}
    <3>1. 0 \in T
      BY <1>1
    <3> QED BY <1>1, <3>1
  <2> HIDE DEF T
  <2>2. Max(T) \in QuantValues
    BY <2>1, MaxOfQuantisers
  <2> QED BY <2>2 DEF T
<1> HIDE DEF Entry
<1>3. ASSUME NEW q \in 0 .. 15 PROVE Max({Entry(c, q) : c \in classes}) \in QuantValues
  <2> DEFINE T == {Entry(c, q) : c \in classes}
  <2>1. T \subseteq QuantValues /\ T # {}
    BY <1>2
  <2> HIDE DEF T
  <2>2. Max(T) \in QuantValues
    BY <2>1, MaxOfQuantisers
  <2> QED BY <2>2 DEF T
<1> QED BY <1>3 DEF Combined, Entry

(***************************************************************************)
(* The numbers of bits.                                                      *)
(***************************************************************************)
LEMMA ClassInRange ==
  ASSUME NEW m, NEW b \in MbBlocks
  PROVE  Class(m, b) \in 0 .. 3
<1>1. Classify(Amplitude[segment[m][b]]) \in 0 .. 3
  <2>1. \A a, d, c : (IF a THEN 3 ELSE IF d THEN 2 ELSE IF c THEN 1 ELSE 0) \in {3, 2, 1, 0}
    OBVIOUS
  <2> QED BY <2>1 DEF Classify
<1> QED BY <1>1 DEF Class, ClassNo, MbBlocks

LEMMA SumIsTotal ==
  ASSUME NEW S, NEW f, DOMAIN f = S
  PROVE  SumFunction(f) = Total(f, S)
BY ZenonT(40) DEF SumFunction, SumFunctionOnSet, FoldFunctionOnSet, MapThenFoldSet, Total, SumMap,
                  IsSumMap, Some

(* A code has a length, whatever its run and amplitude.                      *)
LEMMA ShiftInRange ==
  ASSUME NEW area \in 0 .. 3, NEW q \in QuantValues, NEW klass \in 0 .. 3
  PROVE  Shift(area, q, klass) \in 0 .. 5
<1>1. q + QuantOffset[klass + 1] + 1 \in 1 .. 22
  BY DEF QuantOffset, QuantValues
<1>2. \A r \in 1 .. 22 : QuantShifts[r][area + 1] \in 0 .. 4
  BY DEF QuantShifts
<1> QED BY <1>1, <1>2 DEF Shift

LEMMA QuantIsInt ==
  ASSUME NEW x \in Nat \ {0}, NEW z \in 1 .. 63, NEW q \in QuantValues, NEW klass \in 0 .. 3
  PROVE  Quant(x, z, q, klass) \in Nat
<1>1. Area(z) \in 0 .. 3
  BY DEF Area
<1>2. PICK s \in 0 .. 5 : s = Shift(Area(z), q, klass)
  BY <1>1, ShiftInRange
<1>3. 2 ^ s \in Nat \ {0}
  <2>1. 2 ^ 0 = 1 /\ 2 ^ 1 = 2 /\ 2 ^ 2 = 4 /\ 2 ^ 3 = 8 /\ 2 ^ 4 = 16 /\ 2 ^ 5 = 32
    BY SMT
  <2>2. s = 0 \/ s = 1 \/ s = 2 \/ s = 3 \/ s = 4 \/ s = 5
    OBVIOUS
  <2>3. 2 ^ s \in {1, 2, 4, 8, 16, 32}
    BY <2>1, <2>2, Zenon
  <2> QED BY <2>3
<1>4. PICK d \in Nat \ {0} : d = 2 ^ s
  BY <1>3
<1>5. x \div d \in Nat
  OBVIOUS
<1> QED BY <1>2, <1>4, <1>5 DEF Quant, Quotient

LEMMA VlcTableRows == \A r \in 1 .. 15 : VlcTable[r] \in Seq(Nat)
<1>1. VlcTable[1] \in Seq(Nat)
  BY DEF VlcTable
<1>2. VlcTable[2] \in Seq(Nat)
  BY DEF VlcTable
<1>3. VlcTable[3] \in Seq(Nat)
  BY DEF VlcTable
<1>4. VlcTable[4] \in Seq(Nat)
  BY DEF VlcTable
<1>5. VlcTable[5] \in Seq(Nat)
  BY DEF VlcTable
<1>6. VlcTable[6] \in Seq(Nat)
  BY DEF VlcTable
<1>7. VlcTable[7] \in Seq(Nat)
  BY DEF VlcTable
<1>8. VlcTable[8] \in Seq(Nat)
  BY DEF VlcTable
<1>9. VlcTable[9] \in Seq(Nat)
  BY DEF VlcTable
<1>10. VlcTable[10] \in Seq(Nat)
  BY DEF VlcTable
<1>11. VlcTable[11] \in Seq(Nat)
  BY DEF VlcTable
<1>12. VlcTable[12] \in Seq(Nat)
  BY DEF VlcTable
<1>13. VlcTable[13] \in Seq(Nat)
  BY DEF VlcTable
<1>14. VlcTable[14] \in Seq(Nat)
  BY DEF VlcTable
<1>15. VlcTable[15] \in Seq(Nat)
  BY DEF VlcTable
<1>16. \A r \in 1 .. 15 : r = 1 \/ r = 2 \/ r = 3 \/ r = 4 \/ r = 5 \/ r = 6 \/ r = 7 \/ r = 8
                      \/ r = 9 \/ r = 10 \/ r = 11 \/ r = 12 \/ r = 13 \/ r = 14 \/ r = 15
  OBVIOUS
<1> QED BY <1>1, <1>2, <1>3, <1>4, <1>5, <1>6, <1>7, <1>8, <1>9, <1>10, <1>11, <1>12, <1>13, <1>14, <1>15, <1>16, Zenon

LEMMA CodeLength ==
  ASSUME NEW run \in Nat, NEW amp \in Nat \ {0}
  PROVE  VlcNumBits(run, amp) \in Int
<1>1. Len(VlcTable) = 15
  BY DEF VlcTable
<1>2. ASSUME NEW r \in Nat PROVE AmpLen(r, amp) \in Int
  <2>1. CASE InTable(r, amp)
    <3>1. r + 1 \in 1 .. 15 /\ amp <= Len(VlcTable[r + 1])
      BY <1>1, <2>1 DEF InTable
    <3>2. VlcTable[r + 1] \in Seq(Nat)
      BY <3>1, VlcTableRows
    <3>3. VlcTable[r + 1][amp] \in Nat
      <4> DEFINE row == VlcTable[r + 1]
      <4>1. row \in Seq(Nat) /\ amp \in 1 .. Len(row)
        BY <3>1, <3>2, LenProperties
      <4> HIDE DEF row
      <4>2. row[amp] \in Nat
        BY <4>1, ElementOfSeq
      <4> QED BY <4>2 DEF row
    <3> QED BY <2>1, <3>3 DEF AmpLen
  <2>2. CASE ~InTable(r, amp)
    BY <2>2 DEF AmpLen
  <2> QED BY <2>1, <2>2
<1>3. AmpLen(run, amp) \in Int /\ AmpLen(0, amp) \in Int
  BY <1>2
<1>4. \A r : ZeroesLen(r) \in Int
  <2>1. \A a, b : (IF a THEN 11 ELSE IF b THEN 12 ELSE 13) \in Int
    OBVIOUS
  <2> QED BY <2>1 DEF ZeroesLen
<1> QED BY <1>3, <1>4 DEF VlcNumBits

LEMMA PlacesAreNat == \A place \in 1 .. 63 : place \in Nat
OBVIOUS

LEMMA Between ==
  ASSUME NEW before, before \in Nat, NEW place \in 1 .. 63, before < place
  PROVE  place - before - 1 \in Nat
OBVIOUS

LEMMA BlockLength ==
  ASSUME NEW coeffs \in Seq(Coefficients),
         \A i, j \in DOMAIN coeffs : i < j => coeffs[i][1] < coeffs[j][1],
         NEW q \in QuantValues, NEW klass \in 0 .. 3
  PROVE  NumBitsBlock(coeffs, q, klass) \in Int
<1> DEFINE amp   == [i \in DOMAIN coeffs |-> Quant(coeffs[i][2], coeffs[i][1], q, klass)]
           coded == {i \in DOMAIN coeffs : amp[i] # 0}
           Before(i) == LET last == Max({0} \cup {j \in coded : j < i})
                        IN  IF last = 0 THEN 0 ELSE coeffs[last][1]
           Code(i) == VlcNumBits(coeffs[i][1] - Before(i) - 1, amp[i])
           codes == [i \in coded |-> Code(i)]
<1>1. PICK n \in Nat : DOMAIN coeffs = 1 .. n
  BY LenProperties
<1>2. ASSUME NEW i \in 1 .. n
      PROVE  coeffs[i][1] \in 1 .. 63 /\ coeffs[i][2] \in Nat \ {0} /\ amp[i] \in Nat
  <2>1. coeffs[i] \in Coefficients
    BY <1>1, ElementOfSeq, LenProperties
  <2>2. coeffs[i][1] \in 1 .. 63 /\ coeffs[i][2] \in Nat \ {0}
    BY <2>1 DEF Coefficients
  <2>3. Quant(coeffs[i][2], coeffs[i][1], q, klass) \in Nat
    BY <2>2, QuantIsInt
  <2> QED BY <1>1, <2>2, <2>3
<1>3. coded \subseteq 1 .. n /\ \A i \in coded : amp[i] \in Nat \ {0}
  BY <1>1, <1>2
<1> HIDE DEF coded, amp
<1>4. ASSUME NEW i \in coded PROVE Code(i) \in Int
  <2> DEFINE T == {0} \cup {j \in coded : j < i}
  <2>1. T \subseteq 0 .. n /\ T # {}
    <3>1. 0 \in 0 .. n /\ 1 .. n \subseteq 0 .. n
      OBVIOUS
    <3> QED BY <1>3, <3>1, Zenon
  <2>2. \A j \in T : j = 0 \/ (j \in coded /\ j < i)
    OBVIOUS
  <2> HIDE DEF T
  <2>3. PICK last \in T : last = Max(T)
    BY <2>1, MaxOfSome
  <2>4. Before(i) = IF last = 0 THEN 0 ELSE coeffs[last][1]
    BY <2>3 DEF T
  <2> HIDE DEF Before
  <2>5. i \in 1 .. n /\ amp[i] \in Nat \ {0}
    BY <1>3
  <2>6. PICK place \in 1 .. 63 : place = coeffs[i][1]
    BY <1>2, <2>5
  <2>7. PICK before : before = Before(i)
    OBVIOUS
  <2>8. before \in Nat /\ before < place
    <3>1. CASE last = 0
      <4>1. before = 0
        BY <2>4, <2>7, <3>1, Zenon
      <4> QED BY <4>1
    <3>2. CASE last # 0
      <4>1. last \in coded /\ last < i
        BY <2>2, <3>2, Zenon
      <4>2. last \in 1 .. n
        BY <1>3, <4>1, Zenon
      <4>3. PICK other \in 1 .. 63 : other = coeffs[last][1]
        BY <1>2, <4>2
      <4>4. coeffs[last][1] < coeffs[i][1]
        BY <1>1, <2>5, <4>1, <4>2
      <4>5. before = other
        BY <2>4, <2>7, <3>2, <4>3, Zenon
      <4>6. other < place
        BY <2>6, <4>3, <4>4, Zenon
      <4>7. other \in Nat
        BY PlacesAreNat, Zenon
      <4> QED BY <4>5, <4>6, <4>7, Zenon
    <3> QED BY <3>1, <3>2
  <2> DEFINE run == place - before - 1
  <2>9. run \in Nat
    BY <2>8, Between
  <2>10. Code(i) = VlcNumBits(run, amp[i])
    BY <2>6, <2>7, Zenon
  <2> HIDE DEF run, Code
  <2> QED BY <2>5, <2>9, <2>10, CodeLength
<1>5. codes \in [coded -> Int] /\ DOMAIN codes = coded
  <2> HIDE DEF Code
  <2> QED BY <1>4
<1>6. NumBitsBlock(coeffs, q, klass) = SumFunction(codes)
  BY Zenon DEF NumBitsBlock, coded, amp
<1>7. IsFiniteSet(coded)
  <2>1. IsFiniteSet(1 .. n)
    BY FS_Interval
  <2> QED BY <1>3, <2>1, FS_Subset
<1> HIDE DEF codes
<1>8. SumFunction(codes) = Total(codes, coded)
  BY <1>5, SumIsTotal
<1> QED BY <1>5, <1>6, <1>7, <1>8, TotalIsInt

LEMMA LengthIsInt ==
  ASSUME NEW p \in DOMAIN Patterns, NEW q \in QuantValues, NEW klass \in 0 .. 3
  PROVE  Lengths[p][4 * q + klass + 1] \in Int
<1> DEFINE i == 4 * q + klass + 1
           Row(r) == [j \in 1 .. 64 |-> NumBitsBlock(Patterns[r], (j - 1) \div 4, (j - 1) % 4)]
           rows == [r \in DOMAIN Patterns |-> Row(r) \o <<>>]
<1>1. PICK n \in Nat : DOMAIN Patterns = 1 .. n
  BY QuantAssumption, LenProperties
<1>2. ASSUME NEW r \in 1 .. n PROVE Row(r) \in Seq(Int) /\ Row(r) \o <<>> = Row(r)
  <2>1. ASSUME NEW j \in 1 .. 64 PROVE NumBitsBlock(Patterns[r], (j - 1) \div 4, (j - 1) % 4) \in Int
    <3> DEFINE coeffs == Patterns[r]
    <3>1. coeffs \in Seq(Coefficients)
      <4>1. Patterns \in Seq(Seq(Coefficients))
        BY QuantAssumption DEF Coefficients
      <4> QED BY <1>1, <4>1, ElementOfSeq, LenProperties
    <3>2. \A k, l \in DOMAIN coeffs : k < l => coeffs[k][1] < coeffs[l][1]
      BY <1>1, QuantAssumption
    <3>3. (j - 1) \div 4 \in QuantValues /\ (j - 1) % 4 \in 0 .. 3
      BY DEF QuantValues
    <3> HIDE DEF coeffs
    <3>4. NumBitsBlock(coeffs, (j - 1) \div 4, (j - 1) % 4) \in Int
      BY <3>1, <3>2, <3>3, BlockLength
    <3> QED BY <3>4 DEF coeffs
  <2>2. Row(r) \in Seq(Int)
    BY <2>1
  <2> HIDE DEF Row
  <2> QED BY <2>2, ConcatEmptySeq
<1>3. rows \in Seq(Seq(Int)) /\ rows[p] = Row(p)
  <2> HIDE DEF Row
  <2> QED BY <1>1, <1>2
<1>4. rows \o <<>> = rows
  <2> HIDE DEF rows
  <2> QED BY <1>3, ConcatEmptySeq
<1>5. Lengths = rows
  BY <1>4 DEF Lengths
<1>6. i \in 1 .. 64
  BY DEF QuantValues
<1>7. Row(p)[i] \in Int
  <2>1. Row(p) \in Seq(Int) /\ DOMAIN Row(p) = 1 .. 64
    BY <1>1, <1>2
  <2> HIDE DEF Row, i
  <2>2. Len(Row(p)) = 64
    BY <2>1, LenProperties
  <2> QED BY <1>6, <2>1, <2>2, ElementOfSeq
<1> QED BY <1>3, <1>5, <1>7

LEMMA BitsAreCounts ==
  ASSUME segment \in Segments, NEW m \in Mbs, NEW b \in MbBlocks, NEW q \in QuantValues
  PROVE  Bits(m, b, q) \in Int
<1>1. PICK klass \in 0 .. 3 : klass = Class(m, b)
  BY ClassInRange
<1>2. PICK p \in DOMAIN Patterns : p = segment[m][b]
  BY QuantAssumption
<1>3. Lengths[p][4 * q + klass + 1] \in Int
  BY LengthIsInt
<1> QED BY <1>1, <1>2, <1>3 DEF Bits

LEMMA SmallSets ==
  /\ IsFiniteSet(1 .. 5)
  /\ IsFiniteSet(1 .. 6) /\ Cardinality(1 .. 6) = 6
  /\ IsFiniteSet(1 .. 4) /\ Cardinality(1 .. 4) = 4
<1>1. \A n \in Int : IsFiniteSet(1 .. n) /\ Cardinality(1 .. n) = IF 1 > n THEN 0 ELSE n - 1 + 1
  BY FS_Interval
<1>2. 4 \in Int /\ 5 \in Int /\ 6 \in Int
  OBVIOUS
<1>3. IsFiniteSet(1 .. 5) /\ IsFiniteSet(1 .. 6) /\ IsFiniteSet(1 .. 4)
  BY <1>1, <1>2, Zenon
<1>4. Cardinality(1 .. 6) = IF 1 > 6 THEN 0 ELSE 6 - 1 + 1
  BY <1>1, <1>2, Zenon
<1>5. Cardinality(1 .. 4) = IF 1 > 4 THEN 0 ELSE 4 - 1 + 1
  BY <1>1, <1>2, Zenon
<1> QED BY <1>3, <1>4, <1>5

LEMMA FiniteGroups ==
  /\ IsFiniteSet(MbBlocks) /\ IsFiniteSet(Mbs) /\ IsFiniteSet(All)
  /\ \A m \in Mbs : IsFiniteSet(Mb(m))
<1>1. IsFiniteSet(MbBlocks) /\ IsFiniteSet(Mbs)
  BY SmallSets DEF MbBlocks, Mbs
<1>2. \A m : IsFiniteSet({m})
  BY FS_Singleton
<1> QED BY <1>1, <1>2, FS_Product DEF Mb, All

LEMMA BudgetOfMb ==
  ASSUME NEW m \in Mbs
  PROVE  AcBudget(Mb(m)) = 512
<1>1. IsFiniteSet({m}) /\ Cardinality({m}) = 1
  BY FS_Singleton
<1> DEFINE six == 1 .. 6
           four == 1 .. 4
           g == {m} \X six
           lum == {k \in g : k[2] <= 4}
<1>2. IsFiniteSet(six) /\ Cardinality(six) = 6 /\ IsFiniteSet(four) /\ Cardinality(four) = 4
  BY SmallSets
<1>3. \A k \in six : k <= 4 <=> k \in four
  OBVIOUS
<1>4. four \subseteq six
  OBVIOUS
<1> HIDE DEF six, four
<1>5. Cardinality({m} \X six) = Cardinality({m}) * Cardinality(six)
  BY <1>1, <1>2, FS_Product
<1>6. Cardinality({m} \X four) = Cardinality({m}) * Cardinality(four)
  BY <1>1, <1>2, FS_Product
<1>7. Cardinality(g) = 6 /\ Cardinality({m} \X four) = 4
  BY <1>1, <1>2, <1>5, <1>6
<1>8. lum = {m} \X four
  <2>1. ASSUME NEW k \in lum PROVE k \in {m} \X four
    <3>1. PICK b \in six : k = <<m, b>>
      OBVIOUS
    <3>2. b \in four
      BY <1>3, <2>1, <3>1
    <3> QED BY <3>1, <3>2
  <2>2. ASSUME NEW k \in {m} \X four PROVE k \in lum
    <3>1. PICK b \in four : k = <<m, b>>
      OBVIOUS
    <3>2. b \in six /\ b <= 4
      BY <1>3, <1>4
    <3> QED BY <3>1, <3>2
  <2> HIDE DEF lum
  <2> QED BY <2>1, <2>2
<1>9. Mb(m) = g
  BY DEF Mb, MbBlocks, six
<1>10. AcBudget(g) = 64 * Cardinality(g) + 32 * Cardinality(lum)
  BY Zenon DEF AcBudget
<1> HIDE DEF g, lum
<1> QED BY <1>7, <1>8, <1>9, <1>10

LEMMA BudgetIsInt == AcBudget(All) \in Int
<1>1. IsFiniteSet(All) /\ IsFiniteSet({k \in All : k[2] <= 4})
  BY FiniteGroups, FS_Subset
<1> QED BY <1>1, FS_CardinalityType DEF AcBudget

LEMMA MbBitsIsTotal ==
  ASSUME segment \in Segments, NEW m \in Mbs, NEW q \in QuantValues
  PROVE  /\ BitsOf(m, q) \in [MbBlocks -> Int]
         /\ MbBits(m, q) = Total(BitsOf(m, q), MbBlocks) /\ MbBits(m, q) \in Int
<1>1. BitsOf(m, q) \in [MbBlocks -> Int] /\ DOMAIN BitsOf(m, q) = MbBlocks
  BY BitsAreCounts DEF BitsOf
<1>2. MbBits(m, q) = Total(BitsOf(m, q), MbBlocks)
  BY <1>1, SumIsTotal DEF MbBits, BitsOf
<1> QED BY <1>1, <1>2, FiniteGroups, TotalIsInt

LEMMA GroupIsTotal ==
  ASSUME NEW g
  PROVE  Overflows(g) <=> Total([k \in g |-> Bits(k[1], k[2], qno[k[1]])], g) > AcBudget(g)
<1> DEFINE f == [k \in g |-> Bits(k[1], k[2], qno[k[1]])]
<1>1. DOMAIN f = g
  OBVIOUS
<1> HIDE DEF f
<1>2. SumFunction(f) = Total(f, g)
  BY <1>1, SumIsTotal
<1> QED BY <1>2 DEF Overflows, f

(* The sum over a macroblock, and over the segment by macroblocks.           *)
LEMMA OverflowOfMb ==
  ASSUME segment \in Segments, qno \in [Mbs -> QuantValues], NEW m \in Mbs
  PROVE  /\ MbBits(m, qno[m]) \in Int
         /\ Overflows(Mb(m)) <=> MbBits(m, qno[m]) > 512
<1> DEFINE g == BitsOf(m, qno[m])
           D == Mb(m)
           f == [k \in D |-> Bits(k[1], k[2], qno[k[1]])]
<1>1. g \in [MbBlocks -> Int] /\ MbBits(m, qno[m]) = Total(g, MbBlocks) /\ MbBits(m, qno[m]) \in Int
  BY MbBitsIsTotal
<1> DEFINE p == [b \in MbBlocks |-> <<m, b>>]
<1>2. /\ p \in [MbBlocks -> D] /\ \A b \in MbBlocks : g[b] = f[p[b]]
      /\ \A b \in MbBlocks : \A c \in MbBlocks : p[b] = p[c] => b = c
      /\ \A x \in D : x \in D <=> \E b \in MbBlocks : x = p[b]
  BY DEF Mb, BitsOf
<1>3. f \in [D -> Int]
  <2>1. ASSUME NEW k \in D PROVE Bits(k[1], k[2], qno[k[1]]) \in Int
    <3>1. k[1] = m /\ k[2] \in MbBlocks
      BY DEF Mb
    <3> QED BY <3>1, BitsAreCounts
  <2> QED BY <2>1
<1>4. IsFiniteSet(D) /\ IsFiniteSet(MbBlocks)
  BY FiniteGroups
<1>5. Overflows(Mb(m)) <=> Total(f, D) > AcBudget(D)
  BY GroupIsTotal
<1>6. AcBudget(D) = 512
  BY BudgetOfMb
<1> HIDE DEF g, D, f, p
<1>7. SumMap(f, D)[D] = Total(g, MbBlocks)
  BY <1>1, <1>2, <1>3, <1>4, SumOfRow
<1>9. Total(f, D) = Total(g, MbBlocks)
  BY <1>7 DEF Total
<1> QED BY <1>1, <1>5, <1>6, <1>9

LEMMA OverflowOfAll ==
  ASSUME segment \in Segments, qno \in [Mbs -> QuantValues],
         bits_used = [m \in Mbs |-> MbBits(m, qno[m])]
  PROVE  /\ Excess \in Int
         /\ Overflows(All) <=> Excess > 0
<1> DEFINE f == BitsOfAll
           part == [m \in Mbs |-> Mb(m)]
<1>1. ASSUME NEW m \in Mbs
      PROVE  /\ BitsOf(m, qno[m]) \in [MbBlocks -> Int]
             /\ MbBits(m, qno[m]) = Total(BitsOf(m, qno[m]), MbBlocks)
             /\ MbBits(m, qno[m]) \in Int
  <2>1. qno[m] \in QuantValues
    OBVIOUS
  <2> QED BY <2>1, MbBitsIsTotal
<1>2. f \in [All -> Int]
  <2>1. ASSUME NEW k \in All PROVE Bits(k[1], k[2], qno[k[1]]) \in Int
    <3>1. k[1] \in Mbs /\ k[2] \in MbBlocks
      BY DEF All
    <3> QED BY <3>1, BitsAreCounts
  <2> QED BY <2>1 DEF BitsOfAll
<1>3. bits_used \in [Mbs -> Int] /\ \A m \in Mbs : bits_used[m] = MbBits(m, qno[m])
  BY <1>1
<1>4. ASSUME NEW m \in Mbs PROVE bits_used[m] = SumMap(f, All)[part[m]]
  <2> DEFINE g == BitsOf(m, qno[m])
  <2>1. g \in [MbBlocks -> Int] /\ bits_used[m] = Total(g, MbBlocks)
    BY <1>1, <1>3
  <2> DEFINE p == [b \in MbBlocks |-> <<m, b>>]
             E == Mb(m)
  <2>2. /\ p \in [MbBlocks -> All] /\ \A b \in MbBlocks : g[b] = f[p[b]]
        /\ \A b \in MbBlocks : \A c \in MbBlocks : p[b] = p[c] => b = c
    BY DEF All, BitsOf, BitsOfAll
  <2>3. /\ E \in SUBSET All /\ part[m] = E
        /\ \A x \in All : x \in E <=> \E b \in MbBlocks : x = p[b]
    BY DEF All, Mb
  <2> HIDE DEF g, f, part, p, E
  <2>4. SumMap(f, All)[E] = Total(g, MbBlocks)
    BY <1>2, <2>1, <2>2, <2>3, FiniteGroups, SumOfRow
  <2> QED BY <2>1, <2>3, <2>4
<1>5. /\ part \in [Mbs -> SUBSET All] /\ \A x \in All : \E m \in Mbs : x \in part[m]
      /\ \A m \in Mbs : \A n \in Mbs : m # n => part[m] \cap part[n] = {}
  BY DEF All, Mb
<1>6. Overflows(All) <=> Total(f, All) > AcBudget(All)
  BY GroupIsTotal DEF BitsOfAll
<1> HIDE DEF f, part
<1>7. Total(f, All) = Total(bits_used, Mbs)
  BY <1>2, <1>3, <1>4, <1>5, FiniteGroups, TotalOfParts, SMTT(30)
<1>8. Excess = Total(bits_used, Mbs) - AcBudget(All)
  BY <1>3, SumIsTotal DEF Excess
<1>9. Total(bits_used, Mbs) \in Int /\ AcBudget(All) \in Int
  BY <1>3, FiniteGroups, TotalIsInt, BudgetIsInt
<1> QED BY <1>6, <1>7, <1>8, <1>9

(***************************************************************************)
(* The invariant.                                                            *)
(***************************************************************************)
QuantType ==
  /\ passes \in 1 .. 3 /\ static_qno \in 0 .. 2 /\ segment \in Segments
  /\ qm \in Mbs /\ qno \in [Mbs -> QuantValues]

(* Where the halving is: the quantiser and the step that go with it.         *)
HalvingAt ==
  /\ halving.ok \in QuantValues
  /\ \/ halving.i = 1 /\ halving.qno = 8 /\ halving.incr = 4
     \/ halving.i = 2 /\ halving.qno \in {4, 12} /\ halving.incr = 2
     \/ halving.i = 3 /\ halving.qno \in {2, 6, 10, 14} /\ halving.incr = 1
     \/ halving.i \in {4, 5} /\ halving.qno \in 1 .. 15 /\ halving.incr = 0

Settled(m) == qpc = "done" \/ m < qm
Fits(m) == MbBits(m, qno[m]) <= 512
HalfFits == MbBits(qm, halving.ok) <= 512
Counted == bits_used = [m \in Mbs |-> MbBits(m, qno[m])]

(* Two passes: each macroblock behind the search fits or was made to fit,    *)
(* and what the halving remembers as fitting does fit.                       *)
TwoInv ==
  /\ qpc \in {"search", "halve", "done"}
  /\ \A m \in Mbs : Settled(m) => Fits(m) \/ Mb(m) \in fitted
  /\ \A g \in fitted : \E m \in Mbs :
       Settled(m) /\ g = Mb(m) /\ (static_qno > 0 \/ qno[m] = 0)
  /\ qpc = "halve" => /\ static_qno = 0 /\ HalvingAt
                      /\ halving.ok # 0 => HalfFits

(* Three passes: what is counted is what the quantisers make of it.          *)
ThreeInv ==
  /\ qpc \in {"search", "coarsen", "done", "overrun"}
  /\ qpc \in {"search", "coarsen"} => fitted = {}
  /\ qpc = "search" => qno = [m \in Mbs |-> 15]
  /\ qpc = "coarsen" => Counted
  /\ QuantFits

QuantInv == passes \in 1 .. 3 /\ (passes > 1 => QuantType)
            /\ (passes = 2 => TwoInv) /\ (passes = 3 => ThreeInv)

LEMMA LowerInRange ==
  ASSUME NEW m \in Mbs, NEW q, NEW runs
  PROVE  Lower(m, q, runs) \in QuantValues
<1>1. ClassCombi(m) \subseteq 0 .. 3 /\ ClassCombi(m) # {}
  <2>1. ASSUME NEW b \in MbBlocks PROVE Class(m, b) \in 0 .. 3
    BY ClassInRange
  <2>2. 1 \in MbBlocks
    BY DEF MbBlocks
  <2> QED BY <2>1, <2>2 DEF ClassCombi
<1> DEFINE T == {v \in Combined(ClassCombi(m)) :
                   Cardinality({w \in Combined(ClassCombi(m)) : v <= w /\ w < q}) >= runs}
<1>2. T \subseteq QuantValues
  BY <1>1, CombinedInRange
<1>3. Lower(m, q, runs) = Max({0} \cup T)
  BY DEF Lower
<1> HIDE DEF T
<1> QED BY <1>2, <1>3, MaxInRange

(* What the new quantisers, and what is remembered, make of the bits.        *)
LEMMA FitsAfter ==
  ASSUME UNCHANGED <<segment, static_qno>>, NEW m, NEW q, qno'[m] = q
  PROVE  Fits(m)' <=> MbBits(m, q) <= 512
BY DEF Fits, MbBits, Bits, Class

LEMMA HalfFitsAfter ==
  ASSUME UNCHANGED <<segment, static_qno, qm>>, NEW q, halving'.ok = q
  PROVE  HalfFits' <=> MbBits(qm, q) <= 512
BY DEF HalfFits, MbBits, Bits, Class

LEMMA CountedAfter ==
  ASSUME UNCHANGED <<segment, static_qno>>, NEW q, qno' = q,
         bits_used' = [m \in Mbs |-> MbBits(m, q[m])]
  PROVE  Counted'
BY DEF Counted, MbBits, Bits, Class

LEMMA OverflowAfter ==
  ASSUME UNCHANGED <<segment, static_qno, qno>>, NEW g
  PROVE  Overflows(g)' <=> Overflows(g)
BY DEF Overflows, Bits, Class

(***************************************************************************)
(* The steps.                                                                *)
(***************************************************************************)
LEMMA QuantStarts == QuantInit => QuantInv
<1> SUFFICES ASSUME QuantInit PROVE QuantInv
  OBVIOUS
<1>1. QuantType /\ passes \in 1 .. 3
  BY QuantAssumption DEF QuantInit, QuantType, Mbs, QuantValues
<1>2. qpc = "search" /\ fitted = {} /\ qm = 1 /\ qno = [m \in Mbs |-> 15]
  BY DEF QuantInit
<1>3. TwoInv
  BY <1>2 DEF TwoInv, Settled, Mbs
<1>4. ThreeInv
  BY <1>2 DEF ThreeInv, QuantFits
<1> QED BY <1>1, <1>3, <1>4 DEF QuantInv

(* A macroblock is done: it fits or is made to fit.                          *)
LEMMA SettledKeepsInv ==
  ASSUME QuantType, TwoInv, qpc # "done", NEW q \in QuantValues, NEW groups, MbDone(q, groups), Keep,
         groups = {} \/ groups = {Mb(qm)},
         MbBits(qm, q) <= 512 \/ groups = {Mb(qm)},
         groups # {} => static_qno > 0 \/ q = 0
  PROVE  QuantType' /\ TwoInv'
<1>1. UNCHANGED <<segment, passes, static_qno>> /\ qno' = [qno EXCEPT ![qm] = q]
      /\ fitted' = fitted \cup groups
  BY DEF MbDone, Keep
<1>2. \/ qm < 5 /\ qm' = qm + 1 /\ qpc' = "search"
      \/ qm = 5 /\ qm' = 5 /\ qpc' = "done"
  BY DEF MbDone, QuantType, Mbs
<1>3. qm \in Mbs /\ qm' \in Mbs
  BY <1>2 DEF QuantType, Mbs
<1>4. QuantType'
  BY <1>1, <1>3 DEF QuantType
<1>5. \A m \in Mbs : Settled(m)' <=> Settled(m) \/ m = qm
  BY <1>2, <1>3 DEF Settled, Mbs
<1>6. qno'[qm] = q /\ \A m \in Mbs : m # qm => qno'[m] = qno[m]
  BY <1>1, <1>3 DEF QuantType
<1>7. ASSUME NEW m \in Mbs, Settled(m)' PROVE Fits(m)' \/ Mb(m) \in fitted'
  <2>1. CASE m = qm
    <3>1. Fits(m)' <=> MbBits(m, q) <= 512
      BY <1>1, <1>6, <2>1, FitsAfter
    <3> QED BY <1>1, <2>1, <3>1
  <2>2. CASE m # qm
    <3>1. Fits(m)' <=> MbBits(m, qno[m]) <= 512
      BY <1>1, <1>6, <2>2, FitsAfter
    <3>2. Fits(m) \/ Mb(m) \in fitted
      BY <1>5, <1>7, <2>2 DEF TwoInv
    <3> QED BY <1>1, <3>1, <3>2 DEF Fits
  <2> QED BY <2>1, <2>2
<1>8. ASSUME NEW g \in fitted'
      PROVE  \E m \in Mbs : Settled(m)' /\ g = Mb(m) /\ (static_qno' > 0 \/ qno'[m] = 0)
  <2>1. CASE g \in fitted
    <3>1. PICK m \in Mbs : Settled(m) /\ g = Mb(m) /\ (static_qno > 0 \/ qno[m] = 0)
      BY <2>1 DEF TwoInv
    <3>2. m # qm
      BY <1>3, <3>1 DEF Settled, Mbs
    <3> QED BY <1>1, <1>5, <1>6, <3>1, <3>2
  <2>2. CASE g = Mb(qm) /\ groups # {}
    BY <1>1, <1>3, <1>5, <1>6, <2>2
  <2> QED BY <1>1, <2>1, <2>2
<1>9. TwoInv'
  BY <1>2, <1>7, <1>8 DEF TwoInv, Mb
<1> QED BY <1>4, <1>9

LEMMA TwoPassesKeepsInv ==
  ASSUME QuantType, TwoInv, TwoPasses
  PROVE  QuantType' /\ TwoInv'
<1> DEFINE bits == MbBits(qm, 15)
           runs == Runs(bits - AcBudget(Mb(qm)), 750)
<1>1. qpc = "search" /\ Keep /\ 15 \in QuantValues /\ 0 \in QuantValues /\ qm \in Mbs
  BY DEF TwoPasses, QuantValues, QuantType
<1>2. bits \in Int /\ AcBudget(Mb(qm)) = 512
  BY <1>1, MbBitsIsTotal, BudgetOfMb DEF QuantType
<1>3. \/ bits <= 512 /\ MbDone(15, {})
      \/ /\ bits > 512 /\ static_qno > 0
         /\ MbDone(StaticQno(bits), IF StaticQno(bits) # 15 THEN {Mb(qm)} ELSE {})
      \/ /\ bits > 512 /\ static_qno = 0
         /\ halving' = [qno |-> 2 ^ (4 - runs), ok |-> 0, incr |-> 2 ^ (3 - runs), i |-> runs]
         /\ qpc' = "halve" /\ UNCHANGED <<qm, qb, qno, fitted>>
  BY <1>2 DEF TwoPasses
<1> HIDE DEF bits
<1>4. CASE bits <= 512 /\ MbDone(15, {})
  BY <1>1, <1>4, SettledKeepsInv DEF bits
<1>5. CASE /\ bits > 512 /\ static_qno > 0
           /\ MbDone(StaticQno(bits), IF StaticQno(bits) # 15 THEN {Mb(qm)} ELSE {})
  <2>1. static_qno \in 1 .. 2
    BY <1>5 DEF QuantType
  <2>2. PICK q \in QuantValues : q = StaticQno(bits) /\ q # 15
    BY <1>2, <1>5, <2>1, EntriesInRange
  <2>3. MbDone(q, {Mb(qm)})
    BY <1>5, <2>2
  <2> QED BY <1>1, <1>5, <2>3, SettledKeepsInv
<1>6. CASE /\ bits > 512 /\ static_qno = 0
           /\ halving' = [qno |-> 2 ^ (4 - runs), ok |-> 0, incr |-> 2 ^ (3 - runs), i |-> runs]
           /\ qpc' = "halve" /\ UNCHANGED <<qm, qb, qno, fitted>>
  <2>1. runs \in 1 .. 3
    <3> DEFINE excess == bits - AcBudget(Mb(qm))
    <3>1. excess \in Int /\ excess > 0
      BY <1>2, <1>6
    <3> HIDE DEF excess
    <3>2. Runs(excess, 750) \in 1 .. 3
      BY <3>1, RunsInRange
    <3> QED BY <3>2 DEF excess
  <2> HIDE DEF runs
  <2>2. HalvingAt' /\ halving'.ok = 0
    <3>1. 2 ^ 3 = 8 /\ 2 ^ 2 = 4 /\ 2 ^ 1 = 2 /\ 2 ^ 0 = 1
      BY SMT
    <3>2. CASE runs = 1
      <4>1. 4 - runs = 3 /\ 3 - runs = 2
        BY <3>2
      <4> QED BY <1>1, <1>6, <3>1, <3>2, <4>1 DEF HalvingAt
    <3>3. CASE runs = 2
      <4>1. 4 - runs = 2 /\ 3 - runs = 1
        BY <3>3
      <4> QED BY <1>1, <1>6, <3>1, <3>3, <4>1 DEF HalvingAt
    <3>4. CASE runs = 3
      <4>1. 4 - runs = 1 /\ 3 - runs = 0
        BY <3>4
      <4> QED BY <1>1, <1>6, <3>1, <3>4, <4>1 DEF HalvingAt
    <3> QED BY <2>1, <3>2, <3>3, <3>4
  <2>3. \A m \in Mbs : (Fits(m)' <=> Fits(m)) /\ (Settled(m)' <=> Settled(m))
    <3> SUFFICES ASSUME NEW m \in Mbs PROVE (Fits(m)' <=> Fits(m)) /\ (Settled(m)' <=> Settled(m))
      OBVIOUS
    <3>1. Fits(m)' <=> MbBits(m, qno[m]) <= 512
      BY <1>1, <1>6, FitsAfter DEF Keep
    <3> QED BY <1>1, <1>6, <3>1 DEF Fits, Settled
  <2>4. QuantType'
    BY <1>1, <1>6 DEF QuantType, Keep
  <2> HIDE DEF runs
  <2>5. UNCHANGED <<static_qno, fitted, qno, qm>> /\ qpc' = "halve" /\ static_qno = 0
    BY <1>1, <1>6 DEF Keep
  <2>6. TwoInv'
    BY <2>2, <2>3, <2>5 DEF TwoInv, Mb
  <2> QED BY <2>4, <2>6
<1> QED BY <1>3, <1>4, <1>5, <1>6

LEMMA HalveKeepsInv ==
  ASSUME QuantType, TwoInv, Halve
  PROVE  QuantType' /\ TwoInv'
<1>1. /\ qpc = "halve" /\ Keep /\ qm \in Mbs /\ 0 \in QuantValues
      /\ static_qno = 0 /\ HalvingAt /\ (halving.ok # 0 => HalfFits)
  BY DEF Halve, TwoInv, QuantType, QuantValues
<1>2. AcBudget(Mb(qm)) = 512
  BY <1>1, BudgetOfMb
<1>3. CASE halving.i < 5
  <2> DEFINE fits == MbBits(qm, halving.qno) <= 512
  <2>1. halving' = Try(halving, fits) /\ UNCHANGED <<qpc, qm, qb, qno, fitted>>
    BY <1>2, <1>3 DEF Halve
  <2>2. fits \in BOOLEAN
    OBVIOUS
  <2>3. HalvingAt' /\ halving'.ok = IF fits THEN halving.qno ELSE halving.ok
    <3> HIDE DEF fits
    <3> DEFINE next == IF fits THEN halving.qno + halving.incr ELSE halving.qno - halving.incr
    <3>1. /\ halving'.qno = next /\ halving'.ok = IF fits THEN halving.qno ELSE halving.ok
          /\ halving'.incr = halving.incr \div 2
          /\ halving'.i = IF halving.incr = 1 /\ next < 10 THEN 5 ELSE halving.i + 1
      BY <2>1 DEF Try
    <3> QED BY <1>1, <1>3, <2>2, <3>1 DEF HalvingAt, QuantValues
  <2>4. halving'.ok # 0 => HalfFits'
    <3>1. CASE fits
      <4>1. HalfFits' <=> MbBits(qm, halving.qno) <= 512
        BY <1>1, <2>1, <2>3, <3>1, HalfFitsAfter DEF Keep
      <4> QED BY <3>1, <4>1
    <3>2. CASE ~fits
      <4>1. HalfFits' <=> MbBits(qm, halving.ok) <= 512
        BY <1>1, <2>1, <2>3, <3>2, HalfFitsAfter DEF Keep
      <4> QED BY <1>1, <2>3, <3>2, <4>1 DEF HalfFits
    <3> QED BY <3>1, <3>2
  <2>5. \A m \in Mbs : (Fits(m)' <=> Fits(m)) /\ (Settled(m)' <=> Settled(m))
    <3> SUFFICES ASSUME NEW m \in Mbs PROVE (Fits(m)' <=> Fits(m)) /\ (Settled(m)' <=> Settled(m))
      OBVIOUS
    <3>1. Fits(m)' <=> MbBits(m, qno[m]) <= 512
      BY <1>1, <2>1, FitsAfter DEF Keep
    <3> QED BY <2>1, <3>1 DEF Fits, Settled
  <2>6. QuantType'
    BY <1>1, <2>1 DEF QuantType, Keep
  <2>7. UNCHANGED <<static_qno, fitted, qno, qm, qpc>>
    BY <1>1, <2>1 DEF Keep
  <2> HIDE DEF fits
  <2>8. TwoInv'
    BY <1>1, <2>3, <2>4, <2>5, <2>7 DEF TwoInv, Mb
  <2> QED BY <2>6, <2>8
<1>4. CASE ~(halving.i < 5)
  <2> DEFINE groups == IF halving.ok = 0 THEN {Mb(qm)} ELSE {}
  <2>1. PICK q \in QuantValues : q = halving.ok
    BY <1>1 DEF HalvingAt
  <2>2. MbDone(q, groups)
    BY <1>4, <2>1 DEF Halve
  <2>3. /\ groups = {} \/ groups = {Mb(qm)}
        /\ MbBits(qm, q) <= 512 \/ groups = {Mb(qm)}
        /\ groups # {} => q = 0
    BY <1>1, <2>1 DEF HalfFits
  <2> HIDE DEF groups
  <2> QED BY <1>1, <2>2, <2>3, SettledKeepsInv
<1> QED BY <1>3, <1>4

LEMMA MeasureKeepsInv ==
  ASSUME QuantType, ThreeInv, Measure
  PROVE  QuantType' /\ ThreeInv'
<1>1. /\ qpc = "search" /\ fitted = {} /\ qno = [m \in Mbs |-> 15] /\ Keep
      /\ bits_used' = [m \in Mbs |-> MbBits(m, 15)] /\ qpc' = "coarsen"
      /\ UNCHANGED <<qm, qno, fitted>>
  BY DEF Measure, ThreeInv
<1>2. bits_used' = [m \in Mbs |-> MbBits(m, qno[m])]
  BY <1>1
<1>3. Counted'
  BY <1>1, <1>2, CountedAfter DEF Keep
<1>4. QuantType'
  BY <1>1 DEF QuantType, Keep
<1> QED BY <1>1, <1>3, <1>4 DEF ThreeInv, QuantFits

LEMMA ReadyKeepsInv ==
  ASSUME passes = 3, QuantType, ThreeInv, Ready
  PROVE  QuantType' /\ ThreeInv'
<1>1. /\ qpc = "coarsen" /\ fitted = {} /\ Counted /\ Excess <= 0 /\ Keep /\ qpc' = "done"
      /\ UNCHANGED <<qm, qno, fitted>>
  BY DEF Ready, ThreeInv
<1>2. Excess \in Int /\ (Overflows(All) <=> Excess > 0)
  BY <1>1, OverflowOfAll DEF Counted, QuantType
<1>3. ~Overflows(All)
  BY <1>1, <1>2
<1>4. Overflows(All)' <=> Overflows(All)
  BY <1>1, OverflowAfter DEF Keep, All, Mbs, MbBlocks
<1>5. QuantType'
  BY <1>1 DEF QuantType, Keep
<1>6. Groups' = {All} /\ All' = All
  BY <1>1 DEF Groups, Keep, All, Mbs, MbBlocks
<1>7. QuantFits'
  BY <1>1, <1>3, <1>4, <1>6 DEF QuantFits
<1> QED BY <1>1, <1>5, <1>7 DEF ThreeInv

LEMMA FittedIsEnough ==
  ASSUME passes' = 3, qpc' = "done", fitted' = {All}, NEW m \in Mbs,
         static_qno' > 0 \/ qno'[m] = 0
  PROVE  ThreeInv'
<1>1. Groups' = {All}
  BY DEF Groups, All, Mbs, MbBlocks
<1>2. <<m, 1>> \in All /\ <<m, 1>>[1] = m
  BY DEF All, MbBlocks
<1>3. \A g \in fitted' : static_qno' > 0 \/ \E k \in g : qno'[k[1]] = 0
  BY <1>2
<1>4. QuantFits'
  BY <1>1, <1>3 DEF QuantFits
<1> QED BY <1>4 DEF ThreeInv

LEMMA FromTableKeepsInv ==
  ASSUME passes = 3, QuantType, ThreeInv, FromTable
  PROVE  QuantType' /\ ThreeInv'
<1>1. qpc = "coarsen" /\ fitted = {} /\ Counted /\ static_qno > 0 /\ Keep /\ UNCHANGED qm
  BY DEF FromTable, ThreeInv
<1>2. CASE \E m \in Mbs : StaticHits(bits_used[m]) = {}
  <2>1. qpc' = "overrun" /\ UNCHANGED <<qno, fitted>>
    BY <1>2 DEF FromTable
  <2>2. QuantType'
    BY <1>1, <2>1 DEF QuantType, Keep
  <2> QED BY <1>1, <2>1, <2>2 DEF ThreeInv, QuantFits
<1>3. CASE \A m \in Mbs : StaticHits(bits_used[m]) # {}
  <2> DEFINE Raised(q) == IF q < 14 THEN q + 1 ELSE q
  <2>1. /\ qno' = [m \in Mbs |-> Raised(StaticQno(bits_used[m]))]
        /\ fitted' = {All} /\ qpc' = "done"
    BY <1>3 DEF FromTable
  <2>2. \A q \in QuantValues : Raised(q) \in QuantValues
    BY DEF QuantValues
  <2> HIDE DEF Raised
  <2>3. ASSUME NEW m \in Mbs PROVE StaticQno(bits_used[m]) \in QuantValues
    <3>1. bits_used[m] \in Int
      <4>1. bits_used[m] = MbBits(m, qno[m])
        BY <1>1 DEF Counted
      <4> QED BY <4>1, OverflowOfMb DEF QuantType
    <3>2. static_qno \in 1 .. 2
      BY <1>1 DEF QuantType
    <3> QED BY <1>3, <3>1, <3>2, EntriesInRange
  <2>4. QuantType'
    BY <1>1, <2>1, <2>2, <2>3 DEF QuantType, Keep
  <2>5. ThreeInv'
    <3>1. 1 \in Mbs /\ passes' = 3 /\ static_qno' > 0
      BY <1>1 DEF Mbs, Keep
    <3> QED BY <2>1, <3>1, FittedIsEnough
  <2> QED BY <2>4, <2>5
<1> QED BY <1>2, <1>3

LEMMA MostIsOne ==
  ASSUME bits_used \in [Mbs -> Int]
  PROVE  MostBits \in Mbs
<1> DEFINE Above(m) == \A n \in Mbs : bits_used[n] < bits_used[m] \/ (bits_used[n] = bits_used[m] /\ m <= n)
<1>1. PICK a \in Int, b \in Int, c \in Int, d \in Int, e \in Int :
        bits_used[1] = a /\ bits_used[2] = b /\ bits_used[3] = c /\ bits_used[4] = d /\ bits_used[5] = e
  BY DEF Mbs
<1>2. \E m \in Mbs : Above(m)
  <2>1. Mbs = {1, 2, 3, 4, 5}
    BY DEF Mbs
  <2> QED BY <1>1, <2>1
<1> QED BY <1>2, Zenon DEF MostBits

LEMMA CoarsenKeepsInv ==
  ASSUME passes = 3, QuantType, ThreeInv, Coarsen
  PROVE  QuantType' /\ ThreeInv'
<1> DEFINE m == MostBits
           q == Lower(m, qno[m], Runs(Excess, 500))
<1>1. /\ qpc = "coarsen" /\ fitted = {} /\ Counted /\ Keep /\ UNCHANGED qm
      /\ qno' = [qno EXCEPT ![m] = q]
      /\ IF q = 0 THEN qpc' = "done" /\ fitted' = {All} /\ UNCHANGED bits_used
                  ELSE bits_used' = [bits_used EXCEPT ![m] = MbBits(m, q)] /\ UNCHANGED <<qpc, fitted>>
  BY DEF Coarsen, ThreeInv
<1>2. \A n \in Mbs : bits_used[n] = MbBits(n, qno[n]) /\ bits_used[n] \in Int
  <2> SUFFICES ASSUME NEW n \in Mbs PROVE bits_used[n] = MbBits(n, qno[n]) /\ bits_used[n] \in Int
    OBVIOUS
  <2>1. bits_used[n] = MbBits(n, qno[n])
    BY <1>1 DEF Counted
  <2> QED BY <2>1, OverflowOfMb DEF QuantType
<1>3. bits_used \in [Mbs -> Int]
  BY <1>1, <1>2 DEF Counted
<1>4. m \in Mbs
  BY <1>3, MostIsOne
<1>5. q \in QuantValues
  BY <1>4, LowerInRange
<1> HIDE DEF q, m
<1>6. QuantType'
  BY <1>1, <1>4, <1>5 DEF QuantType, Keep
<1>7. CASE q = 0
  <2>1. passes' = 3 /\ qpc' = "done" /\ fitted' = {All} /\ qno'[m] = 0
    BY <1>1, <1>4, <1>7 DEF Keep, QuantType
  <2>2. PICK n \in Mbs : n = m
    BY <1>4
  <2>3. qno'[n] = 0
    BY <2>1, <2>2
  <2> QED BY <1>6, <2>1, <2>3, FittedIsEnough
<1>8. CASE q # 0
  <2>1. bits_used' = [bits_used EXCEPT ![m] = MbBits(m, q)] /\ qpc' = "coarsen" /\ fitted' = {}
    BY <1>1, <1>8
  <2> DEFINE new == [qno EXCEPT ![m] = q]
  <2>2. new[m] = q /\ \A n \in Mbs : n # m => new[n] = qno[n]
    BY <1>4 DEF QuantType
  <2>3. bits_used' = [n \in Mbs |-> MbBits(n, new[n])]
    <3> HIDE DEF new
    <3> QED BY <1>2, <1>3, <1>4, <2>1, <2>2
  <2> HIDE DEF new
  <2>4. Counted'
    <3>1. qno' = new
      BY <1>1 DEF new
    <3> QED BY <1>1, <2>3, <3>1, CountedAfter DEF Keep
  <2> QED BY <1>6, <2>1, <2>4 DEF ThreeInv, QuantFits
<1> QED BY <1>7, <1>8

LEMMA QuantStep == QuantInv /\ [QuantNext]_quantVars => QuantInv'
<1> SUFFICES ASSUME QuantInv, [QuantNext]_quantVars PROVE QuantInv'
  OBVIOUS
<1>1. CASE UNCHANGED quantVars
  <2>1. QuantType' <=> QuantType
    BY <1>1 DEF quantVars, QuantType, Mbs, QuantValues
  <2>2. TwoInv' <=> TwoInv
    BY <1>1 DEF quantVars, TwoInv, Settled, Fits, HalfFits, HalvingAt, MbBits, Bits, Class, Mb,
                Mbs, MbBlocks, QuantValues
  <2>3. ThreeInv' <=> ThreeInv
    <3>1. QuantFits' <=> QuantFits
      BY <1>1 DEF quantVars, QuantFits, Groups, Overflows, Bits, Class, Mb, All, Mbs, MbBlocks
    <3>2. Counted' <=> Counted
      BY <1>1 DEF quantVars, Counted, MbBits, Bits, Class, Mbs, MbBlocks
    <3> QED BY <1>1, <3>1, <3>2 DEF quantVars, ThreeInv, Mbs
  <2>4. passes' = passes
    BY <1>1 DEF quantVars
  <2> QED BY <2>1, <2>2, <2>3, <2>4 DEF QuantInv
<1>2. CASE QuantNext
  <2>1. passes' = passes
    BY <1>2 DEF QuantNext, OnePass, TwoPasses, Halve, Measure, Ready, FromTable, Coarsen, Keep
  <2>2. CASE passes = 1
    BY <2>1, <2>2 DEF QuantInv
  <2>3. CASE passes = 2
    <3>1. QuantType /\ TwoInv /\ qpc # "coarsen"
      BY <2>3 DEF QuantInv, TwoInv
    <3>2. TwoPasses \/ Halve
      BY <1>2, <2>3, <3>1 DEF QuantNext, OnePass, Measure, Ready, FromTable, Coarsen
    <3>3. QuantType' /\ TwoInv'
      BY <3>1, <3>2, TwoPassesKeepsInv, HalveKeepsInv
    <3> QED BY <2>1, <2>3, <3>3 DEF QuantInv
  <2>4. CASE passes = 3
    <3>1. QuantType /\ ThreeInv /\ qpc # "halve"
      BY <2>4 DEF QuantInv, ThreeInv
    <3>2. Measure \/ Ready \/ FromTable \/ Coarsen
      BY <1>2, <2>4, <3>1 DEF QuantNext, OnePass, TwoPasses, Halve
    <3>3. QuantType' /\ ThreeInv'
      BY <2>4, <3>1, <3>2, MeasureKeepsInv, ReadyKeepsInv, FromTableKeepsInv, CoarsenKeepsInv
    <3> QED BY <2>1, <2>4, <3>3 DEF QuantInv
  <2> QED BY <2>2, <2>3, <2>4 DEF QuantInv
<1> QED BY <1>1, <1>2

LEMMA QuantInvFits == QuantInv => QuantFits
<1> SUFFICES ASSUME QuantInv, qpc = "done", passes = 2 PROVE QuantFits
  BY DEF QuantInv, ThreeInv, QuantFits
<1>1. QuantType /\ TwoInv
  BY DEF QuantInv
<1>2. ASSUME NEW g \in Groups, Overflows(g) PROVE g \in fitted
  <2>1. PICK m \in Mbs : g = Mb(m)
    BY DEF Groups
  <2>2. ~Fits(m)
    <3>1. MbBits(m, qno[m]) \in Int /\ (Overflows(Mb(m)) <=> MbBits(m, qno[m]) > 512)
      BY <1>1, OverflowOfMb DEF QuantType
    <3> QED BY <1>2, <2>1, <3>1 DEF Fits
  <2> QED BY <1>1, <2>1, <2>2 DEF TwoInv, Settled
<1>3. ASSUME NEW g \in fitted PROVE static_qno > 0 \/ \E k \in g : qno[k[1]] = 0
  <2>1. PICK m \in Mbs : g = Mb(m) /\ (static_qno > 0 \/ qno[m] = 0)
    BY <1>1 DEF TwoInv
  <2>2. <<m, 1>> \in Mb(m) /\ <<m, 1>>[1] = m
    BY DEF Mb, MbBlocks
  <2> QED BY <2>1, <2>2
<1> QED BY <1>2, <1>3 DEF QuantFits

(* However the search for the quantisers ends: with two or three passes the  *)
(* codes of each group fit, or vlc_make_fit is called for it, and that only  *)
(* at quantiser 0 or with a static table.                                    *)
THEOREM SearchEndsFitting == QuantSpec => []QuantFits
<1> QED BY QuantStarts, QuantStep, QuantInvFits, PTL DEF QuantSpec
=============================================================================
