------------------------------ MODULE DvPicture ------------------------------
(* The way of a picture through a DV frame, at the sizes of the standard:    *)
(* dv_encode_full_frame reads the macroblocks of each video segment from the *)
(* picture and stores them in five consecutive DIF blocks, dv_decode_full_   *)
(* frame takes them from there and paints them.  Both walk through the frame *)
(* with a running DIF block number; nothing in a DIF block says where its    *)
(* macroblock belongs.                                                       *)
EXTENDS DvMacroblock

VARIABLES
  system,  \* television system of the frame
  phase,   \* "encode", "decode" or "done"
  ds, v,   \* DIF sequence and video segment the loop is at
  dif,     \* DIF block the loop is at
  tape,    \* DIF block -> position its macroblock was filled from
  drawn,   \* 8 x 8 cells of the picture painted so far
  seg      \* the five macroblocks painted last: [pos, from, slot]
vars == <<system, phase, ds, v, dif, tape, drawn, seg>>

(* 625/50 with 4:1:1 sampling is only decoded: such a frame is a camera's.   *)
CameraTape == [d \in {} |-> <<>>]

Init ==
  /\ system \in Systems
  /\ phase = IF system = "pal411" THEN "decode" ELSE "encode"
  /\ ds = 0 /\ v = 0 /\ dif = 6
  /\ tape = CameraTape
  /\ drawn = {} /\ seg = <<>>

(* Mutants of FirstBlock: no room for the audio, or room before each segment.*)
NoAudioBlock == dif
AlwaysAudioBlock == dif + 1

(* The audio block before every third segment is skipped.                    *)
FirstBlock == IF v % 3 = 0 THEN dif + 1 ELSE dif

(* End of the loop body: next segment, or past the six blocks of header,     *)
(* subcode and vaux to the next DIF sequence.                                *)
Advance(last) ==
  IF v < 26 THEN /\ v' = v + 1 /\ ds' = ds
                 /\ dif' = FirstBlock + 5 /\ phase' = phase
  ELSE /\ v' = 0
       /\ IF ds + 1 < DifSeqs(system)
          THEN ds' = ds + 1 /\ dif' = FirstBlock + 5 + 6 /\ phase' = phase
          ELSE ds' = 0 /\ dif' = 6 /\ phase' = last

(* Macroblock m of the segment goes 80 * m bytes into the segment's buffer.  *)
EncodeSegment ==
  /\ phase = "encode"
  /\ tape' = tape @@ [d \in FirstBlock .. FirstBlock + 4 |->
                        EncPlaceMacroblock(system, ds, v, d - FirstBlock + 1)]
  /\ Advance("decode")
  /\ UNCHANGED <<system, drawn, seg>>

Cells(mb) ==
  {<<(mb.pos[1] + w.pixel[1]) \div 8, (mb.pos[2] + w.pixel[2]) \div 8>> :
     w \in Walk("packed", DecShape(system, mb.pos))}

DecodeSegment ==
  /\ phase = "decode"
  /\ seg' = [m \in 1 .. 5 |->
               LET slot == FirstBlock + m - 1 IN
               [slot |-> slot, pos |-> PlaceMacroblock(system, ds, v, m),
                from |-> IF slot \in DOMAIN tape THEN tape[slot]
                         ELSE PlaceMacroblock(system, ds, v, m)]]
  /\ drawn' = drawn \cup UNION {Cells(seg'[m]) : m \in 1 .. 5}
  /\ Advance("done")
  /\ UNCHANGED <<system, tape>>

Done == phase = "done" /\ UNCHANGED vars

Next == EncodeSegment \/ DecodeSegment \/ Done
Spec == Init /\ [][Next]_vars /\ WF_vars(EncodeSegment) /\ WF_vars(DecodeSegment)

-----------------------------------------------------------------------------
FrameBlocks == 0 .. 150 * DifSeqs(system) - 1
Picture == (0 .. 89) \X (0 .. Height(system) \div 8 - 1)

TypeOK ==
  /\ system \in Systems /\ phase \in {"encode", "decode", "done"}
  /\ ds \in 0 .. 11 /\ v \in 0 .. 26 /\ dif \in FrameBlocks
  /\ DOMAIN tape \subseteq FrameBlocks

(* The blocks where dv_decode_full_audio looks for audio, and the six blocks *)
(* the meta data is written to at the head of each sequence.                 *)
AudioSlots == {150 * s + 6 + 16 * a : s \in 0 .. DifSeqs(system) - 1, a \in 0 .. 8}
HeadSlots == {150 * s + b : s \in 0 .. DifSeqs(system) - 1, b \in 0 .. 5}

(* The picture never overwrites sound or meta data, and when the encoder is  *)
(* through, every DIF block of the frame has its content.                    *)
FrameIsFull ==
  /\ DOMAIN tape \cap (AudioSlots \cup HeadSlots) = {}
  /\ (phase # "encode" /\ system # "pal411")
       => DOMAIN tape \cup AudioSlots \cup HeadSlots = FrameBlocks

(* No cell of the picture is ever painted twice in a frame: the super block  *)
(* shuffling and the zigzags, with the odd super blocks and the double-height*)
(* right edge, never let two macroblocks overlap.  Each segment adds five    *)
(* macroblocks of four cells.                                                *)
CellsPaintedOnce ==
  [][phase = "decode" => Cardinality(drawn') = Cardinality(drawn) + 20]_vars

(* When the decoder is through the whole picture is painted and nothing      *)
(* outside; within a macroblock each byte is written exactly once, whatever  *)
(* the colour space (n bytes for a pixel).                                   *)
BytesOnce(bytes, n, shape) ==
  LET width == IF shape = "411" THEN 32 ELSE 16
  IN /\ Cardinality(bytes) = 256 * n
     /\ {b.at : b \in bytes} = (0 .. width * n - 1) \X (0 .. 256 \div width - 1)

ShapesPainted == {DecShape(system, seg[m].pos) : m \in DOMAIN seg}

PictureIsFull ==
  /\ drawn \subseteq Picture
  /\ phase = "done" => drawn = Picture
  /\ \A shape \in ShapesPainted :
       /\ BytesOnce(RenderRgb[shape], 3, shape)
       /\ BytesOnce(RenderBgr0[shape], 4, shape)
       /\ BytesOnce(RenderYuv[shape], 2, shape)

(* Nothing is left out: neither of the frame that is written, nor of the     *)
(* picture that is painted.                                                  *)
NothingMissing == FrameIsFull /\ PictureIsFull

(* The versions of the painting code agree: MMX writes the bytes of plain C, *)
(* and the half-height functions its even lines.                             *)
VersionsAgree ==
  \A shape \in ShapesPainted :
    /\ RenderYuvMmx[shape] = RenderYuv[shape]
    /\ {<<b.at, b.is, b.w.y, b.w.yc, b.w.cc>> : b \in RenderHalf[shape]} =
       {<<<<b.at[1], b.at[2] \div 2>>, b.is, b.w.y, b.w.yc, b.w.cc>> :
          b \in {x \in RenderYuv[shape] : x.at[2] % 2 = 0}}

(* Luma comes back where it was: the pixel a luma sample is painted to is    *)
(* the pixel the encoder read it from, whatever picture format and output    *)
(* layout.                                                                   *)
LumaComesBack ==
  \A m \in DOMAIN seg, space \in {"packed", "yv12"} :
    LET mb == seg[m] IN
    \A w \in Walk(space, DecShape(system, mb.pos)) :
      LET src == FillLuma(EncShape(system, mb.from), w.y, w.yc \div 8, w.yc % 8)
      IN <<mb.pos[1] + w.pixel[1], mb.pos[2] + w.pixel[2]>> =
           <<mb.from[1] + src[1], mb.from[2] + src[2]>>

(* Chroma of a pixel comes from its own 4 x 4 tile of the picture, and its   *)
(* own sample is part of it.  The exception is 4:2:0 painted packed, where   *)
(* the decoder pairs lines of a field and the encoder neighbouring lines.    *)
(* From an RGB picture the pixel before the tile may enter, but no other.    *)
ChromaOfMacroblock(mb, format, space) ==
  \A w \in Walk(space, DecShape(system, mb.pos)) :
    LET shape == EncShape(system, mb.from)
        src == FillChroma(format, shape, w.cc \div 8, w.cc % 8)
        at  == w.pixel
    IN /\ mb.from = mb.pos
       /\ \A s \in src : s[1] \div 2 = at[1] \div 4 /\ s[2] \div 4 = at[2] \div 4
       /\ \/ shape = "420" /\ space = "packed"
          \/ <<at[1] \div 2, at[2]>> \in src
       /\ format = "planes" =>
            \A s \in src :
              LET X == mb.from[1] + at[1]  Y == mb.from[2] + s[2]
              IN RgbInput(<<mb.from[1] \div 2 + s[1], Y>>) \subseteq
                   720 * Y + 4 * (X \div 4) - 1 .. 720 * Y + 4 * (X \div 4) + 3

(* In YUY2, a chroma byte is painted from bytes of its own colour and tile.  *)
ChromaBytes(mb) ==
  \A b \in {x \in RenderYuv[DecShape(system, mb.pos)] : x.is # "y"} :
    \A s \in PlaneFill(EncShape(system, mb.from), b.w.cc \div 8, b.w.cc % 8) :
      LET src == Yuy2Input(b.is, s)
      IN /\ src[1] % 4 = b.at[1] % 4 /\ src[1] \div 8 = b.at[1] \div 8
         /\ src[2] \div 4 = b.at[2] \div 4

(* For every format but the right edge of a PGM picture.                     *)
ChromaComesBack ==
  \A m \in DOMAIN seg :
    /\ ChromaBytes(seg[m])
    /\ \A space \in {"packed", "yv12"} :
         /\ ChromaOfMacroblock(seg[m], "planes", space)
         /\ EncShape(system, seg[m].from) # "right" => ChromaOfMacroblock(seg[m], "pgm", space)

(* Every pixel comes back with its own luma and the chroma around it.        *)
PixelsComeBack == LumaComesBack /\ ChromaComesBack
=============================================================================
