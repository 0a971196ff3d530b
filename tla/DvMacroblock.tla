---------------------------- MODULE DvMacroblock ----------------------------
(* One macroblock of a picture: where it lies (place.c), from which samples  *)
(* of the picture its six blocks are filled (enc_input.c), and which pixels  *)
(* the decoder paints from which of their samples (rgb.c, YUY2.c, YV12.c).   *)
(*                                                                           *)
(* Positions are <<x, y>> in pixels.  A block sample is <<b, r, c>>: block b *)
(* (0..3 luma, 4 Cr and 5 Cb, which are always treated alike), row r, column *)
(* c; sample values and colour arithmetic are left out.                      *)
EXTENDS Integers, Sequences, FiniteSets, TLC

Systems == {"ntsc", "pal", "pal411"}   \* 525/60; 625/50 IEC 61834; 625/50 SMPTE 314M
DifSeqs(system) == IF system = "ntsc" THEN 10 ELSE 12
Height(system) == IF system = "ntsc" THEN 480 ELSE 576
Sampling(system) == IF system = "pal" THEN "420" ELSE "411"

-----------------------------------------------------------------------------
(* Placement.  Macroblock m of segment k of DIF sequence i comes from the    *)
(* super block in row (i + vertical[m]) and column horizontal[m].            *)
SuperMapVertical   == <<2, 6, 8, 0, 4>>
SuperMapHorizontal == <<2, 1, 3, 0, 4>>

(* Down one column of a super block, up the next.                            *)
Zigzag(n, h) == IF (n \div h) % 2 = 0 THEN n % h ELSE h - 1 - (n % h)

\* A mutant: odd super block columns start at the top as well.
Place411Unshifted(i, j, k) ==
  LET col == (k \div 6 + <<0, 4, 9, 13, 18>>[j + 1]) * 4
  IN <<col * 8, (Zigzag(k, 6) * (IF col < 22 * 4 THEN 1 ELSE 2) + i * 6) * 8>>

Place411(i, j, k) ==
  LET num == IF j % 2 = 1 THEN k + 3 ELSE k
      col == (num \div 6 + <<0, 4, 9, 13, 18>>[j + 1]) * 4
      row == IF col < 22 * 4 THEN Zigzag(num, 6) + i * 6
                             ELSE Zigzag(num, 6) * 2 + i * 6
  IN <<col * 8, row * 8>>

Place420(i, j, k) ==
  <<(k \div 3 + <<0, 9, 18, 27, 36>>[j + 1]) * 16, (Zigzag(k, 3) + i * 3) * 16>>

(* dv_place_macroblock of the decoder, and the copy of it in the encoder.    *)
PlaceMacroblock(system, ds, v, m) ==
  LET i == (ds + SuperMapVertical[m]) % DifSeqs(system)
      j == SuperMapHorizontal[m]
  IN IF Sampling(system) = "411" THEN Place411(i, j, v) ELSE Place420(i, j, v)

\* A mutant: the number of DIF sequences of 625/50 for both systems.
EncPlaceOf12(system, ds, v, m) ==
  LET i == (ds + SuperMapVertical[m]) % 12
  IN IF system = "pal" THEN Place420(i, SuperMapHorizontal[m], v)
                       ELSE Place411(i, SuperMapHorizontal[m], v)

EncPlaceMacroblock(system, ds, v, m) ==
  LET i == (ds + SuperMapVertical[m]) % (IF system = "pal" THEN 12 ELSE 10)
      j == SuperMapHorizontal[m]
  IN IF system = "pal" THEN Place420(i, j, v) ELSE Place411(i, j, v)

(* The three shapes: 32 x 8 pixels, 16 x 16 at the right edge of a 4:1:1     *)
(* picture, 16 x 16 of a 4:2:0 picture.  The encoder tells the right edge by *)
(* x = 720 - 16, the decoder by x >= 704.                                    *)
EncShape(system, pos) ==
  IF system = "pal" THEN "420" ELSE IF pos[1] = 720 - 16 THEN "right" ELSE "411"
DecShape(system, pos) ==
  IF Sampling(system) = "420" THEN "420" ELSE IF pos[1] >= 704 THEN "right" ELSE "411"

-----------------------------------------------------------------------------
(* Filling: the picture samples a block sample is made of, relative to the   *)
(* macroblock.  Chroma samples of the colour planes are <<cx, cy>>, with one *)
(* plane column for two pixels.                                              *)
FillLuma(shape, b, r, c) ==
  IF shape = "411" THEN <<8 * b + c, r>> ELSE <<8 * (b % 2) + c, 8 * (b \div 2) + r>>

(* From planes with a chroma row for every line (ppm_fill_macroblock,        *)
(* _dv_ycb_fill_macroblock): the lines of the picture that enter the sample. *)
PlaneFill(shape, r, c) ==
  CASE shape = "420"   -> {c} \X {2 * r, 2 * r + 1}
    [] shape = "right" -> {2 * (c % 4), 2 * (c % 4) + 1} \X {r + 8 * (c \div 4)}
    [] shape = "411"   -> {2 * c, 2 * c + 1} \X {r}

(* From a PGM file, whose chroma rows stand for two lines each.  The loops   *)
(* for the right edge use the column as row and write past the block: only   *)
(* what is in the 64 coefficients at the end counts.                         *)
PgmRows(shape, r, c) ==
  CASE shape = "420"   -> {c} \X {r}
    [] shape = "right" -> {2 * (r \div 2), 2 * (r \div 2) + 1} \X {c}
    [] shape = "411"   -> {2 * c, 2 * c + 1} \X {r \div 2}
PgmFill(shape, r, c) ==
  UNION {{s[1]} \X {2 * s[2], 2 * s[2] + 1} : s \in PgmRows(shape, r, c)}

FillChroma(format, shape, r, c) ==
  IF format = "pgm" THEN PgmFill(shape, r, c) ELSE PlaneFill(shape, r, c)

(* The planes themselves.  From YUY2: the byte of the line a sample is.      *)
Yuy2Input(comp, s) ==
  CASE comp = "y"  -> <<2 * s[1], s[2]>>
    [] comp = "cb" -> <<4 * s[1] + 1, s[2]>>
    [] comp = "cr" -> <<4 * s[1] + 3, s[2]>>

(* From RGB: the pixels, numbered through the picture, a chroma sample is    *)
(* the mean of.  The sums are stored at each even pixel, not after each odd  *)
(* one, so that a sample joins a pixel with the one before it.               *)
RgbInput(s) == LET i == 720 * s[2] + 2 * s[1] IN {i - 1, i} \ {-1}

-----------------------------------------------------------------------------
(* Painting: the writes of the loops over a macroblock, each with the pixel, *)
(* and the positions of the luma pointer (block y, coefficient yc) and the   *)
(* chroma pointer cc at that time.                                           *)
Write(px, py, y, yc, cc) == [pixel |-> <<px, py>>, y |-> y, yc |-> yc, cc |-> cc]

(* Eight rows of four Y blocks, one chroma sample for a span of 4 pixels.    *)
Walk411 ==
  {Write(8 * i + 4 * j + k, row, i, 8 * row + 4 * j + k, 8 * row + 2 * i + j) :
     row \in 0 .. 7, i \in 0 .. 3, j \in 0 .. 1, k \in 0 .. 3}

\* A mutant of the next: the chroma pointer does not skip the other half.
Walk411RightUnskipped ==
  {Write(8 * i + 4 * s + k, 4 * j + row, j + i, 8 * row + 4 * s + k,
         2 * j + 4 * row + 2 * i + s) :
     j \in {0, 2}, row \in 0 .. 7, i \in 0 .. 1, s \in 0 .. 1, k \in 0 .. 3}

(* Two rows of two Y blocks; the chroma pointer starts j*2 samples into the  *)
(* block, and skips 4 after the 4 samples of each row.                       *)
Walk411Right ==
  {Write(8 * i + 4 * s + k, 4 * j + row, j + i, 8 * row + 4 * s + k,
         2 * j + (4 + 4) * row + 2 * i + s) :
     j \in {0, 2}, row \in 0 .. 7, i \in 0 .. 1, s \in 0 .. 1, k \in 0 .. 3}

(* Pairs of rows of the same field, two lines apart: four such pairs for a   *)
(* row of Y blocks.  Past every second pair the line and the luma pointer    *)
(* skip the two lines already painted.                                       *)
Walk420 ==
  {LET line == (row \div 2) * 4 + (row % 2)
   IN Write(8 * i + 2 * col + k, 4 * j + line + 2 * lo, j + i,
            8 * row + 16 * (row \div 2) + 16 * lo + 2 * col + k,
            8 * (2 * j + row) + 4 * i + col) :
     j \in {0, 2}, row \in 0 .. 3, i \in 0 .. 1, col \in 0 .. 3, k \in 0 .. 1,
     lo \in 0 .. 1}

(* Planar output: the chroma planes are written on their own, sample by      *)
(* sample, and have a row for two lines.                                     *)
WalkYV12 ==
  {Write(8 * j + col, 4 * i + row, i + j, 8 * row + col,
         8 * ((4 * i + row) \div 2) + (8 * j + col) \div 2) :
     i \in {0, 2}, row \in 0 .. 7, j \in 0 .. 1, col \in 0 .. 7}

Walk(space, shape) ==
  CASE shape = "411"   -> Walk411
    [] shape = "right" -> Walk411Right
    [] shape = "420"   -> IF space = "yv12" THEN WalkYV12 ELSE Walk420

(* The bytes of a line a write sets, and what each of them is.               *)
Byte(at, line, is, w) == [at |-> <<at, line>>, is |-> is, w |-> w]
RgbBytes(w) ==
  {Byte(3 * w.pixel[1] + k - 1, w.pixel[2], <<"r", "g", "b">>[k], w) : k \in 1 .. 3}
\* A mutant of the next: the fourth byte forgotten.
Bgr0Unpadded(w) ==
  {Byte(3 * w.pixel[1] + k - 1, w.pixel[2], <<"b", "g", "r">>[k], w) : k \in 1 .. 3}
Bgr0Bytes(w) ==
  {Byte(4 * w.pixel[1] + k - 1, w.pixel[2], <<"b", "g", "r", "0">>[k], w) : k \in 1 .. 4}
Yuy2Bytes(w) ==
  {Byte(2 * w.pixel[1], w.pixel[2], "y", w),
   Byte(2 * w.pixel[1] + 1, w.pixel[2], IF w.pixel[1] % 2 = 0 THEN "cb" ELSE "cr", w)}

Mb411Rgb       == UNION {RgbBytes(w) : w \in Walk411}
Mb411RightRgb  == UNION {RgbBytes(w) : w \in Walk411Right}
Mb420Rgb       == UNION {RgbBytes(w) : w \in Walk420}
Mb411Bgr0      == UNION {Bgr0Bytes(w) : w \in Walk411}
Mb411RightBgr0 == UNION {Bgr0Bytes(w) : w \in Walk411Right}
Mb420Bgr0      == UNION {Bgr0Bytes(w) : w \in Walk420}
Mb411Yuy2      == UNION {Yuy2Bytes(w) : w \in Walk411}
Mb411RightYuy2 == UNION {Yuy2Bytes(w) : w \in Walk411Right}
Mb420Yuy2      == UNION {Yuy2Bytes(w) : w \in Walk420}

(* The MMX versions store eight bytes at once, four pixels that share two    *)
(* pairs of chroma samples.                                                  *)
Quad(px, py, y, yc, c0, c1) ==
  UNION {Yuy2Bytes(Write(px + k, py, y, yc + k, IF k < 2 THEN c0 ELSE c1)) : k \in 0 .. 3}

Mb411Yuy2Mmx ==
  UNION {LET c == 8 * row + 2 * i + s IN Quad(8 * i + 4 * s, row, i, 8 * row + 4 * s, c, c) :
           row \in 0 .. 7, i \in 0 .. 3, s \in 0 .. 1}
Mb411RightYuy2Mmx ==
  UNION {LET c == 2 * j + 8 * row + 2 * i + s
         IN Quad(8 * i + 4 * s, 4 * j + row, j + i, 8 * row + 4 * s, c, c) :
           j \in {0, 2}, row \in 0 .. 7, i \in 0 .. 1, s \in 0 .. 1}
Mb420Yuy2Mmx ==
  UNION {LET c  == 8 * (2 * j + row) + 4 * i + 2 * s
             yc == <<0, 8, 32, 40>>[row + 1] + 16 * lo + 4 * s
         IN Quad(8 * i + 4 * s, 4 * j + <<0, 1, 4, 5>>[row + 1] + 2 * lo, j + i, yc, c, c + 1) :
           j \in {0, 2}, row \in 0 .. 3, i \in 0 .. 1, s \in 0 .. 1, lo \in 0 .. 1}

(* Half height: every second row of luma; 4:2:0 steps back to use a row of   *)
(* chroma twice, and then over the next.                                     *)
Mb411Yuy2Hh ==
  UNION {LET c == 16 * row + 2 * i + s IN Quad(8 * i + 4 * s, row, i, 16 * row + 4 * s, c, c) :
           row \in 0 .. 3, i \in 0 .. 3, s \in 0 .. 1}
Mb411RightYuy2Hh ==
  UNION {LET c == 2 * j + 16 * row + 2 * i + s
         IN Quad(8 * i + 4 * s, 2 * j + row, j + i, 16 * row + 4 * s, c, c) :
           j \in {0, 2}, row \in 0 .. 3, i \in 0 .. 1, s \in 0 .. 1}
\* A mutant of the next: no step back.
Mb420Yuy2HhForward ==
  UNION {LET c == 8 * (2 * j + row) + 4 * i + 2 * s
         IN Quad(8 * i + 4 * s, 2 * j + row, j + i, 16 * row + 4 * s, c, c + 1) :
           j \in {0, 2}, row \in 0 .. 3, i \in 0 .. 1, s \in 0 .. 1}
Mb420Yuy2Hh ==
  UNION {LET c == 8 * (2 * j + <<0, 0, 2, 2>>[row + 1]) + 4 * i + 2 * s
         IN Quad(8 * i + 4 * s, 2 * j + row, j + i, 16 * row + 4 * s, c, c + 1) :
           j \in {0, 2}, row \in 0 .. 3, i \in 0 .. 1, s \in 0 .. 1}

(* dv_render_macroblock_rgb, _bgr0, _yuv without and with MMX.               *)
RenderRgb  == "411" :> Mb411Rgb  @@ "right" :> Mb411RightRgb  @@ "420" :> Mb420Rgb
RenderBgr0 == "411" :> Mb411Bgr0 @@ "right" :> Mb411RightBgr0 @@ "420" :> Mb420Bgr0
RenderYuv  == "411" :> Mb411Yuy2 @@ "right" :> Mb411RightYuy2 @@ "420" :> Mb420Yuy2
RenderYuvMmx ==
  "411" :> Mb411Yuy2Mmx @@ "right" :> Mb411RightYuy2Mmx @@ "420" :> Mb420Yuy2Mmx
RenderHalf == "411" :> Mb411Yuy2Hh @@ "right" :> Mb411RightYuy2Hh @@ "420" :> Mb420Yuy2Hh
=============================================================================
