------------------------------ MODULE VlcCodes ------------------------------
(* The bits of a video segment, as the encoder (encode.c) and the decoder  *)
(* (parse.c, vlc.c) of libdv see them: NumMb macroblocks of NumBlk blocks, *)
(* each with an area of its own in which its variable length codes start,  *)
(* and a prefix code.  In the program there are 5 macroblocks of 6 blocks, *)
(* areas of 100 bits (luminance) and 68 (chrominance).                     *)
EXTENDS Integers, Sequences, FiniteSets, SequencesExt

CONSTANTS
  NumMb,       \* macroblocks of a segment
  NumBlk,      \* blocks of a macroblock
  AreaBits,    \* AreaBits[b]: bits of the area of block b of a macroblock
  Words,       \* codewords of coefficients, sequences of bits
  Eob,         \* codeword that ends a block (0110 in the program)
  ErrorWords,  \* prefixes that no codeword has
  Run,         \* Run[w]: zero coefficients that w skips before its own
  MaxCoeffs    \* AC coefficients of a block (63 in the program)

Bit == {0, 1}
Blk == (0 .. NumMb - 1) \X (0 .. NumBlk - 1)

(* No codeword begins another one.                                         *)
ASSUME PrefixCode ==
  \A v, w \in Words \cup {Eob} \cup ErrorWords :
     /\ v \in Seq(Bit) /\ v # <<>>
     /\ v # w => ~IsPrefix(v, w)
ASSUME SegmentShape ==
  /\ NumMb \in Nat \ {0} /\ NumBlk \in Nat \ {0} /\ MaxCoeffs \in Nat
  /\ AreaBits \in [0 .. NumBlk - 1 -> Nat]
  /\ Run \in [Words -> Nat]

Area(k) == AreaBits[k[2]]
Positions == {p \in Blk \X (1 .. Max({Area(k) : k \in Blk})) : p[2] <= Area(p[1])}

Before(j, k) == j[1] < k[1] \/ (j[1] = k[1] /\ j[2] < k[2])
First(S) == CHOOSE k \in S : \A j \in S \ {k} : Before(k, j)
InOrder(S) == SetToSortSeq(S, Before)

(* What dv_decode_vlc finds at the start of the available bits: a codeword, *)
(* an error, or, when they are too few for either, NoWord.                  *)
NoWord == <<>>
Decode(bits) ==
  LET found == {w \in Words \cup {Eob} \cup ErrorWords : IsPrefix(w, bits)}
  IN  IF found = {} THEN NoWord ELSE CHOOSE w \in found : TRUE
=============================================================================
