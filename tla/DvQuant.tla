-------------------------------- MODULE DvQuant ------------------------------
(* The quantiser and the order of the coefficients of a block, on the way    *)
(* out (encode.c, quant.c) and on the way in (parse.c, quant.c), each with   *)
(* its own tables.  Coefficient 0, the DC value, has a code of its own.      *)
EXTENDS Integers, Sequences, FiniteSetsExt

(* Place in zigzag order, from 1, of the coefficients of a block row by row. *)
(* (dv_init makes them byte offsets from 0, as the x86 versions of           *)
(* reorder_block take them; the C version would still take off 1.)           *)
Reorder ==
  [dct88  |-> <<1,2,6,7,15,16,28,29,3,5,8,14,17,27,30,43,4,9,13,18,26,31,
               42,44,10,12,19,25,32,41,45,54,11,20,24,33,40,46,53,55,21,23,34,39,
               47,52,56,61,22,35,38,48,51,57,60,62,36,37,49,50,58,59,63,64>>,
   dct248 |-> <<1,3,7,19,21,35,37,51,5,9,17,23,33,39,49,53,11,15,25,31,41,47,
               55,61,13,27,29,43,45,57,59,63,2,4,8,20,22,36,38,52,6,10,18,24,
               34,40,50,54,12,16,26,32,42,48,56,62,14,28,30,44,46,58,60,64>>]

(* Place in the block of the coefficients in zigzag order.                   *)
ReorderPrime ==
  [dct88  |-> <<0,1,8,16,9,2,3,10,17,24,32,25,18,11,4,5,12,19,26,33,40,48,
               41,34,27,20,13,6,7,14,21,28,35,42,49,56,57,50,43,36,29,22,15,23,
               30,37,44,51,58,59,52,45,38,31,39,46,53,60,61,54,47,55,62,63>>,
   dct248 |-> <<0,32,1,33,8,40,2,34,9,41,16,48,24,56,17,49,10,42,3,35,4,36,
               11,43,18,50,25,57,26,58,19,51,12,44,5,37,6,38,13,45,20,52,27,59,
               28,60,21,53,14,46,7,39,15,47,22,54,29,61,30,62,23,55,31,63>>]

(* The decoder looks a coefficient's area up by its place in the block, the  *)
(* encoder by its place in zigzag order.                                     *)
Areas ==
  [dct88  |-> <<-1,0,0,1,1,1,2,2,0,0,1,1,1,2,2,2,0,1,1,1,2,2,
               2,3,1,1,1,2,2,2,3,3,1,1,2,2,2,3,3,3,1,2,2,2,
               3,3,3,3,2,2,2,3,3,3,3,3,2,2,3,3,3,3,3,3>>,
   dct248 |-> <<-1,0,1,1,1,2,2,3,0,1,1,2,2,2,3,3,1,1,2,2,2,3,
               3,3,1,2,2,2,3,3,3,3,0,0,1,1,2,2,2,3,0,1,1,2,
               2,2,3,3,1,1,2,2,2,3,3,3,1,2,2,3,3,3,3,3>>]
Area(z) == IF z < 1+2+3 THEN 0 ELSE IF z < 1+2+3+4+5+6 THEN 1
           ELSE IF z < 1+2+3+4+5+6+7+8+7 THEN 2 ELSE 3

QuantShifts ==
  <<<<3,3,4,4>>, <<3,3,4,4>>, <<2,3,3,4>>, <<2,3,3,4>>, <<2,2,3,3>>, <<2,2,3,3>>,
    <<1,2,2,3>>, <<1,2,2,3>>, <<1,1,2,2>>, <<1,1,2,2>>, <<0,1,1,2>>, <<0,1,1,2>>,
    <<0,0,1,1>>, <<0,0,1,1>>, <<0,0,0,1>>>> \o [i \in 1 .. 7 |-> <<0,0,0,0>>]
QuantOffset == <<6, 3, 0, 1>>

Shift(area, q, klass) ==
  QuantShifts[q + QuantOffset[klass + 1] + 1][area + 1] + (IF klass = 3 THEN 1 ELSE 0)

Quotient(x, factor) == IF x < 0 THEN -((-x) \div factor) ELSE x \div factor

\* A mutant: a shift in place of the division, which takes -1 to -1.
QuantByShift(x, z, q, klass) ==
  IF q = 15 /\ klass # 3 THEN x ELSE x \div 2 ^ Shift(Area(z), q, klass)

(* _dv_quant on the coefficient at zigzag place z.                           *)
Quant(x, z, q, klass) ==
  IF q = 15 /\ klass # 3 THEN x ELSE Quotient(x, 2 ^ Shift(Area(z), q, klass))

(* A block as a function from 0 .. 63: out in zigzag order and quantised, in *)
(* again at the places of dv_reorder and multiplied back.                    *)
Modes == {"dct88", "dct248"}
PlaceInBlock == [mode \in Modes |-> [z \in 1 .. 63 |->
                  (CHOOSE i \in 1 .. 64 : Reorder[mode][i] = z + 1) - 1]]
PlaceInCodes == [mode \in Modes |-> [p \in 1 .. 63 |->
                  (CHOOSE i \in 1 .. 64 : ReorderPrime[mode][i] = p) - 1]]
Quantised(mode, block, q, klass) ==
  [z \in 1 .. 63 |-> Quant(block[PlaceInBlock[mode][z]], z, q, klass)]
QuantInverse(mode, codes, q, klass) ==
  [p \in 1 .. 63 |-> codes[PlaceInCodes[mode][p]] * 2 ^ Shift(Areas[mode][p + 1], q, klass)]

(***************************************************************************)
(* The lengths of the codes (dv_vlc_test_table), sign included: by run and   *)
(* amplitude from 1, and for the zeroes alone that go before an escape.      *)
(***************************************************************************)
VlcTable ==
  <<<<2,3,4,4,5,5,6,6,7,7,7,8,8,8,8,8,8,9,9,9,9,9>>,
    <<4,5,7,7,8,8,8,9,10,10,10,11,11,11,12,12,12>>, <<5,7,8,9,9,10,12,12,12,12,12>>,
    <<6,8,9,10,10,11,12>>, <<6,8,9,11,12>>, <<7,9,10>>, <<7,9,11>>, <<8,12,12>>,
    <<8,12,12>>, <<8,12>>, <<8,12>>, <<9>>, <<9>>, <<9>>, <<9>>>>
ZeroesLen(run) == IF run < 2 THEN 11 ELSE IF run < 6 THEN 12 ELSE 13
InTable(run, amp) == run < Len(VlcTable) /\ amp <= Len(VlcTable[run + 1])
AmpLen(run, amp) == IF InTable(run, amp) THEN VlcTable[run + 1][amp] + 1 ELSE 16
VlcNumBits(run, amp) ==
  IF run = 0 \/ InTable(run, amp) THEN AmpLen(run, amp)
                                  ELSE ZeroesLen(run - 1) + AmpLen(0, amp)

(* _dv_vlc_num_bits_block, of <<place, amplitude>> in order of the places;   *)
(* the coefficients that are quantised to nothing lengthen the runs.         *)
NumBitsBlock(coeffs, q, klass) ==
  LET amp   == [i \in DOMAIN coeffs |-> Quant(coeffs[i][2], coeffs[i][1], q, klass)]
      coded == {i \in DOMAIN coeffs : amp[i] # 0}
      Before(i) == LET last == Max({0} \cup {j \in coded : j < i})
                   IN  IF last = 0 THEN 0 ELSE coeffs[last][1]
  IN  SumFunction([i \in coded |-> VlcNumBits(coeffs[i][1] - Before(i) - 1, amp[i])])

(* do_classify for block b (1 .. 6) whose largest amplitude is given.        *)
Classify(amp) == IF amp > 35 THEN 3 ELSE IF amp > 23 THEN 2 ELSE IF amp > 11 THEN 1 ELSE 0
ClassNo(b, amp, static) ==
  LET raised == Classify(amp) + (IF b <= 4 THEN 0 ELSE b - 4)
  IN  IF static > 0 \/ raised > 3 THEN 3 ELSE raised
=============================================================================
