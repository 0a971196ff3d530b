------------------------------- MODULE VlcQuant ------------------------------
(* The search for the quantisers of a video segment (encode.c: quant_1_pass, *)
(* quant_2_passes, quant_3_passes): what is chosen for each macroblock, and  *)
(* for which blocks vlc_make_fit is called.  The codes are only measured;    *)
(* how they are cut and written is VlcEncode's matter.                       *)
EXTENDS DvQuant, FiniteSets, SequencesExt

CONSTANTS Patterns,   \* sequence of blocks: coefficients <<place, amplitude>>, by place, without signs
          Segments,   \* video segments: macroblock -> block, both from 1, -> its pattern
          QuantPasses, StaticQnos   \* values of vlc_encode_passes and static_qno

Mbs == 1 .. 5
MbBlocks == 1 .. 6
ASSUME QuantAssumption ==
  /\ Patterns \in Seq(Seq((1 .. 63) \X (Nat \ {0})))
  /\ \A p \in DOMAIN Patterns : \A i, j \in DOMAIN Patterns[p] :
       i < j => Patterns[p][i][1] < Patterns[p][j][1]
  /\ Segments \subseteq [Mbs -> [MbBlocks -> DOMAIN Patterns]]
  /\ QuantPasses \subseteq 1 .. 3 /\ StaticQnos \subseteq 0 .. 2

VARIABLES
  segment, passes, static_qno,
  qpc,        \* "search", "halve" or "coarsen"; then "done", or "overrun"
  qm, qb,     \* macroblock and block at work
  qno,        \* macroblock -> quantiser
  halving,    \* of two passes: the local variables of the search by halving
  bits_used,  \* of three passes: macroblock -> bits as counted last
  fitted      \* groups of blocks vlc_make_fit was called for
quantVars == <<segment, passes, static_qno, qpc, qm, qb, qno, halving, bits_used, fitted>>

Qnos == <<{15, 8, 6, 4, 2, 0}, {15, 11, 10, 8, 6, 4, 2, 0},
          {15, 14, 13, 11, 8, 6, 4, 2, 0}, {15, 13, 12, 10, 8, 6, 4, 2, 0}>>
StaticTable ==
  <<<< <<1700, 0>>, <<1500, 2>>, <<1000, 4>>, <<900, 6>>, <<750, 8>>, <<650, 10>>,
       <<550, 12>>, <<512, 13>>, <<0, 15>> >>,
    << <<1700, 0>>, <<1400, 2>>, <<1200, 4>>, <<1000, 6>>, <<800, 8>>, <<650, 10>>,
       <<550, 12>>, <<512, 13>>, <<0, 15>> >>>>

Mb(m) == {m} \X MbBlocks
All == Mbs \X MbBlocks
(* The bits a group of blocks has, without those for the EOBs.               *)
AcBudget(g) == 64 * Cardinality(g) + 32 * Cardinality({k \in g : k[2] <= 4})

(* The bits of each pattern for quantiser q and class c at 4q + c + 1; \o     *)
(* makes TLC count them once for all.                                        *)
Lengths == [p \in DOMAIN Patterns |->
             [i \in 1 .. 64 |-> NumBitsBlock(Patterns[p], (i - 1) \div 4, (i - 1) % 4)] \o <<>>] \o <<>>
Amplitude == [p \in DOMAIN Patterns |-> Max({0} \cup {c[2] : c \in ToSet(Patterns[p])})] \o <<>>

Class(m, b) == ClassNo(b, Amplitude[segment[m][b]], static_qno)
Bits(m, b, q) == Lengths[segment[m][b]][4 * q + Class(m, b) + 1]
MbBits(m, q) == SumFunction([b \in MbBlocks |-> Bits(m, b, q)])

QuantInit ==
  /\ passes \in QuantPasses /\ static_qno \in StaticQnos /\ segment \in Segments
  /\ qpc = "search" /\ qm = 1 /\ qb = 1 /\ qno = [m \in Mbs |-> 15]
  /\ bits_used = [m \in Mbs |-> 0] /\ fitted = {}
  /\ halving = [qno |-> 15, ok |-> 0, incr |-> 0, i |-> 0]

(* The macroblock is encoded with q, and the groups are made to fit.         *)
MbDone(q, groups) ==
  /\ qno' = [qno EXCEPT ![qm] = q] /\ fitted' = fitted \cup groups /\ qb' = 1
  /\ IF qm < 5 THEN qm' = qm + 1 /\ qpc' = "search" ELSE qm' = qm /\ qpc' = "done"

Keep == UNCHANGED <<segment, passes, static_qno>>

(***************************************************************************)
(* quant_1_pass.  The quantiser that block qb needs is searched from the     *)
(* one the blocks before it needed; those are not measured again.            *)
(***************************************************************************)
NextQno(class, q) ==   \* the entry behind the first one of the class not above q
  LET hit == Max({v \in Qnos[class + 1] : v <= q})
  IN  Max({0} \cup {v \in Qnos[class + 1] : v < hit})

OnePass ==
  /\ passes = 1 /\ qpc = "search"
  /\ LET q   == qno[qm]
         low == NextQno(Class(qm, qb), q)
     IN  IF Bits(qm, qb, q) <= AcBudget({<<qm, qb>>})
           THEN IF qb < 6 THEN qb' = qb + 1 /\ UNCHANGED <<qpc, qm, qno, fitted>>
                          ELSE MbDone(q, {})
           ELSE IF low > 0 THEN qno' = [qno EXCEPT ![qm] = low] /\ UNCHANGED <<qpc, qm, qb, fitted>>
                           ELSE MbDone(0, {{k} : k \in Mb(qm)})
  /\ Keep /\ UNCHANGED <<halving, bits_used>>

(***************************************************************************)
(* quant_2_passes: one quantiser for the six blocks, from a table or by      *)
(* halving, with a start guessed from the excess.                            *)
(***************************************************************************)
StaticHits(bits) == {i \in 1 .. 9 : bits > StaticTable[static_qno][i][1]}
StaticQno(bits) == StaticTable[static_qno][Min(StaticHits(bits))][2]
Runs(excess, cycle) == Min({excess \div cycle + 1, 3})

TwoPasses ==
  LET bits == MbBits(qm, 15)
      runs == Runs(bits - AcBudget(Mb(qm)), 750)
  IN /\ passes = 2 /\ qpc = "search"
     /\ \/ /\ bits <= AcBudget(Mb(qm))
           /\ MbDone(15, {}) /\ UNCHANGED halving
        \/ /\ bits > AcBudget(Mb(qm)) /\ static_qno > 0
           /\ MbDone(StaticQno(bits), IF StaticQno(bits) # 15 THEN {Mb(qm)} ELSE {})
           /\ UNCHANGED halving
        \/ /\ bits > AcBudget(Mb(qm)) /\ static_qno = 0
           /\ halving' = [qno |-> 2 ^ (4 - runs), ok |-> 0, incr |-> 2 ^ (3 - runs), i |-> runs]
           /\ qpc' = "halve" /\ UNCHANGED <<qm, qb, qno, fitted>>
     /\ Keep /\ UNCHANGED bits_used

\* A mutant: the last quantiser tried is taken, whether or not it fitted.
Tried(h, fits) ==
  LET next == IF fits THEN h.qno + h.incr ELSE h.qno - h.incr
  IN  [qno |-> next, ok |-> h.qno, incr |-> h.incr \div 2,
       i |-> IF h.incr = 1 /\ next < 10 THEN 5 ELSE h.i + 1]
(* One quantiser is tried; the search goes on above or below it.             *)
Try(h, fits) ==
  LET next == IF fits THEN h.qno + h.incr ELSE h.qno - h.incr
  IN  [qno |-> next, ok |-> IF fits THEN h.qno ELSE h.ok, incr |-> h.incr \div 2,
       i |-> IF h.incr = 1 /\ next < 10 THEN 5 ELSE h.i + 1]

Halve ==
  /\ qpc = "halve"
  /\ IF halving.i < 5
       THEN /\ halving' = Try(halving, MbBits(qm, halving.qno) <= AcBudget(Mb(qm)))
            /\ UNCHANGED <<qpc, qm, qb, qno, fitted>>
       ELSE MbDone(halving.ok, IF halving.ok = 0 THEN {Mb(qm)} ELSE {}) /\ UNCHANGED halving
  /\ Keep /\ UNCHANGED bits_used

(***************************************************************************)
(* quant_3_passes: the macroblock with the most bits is made coarser until   *)
(* the segment fits, or until one of them arrives at 0.                      *)
(***************************************************************************)
Measure ==
  /\ passes = 3 /\ qpc = "search"
  /\ bits_used' = [m \in Mbs |-> MbBits(m, 15)]
  /\ qpc' = "coarsen"
  /\ Keep /\ UNCHANGED <<qm, qb, qno, halving, fitted>>

Excess == SumFunction(bits_used) - AcBudget(All)

Ready == /\ qpc = "coarsen" /\ Excess <= 0
         /\ qpc' = "done"
         /\ Keep /\ UNCHANGED <<qm, qb, qno, halving, bits_used, fitted>>

(* The search in the table does not end for a macroblock without codes: it   *)
(* reads beyond the table.                                                   *)
FromTable ==
  /\ qpc = "coarsen" /\ Excess > 0 /\ static_qno > 0
  /\ IF \E m \in Mbs : StaticHits(bits_used[m]) = {}
       THEN qpc' = "overrun" /\ UNCHANGED <<qno, fitted>>
       ELSE /\ qno' = [m \in Mbs |-> LET q == StaticQno(bits_used[m])
                                     IN  IF q < 14 THEN q + 1 ELSE q]
            /\ fitted' = {All} /\ qpc' = "done"
  /\ Keep /\ UNCHANGED <<qm, qb, halving, bits_used>>

(* qnos_class_combi: of the classes in a macroblock the one with the highest *)
(* entry decides, at each quantiser from 15 down.                            *)
ClassCombi(m) == {Class(m, b) : b \in MbBlocks}
Combined(classes) ==
  {Max({Max({v \in Qnos[c + 1] : v <= q}) : c \in classes}) : q \in 0 .. 15}
Lower(m, q, runs) ==   \* so many entries further down, or the last one, 0
  LET below(v) == {w \in Combined(ClassCombi(m)) : v <= w /\ w < q}
  IN  Max({0} \cup {v \in Combined(ClassCombi(m)) : Cardinality(below(v)) >= runs})

MostBits == CHOOSE m \in Mbs : \A n \in Mbs :
              bits_used[n] < bits_used[m] \/ (bits_used[n] = bits_used[m] /\ m <= n)

Coarsen ==
  /\ qpc = "coarsen" /\ Excess > 0 /\ static_qno = 0
  /\ LET m == MostBits
         q == Lower(m, qno[m], Runs(Excess, 500))
     IN  /\ qno' = [qno EXCEPT ![m] = q]
         /\ IF q = 0 THEN qpc' = "done" /\ fitted' = {All} /\ UNCHANGED bits_used
                     ELSE bits_used' = [bits_used EXCEPT ![m] = MbBits(m, q)] /\ UNCHANGED <<qpc, fitted>>
  /\ Keep /\ UNCHANGED <<qm, qb, halving>>

QuantNext == OnePass \/ TwoPasses \/ Halve \/ Measure \/ Ready \/ FromTable \/ Coarsen
QuantSpec == QuantInit /\ [][QuantNext]_quantVars

(***************************************************************************)
(* Properties.                                                               *)
(***************************************************************************)
(* What has to share its bits.                                               *)
Groups == IF passes = 1 THEN {{k} : k \in All} ELSE IF passes = 2 THEN {Mb(m) : m \in Mbs}
                                               ELSE {All}
Overflows(g) == SumFunction([k \in g |-> Bits(k[1], k[2], qno[k[1]])]) > AcBudget(g)

(* However the searches end, early at quantiser 0, by halving or from the    *)
(* tables: with two or three passes the codes and their EOBs fit, or         *)
(* vlc_make_fit is called; and that only where a macroblock has arrived at   *)
(* quantiser 0 or the quantisers are from a table.  Otherwise the passes     *)
(* that write the codes would silently leave some out.                       *)
QuantFits ==
  qpc = "done" /\ passes > 1 =>
    /\ \A g \in Groups : Overflows(g) => g \in fitted
    /\ \A g \in fitted : static_qno > 0 \/ \E k \in g : qno[k[1]] = 0

(* README.encoder says of codes that are left out that this "should only     *)
(* happen" at quantiser 0, or with a static table.                           *)
OverflowOnlyAtZero ==
  qpc = "done" /\ static_qno = 0 =>
    \A g \in Groups : Overflows(g) => \E k \in g : qno[k[1]] = 0

(* A coefficient that is put in zigzag order, quantised and read back is at  *)
(* its old place with its sign, no larger and less than a step smaller, and  *)
(* nothing else is there: the encoder's tables by zigzag place and the       *)
(* decoder's by place in the block agree for every quantiser and class.  That*)
(* the other places stay empty is asked of the largest amplitude.            *)
ComeBack(mode, klass, q) ==
  \A p \in 1 .. 63, x \in {-35, -1, 11, 200} :
    LET block == [i \in 1 .. 63 |-> IF i = p THEN x ELSE 0]
        back  == QuantInverse(mode, Quantised(mode, block, q, klass), q, klass)
        step  == 2 ^ Shift(Areas[mode][p + 1], q, klass)
    IN  /\ x = 200 => \A i \in 1 .. 63 \ {p} : back[i] = 0
        /\ back[p] * x >= 0 /\ back[p] * back[p] <= x * x
        /\ (x - back[p]) * (x - back[p]) < step * step
AllComeBack == \A mode \in Modes, klass \in 0 .. 3, q \in 0 .. 15 : ComeBack(mode, klass, q)
CoefficientsComeBack == qpc = "done" => AllComeBack
=============================================================================
