---------------------------- MODULE VlcRoundTrip ----------------------------
(* A video segment written by the encoder and read back by the decoder.    *)
(* Unwritten bits are the zeroes the encoder clears its target with.       *)
EXTENDS VlcEncode

CONSTANTS NBlocks, Qualities

VARIABLES quality, pc, pass, m, b, src, pre, offset, eob, eobCount, mark, got,
          vlcError

decVars == <<quality, pc, pass, m, b, src, pre, offset, eob, eobCount, mark,
             got, vlcError>>
vars == <<encVars, decVars>>

Written == [p \in Positions |-> IF p[2] <= Len(area[p[1]]) THEN area[p[1]][p[2]]
                                                           ELSE 0]

Dec == INSTANCE VlcDecode WITH bits <- Written

Init == EncInit /\ Dec!Idle

Encode == EncNext /\ UNCHANGED decVars
DecodeStep == epc = "done" /\ UNCHANGED encVars /\ Dec!Next

Next == Encode \/ DecodeStep

Spec == Init /\ [][Next]_vars

(***************************************************************************)
(* Properties.                                                             *)
(***************************************************************************)
(* What the encoder was to send for a block: its nonempty entries but EOB. *)
Sent(k) == SelectSeq(Front(sent[k]), LAMBDA w : w # <<>>)

Bits(g) == FoldLeft(LAMBDA n, k : n + TotalLen(sent[k]), 0, g)

(* Nothing is left over after vlc_make_fit.  It may not hold: the EOB that *)
(* vlc_make_fit puts in the place of a shorter entry is not counted.       *)
AllFits == \A i \in 1 .. Len(Groups) : Bits(Groups[i]) <= BitBudget(Groups[i])

(* The types; the bits written to an area and those it has left are all    *)
(* the bits it has (put_bits never runs into the next area).               *)
TypeOK ==
  /\ todo \in [Blk -> Seq(Seq(Bit))] /\ area \in [Blk -> Seq(Bit)]
  /\ \A k \in Blk : budget[k] \in Nat /\ Len(area[k]) + budget[k] = Area(k)
  /\ epc \in {"fit", "cut", "pass1", "gather", "spill", "done"}
  /\ Dec!TypeOK

(* The decoder reads every block's codes as the encoder meant them, in     *)
(* order and none twice: it borrows from the same lenders in the same      *)
(* order as the encoder lent, with one pass or several.                    *)
InOrderOfSending ==
  (AllFits \/ passes = 3) =>
     \A k \in Blk : pc = "idle" \/ IsPrefix(got[k], Sent(k))

(* If everything fits, all is read, every block is complete, and no error  *)
(* is met on the way.                                                      *)
RoundTrip ==
  epc = "done" /\ AllFits =>
     /\ pc \notin {"lost", "overrun"} /\ ~vlcError
     /\ pc = "done" /\ (quality = "ac2" \/ passes = 1) =>
          \A k \in Blk : got[k] = Sent(k) /\ eob[k]

(* README.encoder on the overflows that vlc_make_fit counts: "some AC      *)
(* coefficients simply aren't encoded".  What is decoded is what is left   *)
(* of the block, or a part of it.                                          *)
OverflowOnlyDrops ==
  \A k \in Blk : pc = "idle" \/ IsPrefix(got[k], Sent(k))
=============================================================================
