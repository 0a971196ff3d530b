------------------------------ MODULE VlcDecode -----------------------------
(* dv_parse_video_segment and dv_parse_ac_coeffs (parse.c): the codes of   *)
(* one video segment read in three passes.  Pass 0 reads each block from   *)
(* its own area; pass 1 lets a block that is not complete go on in areas   *)
(* of complete blocks of its macroblock; pass 2 also in areas of complete  *)
(* macroblocks.  A code may lie in several areas, so the search for one    *)
(* marks the lenders it visits.                                            *)
EXTENDS VlcCodes

CONSTANTS
  NBlocks,     \* blocks of a macroblock that are parsed: 6, or 4 without colour
  Qualities    \* "ac1": pass 0 only; "ac2": all passes

ASSUME NBlocksInShape == NBlocks \in 1 .. NumBlk /\ Qualities \subseteq {"ac1", "ac2"}

VARIABLES
  bits,        \* the areas of the segment
  quality,
  pc,          \* "lost", "overrun": undefined behaviour of the C code, not
               \* followed any further
  pass, m, b,  \* the pass, and the block at work in it
  src,         \* bl_bit_source: the block from whose area codes are read
  pre,         \* broken_vlc: bits read that are not yet a code
  offset,      \* bits of each area that are used
  eob,         \* the block is complete
  eobCount,    \* complete blocks of each macroblock
  mark,        \* the block lends to the code being searched
  got,         \* codewords read for each block
  vlcError     \* dv_parse_ac_coeffs met an error

vars == <<bits, quality, pc, pass, m, b, src, pre, offset, eob, eobCount,
          mark, got, vlcError>>

Parsed == {k \in Blk : k[2] < NBlocks}

(* A block that is not parsed has the zeroes dv_decode_full_frame          *)
(* initialises the segment with: no bits and no room for coefficients.     *)
End(k)   == IF k \in Parsed THEN Area(k) ELSE 0
Limit(k) == IF k \in Parsed THEN MaxCoeffs ELSE 0

Coeffs(words) == FoldSeq(LAMBDA w, n : n + Run[w] + 1, 0, words)

(* The bits of k's area from position o on, and what the stream shows.     *)
Rest(k, o) == [i \in 1 .. End(k) - o |-> bits[<<k, o + i>>]]
Visible == pre \o Rest(src, offset[src] + Len(pre))

(* Before dv_parse_video_segment.                                          *)
Idle ==
  /\ quality \in Qualities
  /\ pc = "idle"
  /\ pass = 0 /\ m = 0 /\ b = 0
  /\ src = <<0, 0>> /\ pre = <<>>
  /\ offset = [k \in Blk |-> 0]
  /\ eob = [k \in Blk |-> FALSE]
  /\ mark = [k \in Blk |-> FALSE]
  /\ got = [k \in Blk |-> <<>>]
  /\ eobCount = [i \in 0 .. NumMb - 1 |-> 0]
  /\ vlcError = FALSE

Init == bits \in [Positions -> Bit] /\ Idle

(* Data common to the actions: nothing of the segment changes.             *)
KeepSegment == UNCHANGED <<bits, quality, offset, eob, eobCount, mark, got>>

(***************************************************************************)
(* Where control goes.                                                     *)
(***************************************************************************)
Finish(err) == pc' = "done" /\ UNCHANGED <<pass, m, b>> /\ vlcError' = err

(* mb_done: the next macroblock, or the next pass; an error ends the       *)
(* decoding before pass 2.                                                 *)
NextMb(err) ==
  \/ m < NumMb - 1 /\ pc' = "block" /\ m' = m + 1 /\ b' = 0 /\ pass' = pass
                   /\ vlcError' = err
  \/ m = NumMb - 1 /\ pass = 1 /\ ~err /\ pc' = "block" /\ m' = 0 /\ b' = 0
                   /\ pass' = 2 /\ vlcError' = err
  \/ m = NumMb - 1 /\ (pass = 2 \/ err) /\ Finish(err)

NextBlock ==
  \/ b < NumBlk - 1 /\ pc' = "block" /\ b' = b + 1
                    /\ UNCHANGED <<pass, m, vlcError>>
  \/ b = NumBlk - 1 /\ NextMb(vlcError)

NextOwnBlock ==
  /\ UNCHANGED vlcError
  /\ \/ b < NBlocks - 1 /\ pc' = "own" /\ b' = b + 1 /\ src' = <<m, b + 1>>
                        /\ UNCHANGED <<pass, m>>
     \/ /\ b = NBlocks - 1 /\ b' = 0
        /\ \/ m < NumMb - 1 /\ pc' = "own" /\ m' = m + 1 /\ src' = <<m + 1, 0>>
                            /\ UNCHANGED pass
           \/ m = NumMb - 1 /\ quality = "ac2" /\ pc' = "block" /\ m' = 0
                            /\ pass' = 1 /\ UNCHANGED src
           \/ m = NumMb - 1 /\ quality = "ac1" /\ pc' = "done"
                            /\ UNCHANGED <<m, pass, src>>

(* An error gives up the macroblock in pass 1 and the segment in pass 2.   *)
Error == IF pass = 1 THEN NextMb(TRUE) ELSE Finish(TRUE)

(***************************************************************************)
(* Pass 0.                                                                 *)
(***************************************************************************)
Begin ==
  /\ pc = "idle" /\ pc' = "own"
  /\ pass' = 0 /\ m' = 0 /\ b' = 0 /\ src' = <<0, 0>> /\ pre' = <<>>
  /\ offset' = [k \in Blk |-> IF k \in Parsed THEN 0 ELSE offset[k]]
  /\ eob' = [k \in Blk |-> k \notin Parsed /\ eob[k]]
  /\ got' = [k \in Blk |-> IF k \in Parsed THEN <<>> ELSE got[k]]
  /\ eobCount' = [i \in 0 .. NumMb - 1 |-> 0]
  /\ vlcError' = FALSE
  /\ UNCHANGED <<bits, quality, mark>>

(* One codeword taken from src for the block at work.                      *)
Take(w) ==
  /\ offset' = [offset EXCEPT ![src] = @ + Len(w)]
  /\ pre' = SubSeq(pre, Len(w) + 1, Len(pre))

TakeCoeff(w) == Take(w) /\ got' = [got EXCEPT ![<<m, b>>] = Append(@, w)]
                        /\ UNCHANGED <<eob, eobCount>>

(* Mutant: EOB is noted for the block, but not counted. *)
EobNotCounted == Take(Eob) /\ eob' = [eob EXCEPT ![<<m, b>>] = TRUE]
                           /\ UNCHANGED <<eobCount, got>>

TakeEob == Take(Eob) /\ eob' = [eob EXCEPT ![<<m, b>>] = TRUE]
                     /\ eobCount' = [eobCount EXCEPT ![m] = @ + 1]
                     /\ UNCHANGED got

Overruns(w) == Coeffs(got[<<m, b>>]) + Run[w] >= Limit(<<m, b>>)

(* Pass 0 does not compare the scan position with its end: a code that     *)
(* goes beyond writes outside the block.                                   *)
OwnCoeff ==
  /\ pc = "own" /\ Decode(Visible) \in Words
  /\ TakeCoeff(Decode(Visible))
  /\ pc' = IF Overruns(Decode(Visible)) THEN "overrun" ELSE pc
  /\ UNCHANGED <<bits, quality, pass, m, b, src, mark, vlcError>>

OwnEob ==
  /\ pc = "own" /\ Decode(Visible) = Eob
  /\ TakeEob /\ NextOwnBlock
  /\ UNCHANGED <<bits, quality, mark>>

OwnShort ==
  /\ pc = "own" /\ Decode(Visible) = NoWord
  /\ NextOwnBlock /\ KeepSegment /\ UNCHANGED pre

(***************************************************************************)
(* Passes 1 and 2.                                                         *)
(***************************************************************************)
SkipBlock ==
  /\ pc = "block" /\ eob[<<m, b>>]
  /\ NextBlock /\ KeepSegment /\ UNCHANGED <<src, pre>>

EnterBlock ==
  /\ pc = "block" /\ ~eob[<<m, b>>]
  /\ pc' = "code" /\ src' = <<m, b>> /\ pre' = <<>>
  /\ KeepSegment /\ UNCHANGED <<pass, m, b, vlcError>>

ReadCoeff ==
  /\ pc = "code" /\ Decode(Visible) \in Words
  /\ TakeCoeff(Decode(Visible))
  /\ IF Overruns(Decode(Visible)) THEN Error
                                  ELSE UNCHANGED <<pc, pass, m, b, vlcError>>
  /\ UNCHANGED <<bits, quality, src, mark>>

ReadEob ==
  /\ pc = "code" /\ Decode(Visible) = Eob
  /\ TakeEob /\ NextBlock
  /\ UNCHANGED <<bits, quality, src, mark>>

(* The error entries of dv_vlc_lookup4 and 5 have run 0 and length -2, and *)
(* both loops test only the run: an error is stored as a coefficient and   *)
(* the stream flushed by (uint32_t)-2 bits, which leaves more than 32 in   *)
(* bits_left, so that the shifts of the next read are undefined.           *)
ErrorAsCoeff ==
  /\ pc \in {"own", "code"} /\ Decode(Visible) \in ErrorWords
  /\ pc' = "lost"
  /\ KeepSegment /\ UNCHANGED <<pass, m, b, src, pre, vlcError>>

(* The code goes on elsewhere: the source counts as a lender of the bits   *)
(* that it has left.                                                       *)
ReadShort ==
  /\ pc = "code" /\ Decode(Visible) = NoWord
  /\ pc' = "spill" /\ mark' = [mark EXCEPT ![src] = TRUE] /\ pre' = Visible
  /\ UNCHANGED <<bits, quality, pass, m, b, src, offset, eob, eobCount, got, vlcError>>

(* dv_find_mb_unused_bits, and dv_find_vs_unused_bits if that finds none.  *)
(* Mutant: incomplete blocks lend, too. *)
AnyUnused(k) == End(k) > offset[k] /\ ~mark[k]

HasUnused(k) == eob[k] /\ End(k) > offset[k] /\ ~mark[k]
MbLenders == {k \in Blk : k[1] = m /\ HasUnused(k)}
VsLenders == IF pass = 1 THEN {} ELSE {k \in Blk : eobCount[k[1]] = NumBlk /\ HasUnused(k)}
Lenders == IF MbLenders # {} THEN MbLenders ELSE VsLenders

(* dv_clear_mb_marks in pass 1, dv_clear_vs_marks in pass 2.               *)
ToClear == IF pass = 1 THEN {k \in Blk : k[1] = m} ELSE Blk
ClearMarks == mark' = [k \in Blk |-> mark[k] /\ k \notin ToClear]

Lender == First(Lenders)
Joined == pre \o Rest(Lender, offset[Lender])

(* Mutant: the blocks that lent the beginning of the code keep its bits. *)
FoundWithoutUsing ==
  /\ pc = "spill" /\ Lenders # {} /\ Decode(Joined) \in Words \cup {Eob}
  /\ ClearMarks
  /\ offset' = [offset EXCEPT ![Lender] = @ - Len(pre)]
  /\ src' = Lender /\ pc' = "code"
  /\ UNCHANGED <<bits, quality, pass, m, b, pre, eob, eobCount, got,
                 vlcError>>

SpillFound ==
  /\ pc = "spill" /\ Lenders # {} /\ Decode(Joined) \in Words \cup {Eob}
  /\ ClearMarks
  /\ offset' = [k \in Blk |-> IF k = Lender THEN offset[k] - Len(pre)
                              ELSE IF mark[k] /\ k \in ToClear THEN End(k)
                              ELSE offset[k]]
  /\ src' = Lender /\ pc' = "code"
  /\ UNCHANGED <<bits, quality, pass, m, b, pre, eob, eobCount, got,
                 vlcError>>

SpillMore ==
  /\ pc = "spill" /\ Lenders # {} /\ Decode(Joined) = NoWord
  /\ mark' = [mark EXCEPT ![Lender] = TRUE] /\ pre' = Joined
  /\ UNCHANGED <<bits, quality, pc, pass, m, b, src, offset, eob, eobCount,
                 got, vlcError>>

(* Mutant: the marks stay after an error. *)
ErrorLeavesMarks ==
  /\ pc = "spill" /\ Lenders # {} /\ Decode(Joined) \in ErrorWords
  /\ Error
  /\ UNCHANGED <<bits, quality, src, pre, offset, eob, eobCount, mark, got>>

SpillError ==
  /\ pc = "spill" /\ Lenders # {} /\ Decode(Joined) \in ErrorWords
  /\ ClearMarks /\ Error
  /\ UNCHANGED <<bits, quality, src, pre, offset, eob, eobCount, got>>

(* Mutant: the search is repeated when it found nothing. *)
RetryWhenNone ==
  /\ pc = "spill" /\ Lenders = {}
  /\ ClearMarks
  /\ pc' = "code"
  /\ UNCHANGED <<bits, quality, pass, m, b, src, pre, offset, eob, eobCount, got,
                 vlcError>>

(* No more bits: the macroblock is done in pass 1, the segment in pass 2.  *)
SpillNone ==
  /\ pc = "spill" /\ Lenders = {}
  /\ ClearMarks
  /\ IF pass = 1 THEN NextMb(vlcError) ELSE Finish(vlcError)
  /\ UNCHANGED <<bits, quality, src, pre, offset, eob, eobCount, got>>

Next ==
  \/ Begin \/ OwnCoeff \/ OwnEob \/ OwnShort
  \/ SkipBlock \/ EnterBlock
  \/ ReadCoeff \/ ReadEob \/ ErrorAsCoeff \/ ReadShort
  \/ SpillFound \/ SpillMore \/ SpillError \/ SpillNone

Spec == Init /\ [][Next]_vars
FairSpec == Spec /\ WF_vars(Next)

(***************************************************************************)
(* Properties, for any content of the areas.                               *)
(***************************************************************************)
(* The types; a source never has more bits used than it has.               *)
TypeOK ==
  /\ bits \in [Positions -> Bit] /\ quality \in Qualities
  /\ pc \in {"idle", "own", "block", "code", "spill", "done", "lost", "overrun"}
  /\ pass \in 0 .. 2 /\ m \in 0 .. NumMb - 1 /\ b \in 0 .. NumBlk - 1
  /\ src \in Blk /\ pre \in Seq(Bit)
  /\ offset \in [Blk -> Int]
  /\ \A k \in Blk : offset[k] <= End(k)
                    /\ (offset[k] < 0 => k = src /\ 0 <= offset[k] + Len(pre))
  /\ eob \in [Blk -> BOOLEAN] /\ mark \in [Blk -> BOOLEAN]
  /\ got \in [Blk -> Seq(Words)]
  /\ eobCount = [i \in 0 .. NumMb - 1 |-> Cardinality({k \in Blk : k[1] = i /\ eob[k]})]
  /\ vlcError \in BOOLEAN

(* Every bit that counts as used has been part of exactly one codeword:    *)
(* borrowing moves bits between blocks, it neither loses nor repeats any,  *)
(* whether the search for the end of a code succeeds, fails or meets an    *)
(* error (dv_find_spilled_vlc and the marks).                              *)
WordBits(words) == FoldSeq(LAMBDA w, n : n + Len(w), 0, words)
BitsConserved ==
  MapThenSumSet(LAMBDA k : offset[k], Blk) =
    MapThenSumSet(LAMBDA k : WordBits(got[k]) + (IF eob[k] THEN Len(Eob) ELSE 0),
                  Blk)

(* Marks exist only during a search.  Nothing resets them between segments *)
(* (dv_parse_video_segment does not), so one left behind would hide unused *)
(* bits from the next segment.                                             *)
MarksAreCleared == pc # "spill" => \A k \in Blk : ~mark[k]

(* The decoding ends on every content, unless its behaviour is undefined.  *)
Terminates == <>(pc \in {"done", "lost", "overrun"})

(* "on pass 1, a VLC error means do the rest, and skip passes 2 & 3"       *)
(* (the comment before dv_parse_video_segment, which counts the passes     *)
(* from 1), and "on passes 2 & 3, just abort": an error is never used as a *)
(* code.                                                                   *)
ErrorsAreSeen == pc # "lost"
=============================================================================
