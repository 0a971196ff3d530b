------------------------------ MODULE VlcEncode -----------------------------
(* How the encoder (encode.c) lays the codes of a video segment into the   *)
(* areas of its blocks: vlc_make_fit drops codes that do not fit, pass 1   *)
(* writes each block into its own area, pass 2 writes what is left into    *)
(* unused bits of the macroblock, pass 3 into unused bits of the segment.  *)
(* The codes are the quantiser's: every coefficient has two entries, of    *)
(* which the first has no bits unless the coefficient needs an escape.     *)
EXTENDS VlcCodes

CONSTANTS
  Coefs,         \* pairs of entries, one for each coefficient
  MaxCoefs,      \* most coefficients of a block
  PassChoices    \* values of vlc_encode_passes, among 1, 2 and 3

ASSUME CoefsAreWords ==
  /\ \A c \in Coefs : c[1] \in Words \cup {<<>>} /\ c[2] \in Words
  /\ MaxCoefs \in Nat /\ PassChoices \subseteq 1 .. 3

VARIABLES
  passes,        \* vlc_encode_passes
  todo,          \* entries of each block from coeffs_start to coeffs_end
  sent,          \* history: todo when the writing begins
  area,          \* bits written into each area
  budget,        \* bit_budget: bits left in each area
  canSupply,     \* can_supply: written whole in pass 1
  epc,
  em, eb,        \* macroblock and block at work
  group,         \* number of the vlc_make_fit call
  visit,         \* its block b, counted from 1
  epass,         \* current_pass of vlc_encode_block_pass_n
  receivers, suppliers  \* what is left of its two lists

encVars == <<passes, todo, sent, area, budget, canSupply, epc, em, eb, group,
             visit, epass, receivers, suppliers>>

Entries(cs) == FlattenSeq(cs) \o <<Eob>>

TotalLen(s) == Len(FlattenSeq(s))

EncInit ==
  /\ passes \in PassChoices
  /\ todo \in [Blk -> {Entries(cs) : cs \in SeqOf(Coefs, MaxCoefs)}]
  /\ sent = [k \in Blk |-> <<>>]
  /\ area = [k \in Blk |-> <<>>]
  /\ budget = [k \in Blk |-> Area(k)]
  /\ canSupply = [k \in Blk |-> FALSE]
  /\ epc = "fit" /\ em = 0 /\ eb = 0 /\ group = 1 /\ visit = 0 /\ epass = 0
  /\ receivers = <<>> /\ suppliers = <<>>

(***************************************************************************)
(* vlc_make_fit, called for each block, macroblock or the segment.         *)
(***************************************************************************)
Groups ==
  CASE passes = 1 -> [i \in 1 .. NumMb * NumBlk |-> <<InOrder(Blk)[i]>>]
    [] passes = 2 -> [i \in 1 .. NumMb |-> InOrder({k \in Blk : k[1] = i - 1})]
    [] passes = 3 -> <<InOrder(Blk)>>

BitsUsed(g) == FoldLeft(LAMBDA n, k : n + TotalLen(todo[k]), 0, g)
BitBudget(g) == FoldLeft(LAMBDA n, k : n + Area(k), 0, g)
Over == BitsUsed(Groups[group]) > BitBudget(Groups[group])

KeepAreas == UNCHANGED <<passes, area, budget, canSupply, em, eb, epass,
                         receivers, suppliers>>

(* The writing begins when the last call has returned.                     *)
FitReturns ==
  /\ visit' = 0
  /\ IF group < Len(Groups)
       THEN group' = group + 1 /\ epc' = "fit" /\ UNCHANGED sent
       ELSE group' = group /\ epc' = "pass1" /\ sent' = todo'

Fits ==
  /\ epc = "fit" /\ ~Over
  /\ UNCHANGED todo /\ FitReturns /\ KeepAreas

StartCut ==
  /\ epc = "fit" /\ Over
  /\ epc' = "cut" /\ visit' = Len(Groups[group])
  /\ UNCHANGED <<todo, sent, group>> /\ KeepAreas

(* The blocks lose their last entry in turn, the last block first; the     *)
(* first entry stays.                                                      *)
CutEntry ==
  /\ epc = "cut" /\ Over
  /\ LET k == Groups[group][visit]
     IN  todo' = IF Len(todo[k]) > 1 THEN [todo EXCEPT ![k] = Front(@)] ELSE todo
  /\ visit' = IF visit = 1 THEN Len(Groups[group]) ELSE visit - 1
  /\ UNCHANGED <<sent, epc, group>> /\ KeepAreas

(* Every block of the group ends with EOB, which replaces its last entry   *)
(* whatever the length of that.                                            *)
EndCut ==
  /\ epc = "cut" /\ ~Over
  /\ todo' = [k \in Blk |-> IF k \in ToSet(Groups[group])
                            THEN Front(todo[k]) \o <<Eob>> ELSE todo[k]]
  /\ FitReturns /\ KeepAreas

(***************************************************************************)
(* vlc_encode_block_pass_1 for each block of a macroblock.                 *)
(***************************************************************************)
KeepControl == UNCHANGED <<passes, sent, group, visit>>

(* put_bits for a whole entry of src into dst.                             *)
Put(src, dst) ==
  /\ area' = [area EXCEPT ![dst] = @ \o Head(todo[src])]
  /\ budget' = [budget EXCEPT ![dst] = @ - Len(Head(todo[src]))]
  /\ todo' = [todo EXCEPT ![src] = Tail(@)]

(* Mutant: the bits of a split code are not taken off the budget. *)
SplitForFree(src, dst) ==
  /\ area' = [area EXCEPT ![dst] = @ \o SubSeq(Head(todo[src]), 1, budget[dst])]
  /\ todo' = [todo EXCEPT ![src] =
                <<SubSeq(Head(@), budget[dst] + 1, Len(Head(@)))>> \o Tail(@)]
  /\ UNCHANGED budget

(* vlc_split_code: as much of the next entry of src as dst has room for.   *)
Split(src, dst) ==
  /\ area' = [area EXCEPT ![dst] = @ \o SubSeq(Head(todo[src]), 1, budget[dst])]
  /\ budget' = [budget EXCEPT ![dst] = 0]
  /\ todo' = [todo EXCEPT ![src] =
                <<SubSeq(Head(@), budget[dst] + 1, Len(Head(@)))>> \o Tail(@)]

HasRoom(src, dst) == todo[src] # <<>> /\ budget[dst] >= Len(Head(todo[src]))

PutCode ==
  /\ epc = "pass1" /\ HasRoom(<<em, eb>>, <<em, eb>>)
  /\ Put(<<em, eb>>, <<em, eb>>)
  /\ UNCHANGED <<canSupply, epc, em, eb, epass, receivers, suppliers>>
  /\ KeepControl

EndBlock ==
  LET k == <<em, eb>>
  IN  /\ epc = "pass1" /\ ~HasRoom(k, k)
      /\ canSupply' = IF passes > 1 THEN [canSupply EXCEPT ![k] = todo[k] = <<>>]
                                    ELSE canSupply
      /\ IF passes > 1 /\ todo[k] # <<>> THEN Split(k, k)
                                         ELSE UNCHANGED <<todo, area, budget>>
      /\ IF eb < NumBlk - 1
           THEN eb' = eb + 1 /\ UNCHANGED <<epc, epass>>
           ELSE eb' = 0 /\ epc' = "gather" /\ epass' = 2
      /\ UNCHANGED <<em, receivers, suppliers>> /\ KeepControl

(***************************************************************************)
(* vlc_encode_block_pass_n: pass 2 for each macroblock, pass 3 once.       *)
(***************************************************************************)
PassReturns ==
  \/ epass = 2 /\ em < NumMb - 1 /\ em' = em + 1 /\ epc' = "pass1"
               /\ UNCHANGED epass
  \/ epass = 2 /\ em = NumMb - 1 /\ epass' = 3 /\ epc' = "gather"
               /\ UNCHANGED em
  \/ epass = 3 /\ epc' = "done" /\ UNCHANGED <<em, epass>>

SkipPass ==
  /\ epc = "gather" /\ epass > passes
  /\ PassReturns
  /\ UNCHANGED <<todo, area, budget, canSupply, eb, receivers, suppliers>>
  /\ KeepControl

Gather ==
  LET scope == {k \in Blk : epass = 2 => k[1] = em}
  IN  /\ epc = "gather" /\ epass <= passes /\ epc' = "spill"
      /\ receivers' = InOrder({k \in scope : ~canSupply[k] /\ todo[k] # <<>>})
      /\ suppliers' = InOrder({k \in scope : canSupply[k] /\ budget[k] > 0})
      /\ UNCHANGED <<todo, area, budget, canSupply, em, eb, epass>>
      /\ KeepControl

Spilling == epc = "spill" /\ receivers # <<>> /\ suppliers # <<>>

PutSpilled ==
  /\ Spilling /\ HasRoom(Head(receivers), Head(suppliers))
  /\ Put(Head(receivers), Head(suppliers))
  /\ UNCHANGED <<canSupply, epc, em, eb, epass, receivers, suppliers>>
  /\ KeepControl

NextReceiver ==
  /\ Spilling /\ todo[Head(receivers)] = <<>>
  /\ receivers' = Tail(receivers)
  /\ UNCHANGED <<todo, area, budget, canSupply, epc, em, eb, epass, suppliers>>
  /\ KeepControl

(* Mutant: what does not fit whole goes to the next supplier unsplit. *)
NextSupplierUnsplit ==
  /\ Spilling /\ todo[Head(receivers)] # <<>>
  /\ ~HasRoom(Head(receivers), Head(suppliers))
  /\ suppliers' = Tail(suppliers)
  /\ UNCHANGED <<todo, area, budget, canSupply, epc, em, eb, epass, receivers>>
  /\ KeepControl

NextSupplier ==
  /\ Spilling /\ todo[Head(receivers)] # <<>>
  /\ ~HasRoom(Head(receivers), Head(suppliers))
  /\ IF budget[Head(suppliers)] > 0
       THEN Split(Head(receivers), Head(suppliers))
       ELSE UNCHANGED <<todo, area, budget>>
  /\ suppliers' = Tail(suppliers)
  /\ UNCHANGED <<canSupply, epc, em, eb, epass, receivers>> /\ KeepControl

EndPass ==
  /\ epc = "spill" /\ ~Spilling
  /\ PassReturns
  /\ UNCHANGED <<todo, area, budget, canSupply, eb, receivers, suppliers>>
  /\ KeepControl

EncNext ==
  \/ Fits \/ StartCut \/ CutEntry \/ EndCut \/ PutCode \/ EndBlock
  \/ SkipPass \/ Gather \/ PutSpilled \/ NextReceiver \/ NextSupplier \/ EndPass

EncSpec == EncInit /\ [][EncNext]_encVars
=============================================================================
