-------------------------- MODULE VlcDecodeProofs ---------------------------
(***************************************************************************)
(* Theorems about VlcDecode, for segments of any shape and content.        *)
(***************************************************************************)
EXTENDS VlcDecode, SumsProofs, SequenceTheorems

(***************************************************************************)
(* The bits that are used, and the codes read, as sums.                    *)
(***************************************************************************)
AllWords == Words \cup {Eob} \cup ErrorWords

LEMMA WordIsBits ==
  ASSUME NEW w \in AllWords
  PROVE  w \in Seq(Bit) /\ Len(w) \in Nat /\ Len(w) > 0
<1>1. w \in Seq(Bit) /\ w # <<>>
  BY PrefixCode DEF AllWords
<1> QED BY <1>1

(* The bits of the codewords as a sum over their places.                   *)
Lens(words) == [i \in DOMAIN words |-> Len(words[i])]
IsLenMap(g, words) ==
  g = [s \in SUBSET DOMAIN words |-> IF s = {} THEN 0
                                     ELSE g[s \ {Some(s)}] + Len(words[Some(s)])]

LEMMA WordsAreBits ==
  ASSUME NEW words \in Seq(Words)
  PROVE  /\ IsFiniteSet(DOMAIN words) /\ Lens(words) \in [DOMAIN words -> Int]
         /\ \A i \in DOMAIN words : Len(words[i]) \in Nat
<1>1. DOMAIN words = 1 .. Len(words) /\ Len(words) \in Nat
  BY LenProperties
<1>2. IsFiniteSet(DOMAIN words)
  BY <1>1, FS_Interval
<1>3. ASSUME NEW i \in DOMAIN words PROVE Len(words[i]) \in Nat
  <2>1. words[i] \in Words
    BY <1>1, ElementOfSeq
  <2> QED BY <2>1, WordIsBits DEF AllWords
<1> QED BY <1>2, <1>3 DEF Lens

LEMMA WordBitsIsTotal ==
  ASSUME NEW words \in Seq(Words)
  PROVE  WordBits(words) = Total(Lens(words), DOMAIN words)
<1> DEFINE D == DOMAIN words
           f == Lens(words)
           G == SumMap(f, D)
           c == CHOOSE g : IsLenMap(g, words)
           P == {s \in SUBSET D : c[s] = G[s]}
<1>1. WordBits(words) = c[D]
  BY Zenon DEF WordBits, FoldSeq, FoldFunction, FoldFunctionOnSet, MapThenFoldSet, IsLenMap, Some
<1>2. /\ IsFiniteSet(D) /\ f \in [D -> Int] /\ \A i \in D : f[i] = Len(words[i])
  BY WordsAreBits DEF Lens
<1> HIDE DEF D, f
<1>3. IsSumMap(G, f, D) /\ \A s \in SUBSET D : G[s] \in Int
  BY <1>2, SumMapType
<1> HIDE DEF G
<1>4. IsLenMap(G, words)
  <2>1. ASSUME NEW s \in SUBSET D, s # {}
        PROVE  f[Some(s)] + G[s \ {Some(s)}] = G[s \ {Some(s)}] + Len(words[Some(s)])
    <3>1. Some(s) \in D
      BY <2>1 DEF Some
    <3>2. G[s \ {Some(s)}] \in Int /\ f[Some(s)] \in Int /\ f[Some(s)] = Len(words[Some(s)])
      BY <1>2, <1>3, <3>1
    <3> QED BY <3>2
  <2>2. G = [s \in SUBSET D |-> IF s = {} THEN 0 ELSE f[Some(s)] + G[s \ {Some(s)}]]
    BY <1>3 DEF IsSumMap
  <2>3. [s \in SUBSET D |-> IF s = {} THEN 0 ELSE f[Some(s)] + G[s \ {Some(s)}]]
          = [s \in SUBSET D |-> IF s = {} THEN 0 ELSE G[s \ {Some(s)}] + Len(words[Some(s)])]
    BY <2>1, Zenon
  <2> QED BY <2>2, <2>3, Zenon DEF IsLenMap, D
<1>5. IsLenMap(c, words)
  BY <1>4, Zenon
<1> HIDE DEF c
<1>6. ASSUME NEW s \in SUBSET D, s # {} => \A x \in s : s \ {x} \in P
      PROVE  s \in P
  <2>1. c[s] = IF s = {} THEN 0 ELSE c[s \ {Some(s)}] + Len(words[Some(s)])
    BY <1>5 DEF IsLenMap, D
  <2>2. G[s] = IF s = {} THEN 0 ELSE G[s \ {Some(s)}] + Len(words[Some(s)])
    BY <1>4 DEF IsLenMap, D
  <2>3. s # {} => c[s \ {Some(s)}] = G[s \ {Some(s)}]
    BY <1>6 DEF Some
  <2>4. c[s] = G[s]
    BY <2>1, <2>2, <2>3
  <2> QED BY <2>4
<1> HIDE DEF P
<1>7. D \in P
  BY <1>2, <1>6, SubsetInduction
<1> QED BY <1>1, <1>7 DEF P, G, f, D, Total

LEMMA WordBitsOfNone == WordBits(<<>>) = 0
<1>1. <<>> \in Seq(Words) /\ DOMAIN <<>> = {}
  OBVIOUS
<1>2. Lens(<<>>) \in [{} -> Int] /\ IsFiniteSet({})
  BY <1>1, WordsAreBits, FS_EmptySet
<1>3. Total(Lens(<<>>), {}) = 0
  BY <1>2, SumOfNone DEF Total
<1> QED BY <1>1, <1>3, WordBitsIsTotal

LEMMA WordBitsAppend ==
  ASSUME NEW words \in Seq(Words), NEW w \in Words
  PROVE  WordBits(words) \in Int /\ WordBits(Append(words, w)) = WordBits(words) + Len(w)
<1> DEFINE longer == Append(words, w)
<1>1. PICK n \in Nat : n = Len(words)
  OBVIOUS
<1>2. /\ longer \in Seq(Words) /\ DOMAIN words = 1 .. n /\ DOMAIN longer = 1 .. n + 1
      /\ \A i \in 1 .. n : longer[i] = words[i]
      /\ longer[n + 1] = w
  <2>1. Len(longer) = n + 1 /\ longer \in Seq(Words)
    BY <1>1
  <2> QED BY <1>1, <2>1
<1> HIDE DEF longer
<1>3. (1 .. n + 1) \ {n + 1} = 1 .. n /\ n + 1 \in 1 .. n + 1
  OBVIOUS
<1>4. /\ IsFiniteSet(1 .. n) /\ IsFiniteSet(1 .. n + 1)
      /\ Lens(words) \in [1 .. n -> Int] /\ Lens(longer) \in [1 .. n + 1 -> Int]
  BY <1>2, WordsAreBits
<1>5. /\ Lens(longer)[n + 1] = Len(w)
      /\ \A i \in 1 .. n : Lens(words)[i] = Lens(longer)[i]
  <2>1. /\ n + 1 \in DOMAIN longer
        /\ \A i \in 1 .. n : i \in DOMAIN words /\ i \in DOMAIN longer
    BY <1>2
  <2> QED BY <1>2, <2>1, Zenon DEF Lens
<1>6. Total(Lens(longer), 1 .. n + 1) = Len(w) + Total(Lens(words), 1 .. n)
  <2> DEFINE S == 1 .. n + 1
             f == Lens(longer)
             g == Lens(words)
  <2>1. S \ {n + 1} = 1 .. n /\ n + 1 \in S /\ IsFiniteSet(S) /\ f \in [S -> Int]
    BY <1>3, <1>4
  <2>2. g \in [S \ {n + 1} -> Int] /\ \A x \in S \ {n + 1} : g[x] = f[x]
    BY <1>3, <1>4, <1>5
  <2>3. f[n + 1] = Len(w)
    BY <1>5
  <2> HIDE DEF S, f, g
  <2>4. Total(f, S) = f[n + 1] + Total(g, S \ {n + 1})
    BY <2>1, <2>2, TotalGrows
  <2>5. Total(f, S) = Len(w) + Total(g, 1 .. n)
    BY <2>1, <2>3, <2>4, Zenon
  <2> QED BY <2>5, Zenon DEF S, f, g
<1>7. Total(Lens(words), 1 .. n) \in Int
  BY <1>4, TotalIsInt
<1>8. /\ WordBits(words) = Total(Lens(words), 1 .. n)
      /\ WordBits(longer) = Total(Lens(longer), 1 .. n + 1)
  BY <1>2, WordBitsIsTotal
<1>9. Len(w) \in Nat
  BY WordIsBits DEF AllWords
<1> QED BY <1>6, <1>7, <1>8, <1>9 DEF longer

(***************************************************************************)
(* The accounts: the bits used are those of the codes read, and a search   *)
(* has collected what its lenders had left.                                *)
(***************************************************************************)
BitsRead(k) == WordBits(got[k]) + (IF eob[k] THEN Len(Eob) ELSE 0)
Left(k) == IF mark[k] THEN End(k) - offset[k] ELSE 0
Used == Total([k \in Blk |-> offset[k]], Blk)
Balanced == Used = Total([k \in Blk |-> BitsRead(k)], Blk)
Lent == Total([k \in Blk |-> Left(k)], Blk)
Numbers == /\ IsFiniteSet(Blk)
           /\ \A k \in Blk : offset[k] \in Int /\ BitsRead(k) \in Int /\ Left(k) \in Int

LEMMA ReadNext ==
  ASSUME NEW k
  PROVE  BitsRead(k)' = WordBits(got'[k]) + (IF eob'[k] THEN Len(Eob) ELSE 0)
BY Zenon DEF BitsRead, WordBits, FoldSeq, FoldFunction, FoldFunctionOnSet, MapThenFoldSet, IsLenMap, Some

LEMMA ReadAlike ==
  ASSUME NEW k, got'[k] = got[k], eob'[k] = eob[k]
  PROVE  BitsRead(k)' = BitsRead(k)
<1>1. BitsRead(k)' = WordBits(got[k]) + (IF eob[k] THEN Len(Eob) ELSE 0)
  BY Zenon, ReadNext
<1> QED BY Zenon, <1>1 DEF BitsRead

LEMMA BalancedIsConserved == BitsConserved <=> Balanced
<1>1. MapThenSumSet(LAMBDA k : offset[k], Blk) = Used
  BY Zenon DEF MapThenSumSet, MapThenFoldSet, Used, Total, SumMap, IsSumMap, Some
<1>2. MapThenSumSet(LAMBDA k : BitsRead(k), Blk) = Total([k \in Blk |-> BitsRead(k)], Blk)
  BY Zenon DEF MapThenSumSet, MapThenFoldSet, Total, SumMap, IsSumMap, Some
<1>3. BitsConserved <=> MapThenSumSet(LAMBDA k : offset[k], Blk)
                          = MapThenSumSet(LAMBDA k : BitsRead(k), Blk)
  BY Zenon DEF BitsConserved, BitsRead
<1> QED BY <1>1, <1>2, <1>3, Zenon DEF Balanced

LEMMA NothingMoves ==
  ASSUME Balanced, \A k \in Blk : offset'[k] = offset[k] /\ BitsRead(k)' = BitsRead(k)
  PROVE  Balanced'
<1>1. [k \in Blk |-> offset'[k]] = [k \in Blk |-> offset[k]]
  BY Zenon
<1>2. [k \in Blk |-> BitsRead(k)'] = [k \in Blk |-> BitsRead(k)]
  BY Zenon
<1>3. Balanced' <=> Total([k \in Blk |-> offset'[k]], Blk) = Total([k \in Blk |-> BitsRead(k)'], Blk)
  BY Zenon DEF Balanced, Used, Total, SumMap, IsSumMap, Some
<1> QED BY <1>1, <1>2, <1>3, Zenon DEF Balanced, Used

(* Before the first word nothing is used.                                  *)
LEMMA NothingRead ==
  ASSUME IsFiniteSet(Blk), \A k \in Blk : offset[k] = 0 /\ got[k] = <<>> /\ ~eob[k]
  PROVE  Balanced
<1>1. \A k \in Blk : BitsRead(k) = 0
  <2> SUFFICES ASSUME NEW k \in Blk PROVE BitsRead(k) = 0
    OBVIOUS
  <2>1. BitsRead(k) = WordBits(<<>>) + 0
    BY Zenon DEF BitsRead
  <2> QED BY <2>1, WordBitsOfNone
<1> DEFINE o == [k \in Blk |-> offset[k]]
           r == [k \in Blk |-> BitsRead(k)]
<1>2. o \in [Blk -> Int] /\ \A k \in Blk : o[k] = 0
  OBVIOUS
<1>3. r \in [Blk -> Int] /\ \A k \in Blk : r[k] = 0
  BY <1>1
<1> HIDE DEF o, r
<1>4. Total(o, Blk) = 0 /\ Total(r, Blk) = 0
  BY <1>2, <1>3, TotalOfZeros
<1> QED BY <1>4 DEF Balanced, Used, o, r

LEMMA SameIsLent ==
  ASSUME UNCHANGED <<offset, mark>>
  PROVE  Lent' = Lent
<1>1. \A k : Left(k)' = Left(k)
  BY Zenon DEF Left, End, Area
<1>2. [k \in Blk |-> Left(k)'] = [k \in Blk |-> Left(k)]
  BY Zenon, <1>1
<1>3. Lent' = Total([k \in Blk |-> Left(k)'], Blk)
  BY Zenon DEF Lent, Total, SumMap, IsSumMap, Some
<1> QED BY Zenon, <1>2, <1>3 DEF Lent

(* One code more is read, and its bits are used.                           *)
LEMMA OneCodeMore ==
  ASSUME Numbers, Balanced, NEW j \in Blk, NEW l \in Blk, NEW d \in Int,
         \A k \in Blk : offset'[k] = IF k = j THEN offset[k] + d ELSE offset[k],
         \A k \in Blk : BitsRead(k)' = IF k = l THEN BitsRead(k) + d ELSE BitsRead(k)
  PROVE  Balanced'
<1> DEFINE o == [k \in Blk |-> offset[k]]
           r == [k \in Blk |-> BitsRead(k)]
           oNext == [k \in Blk |-> offset'[k]]
           rNext == [k \in Blk |-> BitsRead(k)']
<1>1. /\ o \in [Blk -> Int] /\ r \in [Blk -> Int] /\ IsFiniteSet(Blk)
      /\ \A k \in Blk : o[k] \in Int /\ r[k] \in Int
  BY DEF Numbers
<1>2. oNext \in [Blk -> Int] /\ \A k \in Blk : oNext[k] = IF k = j THEN o[k] + d ELSE o[k]
  BY <1>1
<1>3. rNext \in [Blk -> Int] /\ \A k \in Blk : rNext[k] = IF k = l THEN r[k] + d ELSE r[k]
  BY <1>1
<1>4. Total(o, Blk) = Total(r, Blk)
  BY Zenon DEF Balanced, Used
<1>5. Balanced' <=> Total(oNext, Blk) = Total(rNext, Blk)
  BY Zenon DEF Balanced, Used, Total, SumMap, IsSumMap, Some
<1> HIDE DEF o, r, oNext, rNext
<1>6. Total(oNext, Blk) = Total(o, Blk) + d
  <2>1. oNext = [o EXCEPT ![j] = o[j] + d]
    BY <1>1, <1>2
  <2> QED BY <1>1, <2>1, TotalExcept, ZenonT(60)
<1>7. Total(rNext, Blk) = Total(r, Blk) + d
  <2>1. rNext = [r EXCEPT ![l] = r[l] + d]
    BY <1>1, <1>3
  <2> QED BY <1>1, <2>1, TotalExcept, ZenonT(60)
<1> QED BY <1>4, <1>5, <1>6, <1>7

(* What the lenders have left is used, and that of the last one is not.    *)
LEMMA LentIsUsed ==
  ASSUME Numbers, Balanced, NEW j \in Blk, ~mark[j],
         \A k \in Blk : offset'[k] = IF k = j THEN offset[k] - Lent ELSE offset[k] + Left(k),
         \A k \in Blk : BitsRead(k)' = BitsRead(k)
  PROVE  Balanced'
<1> DEFINE o == [k \in Blk |-> offset[k]]
           f == [k \in Blk |-> Left(k)]
           mid == [k \in Blk |-> offset[k] + Left(k)]
           oNext == [k \in Blk |-> offset'[k]]
<1>1. /\ o \in [Blk -> Int] /\ f \in [Blk -> Int] /\ mid \in [Blk -> Int] /\ IsFiniteSet(Blk)
      /\ \A k \in Blk : o[k] \in Int /\ f[k] \in Int /\ mid[k] = o[k] + f[k]
  BY DEF Numbers
<1>2. Lent = Total(f, Blk)
  BY Zenon DEF Lent
<1>3. Lent \in Int
  <2> HIDE DEF f
  <2> QED BY <1>1, <1>2, TotalIsInt
<1>4. PICK d \in Int : d = 0 - Lent
  BY <1>3
<1>5. oNext \in [Blk -> Int] /\ \A k \in Blk : oNext[k] = IF k = j THEN mid[k] + d ELSE mid[k]
  <2>1. Left(j) = 0
    BY DEF Left
  <2>2. \A k \in Blk : offset[k] \in Int /\ Left(k) \in Int
    BY DEF Numbers
  <2>3. \A k \in Blk : oNext[k] \in Int /\ oNext[k] = IF k = j THEN mid[k] + d ELSE mid[k]
    BY <1>3, <1>4, <2>1, <2>2
  <2> QED BY <2>3
<1>6. Used' = Total(oNext, Blk) /\ Used = Total(o, Blk)
  BY Zenon DEF Used, Total, SumMap, IsSumMap, Some
<1> HIDE DEF o, f, mid, oNext
<1>7. Total(mid, Blk) = Total(o, Blk) + Total(f, Blk)
  BY <1>1, TotalAdds
<1>8. Total(oNext, Blk) = Total(mid, Blk) + d
  <2>1. oNext = [mid EXCEPT ![j] = mid[j] + d]
    BY <1>1, <1>5
  <2> QED BY <1>1, <2>1, TotalExcept, ZenonT(60)
<1>9. Total(o, Blk) \in Int
  BY <1>1, TotalIsInt
<1>10. Used' = Used
  BY <1>2, <1>3, <1>4, <1>6, <1>7, <1>8, <1>9
<1>11. [k \in Blk |-> BitsRead(k)'] = [k \in Blk |-> BitsRead(k)]
  BY Zenon
<1>12. Balanced' <=> Used' = Total([k \in Blk |-> BitsRead(k)'], Blk)
  BY Zenon DEF Balanced, Total, SumMap, IsSumMap, Some
<1> QED BY <1>10, <1>11, <1>12, Zenon DEF Balanced

(* One block more lends what it has left.                                  *)
LEMMA OneMoreLends ==
  ASSUME Numbers, NEW j \in Blk, NEW d \in Int,
         \A k \in Blk : Left(k)' = IF k = j THEN Left(k) + d ELSE Left(k)
  PROVE  Lent' = Lent + d
<1> DEFINE f == [k \in Blk |-> Left(k)]
           fNext == [k \in Blk |-> Left(k)']
<1>1. f \in [Blk -> Int] /\ IsFiniteSet(Blk) /\ \A k \in Blk : f[k] \in Int
  BY DEF Numbers
<1>2. fNext \in [Blk -> Int] /\ \A k \in Blk : fNext[k] = IF k = j THEN f[k] + d ELSE f[k]
  BY <1>1
<1>3. Lent' = Total(fNext, Blk) /\ Lent = Total(f, Blk)
  BY Zenon DEF Lent, Total, SumMap, IsSumMap, Some
<1> HIDE DEF f, fNext
<1>4. Total(fNext, Blk) = Total(f, Blk) + d
  <2>1. fNext = [f EXCEPT ![j] = f[j] + d]
    BY <1>1, <1>2
  <2> QED BY <1>1, <2>1, TotalExcept
<1> QED BY <1>3, <1>4

LEMMA NoneLends ==
  ASSUME Numbers, \A k \in Blk : ~mark[k]
  PROVE  Lent = 0
<1> DEFINE f == [k \in Blk |-> Left(k)]
<1>1. f \in [Blk -> Int] /\ IsFiniteSet(Blk) /\ \A k \in Blk : f[k] = 0
  BY DEF Numbers, Left
<1> HIDE DEF f
<1>2. Total(f, Blk) = 0
  BY <1>1, TotalOfZeros
<1> QED BY <1>2 DEF Lent, f

-----------------------------------------------------------------------------
(* Where control is, and whose bits are being read.                        *)
Control ==
  /\ pc \in {"idle", "own", "block", "code", "spill", "done", "lost", "overrun"}
  /\ m \in 0 .. NumMb - 1 /\ b \in 0 .. NumBlk - 1
  /\ pc \in {"block", "code", "spill"} => pass \in {1, 2}
  /\ pc \in {"code", "spill"} => src \in Blk /\ (pass = 1 => src[1] = m)

(* Marks exist during a search only, and no further than it has looked.    *)
Trail ==
  /\ mark \in [Blk -> BOOLEAN]
  /\ \A k \in Blk : mark[k] => pc = "spill" /\ (pass = 1 => k[1] = m)

IInv == Control /\ Trail

USE SegmentShape, NBlocksInShape

(* The first block of a set is a member of it.                             *)
LEMMA FirstIsMember ==
  ASSUME NEW S, S \subseteq Blk, S # {}
  PROVE  First(S) \in S
<1> DEFINE Mbs == {k[1] : k \in S}
<1>1. \A k \in Blk : k = <<k[1], k[2]>> /\ k[1] \in Nat /\ k[2] \in Nat
  BY DEF Blk
<1>2. Mbs \subseteq Nat /\ Mbs # {}
  BY <1>1
<1>3. PICK i \in Mbs : \A j \in Mbs : ~(j < i)
  <2> HIDE DEF Mbs
  <2> QED BY <1>2, Least
<1> DEFINE Blks == {k[2] : k \in {l \in S : l[1] = i}}
<1>4. Blks \subseteq Nat /\ Blks # {}
  BY <1>1, <1>3
<1>5. PICK n \in Blks : \A j \in Blks : ~(j < n)
  <2> HIDE DEF Blks
  <2> QED BY <1>4, Least
<1>6. PICK k \in S : k[1] = i /\ k[2] = n
  BY <1>5
<1>7. ASSUME NEW j \in S \ {k} PROVE Before(k, j)
  <2>1. j[1] \in Mbs /\ j[1] \in Nat /\ i \in Nat /\ n \in Nat /\ j[2] \in Nat
    BY <1>1, <1>2, <1>4
  <2>2. ~(j[1] < i)
    BY <1>3, <2>1
  <2>3. j[1] = i => ~(j[2] < n)
    <3> HAVE j[1] = i
    <3>1. j[2] \in Blks
      OBVIOUS
    <3> QED BY <1>5, <3>1
  <2>4. j[1] # i \/ j[2] # n
    BY <1>1, <1>6
  <2> QED BY <1>6, <2>1, <2>2, <2>3, <2>4 DEF Before
<1> QED BY <1>6, <1>7 DEF First

(* A lender is a block, in pass 1 one of the macroblock at work.           *)
LEMMA LenderIsNear ==
  ASSUME Lenders # {}
  PROVE  Lender \in Blk /\ (pass = 1 => Lender[1] = m)
<1>1. Lenders \subseteq Blk
  BY DEF Lenders, MbLenders, VsLenders
<1>2. Lender \in Lenders
  BY <1>1, FirstIsMember DEF Lender
<1> QED BY <1>1, <1>2 DEF Lenders, MbLenders, VsLenders

LEMMA InitInv == Init => IInv
BY DEF Init, Idle, IInv, Control, Trail, Blk

(***************************************************************************)
(* Where control goes: to the next block or macroblock, or to the end,     *)
(* never into a search.                                                    *)
(***************************************************************************)
Between ==
  /\ pc' \in {"own", "block", "done"}
  /\ m' \in 0 .. NumMb - 1 /\ b' \in 0 .. NumBlk - 1
  /\ pc' = "block" => pass' \in {1, 2}

LEMMA NextMbGoesOn ==
  ASSUME NEW err, Control, pc \in {"block", "code", "spill"}, NextMb(err)
  PROVE  Between
BY DEF Control, NextMb, Finish, Between

LEMMA NextBlockGoesOn ==
  ASSUME Control, pc \in {"block", "code", "spill"}, NextBlock
  PROVE  Between
<1>1. CASE b < NumBlk - 1 /\ pc' = "block" /\ b' = b + 1
           /\ UNCHANGED <<pass, m, vlcError>>
  BY <1>1 DEF Control, Between
<1>2. CASE NextMb(vlcError)
  BY <1>2, NextMbGoesOn
<1> QED BY <1>1, <1>2 DEF NextBlock

LEMMA NextOwnBlockGoesOn == Control /\ NextOwnBlock => Between
BY DEF Control, NextOwnBlock, Between

LEMMA ErrorGoesOn ==
  ASSUME Control, pc \in {"block", "code", "spill"}, Error
  PROVE  Between
<1>1. CASE NextMb(TRUE)
  BY <1>1, NextMbGoesOn
<1>2. CASE Finish(TRUE)
  BY <1>2 DEF Finish, Control, Between
<1> QED BY <1>1, <1>2 DEF Error

LEMMA BetweenKeeps == Between => Control'
BY DEF Between, Control

(* Outside a search there are no marks, and they stay away.                *)
LEMMA NoMarks ==
  ASSUME Trail, pc # "spill", mark' = mark
  PROVE  Trail'
BY DEF Trail

(* All marks are within what a search clears at its end.                   *)
LEMMA ClearsAll ==
  ASSUME Control, Trail, pc = "spill", ClearMarks
  PROVE  Trail' /\ \A k \in Blk : ~mark'[k]
<1>1. \A k \in Blk : mark[k] => k \in ToClear
  BY DEF Control, Trail, ToClear
<1>2. mark' = [k \in Blk |-> FALSE]
  <2>1. \A k \in Blk : (mark[k] /\ k \notin ToClear) = FALSE
    BY <1>1, Zenon DEF Trail
  <2> QED BY <2>1, Zenon DEF ClearMarks
<1> QED BY <1>2 DEF Trail

(***************************************************************************)
(* The invariant is preserved.                                             *)
(***************************************************************************)
LEMMA StepInv == IInv /\ [Next]_vars => IInv'
<1> SUFFICES ASSUME IInv, [Next]_vars PROVE IInv'
  OBVIOUS
<1> USE DEF IInv
<1>1. CASE Begin
  BY <1>1, NoMarks DEF Begin, Control
<1>2. CASE OwnCoeff
  BY <1>2, NoMarks DEF OwnCoeff, Control
<1>3. CASE OwnEob
  BY <1>3, NoMarks, NextOwnBlockGoesOn, BetweenKeeps DEF OwnEob
<1>4. CASE OwnShort
  BY <1>4, NoMarks, NextOwnBlockGoesOn, BetweenKeeps DEF OwnShort, KeepSegment
<1>5. CASE SkipBlock
  BY <1>5, NoMarks, NextBlockGoesOn, BetweenKeeps DEF SkipBlock, KeepSegment
<1>6. CASE EnterBlock
  <2>1. <<m, b>> \in Blk
    BY DEF Control, Blk
  <2> QED BY <1>6, <2>1, NoMarks DEF EnterBlock, KeepSegment, Control
<1>7. CASE ReadCoeff
  <2>1. Trail'
    BY <1>7, NoMarks DEF ReadCoeff
  <2>2. CASE Error
    BY <1>7, <2>1, <2>2, ErrorGoesOn, BetweenKeeps DEF ReadCoeff
  <2>3. CASE UNCHANGED <<pc, pass, m, b, vlcError>>
    BY <1>7, <2>1, <2>3 DEF ReadCoeff, Control
  <2> QED BY <1>7, <2>2, <2>3 DEF ReadCoeff
<1>8. CASE ReadEob
  BY <1>8, NoMarks, NextBlockGoesOn, BetweenKeeps DEF ReadEob
<1>9. CASE ErrorAsCoeff
  BY <1>9, NoMarks DEF ErrorAsCoeff, KeepSegment, Control
<1>10. CASE ReadShort
  <2>1. Control'
    BY <1>10 DEF ReadShort, Control
  <2>2. src \in Blk /\ (pass = 1 => src[1] = m)
    BY <1>10 DEF ReadShort, Control
  <2> QED BY <1>10, <2>1, <2>2 DEF ReadShort, Trail
<1>11. CASE SpillFound
  <2>1. pc = "spill" /\ Lenders # {} /\ ClearMarks /\ src' = Lender /\ pc' = "code"
        /\ UNCHANGED <<pass, m, b>>
    BY <1>11 DEF SpillFound
  <2>2. Trail'
    BY <2>1, ClearsAll
  <2>3. Control'
    BY <2>1, LenderIsNear DEF Control
  <2> QED BY <2>2, <2>3
<1>12. CASE SpillMore
  <2>1. pc = "spill" /\ Lenders # {} /\ mark' = [mark EXCEPT ![Lender] = TRUE]
        /\ UNCHANGED <<pc, pass, m, b, src>>
    BY <1>12 DEF SpillMore
  <2>2. Control'
    BY <2>1 DEF Control
  <2> QED BY <2>1, <2>2, LenderIsNear DEF Trail
<1>13. CASE SpillError
  BY <1>13, ClearsAll, ErrorGoesOn, BetweenKeeps DEF SpillError
<1>14. CASE SpillNone
  <2>1. pc = "spill" /\ ClearMarks /\ (NextMb(vlcError) \/ Finish(vlcError))
    BY <1>14 DEF SpillNone
  <2>2. Control'
    BY <2>1, NextMbGoesOn, BetweenKeeps DEF Control, Finish
  <2> QED BY <2>1, <2>2, ClearsAll
<1>15. CASE UNCHANGED vars
  BY <1>15 DEF vars, Control, Trail
<1> QED BY <1>1, <1>2, <1>3, <1>4, <1>5, <1>6, <1>7, <1>8, <1>9, <1>10, <1>11,
          <1>12, <1>13, <1>14, <1>15 DEF Next

(***************************************************************************)
(* A segment is left without marks, whatever its bits: neither a code      *)
(* found, nor an error, nor a search without success leaves one, and the   *)
(* next segment finds all unused bits (dv_find_spilled_vlc).               *)
(***************************************************************************)
THEOREM NoMarkSurvives == Spec => []MarksAreCleared
<1>1. IInv => MarksAreCleared
  BY DEF IInv, Trail, MarksAreCleared
<1> QED BY <1>1, InitInv, StepInv, PTL DEF Spec

-----------------------------------------------------------------------------
(***************************************************************************)
(* How far the areas are used.                                             *)
(***************************************************************************)
(* Only the source of a code that began elsewhere has less than none of    *)
(* its bits used, by as many as the beginning has.                         *)
InPlace ==
  /\ offset \in [Blk -> Int] /\ pre \in Seq(Bit)
  /\ \A k \in Blk : /\ offset[k] <= End(k)
                    /\ offset[k] < 0 => k = src /\ pc \in {"code", "lost"}
  /\ pc \in {"code", "lost"} => offset[src] + Len(pre) \in 0 .. End(src)
(* What has been read of a code is never a code, and is only kept to be    *)
(* completed by the next step.                                             *)
Beginning ==
  /\ pc = "own" => pre = <<>>
  /\ pc \in {"code", "spill"} => Decode(pre) = NoWord
  /\ pc = "code" => pre = <<>> \/ Decode(Visible) \in Words \cup {Eob}
(* The block at work is not complete; in pass 0 no later one is, either.   *)
Incomplete ==
  /\ pc = "idle" => \A k \in Blk : ~eob[k]
  /\ pc = "own" => /\ b < NBlocks /\ src = <<m, b>>
                   /\ \A k \in Blk : k = <<m, b>> \/ Before(<<m, b>>, k) => ~eob[k]
  /\ pc \in {"code", "spill"} => ~eob[<<m, b>>]
Counted ==
  eobCount = [i \in 0 .. NumMb - 1 |-> Cardinality({k \in Blk : k[1] = i /\ eob[k]})]
Simple ==
  /\ bits \in [Positions -> Bit] /\ quality \in Qualities
  /\ pass \in 0 .. 2 /\ src \in Blk /\ eob \in [Blk -> BOOLEAN]
  /\ got \in [Blk -> Seq(Words)] /\ vlcError \in BOOLEAN

(* Each area has between none and all of its bits used.                    *)
InRange(o) == o \in [Blk -> Int] /\ \A k \in Blk : o[k] \in 0 .. End(k)

UsedInv == IInv /\ Simple /\ InPlace /\ Beginning /\ Incomplete /\ Counted

(* The area of a block is within the positions.                            *)
LEMMA LargestArea ==
  ASSUME NEW n \in 0 .. NumBlk - 1
  PROVE  \E j \in 0 .. n : \A l \in 0 .. n : AreaBits[l] <= AreaBits[j]
<1> DEFINE T == {i \in 0 .. NumBlk - 1 :
                   ~ \E j \in 0 .. i : \A l \in 0 .. i : AreaBits[l] <= AreaBits[j]}
<1> SUFFICES ASSUME T # {} PROVE FALSE
  OBVIOUS
<1>1. T \subseteq Nat
  OBVIOUS
<1>2. PICK i \in T : \A j \in T : ~(j < i)
  <2> HIDE DEF T
  <2> QED BY <1>1, Least
<1>3. i \in 0 .. NumBlk - 1 /\ \A l \in 0 .. NumBlk - 1 : AreaBits[l] \in Nat
  OBVIOUS
<1>4. CASE i = 0
  BY <1>2, <1>3, <1>4
<1>5. CASE i # 0
  <2>1. i - 1 \in 0 .. NumBlk - 1 /\ i - 1 < i
    BY <1>3, <1>5
  <2>2. PICK j \in 0 .. i - 1 : \A l \in 0 .. i - 1 : AreaBits[l] <= AreaBits[j]
    BY <1>2, <2>1
  <2>3. \A l \in 0 .. i : l \in 0 .. i - 1 \/ l = i
    BY <1>3
  <2>4. j \in 0 .. i /\ i \in 0 .. i /\ j \in 0 .. NumBlk - 1
    BY <1>3, <2>1
  <2>5. CASE AreaBits[i] <= AreaBits[j]
    BY <1>2, <2>2, <2>3, <2>4, <2>5
  <2>6. CASE ~(AreaBits[i] <= AreaBits[j])
    <3>1. \A l \in 0 .. i : AreaBits[l] <= AreaBits[i]
      <4> SUFFICES ASSUME NEW l \in 0 .. i PROVE AreaBits[l] <= AreaBits[i]
        OBVIOUS
      <4>1. CASE l = i
        BY <1>3, <2>4, <4>1
      <4>2. CASE l \in 0 .. i - 1
        <5> DEFINE low == AreaBits[l]
                   top == AreaBits[i]
                   old == AreaBits[j]
        <5>1. low <= old /\ ~(top <= old)
          BY <2>2, <2>6, <4>2
        <5>2. low \in Int /\ top \in Int /\ old \in Int
          BY <1>3, <2>4
        <5> HIDE DEF low, top, old
        <5>3. low <= top
          BY <5>1, <5>2
        <5> QED BY <5>3 DEF low, top
      <4> QED BY <2>3, <4>1, <4>2
    <3> QED BY <1>2, <2>4, <3>1
  <2> QED BY <2>5, <2>6
<1> QED BY <1>4, <1>5

LEMMA AreaFits ==
  ASSUME NEW k \in Blk, NEW i \in 1 .. Area(k)
  PROVE  <<k, i>> \in Positions
<1> DEFINE Areas == {Area(l) : l \in Blk}
<1>1. NumBlk - 1 \in 0 .. NumBlk - 1 /\ 0 \in 0 .. NumMb - 1
  OBVIOUS
<1>2. PICK j \in 0 .. NumBlk - 1 : \A l \in 0 .. NumBlk - 1 : AreaBits[l] <= AreaBits[j]
  BY <1>1, LargestArea
<1>3. \A l \in Blk : l[2] \in 0 .. NumBlk - 1 /\ Area(l) \in Nat
  BY DEF Blk, Area
<1>4. <<0, j>> \in Blk /\ Area(<<0, j>>) = AreaBits[j]
  BY <1>1 DEF Blk, Area
<1>5. AreaBits[j] \in Areas /\ \A x \in Areas : x \in Nat /\ AreaBits[j] >= x
  BY <1>2, <1>3, <1>4 DEF Area
<1>6. Area(k) \in Areas
  OBVIOUS
<1> HIDE DEF Areas
<1>7. Max(Areas) \in Areas /\ \A x \in Areas : Max(Areas) >= x
  BY <1>5 DEF Max
<1>8. Area(k) \in Nat /\ Max(Areas) \in Nat /\ Area(k) <= Max(Areas)
  BY <1>3, <1>5, <1>6, <1>7
<1>9. i \in 1 .. Max(Areas) /\ i <= Area(k)
  BY <1>8
<1> QED BY <1>9 DEF Positions, Areas

LEMMA EndIsNat ==
  ASSUME NEW k \in Blk
  PROVE  End(k) \in Nat /\ End(k) <= Area(k) /\ Area(k) \in Nat
BY DEF End, Area, Blk

(* What is left of an area.                                                *)
LEMMA RestIsBits ==
  ASSUME bits \in [Positions -> Bit], NEW k \in Blk, NEW o \in 0 .. End(k)
  PROVE  Rest(k, o) \in Seq(Bit) /\ Len(Rest(k, o)) = End(k) - o
<1>1. End(k) \in Nat /\ End(k) <= Area(k) /\ Area(k) \in Nat
  BY EndIsNat
<1>2. PICK n \in Nat : n = End(k) - o
  BY <1>1
<1>3. ASSUME NEW i \in 1 .. n PROVE bits[<<k, o + i>>] \in Bit
  <2>1. o + i \in 1 .. Area(k)
    BY <1>1, <1>2
  <2>2. <<k, o + i>> \in Positions
    BY <2>1, AreaFits, Zenon
  <2> QED BY <2>2, Zenon
<1> DEFINE f == [i \in 1 .. n |-> bits[<<k, o + i>>]]
<1>4. Rest(k, o) = f
  BY <1>2, Zenon DEF Rest
<1>5. f \in [1 .. n -> Bit]
  BY <1>3, Zenon
<1> HIDE DEF f
<1>6. f \in Seq(Bit) /\ Len(f) = n
  BY <1>5
<1> QED BY <1>2, <1>4, <1>6

(***************************************************************************)
(* What dv_decode_vlc finds.                                               *)
(***************************************************************************)
LEMMA DecodeFinds ==
  ASSUME NEW s, Decode(s) # NoWord
  PROVE  Decode(s) \in AllWords /\ IsPrefix(Decode(s), s)
<1> DEFINE found == {w \in AllWords : IsPrefix(w, s)}
<1>1. found # {} /\ Decode(s) = CHOOSE w \in found : TRUE
  BY DEF Decode, AllWords
<1> HIDE DEF found
<1>2. Decode(s) \in found
  BY <1>1
<1> QED BY <1>2 DEF found

LEMMA NoneBegins ==
  ASSUME NEW s, Decode(s) = NoWord, NEW w \in AllWords
  PROVE  ~IsPrefix(w, s)
<1> DEFINE found == {v \in AllWords : IsPrefix(v, s)}
<1>1. Decode(s) = IF found = {} THEN NoWord ELSE CHOOSE v \in found : TRUE
  BY DEF Decode, AllWords
<1> SUFFICES ASSUME found # {} PROVE FALSE
  OBVIOUS
<1> HIDE DEF found
<1>2. NoWord \in found
  BY <1>1
<1>3. NoWord \in AllWords
  BY <1>2 DEF found
<1> QED BY <1>3, PrefixCode DEF AllWords, NoWord

(* A code that is found when bits are added is longer than those before.   *)
LEMMA LongerThanBeginning ==
  ASSUME NEW p \in Seq(Bit), NEW t \in Seq(Bit), Decode(p) = NoWord,
         NEW w \in AllWords, IsPrefix(w, p \o t)
  PROVE  Len(w) \in Nat /\ Len(p) < Len(w) /\ Len(w) <= Len(p) + Len(t)
<1>1. /\ w \in Seq(Bit) /\ Len(w) \in Nat /\ Len(p) \in Nat /\ Len(t) \in Nat
      /\ Len(p \o t) = Len(p) + Len(t)
  BY WordIsBits
<1>2. Len(w) <= Len(p) + Len(t) /\ SubSeq(w, 1, Len(w)) = SubSeq(p \o t, 1, Len(w))
  BY <1>1 DEF IsPrefix
<1>3. ASSUME Len(w) <= Len(p) PROVE FALSE
  <2>1. SubSeq(p \o t, 1, Len(w)) = SubSeq(p, 1, Len(w))
    BY <1>1, <1>3
  <2>2. IsPrefix(w, p)
    BY <1>2, <1>3, <2>1 DEF IsPrefix
  <2> QED BY <2>2, NoneBegins
<1> QED BY <1>1, <1>2, <1>3

(***************************************************************************)
(* One code is taken: afterwards no beginning is left, and the source has  *)
(* between none and all of its bits used.                                  *)
(***************************************************************************)
LEMMA TakeStaysInPlace ==
  ASSUME UsedInv, pc \in {"own", "code"}, NEW w \in AllWords, w = Decode(Visible), Take(w)
  PROVE  pre' = <<>> /\ InRange(offset')
<1>1. /\ bits \in [Positions -> Bit] /\ src \in Blk /\ pre \in Seq(Bit)
      /\ offset \in [Blk -> Int]
  BY DEF UsedInv, Simple, InPlace
<1>2. \A k \in Blk : offset[k] \in Int /\ End(k) \in Nat
  BY <1>1, EndIsNat
<1>3. PICK o \in Int : o = offset[src]
  BY <1>1
<1>4. PICK c \in Nat : c = Len(pre)
  BY <1>1
<1>5. PICK e \in Nat : e = End(src)
  BY <1>1, <1>2
<1>6. o + c \in 0 .. e
  BY <1>1, <1>3, <1>4, <1>5 DEF UsedInv, InPlace, Beginning
<1>7. pre = <<>> \/ Decode(pre) = NoWord
  BY DEF UsedInv, Beginning
<1> DEFINE rest == Rest(src, o + c)
<1>8. rest \in Seq(Bit) /\ Len(rest) = e - (o + c) /\ Visible = pre \o rest
  BY <1>1, <1>3, <1>4, <1>5, <1>6, RestIsBits DEF Visible
<1> HIDE DEF rest
<1>9. IsPrefix(w, Visible)
  BY DecodeFinds, WordIsBits DEF NoWord
<1>10. PICK l \in Nat : l = Len(w)
  BY WordIsBits
<1>11. c <= l /\ l <= c + Len(rest)
  <2>1. CASE pre = <<>>
    <3>1. c = 0 /\ Visible = rest
      BY <1>4, <1>8, <2>1
    <3> QED BY <1>8, <1>9, <1>10, <3>1 DEF IsPrefix
  <2>2. CASE Decode(pre) = NoWord
    <3>1. IsPrefix(w, pre \o rest)
      BY <1>8, <1>9
    <3>2. Len(pre) < Len(w) /\ Len(w) <= Len(pre) + Len(rest)
      BY <1>1, <1>8, <2>2, <3>1, LongerThanBeginning
    <3>3. c < l /\ l <= c + Len(rest)
      BY <1>4, <1>10, <3>2, Zenon
    <3> QED BY <3>3
  <2> QED BY <1>7, <2>1, <2>2
<1>12. o + l \in 0 .. e
  BY <1>6, <1>8, <1>11
<1>13. offset' = [offset EXCEPT ![src] = o + l] /\ pre' = SubSeq(pre, l + 1, c)
  BY <1>3, <1>4, <1>10 DEF Take
<1>14. pre' = <<>>
  BY <1>1, <1>4, <1>11, <1>13
<1>15. \A k \in Blk : k # src => offset[k] \in 0 .. End(k)
  BY <1>2 DEF UsedInv, InPlace
<1>16. offset' \in [Blk -> Int] /\ \A k \in Blk : offset'[k] = IF k = src THEN o + l ELSE offset[k]
  BY <1>1, <1>12, <1>13
<1>17. ASSUME NEW k \in Blk PROVE offset'[k] \in 0 .. End(k)
  <2>1. CASE k = src
    BY <1>5, <1>12, <1>16, <2>1
  <2>2. CASE k # src
    BY <1>15, <1>16, <2>2
  <2> QED BY <2>1, <2>2
<1> QED BY <1>14, <1>16, <1>17 DEF InRange

LEMMA RangeIsInPlace ==
  ASSUME InRange(offset'), pre' \in Seq(Bit), src' \in Blk,
         pc' \in {"code", "lost"} => pre' = <<>>
  PROVE  InPlace'
<1>1. \A k \in Blk : offset'[k] \in Int /\ End(k) \in Nat /\ 0 <= offset'[k] /\ offset'[k] <= End(k)
  BY EndIsNat DEF InRange
<1>2. offset' \in [Blk -> Int] /\ \A k \in Blk : offset'[k] <= End(k) /\ ~(offset'[k] < 0)
  BY <1>1 DEF InRange
<1>3. pc' \in {"code", "lost"} => offset'[src'] + Len(pre') \in 0 .. End(src')
  BY <1>1
<1>4. \A k \in Blk : End(k)' = End(k)
  BY DEF End
<1>5. End(src)' = End(src')
  BY DEF End, Area
<1> QED BY <1>2, <1>3, <1>5 DEF InPlace, End, Area

(* Unless a code was found elsewhere, no area is used by less than none of *)
(* its bits.                                                               *)
LEMMA UsedInRange ==
  ASSUME InPlace, pc \notin {"code", "lost"} \/ pre = <<>>, src \in Blk
  PROVE  InRange(offset)
<1> SUFFICES ASSUME NEW k \in Blk PROVE offset[k] \in 0 .. End(k)
  BY DEF InRange, InPlace
<1>1. End(k) \in Nat /\ offset[k] \in Int /\ offset[k] <= End(k)
  BY EndIsNat DEF InPlace
<1>2. ASSUME offset[k] < 0 PROVE FALSE
  <2>1. k = src /\ pc \in {"code", "lost"} /\ offset[src] + Len(pre) \in 0 .. End(src)
    BY <1>2 DEF InPlace
  <2>2. Len(pre) = 0
    BY <2>1
  <2> QED BY <1>1, <1>2, <2>1, <2>2
<1> QED BY <1>1, <1>2

(***************************************************************************)
(* Complete blocks are counted.                                            *)
(***************************************************************************)
LEMMA BlocksAreFinite == IsFiniteSet(Blk)
<1>1. IsFiniteSet(0 .. NumMb - 1) /\ IsFiniteSet(0 .. NumBlk - 1)
  BY FS_Interval
<1> QED BY <1>1, FS_Product DEF Blk

LEMMA EobIsCounted ==
  ASSUME UsedInv, <<m, b>> \in Blk, ~eob[<<m, b>>], TakeEob
  PROVE  Counted' /\ eob' \in [Blk -> BOOLEAN]
<1>1. /\ eob \in [Blk -> BOOLEAN] /\ m \in 0 .. NumMb - 1
      /\ eob' = [eob EXCEPT ![<<m, b>>] = TRUE]
      /\ eobCount' = [eobCount EXCEPT ![m] = @ + 1]
  BY DEF UsedInv, IInv, Control, Simple, TakeEob
<1>2. PICK k0 \in Blk : k0 = <<m, b>> /\ k0[1] = m
  OBVIOUS
<1>3. eob' \in [Blk -> BOOLEAN] /\ \A k \in Blk : eob'[k] = (k = k0 \/ eob[k])
  BY <1>1, <1>2
<1> DEFINE Complete(i) == {k \in Blk : k[1] = i /\ eob[k]}
           CompleteNext(i) == {k \in Blk : k[1] = i /\ eob'[k]}
<1>4. \A i \in 0 .. NumMb - 1 : IsFiniteSet(Complete(i))
  BY BlocksAreFinite, FS_Subset
<1>5. CompleteNext(m) = Complete(m) \cup {k0} /\ k0 \notin Complete(m)
  BY <1>2, <1>3
<1>6. \A i \in 0 .. NumMb - 1 : i # m => CompleteNext(i) = Complete(i)
  BY <1>2, <1>3
<1>7. eobCount = [i \in 0 .. NumMb - 1 |-> Cardinality(Complete(i))]
  BY DEF UsedInv, Counted
<1> HIDE DEF Complete, CompleteNext
<1>8. Cardinality(CompleteNext(m)) = Cardinality(Complete(m)) + 1
  BY <1>1, <1>4, <1>5, FS_AddElement
<1>9. eobCount' = [i \in 0 .. NumMb - 1 |-> Cardinality(CompleteNext(i))]
  BY <1>1, <1>6, <1>7, <1>8
<1> QED BY <1>3, <1>9 DEF Counted, CompleteNext

(***************************************************************************)
(* Where control goes, once more.                                          *)
(***************************************************************************)
LEMMA NothingDecodes == Decode(<<>>) = NoWord
<1> SUFFICES ASSUME Decode(<<>>) # NoWord PROVE FALSE
  OBVIOUS
<1>1. Decode(<<>>) \in AllWords /\ IsPrefix(Decode(<<>>), <<>>)
  BY DecodeFinds
<1>2. Len(Decode(<<>>)) > 0 /\ Len(Decode(<<>>)) <= 0 /\ Len(Decode(<<>>)) \in Nat
  BY <1>1, WordIsBits DEF IsPrefix
<1> QED BY <1>2

LEMMA NoWordIsNone == NoWord \notin AllWords
BY PrefixCode DEF AllWords, NoWord

(* Between two blocks of passes 1 and 2, or at the end.                    *)
LEMMA Settled ==
  ASSUME InRange(offset'), pre' \in Seq(Bit), src' \in Blk,
         pc' \in {"block", "done", "overrun"}
  PROVE  InPlace' /\ Beginning' /\ Incomplete'
BY RangeIsInPlace DEF Beginning, Incomplete

LEMMA NextMbSettles ==
  ASSUME NEW err \in BOOLEAN, Control, Simple, pc \in {"block", "code", "spill"}, NextMb(err)
  PROVE  pc' \in {"block", "done"} /\ pass' \in 0 .. 2 /\ vlcError' \in BOOLEAN
BY DEF Control, Simple, NextMb, Finish

LEMMA NextBlockSettles ==
  ASSUME Control, Simple, pc \in {"block", "code", "spill"}, NextBlock
  PROVE  pc' \in {"block", "done"} /\ pass' \in 0 .. 2 /\ vlcError' \in BOOLEAN
<1>1. vlcError \in BOOLEAN /\ pass \in 0 .. 2
  BY DEF Simple
<1>2. CASE NextMb(vlcError)
  BY <1>1, <1>2, NextMbSettles
<1> QED BY <1>1, <1>2 DEF NextBlock

LEMMA ErrorSettles ==
  ASSUME Control, Simple, pc \in {"block", "code", "spill"}, Error
  PROVE  pc' \in {"block", "done"} /\ pass' \in 0 .. 2 /\ vlcError' \in BOOLEAN
<1>1. CASE NextMb(TRUE)
  BY <1>1, NextMbSettles
<1>2. CASE Finish(TRUE)
  BY <1>2 DEF Finish, Simple
<1> QED BY <1>1, <1>2 DEF Error

LEMMA NextOwnBlockSettles ==
  ASSUME Control, Simple, Incomplete, pc = "own", NextOwnBlock,
         \A k \in Blk : k # <<m, b>> => eob'[k] = eob[k]
  PROVE  /\ pc' \in {"own", "block", "done"} /\ pass' \in 0 .. 2 /\ src' \in Blk
         /\ vlcError' = vlcError /\ Incomplete'
<1>1. /\ m \in 0 .. NumMb - 1 /\ b \in 0 .. NBlocks - 1 /\ src = <<m, b>>
      /\ pass \in 0 .. 2
      /\ src \in Blk
  BY DEF Control, Simple, Incomplete
<1>2. \A k \in Blk : k[1] \in Int /\ k[2] \in Nat
  BY DEF Blk
<1>3. \A k \in Blk : Before(<<m, b>>, k) => ~eob[k]
  BY DEF Incomplete
<1>4. CASE pc' # "own"
  <2>1. pc' \in {"block", "done"} /\ pass' \in 0 .. 2 /\ src' = src /\ vlcError' = vlcError
    BY <1>1, <1>4 DEF NextOwnBlock
  <2> QED BY <1>1, <2>1 DEF Incomplete
<1>5. CASE pc' = "own"
  <2>1. /\ pass' \in 0 .. 2 /\ src' = <<m', b'>> /\ vlcError' = vlcError
        /\ \/ m' = m /\ b' = b + 1 /\ b' \in 0 .. NBlocks - 1
           \/ m' = m + 1 /\ b' = 0 /\ m' \in 0 .. NumMb - 1
    BY <1>1, <1>5 DEF NextOwnBlock
  <2>2. src' \in Blk /\ b' < NBlocks
    BY <1>1, <2>1 DEF Blk
  <2>3. ASSUME NEW k \in Blk, k = <<m', b'>> \/ Before(<<m', b'>>, k)
        PROVE  ~eob'[k]
    <3> DEFINE x == k[1]
               y == k[2]
    <3>1. /\ x \in Int /\ y \in Int /\ b \in Int /\ m \in Int /\ m' \in Int /\ b' \in Int
          /\ (x = m' /\ y = b') \/ m' < x \/ (m' = x /\ b' < y)
      BY <1>1, <1>2, <2>1, <2>3 DEF Before
    <3> HIDE DEF x, y
    <3>2. m < x \/ (m = x /\ b < y)
      <4>1. CASE m' = m /\ b' = b + 1
        BY <3>1, <4>1
      <4>2. CASE m' = m + 1
        BY <3>1, <4>2
      <4> QED BY <2>1, <4>1, <4>2
    <3> USE DEF x, y
    <3>3. Before(<<m, b>>, k) /\ k # <<m, b>>
      BY <3>1, <3>2 DEF Before
    <3> QED BY <1>3, <3>3
  <2>4. ASSUME NEW k \in Blk, k = <<m, b>>' \/ Before(<<m, b>>, k)' PROVE ~eob'[k]
    BY <2>3, <2>4 DEF Before
  <2> QED BY <1>5, <2>1, <2>2, <2>4 DEF Incomplete
<1> QED BY <1>4, <1>5

(***************************************************************************)
(* The steps that do more than go on.                                      *)
(***************************************************************************)
LEMMA BlockAtWork == Control => <<m, b>> \in Blk
BY DEF Control, Blk

LEMMA WordIsStored ==
  ASSUME Simple, Control, NEW w \in Words, TakeCoeff(w)
  PROVE  got' \in [Blk -> Seq(Words)] /\ Take(w) /\ UNCHANGED <<eob, eobCount>>
<1>1. got[<<m, b>>] \in Seq(Words)
  BY BlockAtWork DEF Simple
<1>2. Append(got[<<m, b>>], w) \in Seq(Words)
  BY <1>1
<1>3. got' = [got EXCEPT ![<<m, b>>] = Append(got[<<m, b>>], w)]
  BY DEF TakeCoeff
<1>4. got' \in [Blk -> Seq(Words)]
  BY <1>2, <1>3, BlockAtWork DEF Simple
<1> QED BY <1>4 DEF TakeCoeff

LEMMA BeginKeeps ==
  ASSUME UsedInv, Begin
  PROVE  Simple' /\ InPlace' /\ Beginning' /\ Incomplete' /\ Counted'
<1>1. /\ pc = "idle" /\ Simple /\ pre = pre /\ src \in Blk /\ InRange(offset)
      /\ \A k \in Blk : ~eob[k]
  BY UsedInRange DEF UsedInv, Simple, Incomplete, Begin
<1>2. /\ pc' = "own" /\ pass' = 0 /\ m' = 0 /\ b' = 0 /\ src' = <<0, 0>> /\ pre' = <<>>
      /\ offset' = [k \in Blk |-> IF k \in Parsed THEN 0 ELSE offset[k]]
      /\ eob' = [k \in Blk |-> k \notin Parsed /\ eob[k]]
      /\ got' = [k \in Blk |-> IF k \in Parsed THEN <<>> ELSE got[k]]
      /\ eobCount' = [i \in 0 .. NumMb - 1 |-> 0]
      /\ vlcError' = FALSE /\ bits' = bits /\ quality' = quality
  BY DEF Begin
<1>3. src' \in Blk /\ pre' \in Seq(Bit)
  BY <1>2 DEF Blk
<1>4. InRange(offset')
  <2>1. \A k \in Blk : offset[k] \in Int /\ offset[k] \in 0 .. End(k) /\ 0 \in 0 .. End(k)
    BY <1>1, EndIsNat DEF InRange
  <2> QED BY <1>2, <2>1 DEF InRange
<1>5. InPlace'
  BY <1>2, <1>3, <1>4, RangeIsInPlace
<1>6. Beginning'
  BY <1>2 DEF Beginning
<1>7. eob' = [k \in Blk |-> FALSE]
  BY <1>1, <1>2
<1>8. Incomplete'
  BY <1>2, <1>7 DEF Incomplete
<1>9. Counted'
  <2>1. \A i \in 0 .. NumMb - 1 : {k \in Blk : k[1] = i /\ eob'[k]} = {}
    BY <1>7
  <2>2. \A i \in 0 .. NumMb - 1 : Cardinality({k \in Blk : k[1] = i /\ eob'[k]}) = 0
    BY <2>1, FS_EmptySet
  <2> QED BY <1>2, <2>2 DEF Counted
<1>10. Simple'
  <2>1. got' \in [Blk -> Seq(Words)]
    <3>1. <<>> \in Seq(Words)
      OBVIOUS
    <3>2. \A k \in Blk : got[k] \in Seq(Words)
      BY <1>1 DEF Simple
    <3> QED BY <1>2, <3>1, <3>2
  <2>2. bits' \in [Positions -> Bit] /\ quality' \in Qualities
    BY <1>1, <1>2, Zenon DEF Simple
  <2>3. eob' \in [Blk -> BOOLEAN]
    BY <1>7
  <2>4. vlcError' \in BOOLEAN
    BY <1>2, Zenon
  <2>5. pass' \in 0 .. 2
    <3>1. pass' = 0
      BY <1>2, Zenon
    <3> QED BY <3>1
  <2> QED BY <1>3, <2>1, <2>2, <2>3, <2>4, <2>5 DEF Simple
<1> QED BY <1>5, <1>6, <1>8, <1>9, <1>10

LEMMA ShortKeeps ==
  ASSUME UsedInv, ReadShort
  PROVE  InPlace' /\ Beginning' /\ Incomplete'
<1>1. pc = "code" /\ Decode(Visible) = NoWord /\ pc' = "spill" /\ pre' = Visible
      /\ UNCHANGED <<bits, m, b, src, offset, eob>>
  BY DEF ReadShort
<1>2. /\ src \in Blk /\ bits \in [Positions -> Bit] /\ offset \in [Blk -> Int]
      /\ ~eob[<<m, b>>]
  BY <1>1 DEF UsedInv, Simple, InPlace, Incomplete
<1>3. pre = <<>>
  <2>1. NoWord \notin Words \cup {Eob}
    BY NoWordIsNone DEF AllWords
  <2> QED BY <1>1, <2>1 DEF UsedInv, Beginning
<1>4. InRange(offset)
  BY <1>2, <1>3, UsedInRange DEF UsedInv
<1>5. pre' \in Seq(Bit)
  <2>1. offset[src] \in 0 .. End(src) /\ offset[src] \in Int
    BY <1>2, <1>4 DEF InRange
  <2>2. offset[src] + Len(pre) = offset[src]
    BY <1>3, <2>1
  <2>3. Rest(src, offset[src] + Len(pre)) \in Seq(Bit)
    BY <1>2, <2>1, <2>2, RestIsBits
  <2>4. pre \in Seq(Bit)
    BY <1>3
  <2> QED BY <1>1, <2>3, <2>4 DEF Visible
<1>6. InPlace'
  BY <1>1, <1>2, <1>4, <1>5, RangeIsInPlace
<1>7. Beginning'
  BY <1>1 DEF Beginning
<1> QED BY <1>1, <1>2, <1>6, <1>7 DEF Incomplete

(* The lender has bits left, and gives them with the beginning.            *)
LEMMA JoinedIsBits ==
  ASSUME UsedInv, pc = "spill", Lenders # {}
  PROVE  /\ InRange(offset) /\ Lender \in Blk /\ ~mark[Lender] /\ offset[Lender] < End(Lender)
         /\ Joined \in Seq(Bit) /\ pre \in Seq(Bit)
<1>1. src \in Blk /\ bits \in [Positions -> Bit] /\ pre \in Seq(Bit)
  BY DEF UsedInv, Simple, InPlace
<1>2. InRange(offset)
  BY <1>1, UsedInRange DEF UsedInv
<1>3. Lender \in Lenders
  <2>1. Lenders \subseteq Blk
    BY DEF Lenders, MbLenders, VsLenders
  <2> QED BY <2>1, FirstIsMember DEF Lender
<1>4. Lender \in Blk /\ ~mark[Lender] /\ End(Lender) > offset[Lender]
  BY <1>3 DEF Lenders, MbLenders, VsLenders, HasUnused
<1>5. Rest(Lender, offset[Lender]) \in Seq(Bit)
  BY <1>1, <1>2, <1>4, RestIsBits DEF InRange
<1>6. Joined \in Seq(Bit)
  BY <1>1, <1>5 DEF Joined
<1>7. offset[Lender] < End(Lender)
  <2>1. offset[Lender] \in Int /\ End(Lender) \in Nat
    BY <1>2, <1>4, EndIsNat DEF InRange
  <2> QED BY <1>4, <2>1
<1> QED BY <1>1, <1>2, <1>4, <1>6, <1>7

LEMMA FoundKeeps ==
  ASSUME UsedInv, SpillFound
  PROVE  src' \in Blk /\ InPlace' /\ Beginning' /\ Incomplete'
<1> DEFINE l == Lender
<1>1. /\ pc = "spill" /\ Lenders # {} /\ Decode(Joined) \in Words \cup {Eob}
      /\ offset' = [k \in Blk |-> IF k = l THEN offset[k] - Len(pre)
                                  ELSE IF mark[k] /\ k \in ToClear THEN End(k)
                                  ELSE offset[k]]
      /\ src' = l /\ pc' = "code" /\ UNCHANGED <<bits, m, b, pre, eob>>
  BY DEF SpillFound
<1>2. InRange(offset) /\ l \in Blk /\ pre \in Seq(Bit) /\ Joined = pre \o Rest(l, offset[l])
  BY <1>1, JoinedIsBits DEF Joined
<1>3. ~eob[<<m, b>>] /\ Decode(pre) = NoWord
  BY <1>1 DEF UsedInv, Incomplete, Beginning
<1> HIDE DEF l
<1>4. Incomplete'
  BY <1>1, <1>3 DEF Incomplete
<1>5. PICK c \in Nat : c = Len(pre)
  BY <1>2
<1>6. \A k \in Blk : offset[k] \in Int /\ End(k) \in Nat /\ 0 <= offset[k] /\ offset[k] <= End(k)
  BY <1>2, EndIsNat DEF InRange
<1>7. \A k \in Blk : offset'[k] = IF k = l THEN offset[k] - c
                                  ELSE IF mark[k] /\ k \in ToClear THEN End(k) ELSE offset[k]
  BY <1>1, <1>5
<1>8. \A k \in Blk : /\ offset'[k] \in Int /\ offset'[k] <= End(k)
                     /\ offset'[k] < 0 => k = l
  BY <1>6, <1>7
<1>9. offset'[l] + c = offset[l]
  BY <1>2, <1>6, <1>7
<1>10. InPlace'
  <2>1. offset' \in [Blk -> Int]
    BY <1>1, <1>8
  <2>2. \A k \in Blk : End(k)' = End(k)
    BY DEF End, Area
  <2>3. End(src)' = End(l)
    BY <1>1 DEF End, Area
  <2>4. offset'[src'] + Len(pre') = offset[l] /\ offset[l] \in 0 .. End(l)
    BY <1>1, <1>2, <1>5, <1>9 DEF InRange
  <2>5. \A k \in Blk : offset'[k] <= End(k)' /\ (offset'[k] < 0 => k = src' /\ pc' \in {"code", "lost"})
    BY <1>1, <1>8, <2>2
  <2>6. offset'[src'] + Len(pre') \in 0 .. End(src)'
    BY <2>3, <2>4
  <2>7. pre' \in Seq(Bit)
    BY <1>1, <1>2
  <2> QED BY <2>1, <2>5, <2>6, <2>7 DEF InPlace
<1>11. Beginning'
  <2>1. Visible' = pre' \o Rest(src, offset[src] + Len(pre))'
    BY DEF Visible
  <2>2. offset'[src'] + Len(pre') = offset[l]
    BY <1>1, <1>5, <1>9
  <2>3. Rest(src, offset[src] + Len(pre))' = Rest(l, offset[l])
    <3>1. src' = l /\ bits' = bits
      BY <1>1, Zenon
    <3> QED BY <2>2, <3>1, Zenon DEF Rest, End, Area
  <2>4. Visible' = Joined
    BY <1>1, <1>2, <2>1, <2>3
  <2>5. pc' = "code" /\ Decode(pre') = NoWord /\ Decode(Visible') \in Words \cup {Eob}
    BY <1>1, <1>3, <2>4
  <2>6. Decode(pre)' = Decode(pre') /\ Decode(Visible)' = Decode(Visible')
    BY DEF Decode
  <2> QED BY <2>5, <2>6 DEF Beginning
<1> QED BY <1>1, <1>2, <1>4, <1>10, <1>11

LEMMA UsedInit == Init => UsedInv
<1> SUFFICES ASSUME Init PROVE UsedInv
  OBVIOUS
<1>1. /\ pc = "idle" /\ pass = 0 /\ src = <<0, 0>> /\ src \in Blk /\ pre = <<>>
      /\ offset = [k \in Blk |-> 0] /\ eob = [k \in Blk |-> FALSE]
      /\ got = [k \in Blk |-> <<>>]
      /\ eobCount = [i \in 0 .. NumMb - 1 |-> 0]
      /\ bits \in [Positions -> Bit] /\ quality \in Qualities /\ vlcError = FALSE
  BY DEF Init, Idle, Blk
<1>2. Simple
  <2>1. vlcError \in BOOLEAN
    BY <1>1, Zenon
  <2>2. eob \in [Blk -> BOOLEAN] /\ got \in [Blk -> Seq(Words)] /\ pass \in 0 .. 2
    BY <1>1
  <2> QED BY <1>1, <2>1, <2>2 DEF Simple
<1>3. InPlace
  <2>1. \A k \in Blk : End(k) \in Nat
    BY EndIsNat
  <2> QED BY <1>1, <2>1 DEF InPlace
<1>4. Counted
  <2>1. \A i \in 0 .. NumMb - 1 : {k \in Blk : k[1] = i /\ eob[k]} = {}
    BY <1>1
  <2>2. \A i \in 0 .. NumMb - 1 : Cardinality({k \in Blk : k[1] = i /\ eob[k]}) = 0
    BY <2>1, FS_EmptySet
  <2> QED BY <1>1, <2>2 DEF Counted
<1> QED BY <1>1, <1>2, <1>3, <1>4, InitInv DEF UsedInv, Beginning, Incomplete

LEMMA UsedStep == UsedInv /\ [Next]_vars => UsedInv'
<1> SUFFICES ASSUME UsedInv, [Next]_vars PROVE UsedInv'
  OBVIOUS
<1>a. IInv'
  BY StepInv DEF UsedInv
<1>b. Control /\ Simple /\ InPlace /\ Beginning /\ Incomplete /\ Counted /\ <<m, b>> \in Blk
  BY BlockAtWork DEF UsedInv, IInv
<1>c. src \in Blk /\ pre \in Seq(Bit) /\ <<>> \in Seq(Bit)
  BY <1>b DEF Simple, InPlace
<1>d. pc \notin {"code", "lost"} => InRange(offset)
  BY <1>b, <1>c, UsedInRange
<1>e. Words \cup {Eob} \subseteq AllWords
  BY DEF AllWords
<1> SUFFICES Simple' /\ InPlace' /\ Beginning' /\ Incomplete' /\ Counted'
  BY <1>a DEF UsedInv
<1>1. CASE Begin
  BY <1>1, BeginKeeps
<1>2. CASE OwnCoeff
  <2> DEFINE w == Decode(Visible)
  <2>1. /\ pc = "own" /\ w \in Words /\ TakeCoeff(w) /\ pc' \in {"own", "overrun"}
        /\ UNCHANGED <<bits, quality, pass, m, b, src, mark, vlcError>>
    BY <1>2 DEF OwnCoeff
  <2>2. got' \in [Blk -> Seq(Words)] /\ Take(w) /\ UNCHANGED <<eob, eobCount>>
    BY <1>b, <2>1, WordIsStored
  <2>3. pre' = <<>> /\ InRange(offset')
    BY <1>e, <2>1, <2>2, TakeStaysInPlace
  <2> HIDE DEF w
  <2>4. InPlace'
    BY <1>c, <2>1, <2>3, RangeIsInPlace
  <2>5. Beginning'
    BY <2>1, <2>3 DEF Beginning
  <2> QED BY <1>b, <2>1, <2>2, <2>4, <2>5 DEF Simple, Incomplete, Before, Counted
<1>3. CASE OwnEob
  <2>1. /\ pc = "own" /\ Eob = Decode(Visible) /\ TakeEob /\ Take(Eob) /\ NextOwnBlock
        /\ got' = got /\ UNCHANGED <<bits, quality, mark>>
    BY <1>3 DEF OwnEob, TakeEob
  <2>2. ~eob[<<m, b>>]
    BY <1>b, <2>1 DEF Incomplete
  <2>3. Counted' /\ eob' \in [Blk -> BOOLEAN]
    BY <1>b, <2>1, <2>2, EobIsCounted
  <2>4. pre' = <<>> /\ InRange(offset')
    BY <1>e, <2>1, TakeStaysInPlace
  <2>5. \A k \in Blk : k # <<m, b>> => eob'[k] = eob[k]
    BY <1>b, <2>1 DEF TakeEob, Simple
  <2>6. /\ pc' \in {"own", "block", "done"} /\ pass' \in 0 .. 2 /\ src' \in Blk
        /\ vlcError' = vlcError /\ Incomplete'
    BY <1>b, <2>1, <2>5, NextOwnBlockSettles
  <2>7. InPlace'
    BY <1>c, <2>4, <2>6, RangeIsInPlace
  <2>8. Beginning'
    BY <2>4, <2>6 DEF Beginning
  <2> QED BY <1>b, <2>1, <2>3, <2>6, <2>7, <2>8 DEF Simple
<1>4. CASE OwnShort
  <2>1. pc = "own" /\ NextOwnBlock /\ pre' = pre /\ KeepSegment
    BY <1>4 DEF OwnShort
  <2>2. \A k \in Blk : k # <<m, b>> => eob'[k] = eob[k]
    BY <2>1 DEF KeepSegment
  <2>3. /\ pc' \in {"own", "block", "done"} /\ pass' \in 0 .. 2 /\ src' \in Blk
        /\ vlcError' = vlcError /\ Incomplete'
    BY <1>b, <2>1, <2>2, NextOwnBlockSettles
  <2>4. pre' = <<>> /\ offset' = offset /\ InRange(offset')
    BY <1>b, <1>d, <2>1 DEF KeepSegment, Beginning
  <2>5. InPlace'
    BY <1>c, <2>3, <2>4, RangeIsInPlace
  <2>6. Beginning'
    BY <2>3, <2>4 DEF Beginning
  <2> QED BY <1>b, <2>1, <2>3, <2>5, <2>6 DEF Simple, KeepSegment, Counted
<1>5. CASE SkipBlock
  <2>1. pc = "block" /\ NextBlock /\ KeepSegment /\ UNCHANGED <<src, pre>>
    BY <1>5 DEF SkipBlock
  <2>2. pc' \in {"block", "done"} /\ pass' \in 0 .. 2 /\ vlcError' \in BOOLEAN
    BY <1>b, <2>1, NextBlockSettles
  <2>3. InRange(offset')
    BY <1>d, <2>1 DEF KeepSegment
  <2> QED BY <1>b, <1>c, <2>1, <2>2, <2>3, Settled DEF Simple, KeepSegment, Counted
<1>6. CASE EnterBlock
  <2>1. /\ pc = "block" /\ ~eob[<<m, b>>] /\ pc' = "code" /\ src' = <<m, b>> /\ pre' = <<>>
        /\ KeepSegment /\ UNCHANGED <<pass, m, b, vlcError>>
    BY <1>6 DEF EnterBlock
  <2>2. InRange(offset') /\ src' \in Blk
    BY <1>b, <1>d, <2>1 DEF KeepSegment
  <2>3. InPlace'
    BY <1>c, <2>1, <2>2, RangeIsInPlace
  <2>4. Beginning'
    BY <2>1, NothingDecodes DEF Beginning
  <2>5. Incomplete'
    BY <2>1 DEF Incomplete, KeepSegment
  <2> QED BY <1>b, <2>1, <2>2, <2>3, <2>4, <2>5 DEF Simple, KeepSegment, Counted
<1>7. CASE ReadCoeff
  <2> DEFINE w == Decode(Visible)
  <2>1. /\ pc = "code" /\ w \in Words /\ TakeCoeff(w)
        /\ Error \/ UNCHANGED <<pc, pass, m, b, vlcError>>
        /\ UNCHANGED <<bits, quality, src, mark>>
    BY <1>7 DEF ReadCoeff
  <2>2. got' \in [Blk -> Seq(Words)] /\ Take(w) /\ UNCHANGED <<eob, eobCount>>
    BY <1>b, <2>1, WordIsStored
  <2>3. pre' = <<>> /\ InRange(offset')
    BY <1>e, <2>1, <2>2, TakeStaysInPlace
  <2> HIDE DEF w
  <2>4. CASE Error
    <3>1. pc' \in {"block", "done"} /\ pass' \in 0 .. 2 /\ vlcError' \in BOOLEAN
      BY <1>b, <2>1, <2>4, ErrorSettles
    <3> QED BY <1>b, <1>c, <2>1, <2>2, <2>3, <3>1, Settled DEF Simple, Counted
  <2>5. CASE UNCHANGED <<pc, pass, m, b, vlcError>>
    <3>1. InPlace'
      BY <1>c, <2>1, <2>3, <2>5, RangeIsInPlace
    <3>2. Beginning'
      BY <2>1, <2>3, <2>5, NothingDecodes DEF Beginning
    <3> QED BY <1>b, <2>1, <2>2, <2>5, <3>1, <3>2 DEF Simple, Incomplete, Before, Counted
  <2> QED BY <2>1, <2>4, <2>5
<1>8. CASE ReadEob
  <2>1. /\ pc = "code" /\ Eob = Decode(Visible) /\ TakeEob /\ Take(Eob) /\ NextBlock
        /\ got' = got /\ UNCHANGED <<bits, quality, src, mark>>
    BY <1>8 DEF ReadEob, TakeEob
  <2>2. ~eob[<<m, b>>]
    BY <1>b, <2>1 DEF Incomplete
  <2>3. Counted' /\ eob' \in [Blk -> BOOLEAN]
    BY <1>b, <2>1, <2>2, EobIsCounted
  <2>4. pre' = <<>> /\ InRange(offset')
    BY <1>e, <2>1, TakeStaysInPlace
  <2>5. pc' \in {"block", "done"} /\ pass' \in 0 .. 2 /\ vlcError' \in BOOLEAN
    BY <1>b, <2>1, NextBlockSettles
  <2> QED BY <1>b, <1>c, <2>1, <2>3, <2>4, <2>5, Settled DEF Simple
<1>9. CASE ErrorAsCoeff
  <2>1. /\ pc \in {"own", "code"} /\ pc' = "lost" /\ UNCHANGED <<pass, m, b, src, pre, vlcError>>
        /\ UNCHANGED <<bits, quality, offset, eob, eobCount, got>>
    BY <1>9 DEF ErrorAsCoeff, KeepSegment
  <2>2. CASE pc = "own"
    <3>1. InRange(offset') /\ pre' = <<>>
      BY <1>b, <1>d, <2>1, <2>2 DEF Beginning
    <3>2. InPlace'
      BY <1>c, <2>1, <3>1, RangeIsInPlace
    <3> QED BY <1>b, <2>1, <3>2 DEF Simple, Beginning, Incomplete, Counted
  <2>3. CASE pc = "code"
    <3>1. InPlace'
      BY <1>b, <2>1, <2>3 DEF InPlace, End, Area
    <3> QED BY <1>b, <2>1, <3>1 DEF Simple, Beginning, Incomplete, Counted
  <2> QED BY <2>1, <2>2, <2>3
<1>10. CASE ReadShort
  <2>1. UNCHANGED <<bits, quality, pass, m, b, src, eob, eobCount, got, vlcError>>
    BY <1>10 DEF ReadShort
  <2> QED BY <1>10, <1>b, <2>1, ShortKeeps DEF Simple, Counted
<1>11. CASE SpillFound
  <2>1. UNCHANGED <<bits, quality, pass, m, b, eob, eobCount, got, vlcError>>
    BY <1>11 DEF SpillFound
  <2> QED BY <1>11, <1>b, <2>1, FoundKeeps DEF Simple, Counted
<1>12. CASE SpillMore
  <2>1. /\ pc = "spill" /\ pc' = "spill" /\ Lenders # {} /\ Decode(Joined) = NoWord /\ pre' = Joined
        /\ UNCHANGED <<bits, quality, pass, m, b, src, offset, eob, eobCount, got, vlcError>>
    BY <1>12 DEF SpillMore
  <2>2. pre' \in Seq(Bit) /\ InRange(offset')
    BY <2>1, JoinedIsBits
  <2>3. InPlace'
    BY <1>c, <2>1, <2>2, RangeIsInPlace
  <2>4. Beginning'
    BY <2>1 DEF Beginning
  <2> QED BY <1>b, <2>1, <2>3, <2>4 DEF Simple, Incomplete, Counted
<1>13. CASE SpillError
  <2>1. pc = "spill" /\ Error /\ UNCHANGED <<bits, quality, src, pre, offset, eob, eobCount, got>>
    BY <1>13 DEF SpillError
  <2>2. pc' \in {"block", "done"} /\ pass' \in 0 .. 2 /\ vlcError' \in BOOLEAN
    BY <1>b, <2>1, ErrorSettles
  <2>3. InRange(offset')
    BY <1>d, <2>1
  <2> QED BY <1>b, <1>c, <2>1, <2>2, <2>3, Settled DEF Simple, Counted
<1>14. CASE SpillNone
  <2>1. /\ pc = "spill" /\ (NextMb(vlcError) \/ Finish(vlcError))
        /\ UNCHANGED <<bits, quality, src, pre, offset, eob, eobCount, got>>
    BY <1>14 DEF SpillNone
  <2>2. pc' \in {"block", "done"} /\ pass' \in 0 .. 2 /\ vlcError' \in BOOLEAN
    <3>1. CASE NextMb(vlcError)
      BY <1>b, <2>1, <3>1, NextMbSettles DEF Simple
    <3>2. CASE Finish(vlcError)
      BY <1>b, <3>2 DEF Simple, Finish
    <3> QED BY <2>1, <3>1, <3>2
  <2>3. InRange(offset')
    BY <1>d, <2>1
  <2> QED BY <1>b, <1>c, <2>1, <2>2, <2>3, Settled DEF Simple, Counted
<1>15. CASE UNCHANGED vars
  BY <1>15, <1>b DEF vars, Simple, InPlace, End, Area, Beginning, Visible, Rest, Incomplete,
                     Before, Counted
<1> QED BY <1>1, <1>2, <1>3, <1>4, <1>5, <1>6, <1>7, <1>8, <1>9, <1>10, <1>11,
          <1>12, <1>13, <1>14, <1>15 DEF Next

(***************************************************************************)
(* Never has an area more bits used than it has, nor one that does not     *)
(* lend to the code at work less than none; and the complete blocks of     *)
(* each macroblock, by which pass 2 chooses who lends, are counted right   *)
(* (dv_parse_video_segment, dv_find_spilled_vlc).                          *)
(***************************************************************************)
THEOREM AreasStayInBounds == Spec => []TypeOK
<1>1. UsedInv => TypeOK
  <2> SUFFICES ASSUME UsedInv PROVE TypeOK
    OBVIOUS
  <2>1. Control /\ Simple /\ InPlace /\ Counted /\ mark \in [Blk -> BOOLEAN]
    BY DEF UsedInv, IInv, Trail
  <2>2. \A k \in Blk : offset[k] <= End(k) /\ (offset[k] < 0 => k = src /\ 0 <= offset[k] + Len(pre))
    BY <2>1, EndIsNat DEF InPlace, Simple
  <2> QED BY <2>1, <2>2 DEF TypeOK, Control, Simple, InPlace, Counted
<1> QED BY <1>1, UsedInit, UsedStep, PTL DEF Spec

-----------------------------------------------------------------------------
(***************************************************************************)
(* The accounts are kept.                                                  *)
(***************************************************************************)
Collected == pc = "spill" => Len(pre) = Lent
Unused == pc = "idle" => \A k \in Blk : offset[k] = 0 /\ got[k] = <<>>
AccountsInv == UsedInv /\ Balanced /\ Collected /\ Unused

LEMMA NumbersHold ==
  ASSUME UsedInv
  PROVE  /\ Numbers /\ \A k \in Blk : got[k] \in Seq(Words) /\ WordBits(got[k]) \in Int
         /\ \A k \in Blk : End(k) \in Int /\ offset[k] \in Int
         /\ Len(Eob) \in Nat
<1>1. Len(Eob) \in Nat
  BY WordIsBits DEF AllWords
<1>2. ASSUME NEW k \in Blk PROVE got[k] \in Seq(Words) /\ WordBits(got[k]) \in Int
  <2>1. got[k] \in Seq(Words)
    BY DEF UsedInv, Simple
  <2>2. IsFiniteSet(DOMAIN got[k]) /\ Lens(got[k]) \in [DOMAIN got[k] -> Int]
    BY <2>1, WordsAreBits
  <2>3. Total(Lens(got[k]), DOMAIN got[k]) \in Int
    BY <2>2, TotalIsInt
  <2> QED BY <2>1, <2>3, WordBitsIsTotal
<1>3. \A k \in Blk : BitsRead(k) \in Int
  BY <1>1, <1>2 DEF BitsRead
<1>4. \A k \in Blk : offset[k] \in Int /\ Left(k) \in Int /\ End(k) \in Int
  BY EndIsNat DEF UsedInv, InPlace, Left
<1> QED BY <1>1, <1>2, <1>3, <1>4, BlocksAreFinite DEF Numbers

LEMMA WordIsAccounted ==
  ASSUME UsedInv, Balanced, NEW w \in Words, TakeCoeff(w)
  PROVE  Balanced'
<1>1. /\ Numbers /\ got[<<m, b>>] \in Seq(Words) /\ WordBits(got[<<m, b>>]) \in Int
      /\ <<m, b>> \in Blk /\ src \in Blk
  BY NumbersHold, BlockAtWork DEF UsedInv, IInv, Simple
<1>2. PICK d \in Int : d = Len(w)
  BY WordIsBits DEF AllWords
<1>3. \A k \in Blk : offset'[k] = IF k = src THEN offset[k] + d ELSE offset[k]
  BY <1>1, <1>2 DEF TakeCoeff, Take, UsedInv, InPlace
<1>4. \A k \in Blk : BitsRead(k)' = IF k = <<m, b>> THEN BitsRead(k) + d ELSE BitsRead(k)
  <2> SUFFICES ASSUME NEW k \in Blk
               PROVE  BitsRead(k)' = IF k = <<m, b>> THEN BitsRead(k) + d ELSE BitsRead(k)
    OBVIOUS
  <2>1. /\ got' = [got EXCEPT ![<<m, b>>] = Append(@, w)] /\ eob' = eob
        /\ got \in [Blk -> Seq(Words)] /\ eob \in [Blk -> BOOLEAN]
    BY DEF TakeCoeff, UsedInv, Simple
  <2>2. got'[k] = IF k = <<m, b>> THEN Append(got[<<m, b>>], w) ELSE got[k]
    BY <1>1, <2>1
  <2>3. BitsRead(k) = WordBits(got[k]) + (IF eob[k] THEN Len(Eob) ELSE 0)
    BY DEF BitsRead
  <2>4. BitsRead(k)' = WordBits(got'[k]) + (IF eob[k] THEN Len(Eob) ELSE 0)
    BY Zenon, <2>1, ReadNext
  <2>5. CASE k = <<m, b>>
    <3>1. WordBits(got'[k]) = WordBits(got[k]) + d
      BY <1>1, <1>2, <2>2, <2>5, WordBitsAppend
    <3>2. WordBits(got[k]) \in Int /\ Len(Eob) \in Nat
      BY NumbersHold
    <3> QED BY <2>3, <2>4, <2>5, <3>1, <3>2
  <2>6. CASE k # <<m, b>>
    BY <2>2, <2>3, <2>4, <2>6
  <2> QED BY <2>5, <2>6
<1> QED BY <1>1, <1>3, <1>4, OneCodeMore

LEMMA EobIsAccounted ==
  ASSUME UsedInv, Balanced, ~eob[<<m, b>>], TakeEob
  PROVE  Balanced'
<1>1. Numbers /\ <<m, b>> \in Blk /\ src \in Blk
  BY NumbersHold, BlockAtWork DEF UsedInv, IInv, Simple
<1>2. PICK d \in Int : d = Len(Eob)
  BY NumbersHold
<1>3. \A k \in Blk : offset'[k] = IF k = src THEN offset[k] + d ELSE offset[k]
  BY <1>1, <1>2 DEF TakeEob, Take, UsedInv, InPlace
<1>4. \A k \in Blk : BitsRead(k)' = IF k = <<m, b>> THEN BitsRead(k) + d ELSE BitsRead(k)
  <2> SUFFICES ASSUME NEW k \in Blk
               PROVE  BitsRead(k)' = IF k = <<m, b>> THEN BitsRead(k) + d ELSE BitsRead(k)
    OBVIOUS
  <2>1. /\ got' = got /\ (k = <<m, b>> => eob'[k] /\ ~eob[k])
        /\ k # <<m, b>> => eob'[k] = eob[k]
    BY <1>1 DEF TakeEob, UsedInv, Simple
  <2>2. PICK n \in Int : n = WordBits(got[k])
    BY NumbersHold
  <2>3. CASE k = <<m, b>>
    <3>1. BitsRead(k)' = n + d
      BY Zenon, <1>2, <2>1, <2>2, <2>3, ReadNext
    <3>2. BitsRead(k) = n + 0
      BY Zenon, <2>1, <2>2, <2>3 DEF BitsRead
    <3> QED BY <2>3, <3>1, <3>2
  <2>4. CASE k # <<m, b>>
    BY Zenon, <2>1, <2>4, ReadAlike
  <2> QED BY <2>3, <2>4
<1> QED BY <1>1, <1>3, <1>4, OneCodeMore

LEMMA BeginIsAccounted ==
  ASSUME AccountsInv, Begin
  PROVE  Balanced'
<1>1. \A k \in Blk : offset[k] = 0 /\ got[k] = <<>> /\ ~eob[k]
  BY DEF AccountsInv, UsedInv, Unused, Incomplete, Begin
<1>2. \A k \in Blk : offset'[k] = offset[k] /\ got'[k] = got[k] /\ ~eob'[k]
  BY <1>1 DEF Begin
<1>3. \A k \in Blk : BitsRead(k)' = BitsRead(k)
  <2> SUFFICES ASSUME NEW k \in Blk PROVE BitsRead(k)' = BitsRead(k)
    OBVIOUS
  <2>1. BitsRead(k)' = WordBits(got[k]) + 0
    BY Zenon, <1>2, ReadNext
  <2>2. BitsRead(k) = WordBits(got[k]) + 0
    BY Zenon, <1>1 DEF BitsRead
  <2> QED BY <2>1, <2>2
<1> QED BY <1>2, <1>3, NothingMoves DEF AccountsInv

LEMMA KeptIsAccounted ==
  ASSUME Balanced, UNCHANGED <<offset, got, eob>>
  PROVE  Balanced'
<1>1. \A k \in Blk : BitsRead(k)' = BitsRead(k) /\ offset'[k] = offset[k]
  BY Zenon, ReadAlike
<1> QED BY Zenon, <1>1, NothingMoves

(* What the source has left is the beginning of the code.                  *)
LEMMA ShortIsCollected ==
  ASSUME AccountsInv, ReadShort
  PROVE  Collected'
<1>1. pc = "code" /\ Decode(Visible) = NoWord /\ pre' = Visible
      /\ mark' = [mark EXCEPT ![src] = TRUE] /\ UNCHANGED <<bits, src, offset>>
  BY DEF ReadShort
<1>2. /\ UsedInv /\ src \in Blk /\ bits \in [Positions -> Bit] /\ mark \in [Blk -> BOOLEAN]
      /\ Numbers /\ \A k \in Blk : ~mark[k]
  BY <1>1, NumbersHold DEF AccountsInv, UsedInv, IInv, Simple, Trail
<1>3. pre = <<>>
  <2>1. NoWord \notin Words \cup {Eob}
    BY NoWordIsNone DEF AllWords
  <2> QED BY <1>1, <1>2, <2>1 DEF UsedInv, Beginning
<1>4. InRange(offset)
  BY <1>2, <1>3, UsedInRange DEF UsedInv
<1>5. PICK d \in Int : d = End(src) - offset[src]
  BY <1>2, NumbersHold
<1>6. Len(pre') = d
  <2>1. offset[src] \in 0 .. End(src) /\ offset[src] \in Int
    BY <1>2, <1>4 DEF InRange
  <2>2. offset[src] + Len(pre) = offset[src]
    BY <1>3, <2>1
  <2> DEFINE rest == Rest(src, offset[src])
  <2>3. rest \in Seq(Bit) /\ Len(rest) = d
    BY <1>2, <1>5, <2>1, RestIsBits
  <2>4. pre' = pre \o rest
    BY <1>1, <2>2 DEF Visible
  <2> HIDE DEF rest
  <2> QED BY <1>3, <2>3, <2>4
<1>7. \A k \in Blk : Left(k)' = IF k = src THEN Left(k) + d ELSE Left(k)
  <2>1. \A k \in Blk : End(k)' = End(k)
    BY DEF End, Area
  <2>2. \A k \in Blk : Left(k)' = (IF mark'[k] THEN End(k) - offset[k] ELSE 0)
    BY <1>1, <2>1 DEF Left
  <2>3. \A k \in Blk : Left(k) = 0 /\ (mark'[k] <=> k = src)
    BY <1>1, <1>2 DEF Left
  <2> QED BY <1>5, <2>2, <2>3
<1>8. Lent' = Lent + d
  BY <1>2, <1>7, OneMoreLends
<1>9. Lent = 0
  BY <1>2, NoneLends
<1> QED BY <1>6, <1>8, <1>9 DEF Collected

LEMMA MoreIsCollected ==
  ASSUME AccountsInv, SpillMore
  PROVE  Collected'
<1> DEFINE j == Lender
<1>1. /\ pc = "spill" /\ Lenders # {} /\ pre' = Joined
      /\ mark' = [mark EXCEPT ![j] = TRUE] /\ UNCHANGED <<bits, offset>>
  BY DEF SpillMore
<1>2. /\ UsedInv /\ bits \in [Positions -> Bit] /\ mark \in [Blk -> BOOLEAN] /\ Numbers
      /\ Len(pre) = Lent
  BY <1>1, NumbersHold DEF AccountsInv, UsedInv, IInv, Simple, Trail, Collected
<1>3. /\ InRange(offset) /\ j \in Blk /\ ~mark[j] /\ pre \in Seq(Bit)
      /\ Joined = pre \o Rest(j, offset[j])
  BY <1>1, <1>2, JoinedIsBits DEF Joined
<1> HIDE DEF j
<1>4. PICK d \in Int : d = End(j) - offset[j]
  BY <1>2, <1>3, NumbersHold
<1>5. Len(pre') = Len(pre) + d
  <2> DEFINE rest == Rest(j, offset[j])
  <2>1. rest \in Seq(Bit) /\ Len(rest) = d
    BY <1>2, <1>3, <1>4, RestIsBits DEF InRange
  <2>2. pre' = pre \o rest /\ pre \in Seq(Bit)
    BY <1>1, <1>3
  <2> HIDE DEF rest
  <2>3. Len(pre \o rest) = Len(pre) + Len(rest)
    BY Zenon, <2>1, <2>2, ConcatProperties
  <2> QED BY Zenon, <2>1, <2>2, <2>3
<1>6. \A k \in Blk : Left(k)' = IF k = j THEN Left(k) + d ELSE Left(k)
  <2>1. \A k \in Blk : End(k)' = End(k)
    BY DEF End, Area
  <2>2. \A k \in Blk : Left(k)' = (IF mark'[k] THEN End(k) - offset[k] ELSE 0)
    BY <1>1, <2>1 DEF Left
  <2>3. \A k \in Blk : mark'[k] <=> (k = j \/ mark[k])
    BY <1>1, <1>2, <1>3
  <2>4. \A k \in Blk : Left(k) = IF mark[k] THEN End(k) - offset[k] ELSE 0
    BY DEF Left
  <2> QED BY <1>3, <1>4, <2>2, <2>3, <2>4
<1>7. Lent' = Lent + d
  BY <1>2, <1>3, <1>6, OneMoreLends
<1> QED BY <1>2, <1>5, <1>7 DEF Collected

LEMMA FoundIsAccounted ==
  ASSUME AccountsInv, SpillFound
  PROVE  Balanced'
<1> DEFINE j == Lender
<1>1. /\ pc = "spill" /\ Lenders # {} /\ UNCHANGED <<got, eob>>
      /\ offset' = [k \in Blk |-> IF k = j THEN offset[k] - Len(pre)
                                  ELSE IF mark[k] /\ k \in ToClear THEN End(k)
                                  ELSE offset[k]]
  BY DEF SpillFound
<1>2. /\ UsedInv /\ Numbers /\ Len(pre) = Lent /\ Balanced
      /\ \A k \in Blk : mark[k] => k \in ToClear
  BY <1>1, NumbersHold DEF AccountsInv, UsedInv, IInv, Control, Trail, ToClear, Collected
<1>3. j \in Blk /\ ~mark[j]
  BY <1>1, <1>2, JoinedIsBits
<1> HIDE DEF j
<1>4. ASSUME NEW k \in Blk
      PROVE  offset'[k] = IF k = j THEN offset[k] - Lent ELSE offset[k] + Left(k)
  <2>1. offset[k] \in Int /\ End(k) \in Int
    BY <1>2, NumbersHold
  <2>2. offset'[k] = IF k = j THEN offset[k] - Lent
                     ELSE IF mark[k] THEN End(k) ELSE offset[k]
    BY <1>1, <1>2
  <2>3. Left(k) = IF mark[k] THEN End(k) - offset[k] ELSE 0
    BY DEF Left
  <2> QED BY <2>1, <2>2, <2>3
<1>5. \A k \in Blk : BitsRead(k)' = BitsRead(k)
  BY Zenon, <1>1, ReadAlike
<1> QED BY <1>2, <1>3, <1>4, <1>5, LentIsUsed

LEMMA ControlMoves ==
  ASSUME Next
  PROVE  pc' # "idle" /\ (pc' = "spill" => ReadShort \/ SpillMore)
<1>1. ASSUME NEW err, NextMb(err) PROVE pc' \in {"block", "done"}
  BY <1>1 DEF NextMb, Finish
<1>2. ASSUME NextBlock PROVE pc' \in {"block", "done"}
  BY <1>1, <1>2 DEF NextBlock
<1>3. ASSUME Error PROVE pc' \in {"block", "done"}
  BY <1>1, <1>3 DEF Error, Finish
<1>4. ASSUME NextOwnBlock PROVE pc' \in {"own", "block", "done"}
  BY <1>4 DEF NextOwnBlock
<1>5. CASE Begin \/ OwnCoeff \/ OwnEob \/ OwnShort
  BY <1>4, <1>5 DEF Begin, OwnCoeff, OwnEob, OwnShort
<1>6. CASE SkipBlock \/ EnterBlock \/ ReadCoeff \/ ReadEob
  BY <1>2, <1>3, <1>6 DEF SkipBlock, EnterBlock, ReadCoeff, ReadEob
<1>7. CASE ErrorAsCoeff \/ ReadShort \/ SpillFound \/ SpillMore
  BY <1>7 DEF ErrorAsCoeff, ReadShort, SpillFound, SpillMore
<1>8. CASE SpillError
  BY <1>3, <1>8 DEF SpillError
<1>9. CASE SpillNone
  BY <1>1, <1>9 DEF SpillNone, Finish
<1> QED BY <1>5, <1>6, <1>7, <1>8, <1>9 DEF Next

LEMMA AccountsInit == Init => AccountsInv
<1> SUFFICES ASSUME Init PROVE AccountsInv
  OBVIOUS
<1>1. UsedInv
  BY UsedInit
<1>2. pc = "idle" /\ \A k \in Blk : offset[k] = 0 /\ got[k] = <<>> /\ ~eob[k]
  BY DEF Init, Idle
<1>3. Balanced
  BY Zenon, <1>2, BlocksAreFinite, NothingRead
<1> QED BY <1>1, <1>2, <1>3 DEF AccountsInv, Collected, Unused

LEMMA AccountsStep == AccountsInv /\ [Next]_vars => AccountsInv'
<1> SUFFICES ASSUME AccountsInv, [Next]_vars PROVE AccountsInv'
  OBVIOUS
<1>a. UsedInv /\ Balanced /\ UsedInv'
  BY UsedStep DEF AccountsInv
<1>b. CASE UNCHANGED vars
  <2>1. UNCHANGED <<offset, got, eob>> /\ UNCHANGED <<pc, pre, mark, bits>>
    BY <1>b DEF vars
  <2>2. Balanced'
    BY <1>a, <2>1, KeptIsAccounted
  <2>3. Lent' = Lent
    BY <2>1, SameIsLent
  <2> QED BY <1>a, <2>1, <2>2, <2>3 DEF AccountsInv, Collected, Unused
<1> SUFFICES ASSUME Next PROVE Balanced' /\ Collected'
  BY <1>a, <1>b, ControlMoves DEF AccountsInv, Unused
<1>d. Collected'
  <2>1. CASE ReadShort
    BY <2>1, ShortIsCollected
  <2>2. CASE SpillMore
    BY <2>2, MoreIsCollected
  <2>3. CASE pc' # "spill"
    BY <2>3 DEF Collected
  <2> QED BY <2>1, <2>2, <2>3, ControlMoves
<1>e. Balanced'
  <2>1. CASE Begin
    BY <2>1, BeginIsAccounted
  <2>2. CASE OwnCoeff \/ ReadCoeff
    <3> DEFINE w == Decode(Visible)
    <3>1. w \in Words /\ TakeCoeff(w)
      BY <2>2 DEF OwnCoeff, ReadCoeff
    <3> HIDE DEF w
    <3> QED BY Zenon, <1>a, <3>1, WordIsAccounted
  <2>3. CASE OwnEob \/ ReadEob
    <3>1. TakeEob /\ ~eob[<<m, b>>]
      BY <1>a, <2>3, BlockAtWork DEF OwnEob, ReadEob, UsedInv, IInv, Incomplete
    <3> QED BY Zenon, <1>a, <3>1, EobIsAccounted
  <2>4. CASE SpillFound
    BY <2>4, FoundIsAccounted
  <2>5. CASE OwnShort \/ SkipBlock \/ EnterBlock \/ ErrorAsCoeff
    <3>1. UNCHANGED <<offset, got, eob>>
      BY <2>5 DEF OwnShort, SkipBlock, EnterBlock, ErrorAsCoeff, KeepSegment
    <3> QED BY Zenon, <1>a, <3>1, KeptIsAccounted
  <2>6. CASE ReadShort \/ SpillMore \/ SpillError \/ SpillNone
    <3>1. UNCHANGED <<offset, got, eob>>
      BY <2>6 DEF ReadShort, SpillMore, SpillError, SpillNone
    <3> QED BY Zenon, <1>a, <3>1, KeptIsAccounted
  <2> QED BY <2>1, <2>2, <2>3, <2>4, <2>5, <2>6 DEF Next
<1> QED BY <1>d, <1>e

(***************************************************************************)
(* Borrowing moves bits between the blocks of a segment, it neither loses  *)
(* nor repeats any: at every moment the bits that count as used are those  *)
(* of the codewords read, whatever the areas hold, and however often the   *)
(* search for the end of a code fails (dv_find_spilled_vlc).               *)
(***************************************************************************)
THEOREM BitsAreConserved == Spec => []BitsConserved
<1>1. AccountsInv => BitsConserved
  BY BalancedIsConserved DEF AccountsInv
<1> QED BY <1>1, AccountsInit, AccountsStep, PTL DEF Spec
=============================================================================
