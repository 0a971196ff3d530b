--------------------------- MODULE BufListsProofs ---------------------------
(***************************************************************************)
(* What pushing, popping and allocating a block does to its ownership.     *)
(* Each lemma is one call of push_back, pop_front or malloc.               *)
(***************************************************************************)
EXTENDS BufLists, SequenceTheorems, TLAPS

(* push_back: the elements of the longer list. *)
LEMMA ListedAppend ==
  ASSUME NEW S, NEW q \in Seq(S), NEW x \in S
  PROVE  Listed(Append(q, x)) = Listed(q) \cup {x}
<1> DEFINE r == Append(q, x)
<1>1. /\ r \in Seq(S) /\ Len(r) = Len(q) + 1
      /\ \A i \in 1..Len(q) : r[i] = q[i]
      /\ r[Len(q) + 1] = x
  BY AppendProperties
<1>2. Len(q) \in Nat
  BY LenProperties
<1>3. Listed(r) \subseteq Listed(q) \cup {x}
  <2> SUFFICES ASSUME NEW i \in 1..Len(r) PROVE r[i] \in Listed(q) \cup {x}
    BY DEF Listed
  <2>1. CASE i \in 1..Len(q)
    BY <1>1, <2>1 DEF Listed
  <2>2. CASE i = Len(q) + 1
    BY <1>1, <2>2
  <2> HIDE DEF r
  <2> QED
    BY <1>1, <1>2, <2>1, <2>2
<1>4. Listed(q) \cup {x} \subseteq Listed(r)
  <2>1. ASSUME NEW i \in 1..Len(q) PROVE q[i] \in Listed(r)
    <3>1. i \in 1..Len(r) /\ r[i] = q[i]
      BY <1>1, <1>2
    <3> HIDE DEF r
    <3> QED
      BY <3>1 DEF Listed
  <2>2. x \in Listed(r)
    <3>1. Len(q) + 1 \in 1..Len(r)
      BY <1>1, <1>2
    <3> HIDE DEF r
    <3> QED
      BY <1>1, <3>1 DEF Listed
  <2> HIDE DEF r
  <2> QED
    BY <2>1, <2>2 DEF Listed
<1> QED
  BY <1>3, <1>4

(* push_back of a block that is not in the list repeats none. *)
LEMMA NoRepeatsAppend ==
  ASSUME NEW S, NEW q \in Seq(S), NEW x \in S, NoRepeats(q), x \notin Listed(q)
  PROVE  NoRepeats(Append(q, x))
<1> DEFINE r == Append(q, x)
<1>1. /\ Len(r) = Len(q) + 1
      /\ \A i \in 1..Len(q) : r[i] = q[i]
      /\ r[Len(q) + 1] = x
  BY AppendProperties
<1>2. Len(q) \in Nat
  BY LenProperties
<1>3. \A i \in 1..Len(q) : q[i] # x
  BY DEF Listed
<1> HIDE DEF r
<1>4. \A i \in 1..Len(r) : i \in 1..Len(q) \/ i = Len(q) + 1
  BY <1>1, <1>2
<1>5. NoRepeats(r)
  BY <1>1, <1>3, <1>4 DEF NoRepeats
<1> QED
  BY <1>5 DEF r

(* pop_front: where the elements of a non-empty list are. *)
LEMMA ListedTail ==
  ASSUME NEW S, NEW q \in Seq(S), q # <<>>, NoRepeats(q)
  PROVE  /\ Listed(q) = {Head(q)} \cup Listed(Tail(q))
         /\ Head(q) \notin Listed(Tail(q))
         /\ NoRepeats(Tail(q))
<1> DEFINE t == Tail(q)
<1>1. /\ Len(q) \in Nat /\ Len(q) > 0
      /\ Len(t) = Len(q) - 1
      /\ \A i \in 1..Len(t) : t[i] = q[i + 1]
      /\ Head(q) = q[1]
  BY HeadTailProperties, EmptySeq, LenProperties
<1> HIDE DEF t
<1>2. \A i \in 1..Len(t) : i + 1 \in 1..Len(q)
  BY <1>1
<1>3. \A i \in 1..Len(q) : i = 1 \/ (i - 1 \in 1..Len(t) /\ (i - 1) + 1 = i)
  BY <1>1
<1>4. 1 \in 1..Len(q)
  BY <1>1
<1>5. Listed(q) \subseteq {Head(q)} \cup Listed(t)
  <2> SUFFICES ASSUME NEW i \in 1..Len(q) PROVE q[i] \in {Head(q)} \cup Listed(t)
    BY DEF Listed
  <2>1. CASE i = 1
    BY <1>1, <2>1
  <2>2. CASE i - 1 \in 1..Len(t) /\ (i - 1) + 1 = i
    <3>1. t[i - 1] = q[i]
      BY <1>1, <2>2
    <3> QED
      BY <2>2, <3>1 DEF Listed
  <2> QED
    BY <1>3, <2>1, <2>2
<1>6. {Head(q)} \cup Listed(t) \subseteq Listed(q)
  BY <1>1, <1>2, <1>4 DEF Listed
<1>7. Head(q) \notin Listed(t)
  <2> SUFFICES ASSUME NEW i \in 1..Len(t), t[i] = Head(q) PROVE FALSE
    BY DEF Listed
  <2>1. q[i + 1] = q[1] /\ i + 1 \in 1..Len(q)
    BY <1>1, <1>2
  <2>2. i + 1 = 1
    BY <1>4, <2>1 DEF NoRepeats
  <2> QED
    BY <1>1, <2>2
<1>8. NoRepeats(t)
  <2> SUFFICES ASSUME NEW i \in 1..Len(t), NEW j \in 1..Len(t), t[i] = t[j]
               PROVE  i = j
    BY DEF NoRepeats
  <2>1. q[i + 1] = q[j + 1] /\ i + 1 \in 1..Len(q) /\ j + 1 \in 1..Len(q)
    BY <1>1, <1>2
  <2>2. i + 1 = j + 1
    BY <2>1 DEF NoRepeats
  <2> QED
    BY <1>1, <2>2
<1> QED
  BY <1>5, <1>6, <1>7, <1>8 DEF t

-----------------------------------------------------------------------------
(* Lists put together, and a list cut in two.                              *)
LEMMA ConcatLists ==
  ASSUME NEW S, NEW q \in Seq(S), NEW l \in Seq(S)
  PROVE  /\ Listed(q \o l) = Listed(q) \cup Listed(l)
         /\ NoRepeats(q) /\ NoRepeats(l) /\ Listed(q) \cap Listed(l) = {} => NoRepeats(q \o l)
<1> DEFINE r == q \o l
<1>1. /\ Len(q) \in Nat /\ Len(l) \in Nat /\ Len(r) = Len(q) + Len(l)
      /\ \A i \in 1..Len(q) + Len(l) : r[i] = IF i <= Len(q) THEN q[i] ELSE l[i - Len(q)]
  BY ConcatProperties, LenProperties
<1> HIDE DEF r
<1>2. \A i \in 1..Len(q) : i \in 1..Len(r) /\ r[i] = q[i]
  BY <1>1
<1>3. \A i \in 1..Len(l) : /\ Len(q) + i \in 1..Len(r)
                           /\ r[Len(q) + i] = l[i]
  <2> SUFFICES ASSUME NEW i \in 1..Len(l)
               PROVE  Len(q) + i \in 1..Len(r) /\ r[Len(q) + i] = l[i]
    OBVIOUS
  <2>1. /\ Len(q) + i \in 1..Len(q) + Len(l) /\ ~(Len(q) + i <= Len(q))
        /\ (Len(q) + i) - Len(q) = i
    BY <1>1
  <2> QED
    BY <1>1, <2>1
<1>4. \A i \in 1..Len(r) : \/ i \in 1..Len(q) /\ r[i] = q[i]
                           \/ /\ i - Len(q) \in 1..Len(l) /\ r[i] = l[i - Len(q)]
                              /\ i = Len(q) + (i - Len(q))
  BY <1>1
<1>5. Listed(r) = Listed(q) \cup Listed(l)
  <2>1. Listed(r) \subseteq Listed(q) \cup Listed(l)
    BY <1>4 DEF Listed
  <2>2. Listed(q) \subseteq Listed(r)
    BY <1>2 DEF Listed
  <2>3. Listed(l) \subseteq Listed(r)
    BY <1>3 DEF Listed
  <2> QED
    BY <2>1, <2>2, <2>3
<1>6. ASSUME NoRepeats(q), NoRepeats(l), Listed(q) \cap Listed(l) = {}
      PROVE  NoRepeats(r)
  <2> SUFFICES ASSUME NEW i \in 1..Len(r), NEW j \in 1..Len(r), r[i] = r[j] PROVE i = j
    BY DEF NoRepeats
  <2>1. CASE i \in 1..Len(q) /\ j \in 1..Len(q)
    BY <1>2, <1>6, <2>1 DEF NoRepeats
  <2>2. CASE i \notin 1..Len(q) /\ j \notin 1..Len(q)
    <3>1. i - Len(q) = j - Len(q)
      BY <1>4, <1>6, <2>2 DEF NoRepeats
    <3> QED
      BY <1>4, <2>2, <3>1
  <2>3. CASE i \in 1..Len(q) /\ j \notin 1..Len(q)
    <3>1. r[i] \in Listed(q) /\ r[j] \in Listed(l)
      BY <1>2, <1>4, <2>3 DEF Listed
    <3> QED
      BY <1>6, <3>1
  <2>4. CASE i \notin 1..Len(q) /\ j \in 1..Len(q)
    <3>1. r[j] \in Listed(q) /\ r[i] \in Listed(l)
      BY <1>2, <1>4, <2>4 DEF Listed
    <3> QED
      BY <1>6, <3>1
  <2> QED
    BY <2>1, <2>2, <2>3, <2>4
<1> QED
  BY <1>5, <1>6 DEF r

LEMMA SplitList ==
  ASSUME NEW S, NEW q \in Seq(S), NoRepeats(q), NEW k \in 0..Len(q)
  PROVE  LET a == SubSeq(q, 1, k)
             b == SubSeq(q, k + 1, Len(q))
         IN /\ a \in Seq(S) /\ b \in Seq(S) /\ NoRepeats(a) /\ NoRepeats(b)
            /\ Listed(a) \subseteq Listed(q) /\ Listed(b) \subseteq Listed(q)
            /\ Listed(a) \cap Listed(b) = {}
<1> DEFINE a == SubSeq(q, 1, k)
           b == SubSeq(q, k + 1, Len(q))
<1>1. Len(q) \in Nat /\ k \in Nat /\ k <= Len(q) /\ \A i \in 1..Len(q) : q[i] \in S
  BY LenProperties, ElementOfSeq
<1>2. a \in Seq(S) /\ Len(a) = k /\ \A i \in 1..Len(a) : a[i] = q[i]
  <2>1. \A i \in 1..k : q[i] \in S
    BY <1>1
  <2> QED
    BY <1>1, <2>1, SubSeqProperties
<1>3. b \in Seq(S) /\ Len(b) = Len(q) - k /\ \A i \in 1..Len(b) : b[i] = q[k + i]
  <2>1. \A i \in (k + 1)..Len(q) : q[i] \in S
    BY <1>1
  <2>2. /\ b \in Seq(S) /\ Len(b) = IF k + 1 <= Len(q) THEN Len(q) - (k + 1) + 1 ELSE 0
        /\ \A i \in 1..(Len(q) - (k + 1) + 1) : b[i] = q[(k + 1) + i - 1]
    BY <1>1, <2>1, SubSeqProperties
  <2> HIDE DEF b
  <2>3. Len(b) = Len(q) - k
    BY <1>1, <2>2
  <2>4. \A i \in 1..Len(b) : i \in 1..(Len(q) - (k + 1) + 1) /\ (k + 1) + i - 1 = k + i
    BY <1>1, <2>3
  <2> QED
    BY <2>2, <2>3, <2>4
<1> HIDE DEF a, b
<1>4. \A i \in 1..Len(a) : i \in 1..Len(q) /\ i <= k
  BY <1>1, <1>2
<1>5. \A i \in 1..Len(b) : k + i \in 1..Len(q) /\ k + i > k
  BY <1>1, <1>3
<1>6. Listed(a) \subseteq Listed(q) /\ Listed(b) \subseteq Listed(q)
  <2>1. \A i \in 1..Len(a) : i \in 1..Len(q) /\ a[i] = q[i]
    BY <1>2, <1>4
  <2>2. \A i \in 1..Len(b) : k + i \in 1..Len(q) /\ b[i] = q[k + i]
    BY <1>3, <1>5
  <2> QED
    BY <2>1, <2>2 DEF Listed
<1>7. Listed(a) \cap Listed(b) = {}
  <2> SUFFICES ASSUME NEW i \in 1..Len(a), NEW j \in 1..Len(b), a[i] = b[j] PROVE FALSE
    BY DEF Listed
  <2>1. /\ i \in 1..Len(q) /\ k + j \in 1..Len(q) /\ q[i] = q[k + j]
    BY <1>2, <1>3, <1>4, <1>5
  <2>2. i = k + j
    BY <2>1 DEF NoRepeats
  <2> QED
    BY <1>1, <1>4, <1>5, <2>2
<1>8. NoRepeats(a)
  BY <1>2, <1>4 DEF NoRepeats
<1>9. NoRepeats(b)
  <2> SUFFICES ASSUME NEW i \in 1..Len(b), NEW j \in 1..Len(b), b[i] = b[j] PROVE i = j
    BY DEF NoRepeats
  <2>1. k + i = k + j
    BY <1>3, <1>5 DEF NoRepeats
  <2> QED
    BY <1>1, <2>1
<1> QED
  BY <1>2, <1>3, <1>6, <1>7, <1>8, <1>9 DEF a, b

-----------------------------------------------------------------------------
(* The two lists, and the two hands, play the same part. *)
LEMMA OwnerSymmetry ==
  ASSUME NEW q, NEW l, NEW x, NEW y, NEW n
  PROVE  /\ ExactlyOneOwner(q, l, x, y, n) <=> ExactlyOneOwner(l, q, x, y, n)
         /\ ExactlyOneOwner(q, l, x, y, n) <=> ExactlyOneOwner(q, l, y, x, n)
BY DEF ExactlyOneOwner

(* push_back(q, x): the block in hand moves to a list. *)
LEMMA OwnerPush ==
  ASSUME NEW q \in Seq(Nat \ {0}), NEW l, NEW x \in Nat \ {0}, NEW y, NEW n,
         ExactlyOneOwner(q, l, x, y, n)
  PROVE  ExactlyOneOwner(Append(q, x), l, NULL, y, n)
<1>1. Listed(Append(q, x)) = Listed(q) \cup {x}
  BY ListedAppend
<1>2. Held(x) = {x} /\ Held(NULL) = {}
  BY DEF Held, NULL
<1>3. NoRepeats(Append(q, x))
  BY <1>2, NoRepeatsAppend DEF ExactlyOneOwner
<1> QED
  BY <1>1, <1>2, <1>3 DEF ExactlyOneOwner

(* pop_front(q): the first block of a list moves to an empty hand. *)
LEMMA OwnerPop ==
  ASSUME NEW q \in Seq(Nat \ {0}), NEW l, NEW y, NEW n, q # <<>>,
         ExactlyOneOwner(q, l, NULL, y, n)
  PROVE  ExactlyOneOwner(Tail(q), l, Head(q), y, n)
<1>1. /\ Listed(q) = {Head(q)} \cup Listed(Tail(q))
      /\ Head(q) \notin Listed(Tail(q))
      /\ NoRepeats(Tail(q))
  BY ListedTail DEF ExactlyOneOwner
<1>2. Head(q) \in Nat \ {0}
  BY HeadTailProperties
<1>3. Held(Head(q)) = {Head(q)} /\ Held(NULL) = {}
  BY <1>2 DEF Held, NULL
<1> QED
  BY <1>1, <1>3 DEF ExactlyOneOwner

(* malloc: a new block comes into an empty hand. *)
LEMMA OwnerMalloc ==
  ASSUME NEW q, NEW l, NEW y, NEW n \in Nat, ExactlyOneOwner(q, l, NULL, y, n)
  PROVE  ExactlyOneOwner(q, l, n + 1, y, n + 1)
<1>1. Held(n + 1) = {n + 1} /\ Held(NULL) = {}
  BY DEF Held, NULL
<1>2. 1..(n + 1) = (1..n) \cup {n + 1} /\ n + 1 \notin 1..n
  OBVIOUS
<1> QED
  BY <1>1, <1>2 DEF ExactlyOneOwner

-----------------------------------------------------------------------------
(* The same three calls, by number. *)
LEMMA AccountSymmetry ==
  ASSUME NEW q, NEW l, NEW x, NEW y, NEW n,
         Len(q) \in Nat, Len(l) \in Nat
  PROVE  /\ AllAccounted(q, l, x, y, n) <=> AllAccounted(l, q, x, y, n)
         /\ AllAccounted(q, l, x, y, n) <=> AllAccounted(q, l, y, x, n)
<1>1. InHand(x) \in Nat /\ InHand(y) \in Nat
  BY DEF InHand
<1> QED
  BY <1>1 DEF AllAccounted

LEMMA AccountPush ==
  ASSUME NEW S, NEW q \in Seq(S), NEW l, NEW x \in S, NEW y, NEW n,
         Len(l) \in Nat, x # NULL, AllAccounted(q, l, x, y, n)
  PROVE  AllAccounted(Append(q, x), l, NULL, y, n)
<1>1. Len(q) \in Nat /\ Len(Append(q, x)) = Len(q) + 1
  BY AppendProperties, LenProperties
<1>2. InHand(x) = 1 /\ InHand(NULL) = 0 /\ InHand(y) \in Nat
  BY DEF InHand
<1> QED
  BY <1>1, <1>2 DEF AllAccounted

LEMMA AccountPop ==
  ASSUME NEW S, NEW q \in Seq(S), NEW l, NEW y, NEW n,
         Len(l) \in Nat, q # <<>>, Head(q) # NULL, AllAccounted(q, l, NULL, y, n)
  PROVE  AllAccounted(Tail(q), l, Head(q), y, n)
<1>1. Len(q) \in Nat /\ Len(Tail(q)) = Len(q) - 1
  BY HeadTailProperties, LenProperties
<1>2. InHand(Head(q)) = 1 /\ InHand(NULL) = 0 /\ InHand(y) \in Nat
  BY DEF InHand
<1> QED
  BY <1>1, <1>2 DEF AllAccounted

-----------------------------------------------------------------------------
(* Both together. *)
Owned(q, l, x, y, n) == ExactlyOneOwner(q, l, x, y, n) /\ AllAccounted(q, l, x, y, n)

LEMMA OwnedSymmetry ==
  ASSUME NEW S, NEW q \in Seq(S), NEW l \in Seq(S), NEW x, NEW y, NEW n
  PROVE  /\ Owned(q, l, x, y, n) <=> Owned(l, q, x, y, n)
         /\ Owned(q, l, x, y, n) <=> Owned(q, l, y, x, n)
<1>1. Len(q) \in Nat /\ Len(l) \in Nat
  BY LenProperties
<1> QED
  BY <1>1, OwnerSymmetry, AccountSymmetry DEF Owned

(* push_back *)
LEMMA OwnedPush ==
  ASSUME NEW q \in Seq(Nat \ {0}), NEW l \in Seq(Nat \ {0}), NEW x \in Nat \ {0}, NEW y,
         NEW n, Owned(q, l, x, y, n)
  PROVE  Owned(Append(q, x), l, NULL, y, n)
<1>1. Len(l) \in Nat /\ x # NULL
  BY LenProperties DEF NULL
<1> QED
  BY <1>1, OwnerPush, AccountPush DEF Owned

(* pop_front *)
LEMMA OwnedPop ==
  ASSUME NEW q \in Seq(Nat \ {0}), NEW l \in Seq(Nat \ {0}), NEW y, NEW n, q # <<>>,
         Owned(q, l, NULL, y, n)
  PROVE  Owned(Tail(q), l, Head(q), y, n)
<1>1. Len(l) \in Nat /\ Head(q) # NULL
  BY LenProperties, HeadTailProperties DEF NULL
<1> QED
  BY <1>1, OwnerPop, AccountPop DEF Owned

(* malloc *)
LEMMA OwnedMalloc ==
  ASSUME NEW q \in Seq(Nat \ {0}), NEW l \in Seq(Nat \ {0}), NEW y, NEW n \in Nat,
         Owned(q, l, NULL, y, n)
  PROVE  Owned(q, l, n + 1, y, n + 1)
<1>1. Len(q) \in Nat /\ Len(l) \in Nat /\ InHand(y) \in Nat
  BY LenProperties DEF InHand
<1>2. InHand(n + 1) = 1 /\ InHand(NULL) = 0
  BY DEF InHand, NULL
<1>3. AllAccounted(q, l, n + 1, y, n + 1)
  BY <1>1, <1>2 DEF Owned, AllAccounted
<1> QED
  BY <1>3, OwnerMalloc DEF Owned
=============================================================================
