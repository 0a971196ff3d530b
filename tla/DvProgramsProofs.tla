--------------------------- MODULE DvProgramsProofs ---------------------------
(* Theorems about the programs that use the library: DvAvi, for files of any *)
(* length and queues of any size, DvDub, for any recording and options, and  *)
(* DvPlayer, for any stream, window and command line.                        *)
EXTENDS DvAvi, DvDub, DvPlayer, BufListsProofs, SumsProofs

(***************************************************************************)
(* dvavi: the nodes of the writer's queues.                                *)
(***************************************************************************)
(* The nodes are numbered as they are allocated; a list holds no number that *)
(* was not, none twice, and none that another list holds.                    *)
Ids == 1 .. Len(bufNode)
NodesKnown ==
  /\ \E S : bufNode \in Seq(S)
  /\ free_list \in Seq(Ids) /\ video_bufs \in Seq(Ids) /\ audio_bufs \in Seq(Ids)
ListsApart ==
  /\ NoRepeats(free_list) /\ NoRepeats(video_bufs) /\ NoRepeats(audio_bufs)
  /\ Listed(free_list) \cap Listed(video_bufs) = {}
  /\ Listed(free_list) \cap Listed(audio_bufs) = {}
  /\ Listed(video_bufs) \cap Listed(audio_bufs) = {}
AviInv == NodesKnown /\ ListsApart

LEMMA IdsGrow ==
  ASSUME NEW m \in Nat, NEW n \in Nat, m <= n, NEW q \in Seq(1 .. m)
  PROVE  q \in Seq(1 .. n)
<1>1. 1 .. m \subseteq 1 .. n
  OBVIOUS
<1> QED BY <1>1, SeqMonotonic

LEMMA ListedIds ==
  ASSUME NEW S, NEW q \in Seq(S)
  PROVE  Listed(q) \subseteq S
BY ElementOfSeq DEF Listed

LEMMA PushApart ==
  ASSUME NEW S, NEW q \in Seq(S), NEW x \in S, NoRepeats(q), x \notin Listed(q)
  PROVE  /\ Append(q, x) \in Seq(S) /\ NoRepeats(Append(q, x))
         /\ Listed(Append(q, x)) = Listed(q) \cup {x}
BY AppendProperties, ListedAppend, NoRepeatsAppend

(* A node changes, or one is added: the numbers stay those of 1 .. n.        *)
LEMMA NodesAfter ==
  ASSUME NEW S, NEW s \in Seq(S), NEW v
  PROVE  /\ \E T : Append(s, v) \in Seq(T)
         /\ Len(Append(s, v)) = Len(s) + 1
         /\ \A i \in 1 .. Len(s) : /\ \E T : [s EXCEPT ![i] = v] \in Seq(T)
                                   /\ Len([s EXCEPT ![i] = v]) = Len(s)
<1> DEFINE T == S \cup {v}
<1>1. s \in Seq(T) /\ v \in T
  BY SeqMonotonic
<1> HIDE DEF T
<1>2. Append(s, v) \in Seq(T) /\ Len(Append(s, v)) = Len(s) + 1
  BY <1>1, AppendProperties
<1>3. \A i \in 1 .. Len(s) : /\ [s EXCEPT ![i] = v] \in Seq(T)
                             /\ Len([s EXCEPT ![i] = v]) = Len(s)
  BY <1>1, ExceptSeq
<1> QED BY <1>2, <1>3

(* get_free_block hands out a node that is in no list any more.              *)
LEMMA FreeBlockApart ==
  ASSUME AviInv, NEW content, GetFreeBlock(content)
  PROVE  /\ \E S : bufNode' \in Seq(S)
         /\ Len(bufNode) \in Nat /\ Len(bufNode') \in Nat /\ Len(bufNode) <= Len(bufNode')
         /\ Block \in Ids'
         /\ free_list' \in Seq(Ids') /\ NoRepeats(free_list')
         /\ Listed(free_list') \subseteq Listed(free_list)
         /\ Block \notin Listed(free_list') \cup Listed(video_bufs) \cup Listed(audio_bufs)
<1>1. PICK S : bufNode \in Seq(S)
  BY DEF AviInv, NodesKnown
<1>2. /\ Len(bufNode) \in Nat /\ free_list \in Seq(Ids) /\ NoRepeats(free_list)
      /\ Listed(video_bufs) \subseteq Ids /\ Listed(audio_bufs) \subseteq Ids
  BY <1>1, LenProperties, ListedIds DEF AviInv, NodesKnown, ListsApart
<1>3. CASE free_list = <<>>
  <2>1. /\ bufNode' = Append(bufNode, content) /\ free_list' = <<>>
        /\ Block = Len(bufNode) + 1
    BY <1>3 DEF GetFreeBlock, Block
  <2>2. (\E T : bufNode' \in Seq(T)) /\ Len(bufNode') = Len(bufNode) + 1
    BY <1>1, <2>1, NodesAfter
  <2>3. Block \in Ids' /\ Block \notin Ids
    BY <1>2, <2>1, <2>2 DEF Ids
  <2>4. Listed(<<>>) = {} /\ NoRepeats(<<>>)
    <3>1. Len(<<>>) = 0 /\ 1 .. 0 = {}
      BY EmptySeq
    <3> QED BY <3>1 DEF Listed, NoRepeats
  <2>5. free_list' \in Seq(Ids')
    BY <2>1, EmptySeq
  <2> QED BY <1>2, <2>1, <2>2, <2>3, <2>4, <2>5
<1>4. CASE free_list # <<>>
  <2>1. /\ bufNode' = [bufNode EXCEPT ![Head(free_list)] = content]
        /\ free_list' = Tail(free_list) /\ Block = Head(free_list)
    BY <1>4 DEF GetFreeBlock, Block
  <2>2. Head(free_list) \in Ids /\ Tail(free_list) \in Seq(Ids)
    BY <1>2, <1>4, HeadTailProperties
  <2>3. (\E T : bufNode' \in Seq(T)) /\ Len(bufNode') = Len(bufNode)
    BY <1>1, <2>1, <2>2, NodesAfter DEF Ids
  <2>4. /\ Listed(free_list) = {Head(free_list)} \cup Listed(Tail(free_list))
        /\ Head(free_list) \notin Listed(Tail(free_list)) /\ NoRepeats(Tail(free_list))
    BY <1>2, <1>4, ListedTail
  <2>5. Ids' = Ids
    BY <2>3 DEF Ids
  <2>6. Block \notin Listed(video_bufs) \cup Listed(audio_bufs)
    BY <2>1, <2>4 DEF AviInv, ListsApart
  <2> QED BY <1>2, <2>1, <2>2, <2>3, <2>4, <2>5, <2>6
<1> QED BY <1>3, <1>4

(* The lists that take no part keep their numbers.                           *)
LEMMA OtherLists ==
  ASSUME AviInv, Len(bufNode) \in Nat, Len(bufNode') \in Nat, Len(bufNode) <= Len(bufNode')
  PROVE  video_bufs \in Seq(Ids') /\ audio_bufs \in Seq(Ids') /\ free_list \in Seq(Ids')
BY IdsGrow DEF AviInv, NodesKnown, Ids

LEMMA AudioApart ==
  ASSUME AviInv, NEW len, NEW got, ReadAudio(len, got)
  PROVE  AviInv'
<1>1. CASE UNCHANGED queues
  BY <1>1 DEF queues, AviInv, NodesKnown, ListsApart, Ids
<1>2. CASE /\ audio_bufs # <<>> /\ UNCHANGED <<free_list, video_bufs, audio_bufs>>
           /\ bufNode' = [bufNode EXCEPT ![Last(audio_bufs)].usage = @ + len,
                                        ![Last(audio_bufs)].read = @ + got]
  <2>1. PICK S : bufNode \in Seq(S)
    BY DEF AviInv, NodesKnown
  <2>2. Last(audio_bufs) \in 1 .. Len(bufNode)
    <3>1. audio_bufs \in Seq(Ids) /\ Len(audio_bufs) \in Nat \ {0}
      BY <1>2, EmptySeq DEF AviInv, NodesKnown
    <3>2. Len(audio_bufs) \in 1 .. Len(audio_bufs)
      BY <3>1
    <3> QED BY <3>1, <3>2, ElementOfSeq DEF Last, Ids
  <2>3. PICK v : bufNode' = [bufNode EXCEPT ![Last(audio_bufs)] = v]
    BY <1>2
  <2>4. (\E T : bufNode' \in Seq(T)) /\ Len(bufNode') = Len(bufNode)
    BY <2>1, <2>2, <2>3, NodesAfter
  <2> QED BY <1>2, <2>4 DEF AviInv, NodesKnown, ListsApart, Ids
<1>3. CASE /\ audio_bufs' = Append(audio_bufs, Block) /\ UNCHANGED video_bufs
           /\ \E content : GetFreeBlock(content)
  <2>1. PICK content : GetFreeBlock(content)
    BY <1>3
  <2>2. /\ \E S : bufNode' \in Seq(S)
        /\ Len(bufNode) \in Nat /\ Len(bufNode') \in Nat /\ Len(bufNode) <= Len(bufNode')
        /\ Block \in Ids' /\ free_list' \in Seq(Ids') /\ NoRepeats(free_list')
        /\ Listed(free_list') \subseteq Listed(free_list)
        /\ Block \notin Listed(free_list') \cup Listed(video_bufs) \cup Listed(audio_bufs)
    BY <2>1, FreeBlockApart
  <2>3. audio_bufs \in Seq(Ids') /\ video_bufs \in Seq(Ids')
    BY <2>2, OtherLists
  <2>4. /\ audio_bufs' \in Seq(Ids') /\ NoRepeats(audio_bufs')
        /\ Listed(audio_bufs') = Listed(audio_bufs) \cup {Block}
    BY <1>3, <2>2, <2>3, PushApart DEF AviInv, ListsApart
  <2>5. NodesKnown'
    BY <1>3, <2>2, <2>3, <2>4 DEF NodesKnown
  <2>6. ListsApart'
    BY <1>3, <2>2, <2>4 DEF AviInv, ListsApart
  <2> QED BY <2>5, <2>6 DEF AviInv
<1> QED BY <1>1, <1>2, <1>3 DEF ReadAudio, AtLimit, queues

(* A picture that is too large has a node, and no list has it.               *)
LEMMA TooLargeApart ==
  ASSUME AviInv, ReadTooLarge
  PROVE  AviInv'
<1>1. /\ \E content : GetFreeBlock(content)
      /\ UNCHANGED <<video_bufs, audio_bufs>>
  BY DEF ReadTooLarge
<1>2. /\ \E S : bufNode' \in Seq(S)
      /\ Len(bufNode) \in Nat /\ Len(bufNode') \in Nat /\ Len(bufNode) <= Len(bufNode')
      /\ free_list' \in Seq(Ids') /\ NoRepeats(free_list')
      /\ Listed(free_list') \subseteq Listed(free_list)
  BY <1>1, FreeBlockApart
<1>3. audio_bufs \in Seq(Ids') /\ video_bufs \in Seq(Ids')
  BY <1>2, OtherLists
<1> QED BY <1>1, <1>2, <1>3 DEF AviInv, NodesKnown, ListsApart

LEMMA VideoApart ==
  ASSUME AviInv, NEW len, NEW got, ReadVideo(len, got)
  PROVE  AviInv'
<1>1. CASE UNCHANGED queues
  BY <1>1 DEF queues, AviInv, NodesKnown, ListsApart, Ids
<1>2. CASE ~UNCHANGED queues
  <2>1. PICK content :
          /\ GetFreeBlock(content) /\ audio_bufs' = audio_bufs
          /\ video_bufs' = video_bufs \/ video_bufs' = Append(video_bufs, Block)
    BY <1>2 DEF ReadVideo, ReadTooLarge, AtLimit, queues
  <2>2. /\ \E S : bufNode' \in Seq(S)
        /\ Len(bufNode) \in Nat /\ Len(bufNode') \in Nat /\ Len(bufNode) <= Len(bufNode')
        /\ Block \in Ids' /\ free_list' \in Seq(Ids') /\ NoRepeats(free_list')
        /\ Listed(free_list') \subseteq Listed(free_list)
        /\ Block \notin Listed(free_list') \cup Listed(video_bufs) \cup Listed(audio_bufs)
    BY <2>1, FreeBlockApart
  <2>3. audio_bufs \in Seq(Ids') /\ video_bufs \in Seq(Ids')
    BY <2>2, OtherLists
  <2>4. /\ video_bufs' \in Seq(Ids') /\ NoRepeats(video_bufs')
        /\ Listed(video_bufs') \subseteq Listed(video_bufs) \cup {Block}
    <3>1. NoRepeats(video_bufs) /\ Block \notin Listed(video_bufs)
      BY <2>2 DEF AviInv, ListsApart
    <3>2. CASE video_bufs' = video_bufs
      BY <2>3, <3>1, <3>2
    <3>3. CASE video_bufs' = Append(video_bufs, Block)
      <4>1. /\ Append(video_bufs, Block) \in Seq(Ids') /\ NoRepeats(Append(video_bufs, Block))
            /\ Listed(Append(video_bufs, Block)) = Listed(video_bufs) \cup {Block}
        BY <2>2, <2>3, <3>1, PushApart
      <4> QED BY <3>3, <4>1, Zenon
    <3> QED BY <2>1, <3>2, <3>3
  <2>5. NodesKnown'
    BY <2>1, <2>2, <2>3, <2>4 DEF NodesKnown
  <2>6. ListsApart'
    BY <2>1, <2>2, <2>4 DEF AviInv, ListsApart
  <2> QED BY <2>5, <2>6 DEF AviInv
<1> QED BY <1>1, <1>2

LEMMA BothApart ==
  ASSUME AviInv, NEW len, NEW got, ReadBoth(len, got)
  PROVE  AviInv'
<1>1. CASE UNCHANGED queues
  BY <1>1 DEF queues, AviInv, NodesKnown, ListsApart, Ids
<1>2. CASE /\ bufNode' = IF free_list = <<>> THEN Append(bufNode, Picture(len, got))
                         ELSE [bufNode EXCEPT ![Head(free_list)] = Picture(len, got)]
           /\ free_list' = IF free_list = <<>> THEN <<Block>> ELSE Append(Tail(free_list), Block)
           /\ UNCHANGED <<video_bufs, audio_bufs>>
  <2>1. PICK S : bufNode \in Seq(S)
    BY DEF AviInv, NodesKnown
  <2>2. /\ Len(bufNode) \in Nat /\ free_list \in Seq(Ids) /\ NoRepeats(free_list)
        /\ Listed(video_bufs) \subseteq Ids /\ Listed(audio_bufs) \subseteq Ids
    BY <2>1, LenProperties, ListedIds DEF AviInv, NodesKnown, ListsApart
  <2>3. CASE free_list = <<>>
    <3>1. /\ bufNode' = Append(bufNode, Picture(len, got)) /\ free_list' = <<Block>>
          /\ Block = Len(bufNode) + 1
      BY <1>2, <2>3 DEF Block
    <3>2. (\E T : bufNode' \in Seq(T)) /\ Len(bufNode') = Len(bufNode) + 1
      BY <2>1, <3>1, NodesAfter
    <3>3. Block \in Ids' /\ Block \notin Ids
      BY <2>2, <3>1, <3>2 DEF Ids
    <3>4. free_list' \in Seq(Ids') /\ Len(<<Block>>) = 1 /\ <<Block>>[1] = Block
      BY <3>1, <3>3
    <3>5. Listed(free_list') = {Block} /\ NoRepeats(free_list')
      <4>1. 1 .. 1 = {1}
        OBVIOUS
      <4> QED BY <3>1, <3>4, <4>1 DEF Listed, NoRepeats
    <3>6. video_bufs \in Seq(Ids') /\ audio_bufs \in Seq(Ids')
      BY <2>2, <3>2, OtherLists
    <3>7. NodesKnown'
      BY <1>2, <3>2, <3>4, <3>6 DEF NodesKnown
    <3>8. ListsApart'
      BY <1>2, <2>2, <3>3, <3>5 DEF AviInv, ListsApart
    <3> QED BY <3>7, <3>8 DEF AviInv
  <2>4. CASE free_list # <<>>
    <3>1. /\ bufNode' = [bufNode EXCEPT ![Head(free_list)] = Picture(len, got)]
          /\ free_list' = Append(Tail(free_list), Head(free_list))
      BY <1>2, <2>4 DEF Block
    <3>2. Head(free_list) \in Ids /\ Tail(free_list) \in Seq(Ids)
      BY <2>2, <2>4, HeadTailProperties
    <3>3. (\E T : bufNode' \in Seq(T)) /\ Ids' = Ids
      BY <2>1, <3>1, <3>2, NodesAfter DEF Ids
    <3>4. /\ Listed(free_list) = {Head(free_list)} \cup Listed(Tail(free_list))
          /\ Head(free_list) \notin Listed(Tail(free_list)) /\ NoRepeats(Tail(free_list))
      BY <2>2, <2>4, ListedTail
    <3>5. /\ free_list' \in Seq(Ids) /\ NoRepeats(free_list')
          /\ Listed(free_list') = Listed(free_list)
      <4> DEFINE q == Tail(free_list)
                 h == Head(free_list)
      <4>1. q \in Seq(Ids) /\ NoRepeats(q) /\ h \notin Listed(q) /\ h \in Ids
        BY <3>2, <3>4
      <4>2. free_list' = Append(q, h) /\ Listed(free_list) = {h} \cup Listed(q)
        BY <3>1, <3>4
      <4> HIDE DEF q, h
      <4>3. /\ Append(q, h) \in Seq(Ids) /\ NoRepeats(Append(q, h))
            /\ Listed(Append(q, h)) = Listed(q) \cup {h}
        BY <4>1, PushApart
      <4>4. Listed(Append(q, h)) = Listed(free_list)
        BY <4>2, <4>3, Zenon
      <4> QED BY <4>2, <4>3, <4>4, Zenon
    <3>6. NodesKnown'
      BY <1>2, <3>3, <3>5 DEF AviInv, NodesKnown
    <3>7. ListsApart'
      BY <1>2, <3>5 DEF AviInv, ListsApart
    <3> QED BY <3>6, <3>7 DEF AviInv
  <2> QED BY <2>3, <2>4
<1>3. CASE ReadTooLarge
  BY <1>3, TooLargeApart
<1> QED BY <1>1, <1>2, <1>3 DEF ReadBoth, AtLimit, queues

(* The sound of a frame ends in a node of the queue.                         *)
LEMMA LastNodeExists ==
  ASSUME AviInv, Enough
  PROVE  /\ Len(audio_bufs) \in Nat /\ LastNode \in 1 .. Len(audio_bufs)
         /\ UsedUp \in 0 .. Len(audio_bufs) /\ LeftIn(LastNode) >= Needed
<1> DEFINE P(k) == LeftIn(k) >= Needed
           T == {k \in 1 .. Len(audio_bufs) : P(k)}
<1>1. /\ audio_bufs \in Seq(Ids) /\ Len(audio_bufs) \in Nat \ {0}
      /\ DOMAIN audio_bufs = 1 .. Len(audio_bufs)
  BY EmptySeq, LenProperties DEF AviInv, NodesKnown, Enough
<1>2. P(Len(audio_bufs))
  BY DEF Enough
<1> HIDE DEF P
<1>3. T \subseteq Nat /\ T # {}
  BY <1>1, <1>2
<1>4. PICK i \in T : \A j \in T : ~(j < i)
  <2> HIDE DEF T
  <2> QED BY <1>3, Least
<1>5. \A j \in 1 .. i - 1 : ~P(j)
  BY <1>1, <1>4
<1>6. \E k \in DOMAIN audio_bufs : P(k) /\ \A j \in 1 .. k - 1 : ~P(j)
  BY <1>1, <1>4, <1>5
<1>7. LastNode \in 1 .. Len(audio_bufs) /\ P(LastNode)
  BY <1>1, <1>6 DEF LastNode, P
<1> QED BY <1>1, <1>7 DEF UsedUp, P

LEMMA QueueApart ==
  ASSUME AviInv, RunQueue
  PROVE  AviInv'
<1>1. CASE UNCHANGED queues
  BY <1>1 DEF queues, AviInv, NodesKnown, ListsApart, Ids
<1>2. CASE ~UNCHANGED queues
  <2> DEFINE a == SubSeq(audio_bufs, 1, UsedUp)
             b == SubSeq(audio_bufs, UsedUp + 1, Len(audio_bufs))
             h == Head(video_bufs)
  <2>1. /\ Enough /\ audio_bufs' = b /\ video_bufs' = Tail(video_bufs)
        /\ free_list' = free_list \o a \o <<h>> \/ free_list' = free_list \o a
        /\ bufNode' = bufNode
             \/ \E p : bufNode' = [bufNode EXCEPT ![audio_bufs[LastNode]].processed = p]
    <3>1. Enough /\ (StoreFrame \/ StoreFails)
      BY <1>2 DEF RunQueue, queues
    <3>2. bufNode' = bufNode
            \/ \E p : bufNode' = [bufNode EXCEPT ![audio_bufs[LastNode]].processed = p]
      <4>1. TakeSound
        BY <3>1 DEF StoreFrame, StoreFails
      <4>2. CASE UsedUp = LastNode
        BY <4>1, <4>2 DEF TakeSound
      <4>3. CASE UsedUp # LastNode
        <5> DEFINE i == audio_bufs[LastNode]
                   p == bufNode[i].processed + Needed - LeftIn(LastNode - 1)
        <5>1. bufNode' = [bufNode EXCEPT ![i].processed = p]
          BY <4>1, <4>3 DEF TakeSound
        <5> QED BY <5>1
      <4> QED BY <4>2, <4>3
    <3> QED BY <3>1, <3>2 DEF StoreFrame, StoreFails, TakeSound, Used
  <2>2. /\ LastNode \in 1 .. Len(audio_bufs) /\ UsedUp \in 0 .. Len(audio_bufs)
    BY <2>1, LastNodeExists
  <2>3. (\E T : bufNode' \in Seq(T)) /\ Ids' = Ids
    <3>1. PICK S : bufNode \in Seq(S)
      BY DEF AviInv, NodesKnown
    <3>2. audio_bufs[LastNode] \in 1 .. Len(bufNode)
      BY <2>2, ElementOfSeq DEF AviInv, NodesKnown, Ids
    <3>3. bufNode' = bufNode \/ \E v : bufNode' = [bufNode EXCEPT ![audio_bufs[LastNode]] = v]
      BY <2>1
    <3>4. CASE bufNode' = bufNode
      BY <3>1, <3>4 DEF Ids
    <3>5. CASE bufNode' # bufNode
      <4>1. PICK v : bufNode' = [bufNode EXCEPT ![audio_bufs[LastNode]] = v]
        BY <3>3, <3>5
      <4>2. (\E T : bufNode' \in Seq(T)) /\ Len(bufNode') = Len(bufNode)
        <5> DEFINE i == audio_bufs[LastNode]
        <5> HIDE DEF i
        <5> QED BY <3>1, <3>2, <4>1, NodesAfter DEF i
      <4> QED BY <4>2 DEF Ids
    <3> QED BY <3>4, <3>5
  <2>4. /\ a \in Seq(Ids) /\ b \in Seq(Ids) /\ NoRepeats(a) /\ NoRepeats(b)
        /\ Listed(a) \subseteq Listed(audio_bufs) /\ Listed(b) \subseteq Listed(audio_bufs)
        /\ Listed(a) \cap Listed(b) = {}
    BY <2>2, SplitList DEF AviInv, NodesKnown, ListsApart
  <2>5. /\ h \in Ids /\ Tail(video_bufs) \in Seq(Ids) /\ NoRepeats(Tail(video_bufs))
        /\ Listed(video_bufs) = {h} \cup Listed(Tail(video_bufs))
        /\ h \notin Listed(Tail(video_bufs))
    BY <2>1, HeadTailProperties, ListedTail DEF AviInv, NodesKnown, ListsApart, Enough
  <2> HIDE DEF a, b, h
  <2>6. /\ free_list \o a \in Seq(Ids) /\ NoRepeats(free_list \o a)
        /\ Listed(free_list \o a) = Listed(free_list) \cup Listed(a)
    BY <2>4, ConcatLists, ConcatProperties DEF AviInv, NodesKnown, ListsApart
  <2>7. (free_list \o a) \o <<h>> = Append(free_list \o a, h)
    BY <2>5, <2>6, AppendIsConcat
  <2>8. h \notin Listed(free_list \o a)
    BY <2>4, <2>5, <2>6 DEF AviInv, ListsApart
  <2>9. /\ free_list' \in Seq(Ids) /\ NoRepeats(free_list')
        /\ Listed(free_list') \subseteq Listed(free_list) \cup Listed(a) \cup {h}
    <3> DEFINE q == free_list \o a
    <3>1. q \in Seq(Ids) /\ NoRepeats(q) /\ h \notin Listed(q) /\ h \in Ids
      BY <2>5, <2>6, <2>8
    <3>2. Listed(q) = Listed(free_list) \cup Listed(a)
      BY <2>6
    <3>3. free_list' = Append(q, h) \/ free_list' = q
      BY <2>1, <2>7
    <3> HIDE DEF q
    <3>4. /\ Append(q, h) \in Seq(Ids) /\ NoRepeats(Append(q, h))
          /\ Listed(Append(q, h)) = Listed(q) \cup {h}
      BY <3>1, PushApart
    <3>5. CASE free_list' = q
      BY <3>1, <3>2, <3>5
    <3>6. CASE free_list' = Append(q, h)
      <4>1. Listed(free_list') = Listed(free_list) \cup Listed(a) \cup {h}
        BY <3>2, <3>4, <3>6, Zenon
      <4> QED BY <3>4, <3>6, <4>1
    <3> QED BY <3>3, <3>5, <3>6
  <2>10. NodesKnown'
    BY <2>1, <2>3, <2>4, <2>5, <2>9 DEF NodesKnown
  <2>11. ListsApart'
    BY <2>1, <2>4, <2>5, <2>9 DEF AviInv, ListsApart
  <2> QED BY <2>10, <2>11 DEF AviInv
<1> QED BY <1>1, <1>2

LEMMA AviStep == AviInv /\ [AviNext]_aviVars => AviInv'
<1> SUFFICES ASSUME AviInv, [AviNext]_aviVars PROVE AviInv'
  OBVIOUS
<1>1. CASE UNCHANGED queues
  BY <1>1 DEF queues, AviInv, NodesKnown, ListsApart, Ids
<1>2. CASE ReadChunk
  BY <1>2, AudioApart, VideoApart, BothApart DEF ReadChunk
<1>3. CASE RunQueue
  BY <1>3, QueueApart
<1>4. UNCHANGED queues \/ ReadChunk \/ RunQueue
  BY DEF AviNext, aviVars, ReadHeader, EndOfFile, queues
<1> QED BY <1>1, <1>2, <1>3, <1>4

LEMMA AviInitInv == AviInit => AviInv
<1> SUFFICES ASSUME AviInit PROVE AviInv
  OBVIOUS
<1>1. Len(<<>>) = 0 /\ 1 .. 0 = {}
  BY EmptySeq
<1>2. Listed(<<>>) = {} /\ NoRepeats(<<>>)
  BY <1>1 DEF Listed, NoRepeats
<1>3. \A S : <<>> \in Seq(S)
  BY EmptySeq
<1> QED BY <1>2, <1>3 DEF AviInit, AviInv, NodesKnown, ListsApart

LEMMA ApartMeansOnce == AviInv => NodesApart
<1> SUFFICES ASSUME AviInv PROVE NodesApart
  OBVIOUS
<1> DEFINE fv == free_list \o video_bufs
           all == fv \o audio_bufs
<1>1. fv \in Seq(Ids) /\ NoRepeats(fv) /\ Listed(fv) = Listed(free_list) \cup Listed(video_bufs)
  BY ConcatLists, ConcatProperties DEF AviInv, NodesKnown, ListsApart
<1> HIDE DEF fv
<1>2. all \in Seq(Ids) /\ NoRepeats(all)
  BY <1>1, ConcatLists, ConcatProperties DEF AviInv, NodesKnown, ListsApart
<1>3. DOMAIN all = 1 .. Len(all)
  <2> HIDE DEF all
  <2> QED BY <1>2, LenProperties
<1> QED BY <1>2, <1>3 DEF NodesApart, NoRepeats, fv

(* get_free_block, the two queues, run_queue and the error handler never     *)
(* have a node in two places, for any file, until something is overrun: a    *)
(* chunk of sound larger than a node, which read_avi writes beyond its end   *)
(* (dvavi.c:424-435), or a frame of sound larger than its buffer.  Up to     *)
(* there a chunk is not overwritten before it is used.                       *)
THEOREM NodesStayApart == AviSpec => []NodesApart
<1>1. AviSpec => []AviInv
  BY AviInitInv, AviStep, PTL DEF AviSpec
<1> QED BY <1>1, ApartMeansOnce, PTL

(***************************************************************************)
(* dvavi: which sound goes with which picture.                             *)
(***************************************************************************)
AviNode == [chunk : Nat, from : Int, usage : Int, read : Int, processed : Int]
Chunks == [kind : {"audio", "video", "both"}, len : Nat, got : Nat]
(* What the nodes of a queue hold, and what is in the file: the same with    *)
(* lists as parameters, for the lists before a step and after it.            *)
FromOf(nodes, id) == nodes[id].from + nodes[id].processed
ToOf(nodes, id) == nodes[id].from + nodes[id].usage
SoundsIn(cs) == {k \in DOMAIN cs : cs[k].kind = "audio"}
HeardIn(cs) == Total([k \in SoundsIn(cs) |-> cs[k].len], SoundsIn(cs))
FoundIn(cs) == Total([k \in SoundsIn(cs) |-> cs[k].got], SoundsIn(cs))
VideosIn(cs) == {k \in DOMAIN cs : cs[k].kind = "video"}
LeftOf(nodes, list, k) ==
  Total([j \in 1 .. k |-> nodes[list[j]].usage - nodes[list[j]].processed], 1 .. k)

LEMMA HeardIsTotal ==
  /\ Heard = HeardIn(chunks) /\ Heard' = HeardIn(chunks')
  /\ SoundFound = FoundIn(chunks) /\ SoundFound' = FoundIn(chunks')
<1>1. Heard = HeardIn(chunks)
  BY ZenonT(40) DEF Heard, HeardIn, SoundsRead, SoundsIn, MapThenSumSet, MapThenFoldSet, Total,
                    SumMap, IsSumMap, Some
<1>2. Heard' = HeardIn(chunks')
  BY ZenonT(40) DEF Heard, HeardIn, SoundsRead, SoundsIn, MapThenSumSet, MapThenFoldSet, Total,
                    SumMap, IsSumMap, Some
<1>3. SoundFound = FoundIn(chunks)
  BY ZenonT(40) DEF SoundFound, FoundIn, SoundsRead, SoundsIn, MapThenSumSet, MapThenFoldSet, Total,
                    SumMap, IsSumMap, Some
<1>4. SoundFound' = FoundIn(chunks')
  BY ZenonT(40) DEF SoundFound, FoundIn, SoundsRead, SoundsIn, MapThenSumSet, MapThenFoldSet, Total,
                    SumMap, IsSumMap, Some
<1> QED BY <1>1, <1>2, <1>3, <1>4

LEMMA LeftIsTotal ==
  ASSUME NEW k
  PROVE  LeftIn(k) = LeftOf(bufNode, audio_bufs, k)
BY ZenonT(40) DEF LeftIn, Left, LeftOf, MapThenSumSet, MapThenFoldSet, Total, SumMap, IsSumMap, Some

LEMMA SoundsGrow ==
  ASSUME NEW cs \in Seq(Chunks), NEW c \in Chunks,
         NEW g \in [SoundsIn(cs) -> Nat], NEW f \in [SoundsIn(Append(cs, c)) -> Nat],
         \A k \in SoundsIn(cs) : f[k] = g[k]
  PROVE  /\ Total(g, SoundsIn(cs)) \in Int
         /\ Total(f, SoundsIn(Append(cs, c))) =
              Total(g, SoundsIn(cs)) + (IF c.kind = "audio" THEN f[Len(cs) + 1] ELSE 0)
<1> DEFINE S == SoundsIn(cs)
           T == SoundsIn(Append(cs, c))
           longer == Append(cs, c)
           n == Len(cs) + 1
<1>1. /\ Len(cs) \in Nat /\ DOMAIN cs = 1 .. Len(cs) /\ DOMAIN longer = 1 .. n
      /\ \A k \in 1 .. Len(cs) : longer[k] = cs[k]
      /\ longer[n] = c
  BY LenProperties, AppendProperties
<1> HIDE DEF longer
<1>2. 1 .. n = (1 .. Len(cs)) \cup {n} /\ n \notin 1 .. Len(cs)
  BY <1>1
<1>3. /\ S \subseteq 1 .. Len(cs) /\ n \notin S
      /\ T = S \cup (IF c.kind = "audio" THEN {n} ELSE {})
  BY <1>1, <1>2 DEF SoundsIn, longer
<1>4. IsFiniteSet(S) /\ IsFiniteSet(T)
  <2>1. IsFiniteSet(1 .. Len(cs))
    BY <1>1, FS_Interval
  <2>2. IsFiniteSet(S)
    BY <1>3, <2>1, FS_Subset
  <2>3. IsFiniteSet(S \cup {n})
    BY <2>2, FS_AddElement
  <2> HIDE DEF S, T, n
  <2> QED BY <1>3, <2>2, <2>3
<1>5. g \in [S -> Int] /\ f \in [T -> Int] /\ \A k \in S : f[k] = g[k]
  <2>1. g \in [S -> Nat] /\ f \in [T -> Nat]
    OBVIOUS
  <2> HIDE DEF S, T
  <2> QED BY <2>1 DEF S
<1> HIDE DEF S, T, n
<1>6. Total(g, S) \in Int
  BY <1>4, <1>5, TotalIsInt
<1>7. CASE c.kind = "audio"
  <2>1. T = S \cup {n} /\ n \in T /\ T \ {n} = S
    BY <1>3, <1>7
  <2>2. g \in [T \ {n} -> Int] /\ \A k \in T \ {n} : g[k] = f[k]
    BY <1>5, <2>1
  <2>3. Total(f, T) = f[n] + Total(g, T \ {n})
    BY <1>4, <1>5, <2>1, <2>2, TotalGrows
  <2>4. f[n] \in Int
    BY <1>5, <2>1
  <2>5. Total(f, T) = Total(g, S) + f[n]
    <3>1. Total(g, T \ {n}) = Total(g, S)
      BY <2>1
    <3> QED BY <1>6, <2>3, <2>4, <3>1
  <2> QED BY <1>6, <1>7, <2>5 DEF S, T, n
<1>8. CASE c.kind # "audio"
  <2>1. T = S
    BY <1>3, <1>8
  <2>2. f = g
    BY <1>5, <2>1
  <2> QED BY <1>6, <1>8, <2>1, <2>2 DEF S, T
<1> QED BY <1>7, <1>8

(* The sound of the file, as its heads say and as it was found.              *)
LEMMA HeardGrows ==
  ASSUME NEW cs \in Seq(Chunks), NEW c \in Chunks
  PROVE  /\ HeardIn(cs) \in Int /\ FoundIn(cs) \in Int
         /\ HeardIn(Append(cs, c)) = HeardIn(cs) + (IF c.kind = "audio" THEN c.len ELSE 0)
         /\ FoundIn(Append(cs, c)) = FoundIn(cs) + (IF c.kind = "audio" THEN c.got ELSE 0)
<1> DEFINE longer == Append(cs, c)
           n == Len(cs) + 1
           hs == [k \in SoundsIn(cs) |-> cs[k].len]
           hl == [k \in SoundsIn(longer) |-> longer[k].len]
           fs == [k \in SoundsIn(cs) |-> cs[k].got]
           fl == [k \in SoundsIn(longer) |-> longer[k].got]
<1>1. /\ Len(cs) \in Nat /\ DOMAIN cs = 1 .. Len(cs) /\ \A k \in 1 .. Len(cs) : cs[k] \in Chunks
      /\ DOMAIN longer = 1 .. n /\ \A k \in 1 .. n : longer[k] \in Chunks
      /\ \A k \in 1 .. Len(cs) : longer[k] = cs[k]
      /\ longer[n] = c /\ n \in 1 .. n
  BY LenProperties, AppendProperties, ElementOfSeq
<1>2. /\ \A k \in SoundsIn(cs) : cs[k] \in Chunks /\ longer[k] = cs[k] /\ k \in SoundsIn(longer)
      /\ \A k \in SoundsIn(longer) : longer[k] \in Chunks
      /\ c.kind = "audio" => n \in SoundsIn(longer)
  <2> HIDE DEF longer
  <2> QED BY <1>1 DEF SoundsIn
<1> HIDE DEF longer, n
<1>3. /\ hs \in [SoundsIn(cs) -> Nat] /\ fs \in [SoundsIn(cs) -> Nat]
      /\ hl \in [SoundsIn(longer) -> Nat] /\ fl \in [SoundsIn(longer) -> Nat]
      /\ \A k \in SoundsIn(cs) : hl[k] = hs[k] /\ fl[k] = fs[k]
      /\ c.kind = "audio" => hl[n] = c.len /\ fl[n] = c.got
  BY <1>1, <1>2 DEF Chunks
<1>4. /\ HeardIn(cs) = Total(hs, SoundsIn(cs)) /\ HeardIn(longer) = Total(hl, SoundsIn(longer))
      /\ FoundIn(cs) = Total(fs, SoundsIn(cs)) /\ FoundIn(longer) = Total(fl, SoundsIn(longer))
  BY DEF HeardIn, FoundIn
<1> HIDE DEF hs, hl, fs, fl
<1>5. /\ Total(hs, SoundsIn(cs)) \in Int
      /\ Total(hl, SoundsIn(longer)) =
           Total(hs, SoundsIn(cs)) + (IF c.kind = "audio" THEN hl[n] ELSE 0)
  BY <1>3, SoundsGrow DEF longer, n
<1>6. /\ Total(fs, SoundsIn(cs)) \in Int
      /\ Total(fl, SoundsIn(longer)) =
           Total(fs, SoundsIn(cs)) + (IF c.kind = "audio" THEN fl[n] ELSE 0)
  BY <1>3, SoundsGrow DEF longer, n
<1> QED BY <1>3, <1>4, <1>5, <1>6 DEF longer

(* The nodes follow each other in time.                                      *)
Chained(nodes, list) ==
  \A i \in 1 .. Len(list) - 1 : ToOf(nodes, list[i]) = FromOf(nodes, list[i + 1])
EndsAt(nodes, list, time) ==
  list # <<>> => ToOf(nodes, list[Len(list)]) = time
BeginOf(nodes, list, time) ==
  IF list = <<>> THEN time ELSE FromOf(nodes, list[1])

(* What is left in the first nodes is the time from the first to the last.   *)
LEMMA LeftIsTime ==
  ASSUME NEW nodes \in Seq(AviNode), NEW list \in Seq(1 .. Len(nodes)), Chained(nodes, list)
  PROVE  /\ LeftOf(nodes, list, 0) = 0
         /\ \A k \in 1 .. Len(list) :
              LeftOf(nodes, list, k) = ToOf(nodes, list[k]) - FromOf(nodes, list[1])
<1> DEFINE d(j) == nodes[list[j]].usage - nodes[list[j]].processed
           L(k) == LeftOf(nodes, list, k)
           P == {k \in Nat : IF k = 0 THEN L(k) = 0
                             ELSE L(k) = ToOf(nodes, list[k]) - FromOf(nodes, list[1])}
<1>1. /\ Len(list) \in Nat /\ \A k \in 1 .. Len(list) : list[k] \in 1 .. Len(nodes)
      /\ \A id \in 1 .. Len(nodes) : nodes[id] \in AviNode
  BY LenProperties, ElementOfSeq
<1>2. \A k \in 1 .. Len(list) :
        /\ nodes[list[k]] \in AviNode /\ d(k) \in Int
        /\ ToOf(nodes, list[k]) \in Int /\ FromOf(nodes, list[k]) \in Int
        /\ d(k) = ToOf(nodes, list[k]) - FromOf(nodes, list[k])
  <2> SUFFICES ASSUME NEW k \in 1 .. Len(list)
               PROVE  /\ nodes[list[k]] \in AviNode /\ d(k) \in Int
                      /\ ToOf(nodes, list[k]) \in Int /\ FromOf(nodes, list[k]) \in Int
                      /\ d(k) = ToOf(nodes, list[k]) - FromOf(nodes, list[k])
    OBVIOUS
  <2> DEFINE x == nodes[list[k]]
  <2>1. x \in AviNode
    BY <1>1
  <2>2. d(k) = x.usage - x.processed
    OBVIOUS
  <2>3. ToOf(nodes, list[k]) = x.from + x.usage /\ FromOf(nodes, list[k]) = x.from + x.processed
    BY DEF ToOf, FromOf
  <2>4. x.from \in Int /\ x.usage \in Int /\ x.processed \in Int
    BY <2>1 DEF AviNode
  <2> HIDE DEF d
  <2> QED BY <2>1, <2>2, <2>3, <2>4, SMTT(30)
<1> HIDE DEF d
<1>3. L(0) = 0
  <2> DEFINE F == [j \in 1 .. 0 |-> d(j)]
  <2>1. F \in [{} -> Int] /\ 1 .. 0 = {}
    OBVIOUS
  <2>2. L(0) = Total(F, 1 .. 0)
    BY DEF LeftOf, d
  <2> HIDE DEF F
  <2>3. Total(F, {}) = 0
    BY <2>1, FS_EmptySet, TotalOfZeros
  <2> QED BY <2>1, <2>2, <2>3
<1>4. ASSUME NEW k \in 0 .. Len(list) - 1
      PROVE  L(k + 1) = d(k + 1) + L(k)
  <2> DEFINE n == k + 1
             S == 1 .. n
             F == [j \in 1 .. n |-> d(j)]
             G == [j \in 1 .. k |-> d(j)]
  <2>1. n \in S /\ n \in Nat /\ n \in 1 .. Len(list)
    BY <1>1
  <2>7. S \ {n} = 1 .. k
    OBVIOUS
  <2>2. IsFiniteSet(S)
    BY <2>1, FS_Interval
  <2>3. F \in [S -> Int] /\ G \in [S \ {n} -> Int] /\ \A x \in S \ {n} : G[x] = F[x]
    BY <1>1, <1>2, <2>1, <2>7
  <2>4. F[n] = d(n)
    BY <2>1
  <2>5. L(n) = Total(F, S) /\ L(k) = Total(G, S \ {n})
    BY <2>7 DEF LeftOf, d
  <2> HIDE DEF F, G, S, L, n
  <2>6. Total(F, S) = F[n] + Total(G, S \ {n})
    BY <2>1, <2>2, <2>3, TotalGrows, ZenonT(40)
  <2> QED BY <2>4, <2>5, <2>6 DEF n
<1> HIDE DEF L
<1>5. ASSUME NEW k \in 0 .. Len(list) - 1, k \in P
      PROVE  k + 1 \in P
  <2>1. k + 1 \in 1 .. Len(list) /\ 1 \in 1 .. Len(list)
    BY <1>1
  <2>2. CASE k = 0
    BY <1>2, <1>3, <1>4, <2>1, <2>2
  <2>3. CASE k # 0
    <3>1. ToOf(nodes, list[k]) = FromOf(nodes, list[k + 1]) /\ k \in 1 .. Len(list)
      BY <2>3, <1>1 DEF Chained
    <3>2. L(k) = ToOf(nodes, list[k]) - FromOf(nodes, list[1])
      BY <1>5, <2>3
    <3> QED BY <1>2, <1>4, <2>1, <3>1, <3>2
  <2> QED BY <2>2, <2>3
<1>6. 0 \in P
  BY <1>3
<1> HIDE DEF P
<1>7. \A k \in 0 .. Len(list) : k \in P
  BY <1>1, <1>5, <1>6, StepByStep
<1> QED BY <1>1, <1>3, <1>7 DEF P, L

SameNodes(nodes, after, list) == \A i \in 1 .. Len(list) : after[list[i]] = nodes[list[i]]
NewSound(nodes, id, time, len) == FromOf(nodes, id) = time /\ ToOf(nodes, id) = time + len
MoreSound(nodes, after, list, len, got) ==
  after = [nodes EXCEPT ![list[Len(list)]].usage = @ + len, ![list[Len(list)]].read = @ + got]
(* All but the last of the nodes were read in full; in the last is what was  *)
(* found of the sound.                                                       *)
Filled(nodes, list, found) ==
  \A i \in 1 .. Len(list) :
    LET node == nodes[list[i]]
    IN  IF i < Len(list) THEN node.read = node.usage /\ node.from + node.usage <= found
        ELSE node.from + node.read = found

(* Sound that begins a node of its own.                                      *)
LEMMA ChainStarts ==
  ASSUME NEW S, NEW nodes, NEW after, NEW list \in Seq(S), NEW x \in S,
         NEW time \in Int, NEW len \in Int,
         SameNodes(nodes, after, list), NewSound(after, x, time, len),
         Chained(nodes, list), EndsAt(nodes, list, time)
  PROVE  /\ Chained(after, Append(list, x)) /\ EndsAt(after, Append(list, x), time + len)
         /\ BeginOf(after, Append(list, x), time + len) = BeginOf(nodes, list, time)
<1> DEFINE longer == Append(list, x)
           n == Len(list)
<1>1. /\ n \in Nat /\ Len(longer) = n + 1 /\ longer # <<>>
      /\ \A i \in 1 .. n : longer[i] = list[i]
      /\ longer[n + 1] = x
      /\ list = <<>> <=> n = 0
  BY AppendProperties, LenProperties, EmptySeq
<1>2. FromOf(after, x) = time /\ ToOf(after, x) = time + len
  BY DEF NewSound
<1>3. \A i \in 1 .. n : /\ FromOf(after, longer[i]) = FromOf(nodes, list[i])
                        /\ ToOf(after, longer[i]) = ToOf(nodes, list[i])
  BY <1>1 DEF FromOf, ToOf, SameNodes
<1>4. \A i \in 1 .. n - 1 : ToOf(nodes, list[i]) = FromOf(nodes, list[i + 1])
  BY DEF Chained
<1>5. n # 0 => ToOf(nodes, list[n]) = time
  BY <1>1 DEF EndsAt
<1> HIDE DEF longer, n
<1>6. ASSUME NEW i \in 1 .. Len(longer) - 1
      PROVE  ToOf(after, longer[i]) = FromOf(after, longer[i + 1])
  <2>1. CASE i = n
    BY <1>1, <1>2, <1>3, <1>5, <1>6, <2>1
  <2>2. CASE i # n
    <3>1. i \in 1 .. n - 1 /\ i \in 1 .. n /\ i + 1 \in 1 .. n
      BY <1>1, <1>6, <2>2
    <3> QED BY <1>3, <1>4, <3>1
  <2> QED BY <2>1, <2>2
<1>7. EndsAt(after, longer, time + len)
  BY <1>1, <1>2 DEF EndsAt
<1>8. BeginOf(after, longer, time + len) = BeginOf(nodes, list, time)
  <2>1. CASE n = 0
    BY <1>1, <1>2, <2>1 DEF BeginOf
  <2>2. CASE n # 0
    <3>1. 1 \in 1 .. n
      BY <1>1, <2>2
    <3> QED BY <1>1, <1>3, <2>2, <3>1 DEF BeginOf
  <2> QED BY <2>1, <2>2
<1> QED BY <1>6, <1>7, <1>8 DEF Chained, longer

(* Sound that still fits into the last node.                                 *)
LEMMA ChainExtends ==
  ASSUME NEW nodes \in Seq(AviNode), NEW list \in Seq(1 .. Len(nodes)), NoRepeats(list),
         list # <<>>, NEW time \in Int, NEW len \in Int, NEW got \in Int, NEW after,
         MoreSound(nodes, after, list, len, got),
         Chained(nodes, list), EndsAt(nodes, list, time)
  PROVE  /\ Chained(after, list) /\ EndsAt(after, list, time + len)
         /\ BeginOf(after, list, time + len) = BeginOf(nodes, list, time)
<1> DEFINE n == Len(list)
           x == list[n]
<1>1. n \in Nat /\ n # 0 /\ n \in 1 .. n /\ 1 \in 1 .. n
  BY LenProperties, EmptySeq
<1>2. /\ DOMAIN nodes = 1 .. Len(nodes)
      /\ \A i \in 1 .. n : list[i] \in 1 .. Len(nodes) /\ nodes[list[i]] \in AviNode
  BY LenProperties, ElementOfSeq
<1>3. \A i \in 1 .. n - 1 : list[i] # x
  BY <1>1 DEF NoRepeats
<1>4. /\ after[x] = [nodes[x] EXCEPT !.usage = @ + len, !.read = @ + got]
      /\ \A i \in 1 .. n - 1 : after[list[i]] = nodes[list[i]]
  <2>1. x \in DOMAIN nodes /\ \A i \in 1 .. n - 1 : list[i] \in DOMAIN nodes
    BY <1>1, <1>2
  <2>2. after = [nodes EXCEPT ![x].usage = @ + len, ![x].read = @ + got]
    BY DEF MoreSound
  <2> HIDE DEF x
  <2> QED BY <1>3, <2>1, <2>2
<1>5. FromOf(after, x) = FromOf(nodes, x) /\ ToOf(after, x) = ToOf(nodes, x) + len
  <2> DEFINE old == nodes[x]
             new == after[x]
  <2>1. old \in AviNode /\ new = [old EXCEPT !.usage = @ + len, !.read = @ + got]
    BY <1>1, <1>2, <1>4
  <2> HIDE DEF old, new
  <2>2. /\ new.from = old.from /\ new.processed = old.processed /\ new.usage = old.usage + len
        /\ old.from \in Int /\ old.usage \in Int
    BY <2>1 DEF AviNode
  <2>3. /\ FromOf(after, x) = new.from + new.processed /\ ToOf(after, x) = new.from + new.usage
        /\ FromOf(nodes, x) = old.from + old.processed /\ ToOf(nodes, x) = old.from + old.usage
    BY DEF FromOf, ToOf, old, new
  <2> QED BY <2>2, <2>3
<1>6. \A i \in 1 .. n - 1 : /\ FromOf(after, list[i]) = FromOf(nodes, list[i])
                            /\ ToOf(after, list[i]) = ToOf(nodes, list[i])
  BY <1>4 DEF FromOf, ToOf
<1>7. ToOf(nodes, x) = time
  BY DEF EndsAt
<1>8. \A i \in 1 .. n : FromOf(after, list[i]) = FromOf(nodes, list[i])
  <2> SUFFICES ASSUME NEW i \in 1 .. n PROVE FromOf(after, list[i]) = FromOf(nodes, list[i])
    OBVIOUS
  <2>1. i = n \/ i \in 1 .. n - 1
    BY <1>1
  <2> QED BY <1>5, <1>6, <2>1
<1> HIDE DEF n, x
<1>9. ASSUME NEW i \in 1 .. n - 1
      PROVE  ToOf(after, list[i]) = FromOf(after, list[i + 1])
  <2>1. i + 1 \in 1 .. n /\ ToOf(nodes, list[i]) = FromOf(nodes, list[i + 1])
    BY <1>1 DEF Chained, n
  <2> QED BY <1>6, <1>8, <2>1
<1> QED BY <1>1, <1>5, <1>7, <1>8, <1>9 DEF Chained, EndsAt, BeginOf, n, x

(* Nodes elsewhere change.                                                   *)
LEMMA SameNodesSame ==
  ASSUME NEW S, NEW nodes, NEW after, NEW list \in Seq(S), NEW time,
         SameNodes(nodes, after, list), Chained(nodes, list), EndsAt(nodes, list, time)
  PROVE  /\ Chained(after, list) /\ EndsAt(after, list, time)
         /\ BeginOf(after, list, time) = BeginOf(nodes, list, time)
<1> DEFINE n == Len(list)
<1>1. n \in Nat /\ (list = <<>> <=> n = 0)
  BY LenProperties, EmptySeq
<1>2. \A i \in 1 .. n : /\ FromOf(after, list[i]) = FromOf(nodes, list[i])
                        /\ ToOf(after, list[i]) = ToOf(nodes, list[i])
  BY DEF SameNodes, FromOf, ToOf
<1> HIDE DEF n
<1>3. \A i \in 1 .. n - 1 : i \in 1 .. n /\ i + 1 \in 1 .. n
  BY <1>1
<1>4. n # 0 => n \in 1 .. n /\ 1 \in 1 .. n
  BY <1>1
<1>5. Chained(after, list)
  BY <1>2, <1>3 DEF Chained, n
<1>6. EndsAt(after, list, time)
  BY <1>1, <1>2, <1>4 DEF EndsAt, n
<1>7. BeginOf(after, list, time) = BeginOf(nodes, list, time)
  BY <1>1, <1>2, <1>4 DEF BeginOf
<1> QED BY <1>5, <1>6, <1>7

(* What a list is without its first u elements.                              *)
LEMMA RestOfList ==
  ASSUME NEW S, NEW list \in Seq(S), NEW u \in 0 .. Len(list)
  PROVE  LET rest == SubSeq(list, u + 1, Len(list))
             m == Len(list) - u
         IN  /\ Len(rest) = m
             /\ \A i \in 1 .. m : rest[i] = list[u + i] /\ u + i \in 1 .. Len(list)
             /\ rest = <<>> <=> m = 0
<1> DEFINE n == Len(list)
           rest == SubSeq(list, u + 1, n)
           m == n - u
<1>1. n \in Nat /\ u \in 0 .. n /\ m \in Nat
  BY LenProperties
<1>2. u + 1 \in Int /\ n \in Int /\ \A i \in u + 1 .. n : list[i] \in S
  BY <1>1, ElementOfSeq
<1>3. /\ rest \in Seq(S)
      /\ Len(rest) = IF u + 1 <= n THEN n - (u + 1) + 1 ELSE 0
      /\ \A i \in 1 .. n - (u + 1) + 1 : rest[i] = list[u + 1 + i - 1]
  BY <1>2, SubSeqProperties
<1> HIDE DEF rest, n
<1>4. Len(rest) = m /\ \A i \in 1 .. m : rest[i] = list[u + i] /\ u + i \in 1 .. n
  BY <1>1, <1>3
<1>5. rest = <<>> <=> m = 0
  BY <1>3, <1>4, EmptySeq
<1> QED BY <1>4, <1>5 DEF rest, n

(* A frame of sound is taken: the nodes used up go, what is used of the next *)
(* one is marked.                                                            *)
TakenWhole(nodes, after, list, k, t) == after = nodes /\ ToOf(nodes, list[k]) = t
TakenPart(nodes, after, list, k, t) ==
  \E p \in Int : /\ after = [nodes EXCEPT ![list[k]].processed = @ + p]
                 /\ FromOf(nodes, list[k]) + p = t
LEMMA ChainIsCut ==
  ASSUME NEW nodes \in Seq(AviNode), NEW list \in Seq(1 .. Len(nodes)), NoRepeats(list),
         NEW k \in 1 .. Len(list), NEW u \in {k - 1, k}, NEW time \in Int, NEW t \in Int, NEW after,
         IF u = k THEN TakenWhole(nodes, after, list, k, t)
                  ELSE TakenPart(nodes, after, list, k, t),
         Chained(nodes, list), EndsAt(nodes, list, time)
  PROVE  LET rest == SubSeq(list, u + 1, Len(list))
         IN  /\ Chained(after, rest) /\ EndsAt(after, rest, time)
             /\ BeginOf(after, rest, time) = t
<1> DEFINE n == Len(list)
           rest == SubSeq(list, u + 1, n)
           m == n - u
<1>1. n \in Nat /\ u \in 0 .. n /\ m \in Nat /\ k \in 1 .. n
  BY LenProperties
<1>2. /\ Len(rest) = m
      /\ \A i \in 1 .. m : rest[i] = list[u + i] /\ u + i \in 1 .. n
      /\ rest = <<>> <=> m = 0
  BY <1>1, RestOfList
<1>3. /\ DOMAIN nodes = 1 .. Len(nodes)
      /\ \A i \in 1 .. n : list[i] \in 1 .. Len(nodes) /\ nodes[list[i]] \in AviNode
  BY LenProperties, ElementOfSeq
<1>4. \A i \in 1 .. n : i # k => list[i] # list[k]
  BY DEF NoRepeats
<1>5. \A i \in 1 .. n - 1 : ToOf(nodes, list[i]) = FromOf(nodes, list[i + 1])
  BY DEF Chained
<1>6. n # 0 => ToOf(nodes, list[n]) = time
  BY EmptySeq DEF EndsAt
<1> HIDE DEF n, rest, m
\* All that remains is as before, but for the beginning.
<1>7. /\ \A i \in 1 .. m : ToOf(after, rest[i]) = ToOf(nodes, list[u + i])
      /\ \A i \in 2 .. m : FromOf(after, rest[i]) = FromOf(nodes, list[u + i])
      /\ m # 0 => FromOf(after, rest[1]) = t
  <2>1. CASE u = k
    <3>2. after = nodes /\ ToOf(nodes, list[k]) = t
      BY <2>1 DEF TakenWhole
    <3>1. m # 0 => FromOf(nodes, list[u + 1]) = t /\ rest[1] = list[u + 1]
      <4> SUFFICES ASSUME m # 0 PROVE FromOf(nodes, list[u + 1]) = t /\ rest[1] = list[u + 1]
        OBVIOUS
      <4>1. 1 \in 1 .. m /\ u \in 1 .. n - 1
        BY <1>1, <2>1 DEF m
      <4> QED BY <1>2, <1>5, <2>1, <3>2, <4>1
    <3>3. m # 0 => FromOf(after, rest[1]) = t
      BY <3>1, <3>2
    <3>4. \A i \in 2 .. m : i \in 1 .. m
      BY <1>1
    <3> QED BY <1>2, <3>2, <3>3, <3>4
  <2>2. CASE u # k
    <3>7. PICK p \in Int : /\ after = [nodes EXCEPT ![list[k]].processed = @ + p]
                           /\ FromOf(nodes, list[k]) + p = t
      BY <2>2 DEF TakenPart
    <3>8. u = k - 1
      BY <2>2
    <3> DEFINE old == nodes[list[k]]
               new == after[list[k]]
    <3>1. /\ old \in AviNode /\ new = [old EXCEPT !.processed = @ + p]
          /\ \A i \in 1 .. n : i # k => after[list[i]] = nodes[list[i]]
      BY <1>1, <1>3, <1>4, <3>7
    <3>2. /\ FromOf(after, list[k]) = new.from + new.processed /\ ToOf(after, list[k]) = new.from + new.usage
          /\ FromOf(nodes, list[k]) = old.from + old.processed /\ ToOf(nodes, list[k]) = old.from + old.usage
      BY DEF FromOf, ToOf
    <3> HIDE DEF old, new
    <3>3. /\ new.from = old.from /\ new.processed = old.processed + p /\ new.usage = old.usage
          /\ old.from \in Int /\ old.processed \in Int
      BY <3>1 DEF AviNode
    <3>4. ToOf(after, list[k]) = ToOf(nodes, list[k]) /\ FromOf(after, list[k]) = t
      BY <3>2, <3>3, <3>7
    <3>5. \A i \in 1 .. n : i # k => /\ ToOf(after, list[i]) = ToOf(nodes, list[i])
                                     /\ FromOf(after, list[i]) = FromOf(nodes, list[i])
      BY <3>1 DEF ToOf, FromOf
    <3>6. /\ u + 1 = k /\ m # 0 /\ 1 \in 1 .. m
          /\ \A i \in 2 .. m : i \in 1 .. m /\ u + i # k
      BY <1>1, <3>8 DEF m
    <3> QED BY <1>2, <3>4, <3>5, <3>6
  <2> QED BY <2>1, <2>2
<1>8. ASSUME NEW i \in 1 .. m - 1
      PROVE  ToOf(after, rest[i]) = FromOf(after, rest[i + 1])
  <2>1. i \in 1 .. m /\ i + 1 \in 2 .. m /\ u + i \in 1 .. n - 1 /\ u + (i + 1) = (u + i) + 1
    BY <1>1 DEF m
  <2> QED BY <1>5, <1>7, <2>1
<1>9. m # 0 => ToOf(after, rest[m]) = time
  <2>1. m # 0 => m \in 1 .. m /\ u + m = n /\ n # 0
    BY <1>1 DEF m
  <2> QED BY <1>6, <1>7, <2>1
<1>10. m = 0 => time = t
  <2> SUFFICES ASSUME m = 0 PROVE time = t
    OBVIOUS
  <2>1. u = k \/ u = k - 1
    OBVIOUS
  <2>2. u = n /\ u = k /\ n # 0
    BY <1>1, <2>1 DEF m
  <2>3. ToOf(nodes, list[k]) = t
    BY <2>2 DEF TakenWhole
  <2> QED BY <1>6, <2>2, <2>3
<1> QED BY <1>2, <1>7, <1>8, <1>9, <1>10 DEF Chained, EndsAt, BeginOf, rest, n

(* Arithmetic of bytes found, in the form in which the next lemmas need it.  *)
LEMMA FoundMoves ==
  ASSUME NEW old \in AviNode, NEW new, NEW got \in Int, NEW found \in Int,
         new.from = old.from, new.read = old.read + got, old.from + old.read = found
  PROVE  new.from + new.read = found + got
<1>1. old.from \in Int /\ old.read \in Int
  BY DEF AviNode
<1> DEFINE from == old.from
           read == old.read
<1>2. /\ from \in Int /\ read \in Int /\ from + read = found
      /\ new.from = from /\ new.read = read + got
  BY <1>1
<1> HIDE DEF from, read
<1> QED BY <1>2
LEMMA FoundBehind ==
  \A from, usage, found \in Int, got \in Nat : from + usage <= found => from + usage <= found + got
OBVIOUS
LEMMA FoundAll ==
  \A from, usage, read, found \in Int :
    from + read = found /\ from + usage = found => read = usage /\ from + usage <= found
OBVIOUS

(* What was found of the sound, for each of these steps.                     *)
LEMMA FilledStarts ==
  ASSUME NEW S, NEW nodes, NEW after, NEW list \in Seq(S), NEW x \in S,
         NEW found \in Int, NEW got \in Nat, after[x].from = found, after[x].read = got,
         \A i \in 1 .. Len(list) : nodes[list[i]] \in AviNode,
         SameNodes(nodes, after, list), EndsAt(nodes, list, found), Filled(nodes, list, found)
  PROVE  Filled(after, Append(list, x), found + got)
<1> DEFINE longer == Append(list, x)
           n == Len(list)
<1>1. /\ n \in Nat /\ Len(longer) = n + 1 /\ longer[n + 1] = x
      /\ \A i \in 1 .. n : longer[i] = list[i]
      /\ list = <<>> <=> n = 0
  BY AppendProperties, LenProperties, EmptySeq
<1> HIDE DEF longer
<1>2. ASSUME NEW i \in 1 .. n
      PROVE  LET node == after[longer[i]]
             IN  node.read = node.usage /\ node.from + node.usage <= found + got
  <2> DEFINE node == nodes[list[i]]
  <2>1. node \in AviNode /\ after[longer[i]] = node
    BY <1>1 DEF SameNodes
  <2>2. node.from \in Int /\ node.read \in Int /\ node.usage \in Int
    BY <2>1 DEF AviNode
  <2>3. IF i < n THEN node.read = node.usage /\ node.from + node.usage <= found
        ELSE node.from + node.read = found
    BY DEF Filled
  <2>4. i = n => node.from + node.usage = found
    BY <1>1 DEF EndsAt, ToOf
  <2> HIDE DEF node, n
  <2>5. i < n \/ i = n
    BY <1>1
  <2>6. node.read = node.usage /\ node.from + node.usage <= found
    <3>1. CASE i < n
      BY Zenon, <2>3, <3>1
    <3>2. CASE i = n
      <4>1. ~(i < n)
        BY <1>1, <3>2
      <4>2. node.from + node.read = found
        BY Zenon, <2>3, <4>1
      <4>3. node.from + node.usage = found
        BY Zenon, <2>4, <3>2
      <4>4. found \in Int
        OBVIOUS
      <4> QED BY Zenon, <2>2, <4>2, <4>3, <4>4, FoundAll
    <3> QED BY <2>5, <3>1, <3>2
  <2>7. node.from + node.usage <= found + got
    BY Zenon, <2>2, <2>6, FoundBehind
  <2> QED BY <2>1, <2>6, <2>7
<1> QED BY <1>1, <1>2 DEF Filled, longer

LEMMA FilledExtends ==
  ASSUME NEW nodes \in Seq(AviNode), NEW list \in Seq(1 .. Len(nodes)), NoRepeats(list),
         NEW found \in Int, NEW len \in Int, NEW got \in Nat, NEW after,
         MoreSound(nodes, after, list, len, got), Filled(nodes, list, found)
  PROVE  Filled(after, list, found + got)
<1> DEFINE n == Len(list)
           x == list[n]
<1>1. /\ n \in Nat /\ DOMAIN nodes = 1 .. Len(nodes)
      /\ \A i \in 1 .. n : list[i] \in 1 .. Len(nodes) /\ nodes[list[i]] \in AviNode
      /\ \A i \in 1 .. n : i # n => list[i] # x
  <2>1. \A i \in 1 .. n : n \in 1 .. n
    BY LenProperties
  <2> QED BY <2>1, LenProperties, ElementOfSeq DEF NoRepeats
<1>2. after = [nodes EXCEPT ![x].usage = @ + len, ![x].read = @ + got]
  BY DEF MoreSound
<1>3. SUFFICES ASSUME NEW i \in 1 .. n
               PROVE  LET node == after[list[i]]
                      IN  IF i < n THEN node.read = node.usage /\ node.from + node.usage <= found + got
                          ELSE node.from + node.read = found + got
  BY DEF Filled
<1> DEFINE old == nodes[list[i]]
<1>4. /\ old \in AviNode
      /\ IF i < n THEN old.read = old.usage /\ old.from + old.usage <= found
         ELSE old.from + old.read = found
  BY <1>1 DEF Filled
<1>5. old.from \in Int /\ old.read \in Int /\ old.usage \in Int
  BY <1>4 DEF AviNode
<1>6. list[i] \in DOMAIN nodes
  BY <1>1
<1>7. CASE i < n
  <2>1. list[i] # x
    BY <1>1, <1>7
  <2>2. after[list[i]] = old
    <3> HIDE DEF x, n
    <3> QED BY <1>2, <1>6, <2>1
  <2> HIDE DEF old, n
  <2>3. old.read = old.usage /\ old.from + old.usage <= found + got
    BY <1>4, <1>5, <1>7
  <2> QED BY <1>7, <2>2, <2>3
<1>8. CASE ~(i < n)
  <2>1. i = n
    BY <1>1, <1>8
  <2>2. after[list[i]] = [old EXCEPT !.usage = @ + len, !.read = @ + got]
    <3>1. list[i] = x
      BY <2>1
    <3> HIDE DEF x, n
    <3> QED BY <1>2, <1>6, <3>1
  <2> DEFINE new == after[list[i]]
  <2>3. new.from = old.from /\ new.read = old.read + got
    <3> HIDE DEF old
    <3> QED BY <1>4, <2>2 DEF AviNode
  <2> HIDE DEF new, old, n
  <2>4. new.from + new.read = found + got
    <3>1. old.from + old.read = found
      BY Zenon, <1>4, <1>8
    <3>2. got \in Int /\ found \in Int
      OBVIOUS
    <3> QED BY Zenon, <1>4, <2>3, <3>1, <3>2, FoundMoves
  <2> QED BY <1>8, <2>4 DEF new
<1> QED BY <1>7, <1>8

SameReading(nodes, after, list) ==
  \A i \in 1 .. Len(list) : /\ after[list[i]].from = nodes[list[i]].from
                            /\ after[list[i]].usage = nodes[list[i]].usage
                            /\ after[list[i]].read = nodes[list[i]].read
LEMMA FilledIsCut ==
  ASSUME NEW S, NEW nodes, NEW after, NEW list \in Seq(S), NEW u \in 0 .. Len(list), NEW found,
         SameReading(nodes, after, list), Filled(nodes, list, found)
  PROVE  Filled(after, SubSeq(list, u + 1, Len(list)), found)
<1> DEFINE n == Len(list)
           rest == SubSeq(list, u + 1, n)
           m == n - u
<1>1. n \in Nat /\ u \in 0 .. n /\ m \in Nat
  BY LenProperties
<1>2. Len(rest) = m /\ \A i \in 1 .. m : rest[i] = list[u + i] /\ u + i \in 1 .. n
  BY <1>1, RestOfList
<1> HIDE DEF rest
<1>3. ASSUME NEW i \in 1 .. m
      PROVE  LET node == after[rest[i]]
             IN  IF i < m THEN node.read = node.usage /\ node.from + node.usage <= found
                 ELSE node.from + node.read = found
  <2> DEFINE old == nodes[list[u + i]]
             new == after[rest[i]]
  <2>1. u + i \in 1 .. n /\ (i < m <=> u + i < n)
    BY <1>1, <1>2
  <2>2. new.from = old.from /\ new.usage = old.usage /\ new.read = old.read
    BY <1>2, <2>1 DEF SameReading
  <2>3. IF u + i < n THEN old.read = old.usage /\ old.from + old.usage <= found
        ELSE old.from + old.read = found
    BY <2>1 DEF Filled
  <2> HIDE DEF old, new
  <2> QED BY <2>1, <2>2, <2>3 DEF new
<1> QED BY <1>2, <1>3 DEF Filled, rest

(* The pictures of the file up to one of its chunks.                         *)
UpTo(cs, c) == {k \in VideosIn(cs) : k <= c}
Holds(node, c) == c.len = node.usage /\ c.got = node.read
(* The next pictures of the file, after the ones stored, wait in their order.*)
Counted(nodes, list, cs, done) ==
  /\ Cardinality(VideosIn(cs)) = done + Len(list)
  /\ \A i \in 1 .. Len(list) :
       /\ nodes[list[i]].chunk \in VideosIn(cs)
       /\ Cardinality(UpTo(cs, nodes[list[i]].chunk)) = done + i
       /\ Holds(nodes[list[i]], cs[nodes[list[i]].chunk])

LEMMA VideosGrow ==
  ASSUME NEW cs \in Seq(Chunks), NEW c \in Chunks
  PROVE  LET longer == Append(cs, c)
             n == Len(cs) + 1
         IN  /\ n \in Nat /\ IsFiniteSet(VideosIn(cs)) /\ Cardinality(VideosIn(cs)) \in Nat
             /\ VideosIn(cs) \subseteq 1 .. n - 1
             /\ \A m \in VideosIn(cs) : m \in VideosIn(longer) /\ UpTo(longer, m) = UpTo(cs, m)
                                        /\ longer[m] = cs[m]
             /\ c.kind # "video" => VideosIn(longer) = VideosIn(cs)
             /\ c.kind = "video" =>
                  /\ n \in VideosIn(longer) /\ longer[n] = c
                  /\ UpTo(longer, n) = VideosIn(longer)
                  /\ VideosIn(longer) = VideosIn(cs) \cup {n}
                  /\ Cardinality(VideosIn(longer)) = Cardinality(VideosIn(cs)) + 1
<1> DEFINE longer == Append(cs, c)
           n == Len(cs) + 1
           V == VideosIn(cs)
           W == VideosIn(longer)
<1>1. /\ Len(cs) \in Nat /\ DOMAIN cs = 1 .. Len(cs)
      /\ longer \in Seq(Chunks) /\ Len(longer) = n /\ DOMAIN longer = 1 .. n
      /\ \A k \in 1 .. Len(cs) : longer[k] = cs[k]
      /\ longer[n] = c
  BY LenProperties, AppendProperties, ElementOfSeq
<1> HIDE DEF longer
<1>2. n \in Nat /\ n - 1 = Len(cs) /\ n \notin 1 .. Len(cs) /\ 1 .. n = (1 .. Len(cs)) \cup {n}
  BY <1>1
<1> HIDE DEF n
<1>3. V \subseteq 1 .. Len(cs) /\ n \notin V
  BY <1>1, <1>2 DEF VideosIn
<1>4. W = V \cup (IF c.kind = "video" THEN {n} ELSE {})
  BY <1>1, <1>2 DEF VideosIn
<1>5. IsFiniteSet(V) /\ Cardinality(V) \in Nat
  <2>1. IsFiniteSet(1 .. Len(cs))
    BY <1>1, FS_Interval
  <2> QED BY <1>3, <2>1, FS_Subset, FS_CardinalityType
<1> HIDE DEF V, W
<1>6. \A m \in V : m \in W /\ m \in 1 .. Len(cs) /\ longer[m] = cs[m]
  BY <1>1, <1>3, <1>4
<1>7. ASSUME NEW m \in V PROVE UpTo(longer, m) = UpTo(cs, m)
  <2>1. UpTo(longer, m) = {k \in W : k <= m} /\ UpTo(cs, m) = {k \in V : k <= m}
    BY DEF UpTo, V, W
  <2>2. ~(n <= m)
    BY <1>1, <1>2, <1>6
  <2> QED BY <1>4, <2>1, <2>2
<1>8. ASSUME c.kind = "video"
      PROVE  /\ n \in W /\ UpTo(longer, n) = W /\ W = V \cup {n} /\ Cardinality(W) = Cardinality(V) + 1
  <2>1. W = V \cup {n}
    BY <1>4, <1>8
  <2>2. \A k \in W : k <= n
    BY <1>1, <1>2, <1>3, <2>1
  <2>3. UpTo(longer, n) = W
    BY <2>2 DEF UpTo, W
  <2>4. Cardinality(W) = Cardinality(V) + 1
    BY <1>3, <1>5, <2>1, FS_AddElement
  <2> QED BY <2>1, <2>3, <2>4
<1>9. c.kind # "video" => W = V
  BY <1>4
<1> QED BY <1>1, <1>2, <1>3, <1>5, <1>6, <1>7, <1>8, <1>9 DEF V, W, n, longer

(* A chunk that is no picture.                                               *)
LEMMA CountedStays ==
  ASSUME NEW cs \in Seq(Chunks), NEW c \in Chunks, c.kind # "video", NEW nodes, NEW after,
         NEW list, NEW done, SameNodes(nodes, after, list),
         Counted(nodes, list, cs, done)
  PROVE  Counted(after, list, Append(cs, c), done)
<1> DEFINE longer == Append(cs, c)
<1>1. /\ VideosIn(longer) = VideosIn(cs)
      /\ \A m \in VideosIn(cs) : UpTo(longer, m) = UpTo(cs, m) /\ longer[m] = cs[m]
  BY VideosGrow
<1> HIDE DEF longer
<1> QED BY <1>1 DEF Counted, SameNodes, longer

(* A picture: its node comes last.                                           *)
LEMMA CountedGrows ==
  ASSUME NEW cs \in Seq(Chunks), NEW c \in Chunks, c.kind = "video", NEW nodes, NEW after,
         NEW S, NEW list \in Seq(S), NEW x \in S, NEW done \in Nat,
         after[x].chunk = Len(cs) + 1, Holds(after[x], c),
         SameNodes(nodes, after, list),
         Counted(nodes, list, cs, done)
  PROVE  Counted(after, Append(list, x), Append(cs, c), done)
<1> DEFINE longer == Append(cs, c)
           n == Len(cs) + 1
           queue == Append(list, x)
           q == Len(list)
<1>1. /\ n \in Nat /\ Cardinality(VideosIn(cs)) \in Nat
      /\ \A m \in VideosIn(cs) : /\ m \in VideosIn(longer) /\ UpTo(longer, m) = UpTo(cs, m)
                                /\ longer[m] = cs[m]
      /\ n \in VideosIn(longer) /\ UpTo(longer, n) = VideosIn(longer) /\ longer[n] = c
      /\ Cardinality(VideosIn(longer)) = Cardinality(VideosIn(cs)) + 1
  BY VideosGrow
<1>2. /\ q \in Nat /\ Len(queue) = q + 1 /\ queue[q + 1] = x
      /\ \A i \in 1 .. q : queue[i] = list[i]
  BY LenProperties, AppendProperties
<1>3. /\ Cardinality(VideosIn(cs)) = done + q
      /\ \A i \in 1 .. q : /\ nodes[list[i]].chunk \in VideosIn(cs)
                           /\ Cardinality(UpTo(cs, nodes[list[i]].chunk)) = done + i
                           /\ Holds(nodes[list[i]], cs[nodes[list[i]].chunk])
  BY DEF Counted
<1> HIDE DEF longer, n, queue, q
<1>4. Cardinality(VideosIn(longer)) = done + (q + 1)
  BY <1>1, <1>2, <1>3
<1>5. ASSUME NEW i \in 1 .. q + 1
      PROVE  /\ after[queue[i]].chunk \in VideosIn(longer)
             /\ Cardinality(UpTo(longer, after[queue[i]].chunk)) = done + i
             /\ Holds(after[queue[i]], longer[after[queue[i]].chunk])
  <2>1. CASE i = q + 1
    <3>1. after[queue[i]].chunk = n /\ queue[i] = x
      BY <1>2, <2>1 DEF n
    <3> QED BY <1>1, <1>4, <2>1, <3>1
  <2>2. CASE i # q + 1
    <3>1. i \in 1 .. q
      BY <1>2, <2>2
    <3>2. after[queue[i]] = nodes[list[i]]
      BY <1>2, <3>1 DEF SameNodes, q
    <3> QED BY <1>1, <1>3, <3>1, <3>2
  <2> QED BY <2>1, <2>2
<1> QED BY <1>2, <1>4, <1>5 DEF Counted, longer, queue

(* The first picture is stored.                                              *)
SameChunks(nodes, after, list) ==
  \A i \in 1 .. Len(list) : /\ after[list[i]].chunk = nodes[list[i]].chunk
                            /\ after[list[i]].usage = nodes[list[i]].usage
                            /\ after[list[i]].read = nodes[list[i]].read
FirstIs(nodes, list, cs, n) == /\ nodes[Head(list)].chunk \in VideosIn(cs)
                               /\ Cardinality(UpTo(cs, nodes[Head(list)].chunk)) = n
                               /\ Holds(nodes[Head(list)], cs[nodes[Head(list)].chunk])
LEMMA CountedMoves ==
  ASSUME NEW cs, NEW nodes, NEW after, NEW S, NEW list \in Seq(S), list # <<>>, NEW done \in Nat,
         SameChunks(nodes, after, list), Counted(nodes, list, cs, done)
  PROVE  /\ Counted(after, Tail(list), cs, done + 1)
         /\ FirstIs(nodes, list, cs, done + 1)
<1> DEFINE rest == Tail(list)
           q == Len(list)
<1>1. /\ q \in Nat /\ q # 0 /\ Len(rest) = q - 1 /\ Head(list) = list[1]
      /\ \A i \in 1 .. q - 1 : rest[i] = list[i + 1]
  <2>1. q \in Nat /\ q # 0
    BY LenProperties, EmptySeq
  <2> QED BY <2>1, HeadTailProperties, LenProperties
<1>2. /\ Cardinality(VideosIn(cs)) = done + q
      /\ \A i \in 1 .. q : /\ nodes[list[i]].chunk \in VideosIn(cs)
                           /\ Cardinality(UpTo(cs, nodes[list[i]].chunk)) = done + i
                           /\ Holds(nodes[list[i]], cs[nodes[list[i]].chunk])
      /\ \A i \in 1 .. q : after[list[i]].chunk = nodes[list[i]].chunk
      /\ \A i \in 1 .. q : \A ch : Holds(after[list[i]], ch) <=> Holds(nodes[list[i]], ch)
  BY DEF Counted, SameChunks, Holds
<1> HIDE DEF rest, q
<1>3. ASSUME NEW i \in 1 .. q - 1
      PROVE  /\ after[rest[i]].chunk \in VideosIn(cs)
             /\ Cardinality(UpTo(cs, after[rest[i]].chunk)) = (done + 1) + i
             /\ Holds(after[rest[i]], cs[after[rest[i]].chunk])
  <2>1. i + 1 \in 1 .. q /\ rest[i] = list[i + 1]
    BY <1>1
  <2>2. /\ after[rest[i]].chunk = nodes[list[i + 1]].chunk
        /\ \A ch : Holds(after[rest[i]], ch) <=> Holds(nodes[list[i + 1]], ch)
    BY <1>2, <2>1
  <2> QED BY <1>2, <2>1, <2>2
<1>4. Cardinality(VideosIn(cs)) = (done + 1) + (q - 1) /\ 1 \in 1 .. q
  BY <1>1, <1>2
<1> QED BY <1>1, <1>2, <1>3, <1>4 DEF Counted, FirstIs, rest

AudioInfo == [channels : Nat, frequency : Nat, bytespersecond : Nat, bytesperframe : Nat]
AviTypes ==
  /\ bufNode \in Seq(AviNode) /\ chunks \in Seq(Chunks) /\ lastPal \in BOOLEAN
  /\ audio_info \in AudioInfo
  /\ \E S : aviOut \in Seq(S)
  /\ aviPc = "header" => chunks = <<>>
(* The queue of sound has no gap and goes up to what was read; it begins     *)
(* where the frames stored end.                                              *)
SoundInOrder ==
  /\ Chained(bufNode, audio_bufs) /\ EndsAt(bufNode, audio_bufs, Heard)
  /\ Filled(bufNode, audio_bufs, SoundFound)
  /\ OneStandard => /\ BeginOf(bufNode, audio_bufs, Heard) = Len(aviOut) * Needed
                    /\ Len(aviOut) * Needed <= Heard
(* Only the end of the file cuts a chunk off.                                *)
CutAtEnd == SoundFound <= Heard /\ (Uncut => SoundFound = Heard)
PicturesInOrder == Counted(bufNode, video_bufs, chunks, Len(aviOut))
(* With one standard the frames of sound have one size.                      *)
StandardKept ==
  OneStandard =>
    \A k \in Numbers :
      /\ lastPal = (chunks[k].len = Pal)
      /\ Needed = audio_info.bytespersecond \div (IF chunks[k].len = Pal THEN 25 ELSE 30)

(* What AviPairsInOrder says of a frame.                                     *)
PairOf(out, n, cs, needed, found) ==
  /\ out.chunk \in VideosIn(cs) /\ Cardinality(UpTo(cs, out.chunk)) = n
  /\ out.pal = (cs[out.chunk].len = Pal)
  /\ out.sound[1][1] = (n - 1) * needed
  /\ \A k \in 1 .. Len(out.sound) - 1 :
       out.sound[k + 1][1] = out.sound[k][1] + out.sound[k][2]
  /\ Last(out.sound)[1] + Last(out.sound)[2] = n * needed
  /\ out.whole <=> n * needed <= found /\ cs[out.chunk].got = cs[out.chunk].len
OneLength(cs) == \A j, k \in VideosIn(cs) : cs[j].len = cs[k].len
StandardIs(cs, pal, info) ==
  \A k \in VideosIn(cs) :
    /\ pal = (cs[k].len = Pal)
    /\ info.bytesperframe = info.bytespersecond \div (IF cs[k].len = Pal THEN 25 ELSE 30)
FramesPaired ==
  OneLength(chunks) =>
    \A n \in DOMAIN aviOut : PairOf(aviOut[n], n, chunks, Needed, SoundFound)
PairsInv == /\ AviInv /\ AviTypes /\ SoundInOrder /\ CutAtEnd /\ PicturesInOrder
            /\ StandardKept /\ FramesPaired

LEMMA InTheseWords ==
  /\ OneStandard <=> OneLength(chunks)
  /\ StandardKept <=> (OneLength(chunks) => StandardIs(chunks, lastPal, audio_info))
<1>1. Numbers = VideosIn(chunks)
  BY DEF Numbers, VideosIn
<1> QED BY <1>1 DEF OneStandard, OneLength, StandardKept, StandardIs, Needed

LEMMA InTheseWordsNext ==
  /\ OneStandard' <=> OneLength(chunks')
  /\ StandardKept' <=> (OneLength(chunks') => StandardIs(chunks', lastPal', audio_info'))
<1>1. Numbers' = VideosIn(chunks')
  BY DEF Numbers, VideosIn
<1> QED BY <1>1 DEF OneStandard, OneLength, StandardKept, StandardIs, Needed

LEMMA PairedMeansInOrder == PairsInv /\ ~StoreRefuses => AviPairsInOrder
<1> SUFFICES ASSUME PairsInv, ~StoreRefuses PROVE AviPairsInOrder
  OBVIOUS
<1>1. Numbers = VideosIn(chunks)
  BY DEF Numbers, VideosIn
<1>2. OneStandard => \A n \in DOMAIN aviOut : PairOf(aviOut[n], n, chunks, Needed, SoundFound)
  BY InTheseWords DEF PairsInv, FramesPaired
<1> QED BY <1>1, <1>2 DEF AviPairsInOrder, PairOf, UpTo

(* A chunk that comes behind others that were read in full.                  *)
LEMMA SoundGoesOn ==
  ASSUME PairsInv, Uncut, NEW c \in Chunks, c.got <= c.len, chunks' = Append(chunks, c)
  PROVE  /\ Heard \in Int /\ SoundFound = Heard /\ CutAtEnd'
         /\ Heard' = Heard + (IF c.kind = "audio" THEN c.len ELSE 0)
         /\ SoundFound' = SoundFound + (IF c.kind = "audio" THEN c.got ELSE 0)
         /\ Heard' \in Int /\ SoundFound' \in Int /\ Heard <= Heard' /\ SoundFound <= SoundFound'
<1>1. chunks \in Seq(Chunks) /\ Len(chunks) \in Nat
  BY LenProperties DEF PairsInv, AviTypes
<1>2. c.len \in Nat /\ c.got \in Nat
  BY DEF Chunks
<1>3. /\ HeardIn(chunks) \in Int /\ FoundIn(chunks) \in Int
      /\ HeardIn(chunks') = HeardIn(chunks) + (IF c.kind = "audio" THEN c.len ELSE 0)
      /\ FoundIn(chunks') = FoundIn(chunks) + (IF c.kind = "audio" THEN c.got ELSE 0)
  BY <1>1, HeardGrows
<1>4. SoundFound = Heard
  BY DEF PairsInv, CutAtEnd
<1>5. Uncut' => c.got = c.len
  <2>1. Len(chunks') = Len(chunks) + 1 /\ chunks'[Len(chunks) + 1] = c /\ chunks' # <<>>
    <3>1. Len(<<>>) = 0
      BY EmptySeq
    <3> QED BY <1>1, <3>1, AppendProperties
  <2>2. Last(chunks') = c
    BY <2>1 DEF Last
  <2> QED BY <2>1, <2>2 DEF Uncut
<1>6. /\ Heard \in Int /\ SoundFound \in Int
      /\ Heard' = Heard + (IF c.kind = "audio" THEN c.len ELSE 0)
      /\ SoundFound' = SoundFound + (IF c.kind = "audio" THEN c.got ELSE 0)
  BY <1>3, HeardIsTotal
<1>7. CASE c.kind = "audio"
  BY <1>2, <1>4, <1>5, <1>6, <1>7 DEF CutAtEnd
<1>8. CASE c.kind # "audio"
  BY <1>4, <1>6, <1>8 DEF CutAtEnd
<1> QED BY <1>7, <1>8

LEMMA TimesGrows ==
  ASSUME NEW i \in Nat, NEW n \in Nat, i <= n, NEW needed \in Nat
  PROVE  i * needed <= n * needed
<1>1. PICK d \in Nat : n = i + d
  <2>1. n - i \in Nat /\ n = i + (n - i)
    OBVIOUS
  <2> QED BY <2>1
<1>2. n * needed = i * needed + d * needed
  BY <1>1
<1>3. d * needed \in Nat /\ i * needed \in Nat
  BY SMT
<1> QED BY <1>2, <1>3

(* What is found of a chunk is a part of it.                                 *)
LEMMA FoundOfChunk ==
  \A len \in Nat : \A got \in Found(len) : got \in Nat /\ got <= len
<1> SUFFICES ASSUME NEW len \in Nat, NEW got \in Found(len) PROVE got \in Nat /\ got <= len
  OBVIOUS
<1>1. Cuts \subseteq Nat
  BY AviAssumption
<1>2. got = len \/ (got \in Cuts /\ got < len)
  BY Zenon DEF Found
<1>3. CASE got = len
  BY <1>3
<1>4. CASE got \in Cuts /\ got < len
  <2>1. got \in Nat
    BY <1>1, <1>4
  <2> QED BY <1>4, <2>1
<1> QED BY <1>2, <1>3, <1>4

(* A chunk is read, and if it is a picture, the size of a frame is set.      *)
LEMMA ChunkIsRead ==
  ASSUME PairsInv, Uncut, NEW c \in Chunks, c.got <= c.len, chunks' = Append(chunks, c),
         UNCHANGED aviOut,
         c.kind # "video" => UNCHANGED <<lastPal, audio_info>>,
         c.kind = "video" =>
           /\ lastPal' = (c.len = Pal)
           /\ audio_info' = [audio_info EXCEPT !.bytesperframe =
                               audio_info.bytespersecond \div (IF c.len = Pal THEN 25 ELSE 30)]
  PROVE  /\ StandardKept' /\ FramesPaired'
         /\ OneStandard' => /\ OneStandard /\ Len(aviOut) * Needed' = Len(aviOut) * Needed
                            /\ Len(aviOut) * Needed <= Heard'
<1> DEFINE V == VideosIn(chunks)
           W == VideosIn(chunks')
           n == Len(chunks) + 1
           out == Len(aviOut)
<1>1. /\ n \in Nat /\ V \subseteq W /\ chunks \in Seq(Chunks)
      /\ IsFiniteSet(V) /\ Cardinality(V) \in Nat
      /\ \A m \in V : UpTo(chunks', m) = UpTo(chunks, m) /\ chunks'[m] = chunks[m]
      /\ c.kind # "video" => W = V
      /\ c.kind = "video" => n \in W /\ chunks'[n] = c /\ W = V \cup {n}
  BY VideosGrow DEF PairsInv, AviTypes
<1>2. /\ out \in Nat /\ DOMAIN aviOut = 1 .. out
      /\ Cardinality(V) = out + Len(video_bufs) /\ Len(video_bufs) \in Nat
      /\ out # 0 => V # {}
  <2>1. out \in Nat /\ DOMAIN aviOut = 1 .. out
    BY LenProperties DEF PairsInv, AviTypes
  <2>2. Cardinality(V) = out + Len(video_bufs)
    BY DEF PairsInv, PicturesInOrder, Counted
  <2>3. Len(video_bufs) \in Nat
    BY LenProperties DEF PairsInv, AviInv, NodesKnown
  <2>4. Cardinality({}) = 0
    BY FS_EmptySet
  <2> HIDE DEF V, out
  <2>5. ASSUME V = {} PROVE out = 0
    <3>1. Cardinality(V) = 0
      BY <2>4, <2>5, Zenon
    <3> QED BY <2>1, <2>2, <2>3, <3>1
  <2> QED BY <2>1, <2>2, <2>3, <2>5
<1>3. /\ OneLength(chunks) => StandardIs(chunks, lastPal, audio_info)
      /\ OneLength(chunks) =>
           \A i \in 1 .. out : PairOf(aviOut[i], i, chunks, Needed, SoundFound)
  BY <1>2, InTheseWords DEF PairsInv, FramesPaired
<1>4. OneLength(chunks') => OneLength(chunks)
  <2> SUFFICES ASSUME OneLength(chunks'), NEW j \in V, NEW k \in V
               PROVE  chunks[j].len = chunks[k].len
    BY DEF OneLength
  <2>1. chunks'[j].len = chunks'[k].len
    BY <1>1, Zenon DEF OneLength
  <2>2. chunks'[j] = chunks[j] /\ chunks'[k] = chunks[k]
    BY <1>1, Zenon
  <2> QED BY <2>1, <2>2, Zenon
<1> HIDE DEF V, W, n, out
<1>5. ASSUME OneLength(chunks')
      PROVE  /\ StandardIs(chunks', lastPal', audio_info')
             /\ V # {} => Needed' = Needed
  <2>1. StandardIs(chunks, lastPal, audio_info)
    BY <1>3, <1>4, <1>5
  <2>2. CASE c.kind # "video"
    BY <1>1, <2>1, <2>2, ZenonT(40) DEF StandardIs, V, W, Needed
  <2>3. CASE c.kind = "video"
    <3> DEFINE rate(len) == audio_info.bytespersecond \div (IF len = Pal THEN 25 ELSE 30)
    <3>1. /\ audio_info'.bytespersecond = audio_info.bytespersecond
          /\ Needed' = rate(c.len) /\ audio_info'.bytesperframe = rate(c.len)
      BY <2>3 DEF PairsInv, AviTypes, AudioInfo, Needed
    <3>2. \A k \in W : chunks'[k].len = c.len
      <4>1. n \in W /\ chunks'[n] = c
        BY <1>1, <2>3
      <4>2. \A k \in W : chunks'[k].len = chunks'[n].len
        BY <1>5, <4>1, Zenon DEF OneLength, W
      <4> QED BY <4>1, <4>2, Zenon
    <3>3. StandardIs(chunks', lastPal', audio_info')
      BY <2>3, <3>1, <3>2 DEF StandardIs, W
    <3>4. ASSUME NEW k \in V PROVE Needed' = Needed
      <4>1. k \in W /\ chunks[k].len = c.len
        BY <1>1, <3>2
      <4>2. Needed = rate(c.len)
        BY <2>1, <4>1 DEF StandardIs, Needed, V
      <4> QED BY <3>1, <4>2
    <3> QED BY <3>3, <3>4
  <2> QED BY <2>2, <2>3
<1>6. ASSUME OneLength(chunks'), NEW i \in DOMAIN aviOut'
      PROVE  PairOf(aviOut'[i], i, chunks', Needed', SoundFound')
  <2>1. aviOut' = aviOut /\ i \in 1 .. out /\ V # {}
    BY <1>2, <1>6
  <2>2. PairOf(aviOut[i], i, chunks, Needed, SoundFound) /\ Needed' = Needed
    BY <1>3, <1>4, <1>5, <1>6, <2>1
  <2>3. /\ aviOut[i].chunk \in V
    BY <2>2 DEF PairOf, V
  <2>4. /\ aviOut[i].chunk \in VideosIn(chunks')
        /\ UpTo(chunks', aviOut[i].chunk) = UpTo(chunks, aviOut[i].chunk)
        /\ chunks'[aviOut[i].chunk] = chunks[aviOut[i].chunk]
    BY <1>1, <2>3 DEF W
  <2>5. i * Needed <= SoundFound /\ i * Needed <= SoundFound'
    <3>1. out * Needed <= Heard
      BY <1>4, <1>6, InTheseWords DEF PairsInv, SoundInOrder, out
    <3>2. Needed \in Nat /\ i \in Nat /\ i <= out
      BY <1>2, <2>1 DEF PairsInv, AviTypes, AudioInfo, Needed
    <3>3. i * Needed <= out * Needed
      BY <1>2, <3>2, TimesGrows
    <3>4. Heard \in Int /\ SoundFound = Heard /\ SoundFound' \in Int /\ SoundFound <= SoundFound'
      BY SoundGoesOn
    <3>5. i * Needed \in Int /\ out * Needed \in Int
      BY <1>2, <3>2
    <3> DEFINE a == i * Needed
               d == out * Needed
    <3>6. a <= d /\ d <= Heard /\ a \in Int /\ d \in Int
      BY <3>1, <3>3, <3>5
    <3> HIDE DEF a, d
    <3>7. a <= SoundFound /\ a <= SoundFound'
      BY <3>4, <3>6
    <3> QED BY <3>7 DEF a
  <2> QED BY <2>1, <2>2, <2>4, <2>5 DEF PairOf
<1>7. OneLength(chunks') => out * Needed' = out * Needed
  <2> SUFFICES ASSUME OneLength(chunks') PROVE out * Needed' = out * Needed
    OBVIOUS
  <2>1. CASE out = 0
    <3>1. Needed \in Int /\ Needed' \in Int
      <4>1. Needed \in Int /\ audio_info.bytespersecond \in Int
        BY DEF PairsInv, AviTypes, AudioInfo, Needed
      <4>2. CASE c.kind # "video"
        BY <4>1, <4>2 DEF Needed
      <4>3. CASE c.kind = "video"
        BY <4>1, <4>3 DEF PairsInv, AviTypes, AudioInfo, Needed
      <4> QED BY <4>2, <4>3
    <3> QED BY <2>1, <3>1
  <2>2. CASE out # 0
    BY <1>2, <1>5, <2>2
  <2> QED BY <2>1, <2>2
<1>8. OneStandard' => OneStandard /\ out * Needed' = out * Needed /\ out * Needed <= Heard'
  <2> SUFFICES ASSUME OneStandard'
               PROVE  OneStandard /\ out * Needed' = out * Needed /\ out * Needed <= Heard'
    OBVIOUS
  <2>1. OneStandard /\ out * Needed' = out * Needed
    BY <1>4, <1>7, InTheseWords, InTheseWordsNext
  <2>2. out * Needed <= Heard
    BY <2>1 DEF PairsInv, SoundInOrder, out
  <2>3. Heard \in Int /\ Heard' \in Int /\ Heard <= Heard'
    BY SoundGoesOn
  <2>4. out * Needed \in Int
    BY <1>2 DEF PairsInv, AviTypes, AudioInfo, Needed
  <2> DEFINE d == out * Needed
  <2>5. d <= Heard /\ d \in Int
    BY <2>2, <2>4
  <2> HIDE DEF d
  <2>6. d <= Heard'
    BY <2>3, <2>5
  <2> QED BY <2>1, <2>6 DEF d
<1>9. StandardKept' /\ FramesPaired'
  BY <1>5, <1>6, InTheseWordsNext DEF FramesPaired
<1> QED BY <1>8, <1>9 DEF out

(* A free node is used or one is added: the ones in the queues stay.         *)
LEMMA NodeIsUsed ==
  ASSUME PairsInv, NEW content \in AviNode,
         bufNode' = IF free_list = <<>> THEN Append(bufNode, content)
                    ELSE [bufNode EXCEPT ![Head(free_list)] = content]
  PROVE  /\ bufNode' \in Seq(AviNode) /\ bufNode'[Block] = content
         /\ SameNodes(bufNode, bufNode', audio_bufs)
         /\ SameNodes(bufNode, bufNode', video_bufs)
<1>1. /\ bufNode \in Seq(AviNode) /\ Len(bufNode) \in Nat /\ DOMAIN bufNode = 1 .. Len(bufNode)
      /\ free_list \in Seq(Ids) /\ audio_bufs \in Seq(Ids) /\ video_bufs \in Seq(Ids)
  BY LenProperties DEF PairsInv, AviTypes, AviInv, NodesKnown
<1>2. free_list # <<>> => Block \notin Listed(video_bufs) \cup Listed(audio_bufs)
  <2> SUFFICES ASSUME free_list # <<>>
               PROVE  Block \notin Listed(video_bufs) \cup Listed(audio_bufs)
    OBVIOUS
  <2>1. Head(free_list) \in Listed(free_list) /\ Block = Head(free_list)
    BY <1>1, ListedTail DEF PairsInv, AviInv, ListsApart, Block
  <2> QED BY <2>1 DEF PairsInv, AviInv, ListsApart
<1>3. free_list = <<>> => Block \notin Ids
  BY <1>1 DEF Block, Ids
<1>4. /\ \A i \in 1 .. Len(audio_bufs) : audio_bufs[i] # Block /\ audio_bufs[i] \in Ids
      /\ \A i \in 1 .. Len(video_bufs) : video_bufs[i] # Block /\ video_bufs[i] \in Ids
  BY <1>1, <1>2, <1>3, ElementOfSeq DEF Listed
<1>5. CASE free_list = <<>>
  <2>1. bufNode' = Append(bufNode, content) /\ Block = Len(bufNode) + 1
    BY <1>5 DEF Block
  <2>2. /\ Append(bufNode, content) \in Seq(AviNode)
        /\ Append(bufNode, content)[Len(bufNode) + 1] = content
        /\ \A id \in 1 .. Len(bufNode) : Append(bufNode, content)[id] = bufNode[id]
    <3>1. bufNode \in Seq(AviNode)
      BY <1>1
    <3> QED BY <3>1, AppendProperties
  <2> QED BY <1>4, <2>1, <2>2 DEF SameNodes, Ids
<1>6. CASE free_list # <<>>
  <2>1. /\ bufNode' = [bufNode EXCEPT ![Head(free_list)] = content] /\ Block = Head(free_list)
    BY <1>6 DEF Block
  <2>2. Block \in 1 .. Len(bufNode)
    BY <1>1, <1>6, <2>1, HeadTailProperties DEF Ids
  <2>3. /\ bufNode' \in Seq(AviNode) /\ bufNode'[Block] = content
        /\ \A id \in Ids : id # Block => bufNode'[id] = bufNode[id]
    BY <1>1, <2>1, <2>2, ExceptSeq DEF Ids
  <2> QED BY <1>4, <2>3 DEF SameNodes
<1> QED BY <1>5, <1>6

LEMMA FreeBlockKeeps ==
  ASSUME PairsInv, NEW content \in AviNode, GetFreeBlock(content)
  PROVE  /\ bufNode' \in Seq(AviNode) /\ bufNode'[Block] = content
         /\ SameNodes(bufNode, bufNode', audio_bufs)
         /\ SameNodes(bufNode, bufNode', video_bufs)
BY NodeIsUsed DEF GetFreeBlock

(* Nothing is read or stored.                                                *)
LEMMA PairsStay ==
  ASSUME PairsInv, UNCHANGED <<queues, lastPal, chunks, aviOut>>,
         audio_info' = audio_info /\ (aviPc' = "header" => aviPc = "header")
  PROVE  PairsInv'
<1>1. AviInv'
  BY DEF PairsInv, queues, AviInv, NodesKnown, ListsApart, Ids
<1>2. AviTypes'
  BY DEF PairsInv, queues, AviTypes
<1>3. Heard' = Heard /\ SoundFound' = SoundFound
  BY HeardIsTotal
<1>4. SoundInOrder' /\ CutAtEnd' /\ PicturesInOrder'
  BY <1>3 DEF PairsInv, queues, SoundInOrder, CutAtEnd, Uncut, PicturesInOrder, OneStandard, Numbers,
              Needed
<1>5. StandardKept' /\ FramesPaired'
  BY <1>3, InTheseWords, InTheseWordsNext DEF PairsInv, FramesPaired, Needed
<1> QED BY <1>1, <1>2, <1>4, <1>5 DEF PairsInv

(* Nothing has been read yet, the size of a frame is not known.              *)
LEMMA HeaderPairs ==
  ASSUME PairsInv, ReadHeader
  PROVE  PairsInv'
<1>1. /\ UNCHANGED <<queues, lastPal, chunks, aviOut>> /\ aviPc' = "read" /\ chunks = <<>>
  BY DEF ReadHeader, PairsInv, AviTypes
<1>2. AviInv'
  BY <1>1 DEF PairsInv, queues, AviInv, NodesKnown, ListsApart, Ids
<1>3. /\ audio_info' \in AudioInfo
      /\ Needed' = Needed
  <2>1. PICK h \in AviHeaders :
          audio_info' = IF AudioStream(h) = {} THEN audio_info
                        ELSE LET s == h.streams[CHOOSE k \in AudioStream(h) : TRUE]
                             IN [audio_info EXCEPT !.channels = s.channels,
                                                   !.frequency = s.frequency,
                                                   !.bytespersecond = s.bytespersecond]
    BY DEF ReadHeader
  <2>2. audio_info \in AudioInfo
    BY DEF PairsInv, AviTypes
  <2>3. CASE AudioStream(h) = {}
    BY <2>1, <2>2, <2>3 DEF Needed
  <2>4. CASE AudioStream(h) # {}
    <3> DEFINE k == CHOOSE j \in AudioStream(h) : TRUE
               s == h.streams[k]
    <3>1. k \in AudioStream(h)
      BY <2>4
    <3>2. k \in DOMAIN h.streams
      <4> HIDE DEF k
      <4> QED BY <3>1 DEF AudioStream
    <3>3. s.channels \in Nat /\ s.frequency \in Nat /\ s.bytespersecond \in Nat
      BY <3>2, AviAssumption
    <3>4. audio_info' = [audio_info EXCEPT !.channels = s.channels,
                                           !.frequency = s.frequency,
                                           !.bytespersecond = s.bytespersecond]
      BY <2>1, <2>4
    <3> HIDE DEF s, k
    <3> QED BY <2>2, <3>3, <3>4 DEF AudioInfo, Needed
  <2> QED BY <2>3, <2>4
<1>4. AviTypes'
  BY <1>1, <1>3 DEF PairsInv, queues, AviTypes
<1>5. Heard' = Heard /\ SoundFound' = SoundFound
  BY <1>1, HeardIsTotal
<1>6. SoundInOrder' /\ CutAtEnd' /\ PicturesInOrder'
  BY <1>1, <1>3, <1>5 DEF PairsInv, queues, SoundInOrder, CutAtEnd, Uncut, PicturesInOrder,
                          OneStandard, Numbers
<1>7. VideosIn(chunks') = {}
  BY <1>1 DEF VideosIn
<1>8. StandardKept'
  BY <1>7, InTheseWordsNext DEF StandardIs
<1>9. FramesPaired'
  BY <1>1, <1>3, <1>5 DEF PairsInv, FramesPaired
<1> QED BY <1>2, <1>4, <1>6, <1>8, <1>9 DEF PairsInv

LEMMA NodeGetsMore ==
  ASSUME NEW node \in AviNode, NEW len \in Nat, NEW got \in Nat
  PROVE  [node EXCEPT !.usage = @ + len, !.read = @ + got] \in AviNode
<1>1. node.usage + len \in Int /\ node.read + got \in Int
  BY DEF AviNode
<1> QED BY <1>1 DEF AviNode

LEMMA AudioPairs ==
  ASSUME PairsInv, Uncut, NEW len \in AudioLengths, NEW got \in Found(len), ReadAudio(len, got)
  PROVE  PairsInv'
<1>1. CASE UNCHANGED <<queues, audio_info, lastPal, chunks, aviOut>> /\ aviPc' # "header"
  BY <1>1, PairsStay
<1>2. CASE ~(UNCHANGED <<queues, audio_info, lastPal, chunks, aviOut>> /\ aviPc' # "header")
  <2> DEFINE c == Chunk("audio", len, got)
             fits == audio_bufs # <<>> /\ bufNode[Last(audio_bufs)].usage + len <= NodeSize
  <2>1. /\ len \in Nat /\ got \in Nat /\ got <= len
        /\ c \in Chunks /\ c.kind = "audio" /\ c.len = len /\ c.got = got
        /\ chunks' = Append(chunks, c) /\ aviPc' = "queue"
        /\ UNCHANGED <<audio_info, video_bufs, lastPal, aviOut, rawOut>>
        /\ IF fits
           THEN /\ bufNode' = [bufNode EXCEPT ![Last(audio_bufs)].usage = @ + len,
                                             ![Last(audio_bufs)].read = @ + got]
                /\ UNCHANGED <<free_list, audio_bufs>>
           ELSE /\ GetFreeBlock([chunk |-> 0, from |-> Heard, usage |-> len, read |-> got,
                                 processed |-> 0])
                /\ audio_bufs' = Append(audio_bufs, Block)
    <3>1. len \in Nat /\ got \in Nat /\ got <= len
      <4>1. len \in Nat
        BY AviAssumption
      <4> QED BY <4>1, FoundOfChunk
    <3>2. c \in Chunks /\ c.kind = "audio" /\ c.len = len /\ c.got = got
      BY <3>1 DEF Chunk, Chunks
    <3>3. /\ fits \/ ~Limited
          /\ IF fits
             THEN /\ bufNode' = [bufNode EXCEPT ![Last(audio_bufs)].usage = @ + len,
                                               ![Last(audio_bufs)].read = @ + got]
                  /\ UNCHANGED <<free_list, audio_bufs>>
             ELSE /\ GetFreeBlock([chunk |-> 0, from |-> Heard, usage |-> len, read |-> got,
                                   processed |-> 0])
                  /\ audio_bufs' = Append(audio_bufs, Block)
          /\ chunks' = Append(chunks, c) /\ aviPc' = "queue"
          /\ UNCHANGED <<audio_info, video_bufs, lastPal, aviOut, rawOut>>
      BY <1>2 DEF ReadAudio, AtLimit
    <3> QED BY <3>1, <3>2, <3>3
  <2>2. AviInv'
    BY AudioApart DEF PairsInv
  <2> HIDE DEF c
  <2>3. /\ Heard \in Int /\ SoundFound = Heard /\ CutAtEnd' /\ Heard' = Heard + len
        /\ SoundFound' = SoundFound + got
    BY <2>1, SoundGoesOn
  <2>4. /\ StandardKept' /\ FramesPaired'
        /\ OneStandard' => /\ OneStandard /\ Len(aviOut) * Needed' = Len(aviOut) * Needed
                           /\ Len(aviOut) * Needed <= Heard'
    BY <2>1, ChunkIsRead
  <2>5. /\ bufNode' \in Seq(AviNode)
        /\ SameNodes(bufNode, bufNode', video_bufs)
        /\ Chained(bufNode', audio_bufs') /\ EndsAt(bufNode', audio_bufs', Heard')
        /\ BeginOf(bufNode', audio_bufs', Heard') = BeginOf(bufNode, audio_bufs, Heard)
        /\ Filled(bufNode', audio_bufs', SoundFound')
    <3>1. /\ bufNode \in Seq(AviNode) /\ audio_bufs \in Seq(Ids) /\ video_bufs \in Seq(Ids)
          /\ NoRepeats(audio_bufs) /\ Listed(video_bufs) \cap Listed(audio_bufs) = {}
          /\ Chained(bufNode, audio_bufs) /\ EndsAt(bufNode, audio_bufs, Heard)
          /\ Filled(bufNode, audio_bufs, SoundFound)
      BY DEF PairsInv, AviTypes, AviInv, NodesKnown, ListsApart, SoundInOrder
    <3>2. CASE fits
      <4> DEFINE x == audio_bufs[Len(audio_bufs)]
      <4>1. /\ bufNode' = [bufNode EXCEPT ![x].usage = @ + len, ![x].read = @ + got]
            /\ audio_bufs' = audio_bufs
            /\ audio_bufs # <<>>
        BY <2>1, <3>2 DEF Last
      <4>2. /\ Chained(bufNode', audio_bufs) /\ EndsAt(bufNode', audio_bufs, Heard + len)
            /\ BeginOf(bufNode', audio_bufs, Heard + len) = BeginOf(bufNode, audio_bufs, Heard)
            /\ Filled(bufNode', audio_bufs, SoundFound + got)
        <5>1. /\ MoreSound(bufNode, bufNode', audio_bufs, len, got)
              /\ Filled(bufNode, audio_bufs, SoundFound) /\ SoundFound \in Int
              /\ audio_bufs \in Seq(1 .. Len(bufNode)) /\ bufNode \in Seq(AviNode)
              /\ NoRepeats(audio_bufs) /\ audio_bufs # <<>> /\ len \in Int /\ Heard \in Int
              /\ Chained(bufNode, audio_bufs) /\ EndsAt(bufNode, audio_bufs, Heard)
          BY <2>1, <2>3, <3>1, <4>1 DEF Ids, MoreSound
        <5> HIDE DEF x, fits
        <5>2. got \in Int /\ got \in Nat
          BY <2>1
        <5>3. /\ Chained(bufNode', audio_bufs) /\ EndsAt(bufNode', audio_bufs, Heard + len)
              /\ BeginOf(bufNode', audio_bufs, Heard + len) = BeginOf(bufNode, audio_bufs, Heard)
          BY <5>1, <5>2, ChainExtends
        <5>4. Filled(bufNode', audio_bufs, SoundFound + got)
          BY <5>1, <5>2, FilledExtends
        <5> QED BY <5>3, <5>4
      <4>3. Len(audio_bufs) \in 1 .. Len(audio_bufs)
        BY <3>1, <4>1, EmptySeq, LenProperties
      <4>4. x \in 1 .. Len(bufNode) /\ x \in Listed(audio_bufs)
        BY <3>1, <4>3, ElementOfSeq DEF Listed, Ids
      <4>5. bufNode' \in Seq(AviNode)
        <5> DEFINE new == [bufNode[x] EXCEPT !.usage = @ + len, !.read = @ + got]
        <5>1. bufNode[x] \in AviNode
          BY <3>1, <4>4, ElementOfSeq
        <5>2. new \in AviNode
          BY <2>1, <5>1, NodeGetsMore
        <5>3. bufNode' = [bufNode EXCEPT ![x] = new]
          BY <4>1
        <5> HIDE DEF new, x
        <5> QED BY <3>1, <4>4, <5>2, <5>3, ExceptSeq
      <4>6. SameNodes(bufNode, bufNode', video_bufs)
        <5> SUFFICES ASSUME NEW i \in 1 .. Len(video_bufs)
                     PROVE  bufNode'[video_bufs[i]] = bufNode[video_bufs[i]]
          BY DEF SameNodes
        <5>1. video_bufs[i] # x /\ video_bufs[i] \in 1 .. Len(bufNode)
          BY <3>1, <4>4, ElementOfSeq, ZenonT(40) DEF Listed, Ids
        <5>2. DOMAIN bufNode = 1 .. Len(bufNode)
          BY <3>1, LenProperties
        <5> HIDE DEF x
        <5> QED BY <4>1, <5>1, <5>2
      <4> QED BY <2>3, <4>1, <4>2, <4>5, <4>6
    <3>3. CASE ~fits
      <4> DEFINE node == [chunk |-> 0, from |-> Heard, usage |-> len, read |-> got,
                          processed |-> 0]
      <4>1. GetFreeBlock(node) /\ audio_bufs' = Append(audio_bufs, Block)
        BY <2>1, <3>3
      <4>2. node \in AviNode
        BY <2>1, <2>3 DEF AviNode
      <4>3. Block \in Ids' /\ audio_bufs \in Seq(Ids')
        BY <4>1, FreeBlockApart, OtherLists DEF PairsInv
      <4>4. /\ bufNode' \in Seq(AviNode) /\ bufNode'[Block] = node
            /\ SameNodes(bufNode, bufNode', audio_bufs) /\ SameNodes(bufNode, bufNode', video_bufs)
        BY <4>1, <4>2, FreeBlockKeeps
      <4> HIDE DEF fits
      <4>5. /\ Chained(bufNode', Append(audio_bufs, Block))
            /\ EndsAt(bufNode', Append(audio_bufs, Block), Heard + len)
            /\ BeginOf(bufNode', Append(audio_bufs, Block), Heard + len)
                 = BeginOf(bufNode, audio_bufs, Heard)
            /\ Filled(bufNode', Append(audio_bufs, Block), SoundFound + got)
        <5>1. /\ NewSound(bufNode', Block, Heard, len)
              /\ audio_bufs \in Seq(Ids') /\ Block \in Ids' /\ len \in Int /\ Heard \in Int
              /\ Chained(bufNode, audio_bufs) /\ EndsAt(bufNode, audio_bufs, Heard)
              /\ SameNodes(bufNode, bufNode', audio_bufs)
          BY <2>1, <2>3, <3>1, <4>3, <4>4 DEF NewSound, FromOf, ToOf
        <5> DEFINE ids == Ids'
                   x == Block
        <5>2. audio_bufs \in Seq(ids) /\ x \in ids
          BY <5>1
        <5>3. NewSound(bufNode', x, Heard, len)
          BY <5>1
        <5>5. /\ bufNode'[x].from = SoundFound /\ bufNode'[x].read = got
              /\ SoundFound \in Int /\ got \in Nat
              /\ EndsAt(bufNode, audio_bufs, SoundFound) /\ Filled(bufNode, audio_bufs, SoundFound)
          BY <2>1, <2>3, <3>1, <4>4
        <5>6. \A i \in 1 .. Len(audio_bufs) : bufNode[audio_bufs[i]] \in AviNode
          BY <3>1, ElementOfSeq DEF Ids
        <5> HIDE DEF node, ids, x
        <5>4. /\ Chained(bufNode', Append(audio_bufs, x))
              /\ EndsAt(bufNode', Append(audio_bufs, x), Heard + len)
              /\ BeginOf(bufNode', Append(audio_bufs, x), Heard + len)
                   = BeginOf(bufNode, audio_bufs, Heard)
          BY <5>1, <5>2, <5>3, ChainStarts
        <5>7. Filled(bufNode', Append(audio_bufs, x), SoundFound + got)
          BY <5>1, <5>2, <5>5, <5>6, FilledStarts
        <5> QED BY <5>4, <5>7 DEF x
      <4> QED BY <2>3, <4>1, <4>4, <4>5
    <3> QED BY <3>2, <3>3
  <2>6. AviTypes'
    <3>1. Append(chunks, c) \in Seq(Chunks)
      BY <2>1, AppendProperties DEF PairsInv, AviTypes
    <3> QED BY <2>1, <2>5, <3>1 DEF PairsInv, AviTypes
  <2>7. SoundInOrder'
    <3>1. OneStandard' => /\ BeginOf(bufNode', audio_bufs', Heard') = Len(aviOut) * Needed'
                          /\ Len(aviOut) * Needed' <= Heard'
      BY <2>4, <2>5 DEF PairsInv, SoundInOrder
    <3> QED BY <2>1, <2>5, <3>1 DEF SoundInOrder
  <2>8. PicturesInOrder'
    <3>1. /\ c.kind # "video" /\ chunks \in Seq(Chunks)
          /\ Counted(bufNode, video_bufs, chunks, Len(aviOut))
      BY <2>1 DEF PairsInv, PicturesInOrder, AviTypes
    <3>2. Counted(bufNode', video_bufs, Append(chunks, c), Len(aviOut))
      BY <2>1, <2>5, <3>1, CountedStays
    <3> QED BY <2>1, <3>2 DEF PicturesInOrder
  <2> QED BY <2>2, <2>3, <2>4, <2>6, <2>7, <2>8 DEF PairsInv
<1> QED BY <1>1, <1>2

LEMMA TooLargePairs ==
  ASSUME PairsInv, ReadTooLarge
  PROVE  PairsInv'
<1>1. AviInv'
  BY TooLargeApart DEF PairsInv
<1>2. chunks \in Seq(Chunks) /\ Len(chunks) \in Nat
  BY LenProperties DEF PairsInv, AviTypes
<1>3. /\ GetFreeBlock(Picture(0, 0)) /\ aviPc' = "flush"
      /\ UNCHANGED <<video_bufs, audio_bufs, audio_info, lastPal, chunks, aviOut>>
  BY DEF ReadTooLarge
<1>4. Picture(0, 0) \in AviNode
  BY <1>2 DEF Picture, AviNode
<1>5. /\ bufNode' \in Seq(AviNode)
      /\ SameNodes(bufNode, bufNode', audio_bufs) /\ SameNodes(bufNode, bufNode', video_bufs)
  BY <1>3, <1>4, FreeBlockKeeps
<1>6. Heard' = Heard /\ SoundFound' = SoundFound
  BY <1>3, HeardIsTotal
<1>7. AviTypes'
  BY <1>3, <1>5 DEF PairsInv, AviTypes
<1>8. SoundInOrder' /\ CutAtEnd'
  <2>1. /\ Chained(bufNode', audio_bufs) /\ EndsAt(bufNode', audio_bufs, Heard)
        /\ BeginOf(bufNode', audio_bufs, Heard) = BeginOf(bufNode, audio_bufs, Heard)
    BY <1>5, SameNodesSame DEF PairsInv, AviInv, NodesKnown, SoundInOrder
  <2>2. Filled(bufNode', audio_bufs, SoundFound)
    BY <1>5 DEF PairsInv, SoundInOrder, Filled, SameNodes
  <2> QED BY <1>3, <1>6, <2>1, <2>2
          DEF PairsInv, SoundInOrder, CutAtEnd, Uncut, OneStandard, Numbers, Needed
<1>9. PicturesInOrder'
  BY <1>3, <1>5 DEF PairsInv, PicturesInOrder, Counted, SameNodes
<1>10. StandardKept' /\ FramesPaired'
  BY <1>3, <1>6, InTheseWords, InTheseWordsNext DEF PairsInv, FramesPaired, Needed
<1> QED BY <1>1, <1>7, <1>8, <1>9, <1>10 DEF PairsInv

LEMMA VideoPairs ==
  ASSUME PairsInv, Uncut, NEW len \in {Pal, Ntsc, TooLarge}, NEW got \in Found(len),
         ReadVideo(len, got)
  PROVE  PairsInv'
<1>1. CASE AtLimit
  BY <1>1, PairsStay DEF AtLimit
<1>2. AviInv'
  BY VideoApart DEF PairsInv
<1>3. len \in Nat /\ got \in Nat /\ got <= len
  <2>1. Pal \in Nat /\ Ntsc \in Nat /\ TooLarge \in Nat
    BY SMT DEF Pal, Ntsc, TooLarge
  <2>2. len \in Nat
    BY <2>1
  <2> QED BY <2>2, FoundOfChunk
<1>4. chunks \in Seq(Chunks) /\ Len(chunks) \in Nat
  BY LenProperties DEF PairsInv, AviTypes
<1>5. CASE ReadTooLarge
  BY <1>5, TooLargePairs
<1>6. CASE /\ GetFreeBlock(Picture(len, got)) /\ video_bufs' = Append(video_bufs, Block)
           /\ lastPal' = (len = Pal) /\ aviPc' = "queue"
           /\ audio_info' = [audio_info EXCEPT !.bytesperframe =
                               audio_info.bytespersecond \div (IF len = Pal THEN 25 ELSE 30)]
           /\ chunks' = Append(chunks, Chunk("video", len, got))
           /\ UNCHANGED <<audio_bufs, aviOut>>
  <2> DEFINE c == Chunk("video", len, got)
  <2>1. /\ c \in Chunks /\ chunks' = Append(chunks, c) /\ c.kind = "video"
        /\ c.len = len /\ c.got = got /\ c.got <= c.len
    BY <1>3, <1>6 DEF Chunk, Chunks
  <2>2. /\ Picture(len, got) \in AviNode /\ Picture(len, got).chunk = Len(chunks) + 1
        /\ Picture(len, got).usage = len /\ Picture(len, got).read = got
    BY <1>3, <1>4 DEF Picture, AviNode
  <2>3. /\ bufNode' \in Seq(AviNode) /\ bufNode'[Block] = Picture(len, got)
        /\ SameNodes(bufNode, bufNode', audio_bufs) /\ SameNodes(bufNode, bufNode', video_bufs)
    BY <1>6, <2>2, FreeBlockKeeps
  <2> HIDE DEF c
  <2>4. Heard \in Int /\ SoundFound = Heard /\ CutAtEnd' /\ Heard' = Heard /\ SoundFound' = SoundFound
    <3>1. /\ Heard \in Int /\ SoundFound = Heard /\ CutAtEnd'
          /\ Heard' = Heard + 0 /\ SoundFound' = SoundFound + 0
      BY <2>1, SoundGoesOn
    <3> QED BY <3>1
  <2>5. /\ StandardKept' /\ FramesPaired'
        /\ OneStandard' => /\ OneStandard /\ Len(aviOut) * Needed' = Len(aviOut) * Needed
                           /\ Len(aviOut) * Needed <= Heard'
    <3>1. UNCHANGED aviOut /\ lastPal' = (c.len = Pal)
          /\ audio_info' = [audio_info EXCEPT !.bytesperframe =
                              audio_info.bytespersecond \div (IF c.len = Pal THEN 25 ELSE 30)]
      BY <1>6, <2>1
    <3> QED BY <2>1, <3>1, ChunkIsRead
  <2>6. AviTypes'
    <3>1. Append(chunks, c) \in Seq(Chunks)
      BY <1>4, <2>1, AppendProperties
    <3>2. audio_info' \in AudioInfo
      <4> DEFINE v == audio_info.bytespersecond \div (IF len = Pal THEN 25 ELSE 30)
      <4>1. audio_info \in AudioInfo
        BY DEF PairsInv, AviTypes
      <4>2. v \in Nat
        <5>1. audio_info.bytespersecond \in Nat
          BY <4>1 DEF AudioInfo
        <5> QED BY <5>1
      <4>3. audio_info' = [audio_info EXCEPT !.bytesperframe = v]
        BY <1>6
      <4> HIDE DEF v
      <4> QED BY <4>1, <4>2, <4>3 DEF AudioInfo
    <3> QED BY <1>6, <2>1, <2>3, <3>1, <3>2 DEF PairsInv, AviTypes
  <2>7. SoundInOrder'
    <3>1. /\ Chained(bufNode', audio_bufs) /\ EndsAt(bufNode', audio_bufs, Heard)
          /\ BeginOf(bufNode', audio_bufs, Heard) = BeginOf(bufNode, audio_bufs, Heard)
      BY <2>3, SameNodesSame DEF PairsInv, AviInv, NodesKnown, SoundInOrder
    <3>2. Filled(bufNode', audio_bufs, SoundFound)
      BY <2>3 DEF PairsInv, SoundInOrder, Filled, SameNodes
    <3> QED BY <1>6, <2>4, <2>5, <3>1, <3>2 DEF PairsInv, SoundInOrder
  <2>8. PicturesInOrder'
    <3>1. Block \in Ids' /\ video_bufs \in Seq(Ids') /\ Len(aviOut) \in Nat
      BY <1>6, FreeBlockApart, OtherLists, LenProperties DEF PairsInv, AviTypes
    <3> DEFINE ids == Ids'
               x == Block
    <3>2. /\ x \in ids /\ video_bufs \in Seq(ids) /\ bufNode'[x].chunk = Len(chunks) + 1
          /\ Holds(bufNode'[x], c)
          /\ video_bufs' = Append(video_bufs, x)
      BY <1>6, <2>1, <2>2, <2>3, <3>1 DEF Holds
    <3> HIDE DEF ids, x
    <3>3. Counted(bufNode', Append(video_bufs, x), Append(chunks, c), Len(aviOut))
      BY <1>4, <2>1, <2>3, <3>1, <3>2, CountedGrows DEF PairsInv, PicturesInOrder
    <3> QED BY <1>6, <2>1, <3>2, <3>3 DEF PicturesInOrder
  <2> QED BY <1>2, <2>4, <2>5, <2>6, <2>7, <2>8 DEF PairsInv
<1> QED BY <1>1, <1>5, <1>6 DEF ReadVideo

LEMMA BothPairs ==
  ASSUME PairsInv, Uncut, NEW len \in {Pal, TooLarge}, NEW got \in Found(len), ReadBoth(len, got)
  PROVE  PairsInv'
<1>1. CASE AtLimit
  BY <1>1, PairsStay DEF AtLimit
<1>2. AviInv'
  BY BothApart DEF PairsInv
<1>4. CASE ReadTooLarge
  BY <1>4, TooLargePairs
<1>3. CASE ~AtLimit /\ ~ReadTooLarge
  <2> DEFINE c == Chunk("both", len, got)
  <2>1. /\ bufNode' = IF free_list = <<>> THEN Append(bufNode, Picture(len, got))
                      ELSE [bufNode EXCEPT ![Head(free_list)] = Picture(len, got)]
        /\ chunks' = Append(chunks, c) /\ aviPc' = "queue"
        /\ UNCHANGED <<audio_info, video_bufs, audio_bufs, lastPal, aviOut>>
    BY <1>3 DEF ReadBoth
  <2>10. len \in Nat /\ got \in Nat /\ got <= len
    <3>1. Pal \in Nat /\ TooLarge \in Nat
      BY SMT DEF Pal, TooLarge
    <3>2. len \in Nat
      BY <3>1
    <3> QED BY <3>2, FoundOfChunk
  <2>2. /\ c \in Chunks /\ c.kind = "both" /\ c.got <= c.len
        /\ chunks \in Seq(Chunks) /\ Len(chunks) \in Nat
    BY <2>10, LenProperties DEF Chunk, Chunks, PairsInv, AviTypes
  <2>3. Picture(len, got) \in AviNode
    BY <2>2, <2>10 DEF Picture, AviNode
  <2> HIDE DEF c
  <2>4. /\ bufNode' \in Seq(AviNode)
        /\ SameNodes(bufNode, bufNode', audio_bufs) /\ SameNodes(bufNode, bufNode', video_bufs)
    BY <2>1, <2>3, NodeIsUsed
  <2>5. Heard \in Int /\ CutAtEnd' /\ Heard' = Heard /\ SoundFound' = SoundFound
    <3>1. /\ Heard \in Int /\ SoundFound = Heard /\ CutAtEnd'
          /\ Heard' = Heard + 0 /\ SoundFound' = SoundFound + 0
      BY <2>1, <2>2, SoundGoesOn
    <3> QED BY <3>1
  <2>6. /\ StandardKept' /\ FramesPaired'
        /\ OneStandard' => /\ OneStandard /\ Len(aviOut) * Needed' = Len(aviOut) * Needed
                           /\ Len(aviOut) * Needed <= Heard'
    BY <2>1, <2>2, ChunkIsRead
  <2>7. AviTypes'
    <3>1. Append(chunks, c) \in Seq(Chunks)
      BY <2>2, AppendProperties
    <3> QED BY <2>1, <2>4, <3>1 DEF PairsInv, AviTypes
  <2>8. SoundInOrder'
    <3>1. /\ Chained(bufNode', audio_bufs) /\ EndsAt(bufNode', audio_bufs, Heard)
          /\ BeginOf(bufNode', audio_bufs, Heard) = BeginOf(bufNode, audio_bufs, Heard)
      BY <2>4, SameNodesSame DEF PairsInv, AviInv, NodesKnown, SoundInOrder
    <3>2. Filled(bufNode', audio_bufs, SoundFound)
      BY <2>4 DEF PairsInv, SoundInOrder, Filled, SameNodes
    <3> QED BY <2>1, <2>5, <2>6, <3>1, <3>2 DEF PairsInv, SoundInOrder
  <2>9. PicturesInOrder'
    <3>1. Counted(bufNode', video_bufs, Append(chunks, c), Len(aviOut))
      BY <2>2, <2>4, CountedStays DEF PairsInv, PicturesInOrder
    <3> QED BY <2>1, <3>1 DEF PicturesInOrder
  <2> QED BY <1>2, <2>5, <2>6, <2>7, <2>8, <2>9 DEF PairsInv
<1> QED BY <1>1, <1>3, <1>4

(* The pieces of sound of a frame follow each other, from where the queue    *)
(* begins to one frame later.                                                *)
LEMMA PiecesFollow ==
  ASSUME PairsInv, Enough
  PROVE  LET first == FromOf(bufNode, audio_bufs[1])
             k == LastNode
         IN  /\ first \in Int /\ Needed \in Int /\ k \in 1 .. Len(audio_bufs) /\ LeftIn(k - 1) \in Int
             /\ FromOf(bufNode, audio_bufs[k]) + (Needed - LeftIn(k - 1)) = first + Needed
             /\ LeftIn(k) = Needed => ToOf(bufNode, audio_bufs[k]) = first + Needed
             /\ Len(Pieces) = k /\ Pieces[1][1] = first
             /\ \A i \in 1 .. k - 1 : Pieces[i + 1][1] = Pieces[i][1] + Pieces[i][2]
             /\ Last(Pieces)[1] + Last(Pieces)[2] = first + Needed
             /\ first + Needed <= Heard
             /\ SoundWhole <=> first + Needed <= SoundFound
<1> DEFINE n == Len(audio_bufs)
           k == LastNode
           from(i) == FromOf(bufNode, audio_bufs[i])
           to(i) == ToOf(bufNode, audio_bufs[i])
           left(i) == Left(audio_bufs[i])
           part == Needed - LeftIn(k - 1)
<1>1. /\ n \in Nat /\ k \in 1 .. n /\ 1 \in 1 .. n /\ Needed \in Int /\ LeftIn(k) >= Needed
      /\ bufNode \in Seq(AviNode) /\ audio_bufs \in Seq(Ids)
  <2>1. n \in Nat /\ k \in 1 .. n /\ LeftIn(k) >= Needed
    BY LastNodeExists DEF PairsInv
  <2>2. 1 \in 1 .. n
    BY <2>1
  <2>3. Needed \in Int /\ bufNode \in Seq(AviNode) /\ audio_bufs \in Seq(Ids)
    BY DEF PairsInv, AviTypes, AudioInfo, AviInv, NodesKnown, Needed
  <2> QED BY <2>1, <2>2, <2>3
<1>2. ASSUME NEW i \in 1 .. n
      PROVE  /\ from(i) \in Int /\ to(i) \in Int /\ left(i) = to(i) - from(i)
             /\ from(i) = bufNode[audio_bufs[i]].from + bufNode[audio_bufs[i]].processed
  <2> DEFINE x == bufNode[audio_bufs[i]]
  <2>1. x \in AviNode
    BY <1>1, ElementOfSeq DEF Ids
  <2>2. left(i) = x.usage - x.processed /\ from(i) = x.from + x.processed /\ to(i) = x.from + x.usage
    BY DEF Left, FromOf, ToOf
  <2> HIDE DEF x, left, from, to
  <2>3. x.from \in Int /\ x.usage \in Int /\ x.processed \in Int
    BY <2>1 DEF AviNode
  <2> QED BY <2>2, <2>3 DEF x
<1>3. \A i \in 1 .. n - 1 : to(i) = from(i + 1)
  BY DEF PairsInv, SoundInOrder, Chained
<1>4. LeftIn(0) = 0 /\ \A i \in 1 .. n : LeftIn(i) = to(i) - from(1)
  <2>1. Chained(bufNode, audio_bufs) /\ audio_bufs \in Seq(1 .. Len(bufNode))
    BY <1>1 DEF PairsInv, SoundInOrder, Ids
  <2> QED BY <1>1, <2>1, LeftIsTime, LeftIsTotal
<1>12. ASSUME NEW i \in 1 .. n
       PROVE  LET x == bufNode[audio_bufs[i]]
              IN  /\ x.from \in Int /\ x.usage \in Int /\ x.read \in Int /\ x.processed \in Int
                  /\ from(i) = x.from + x.processed /\ to(i) = x.from + x.usage
                  /\ IF i < n THEN x.read = x.usage /\ to(i) <= SoundFound
                     ELSE x.from + x.read = SoundFound /\ to(i) = Heard
  <2> DEFINE x == bufNode[audio_bufs[i]]
  <2>1. x \in AviNode
    BY <1>1, ElementOfSeq DEF Ids
  <2>2. from(i) = x.from + x.processed /\ to(i) = x.from + x.usage
    BY DEF FromOf, ToOf
  <2>3. IF i < n THEN x.read = x.usage /\ x.from + x.usage <= SoundFound
        ELSE x.from + x.read = SoundFound
    BY DEF PairsInv, SoundInOrder, Filled
  <2>4. i = n => to(i) = Heard
    BY DEF PairsInv, SoundInOrder, EndsAt, Enough
  <2>5. i < n \/ i = n
    BY <1>1
  <2>6. x.from \in Int /\ x.usage \in Int /\ x.read \in Int /\ x.processed \in Int
    BY <2>1 DEF AviNode
  <2> HIDE DEF x, from, to, n
  <2> QED BY <2>2, <2>3, <2>4, <2>5, <2>6 DEF x
<1>13. Heard \in Int /\ SoundFound \in Int /\ SoundFound <= Heard
  <2>1. chunks \in Seq(Chunks) /\ [kind |-> "both", len |-> 0, got |-> 0] \in Chunks
    BY DEF PairsInv, AviTypes, Chunks
  <2> QED BY <2>1, HeardGrows, HeardIsTotal DEF PairsInv, CutAtEnd
<1>5. /\ Pieces = [i \in 1 .. k |-> <<bufNode[audio_bufs[i]].from + bufNode[audio_bufs[i]].processed,
                                     IF i < k THEN left(i) ELSE Needed - LeftIn(i - 1)>>]
  BY DEF Pieces
<1> HIDE DEF n, k, from, to, left
<1>6. LeftIn(k - 1) \in Int /\ from(k) + part = from(1) + Needed
  <2>1. CASE k = 1
    BY <1>1, <1>2, <1>4, <2>1
  <2>2. CASE k # 1
    <3>1. k - 1 \in 1 .. n - 1 /\ k - 1 \in 1 .. n /\ (k - 1) + 1 = k
      BY <1>1, <2>2
    <3>2. to(k - 1) = from(k)
      BY <1>3, <3>1
    <3> QED BY <1>1, <1>2, <1>4, <3>1, <3>2, SMTT(30)
  <2> QED BY <2>1, <2>2
<1>7. LeftIn(k) = Needed => to(k) = from(1) + Needed
  BY <1>1, <1>2, <1>4
<1>8. ASSUME NEW i \in 1 .. k
      PROVE  /\ Pieces[i][1] = from(i)
             /\ Pieces[i][2] = IF i < k THEN left(i) ELSE part
  <2>1. i \in 1 .. n /\ (i < k \/ i = k)
    BY <1>1
  <2>2. Pieces[i] = <<bufNode[audio_bufs[i]].from + bufNode[audio_bufs[i]].processed,
                      IF i < k THEN left(i) ELSE Needed - LeftIn(i - 1)>>
    BY <1>5
  <2> QED BY <1>2, <2>1, <2>2
<1>9. Len(Pieces) = k /\ k \in 1 .. k /\ 1 \in 1 .. k
  BY <1>1, <1>5
<1>10. Last(Pieces)[1] + Last(Pieces)[2] = from(1) + Needed
  BY <1>1, <1>6, <1>8, <1>9 DEF Last
<1> HIDE DEF part
<1>11. ASSUME NEW i \in 1 .. k - 1
       PROVE  Pieces[i + 1][1] = Pieces[i][1] + Pieces[i][2]
  <2>1. i \in 1 .. k /\ i + 1 \in 1 .. k /\ i < k /\ i \in 1 .. n - 1 /\ i \in 1 .. n /\ i + 1 \in 1 .. n
    BY <1>1
  <2>2. Pieces[i + 1][1] = from(i + 1) /\ Pieces[i][1] = from(i) /\ Pieces[i][2] = left(i)
    BY <1>8, <2>1
  <2> QED BY <1>2, <1>3, <2>1, <2>2
<1>14. from(1) + Needed <= to(k) /\ from(1) + Needed \in Int /\ to(k) \in Int
  <2>1. from(1) \in Int /\ to(k) \in Int /\ Needed \in Int
    BY <1>1, <1>2
  <2>2. LeftIn(k) = to(k) - from(1) /\ LeftIn(k) >= Needed
    BY <1>1, <1>4
  <2> QED BY <2>1, <2>2
<1>15. from(1) + Needed <= Heard
  <2>1. CASE k < n
    BY <1>1, <1>12, <1>13, <1>14, <2>1
  <2>2. CASE ~(k < n)
    BY <1>1, <1>12, <1>14, <2>2
  <2> QED BY <2>1, <2>2
<1> DEFINE read(i) == bufNode[audio_bufs[i]].processed + Pieces[i][2] <= bufNode[audio_bufs[i]].read
<1>16. ASSUME NEW i \in 1 .. k - 1 PROVE read(i)
  <2> DEFINE x == bufNode[audio_bufs[i]]
  <2>1. i \in 1 .. n /\ i \in 1 .. k /\ i < k /\ i < n
    BY <1>1
  <2>2. Pieces[i][2] = to(i) - from(i)
    BY <1>2, <1>8, <2>1
  <2>3. /\ x.from \in Int /\ x.usage \in Int /\ x.processed \in Int /\ x.read = x.usage
        /\ from(i) = x.from + x.processed /\ to(i) = x.from + x.usage
    BY <1>12, <2>1
  <2> HIDE DEF x
  <2>4. x.processed + Pieces[i][2] <= x.read
    BY <2>2, <2>3
  <2> QED BY <2>4 DEF x
<1>17. read(k) <=> from(1) + Needed <= SoundFound
  <2> DEFINE x == bufNode[audio_bufs[k]]
  <2>1. Pieces[k][2] = part
    BY <1>8, <1>9
  <2>2. /\ x.from \in Int /\ x.usage \in Int /\ x.processed \in Int /\ x.read \in Int
        /\ from(k) = x.from + x.processed /\ to(k) = x.from + x.usage
        /\ IF k < n THEN x.read = x.usage /\ to(k) <= SoundFound
           ELSE x.from + x.read = SoundFound
    BY <1>1, <1>12
  <2>3. part \in Int
    BY <1>1, <1>6 DEF part
  <2> HIDE DEF x
  <2>4. x.processed + part <= x.read <=> from(1) + Needed <= x.from + x.read
    <3>1. x.from + (x.processed + part) = from(1) + Needed
      BY <1>6, <2>2, <2>3
    <3> QED BY <2>2, <2>3, <3>1
  <2>5. x.processed + part <= x.read <=> from(1) + Needed <= SoundFound
    <3>1. CASE k < n
      BY <1>13, <1>14, <2>2, <2>4, <3>1
    <3>2. CASE ~(k < n)
      BY <2>2, <2>4, <3>2
    <3> QED BY <3>1, <3>2
  <2> QED BY <2>1, <2>5 DEF x
<1>18. SoundWhole <=> from(1) + Needed <= SoundFound
  <2>1. SoundWhole <=> \A i \in 1 .. k : read(i)
    BY DEF SoundWhole, k
  <2>2. \A i \in 1 .. k : i = k \/ i \in 1 .. k - 1
    BY <1>1
  <2> HIDE DEF read
  <2> QED BY <1>9, <1>16, <1>17, <2>1, <2>2
<1> QED BY <1>1, <1>2, <1>6, <1>7, <1>8, <1>9, <1>10, <1>11, <1>15, <1>18 DEF n, k, from, to, part

LEMMA NodeIsTaken ==
  ASSUME NEW node \in AviNode, NEW p \in Int
  PROVE  [node EXCEPT !.processed = @ + p] \in AviNode
<1>1. node.processed + p \in Int
  BY DEF AviNode
<1> QED BY <1>1 DEF AviNode

LEMMA QueuePairs ==
  ASSUME PairsInv, RunQueue, ~StoreRefuses
  PROVE  PairsInv'
<1>1. CASE UNCHANGED <<queues, aviOut>>
  <2>1. UNCHANGED <<queues, lastPal, chunks, aviOut>> /\ audio_info' = audio_info
    BY <1>1 DEF RunQueue
  <2>2. aviPc' # "header"
    BY DEF RunQueue, StoreFrame, StoreFails
  <2> QED BY <2>1, <2>2, PairsStay
<1>2. CASE ~UNCHANGED <<queues, aviOut>>
  <2> DEFINE k == LastNode
             h == Head(video_bufs)
             first == FromOf(bufNode, audio_bufs[1])
             out == [chunk |-> bufNode[h].chunk, pal |-> lastPal, sound |-> Pieces,
                     whole |-> SoundWhole /\ PictureWhole]
             n == Len(aviOut)
  <2>1. /\ Enough /\ aviOut' = Append(aviOut, out)
        /\ bufNode' = IF UsedUp = k THEN bufNode
                      ELSE [bufNode EXCEPT ![audio_bufs[k]].processed = @ + Needed - LeftIn(k - 1)]
        /\ audio_bufs' = SubSeq(audio_bufs, UsedUp + 1, Len(audio_bufs))
        /\ video_bufs' = Tail(video_bufs)
        /\ UNCHANGED <<audio_info, lastPal, chunks>> /\ aviPc' = aviPc /\ aviPc # "header"
    <3>1. Enough /\ StoreFrame /\ aviPc \in {"queue", "flush"}
      BY <1>2 DEF RunQueue, StoreFails
    <3>2. UNCHANGED <<audio_info, lastPal, chunks>>
      BY DEF RunQueue
    <3> QED BY <3>1, <3>2 DEF StoreFrame, TakeSound
  <2>2. AviInv'
    BY QueueApart DEF PairsInv
  <2>3. /\ bufNode \in Seq(AviNode) /\ audio_bufs \in Seq(1 .. Len(bufNode)) /\ NoRepeats(audio_bufs)
        /\ video_bufs \in Seq(Ids) /\ Listed(video_bufs) \cap Listed(audio_bufs) = {}
        /\ audio_bufs # <<>> /\ video_bufs # <<>> /\ n \in Nat /\ DOMAIN aviOut = 1 .. n
        /\ Chained(bufNode, audio_bufs) /\ EndsAt(bufNode, audio_bufs, Heard)
        /\ Filled(bufNode, audio_bufs, SoundFound)
    BY <2>1, LenProperties DEF PairsInv, AviTypes, AviInv, NodesKnown, ListsApart, Enough, SoundInOrder, Ids
  <2>4. /\ first \in Int /\ Needed \in Int /\ k \in 1 .. Len(audio_bufs) /\ LeftIn(k - 1) \in Int
        /\ FromOf(bufNode, audio_bufs[k]) + (Needed - LeftIn(k - 1)) = first + Needed
        /\ LeftIn(k) = Needed => ToOf(bufNode, audio_bufs[k]) = first + Needed
        /\ Len(Pieces) = k /\ Pieces[1][1] = first
        /\ \A i \in 1 .. k - 1 : Pieces[i + 1][1] = Pieces[i][1] + Pieces[i][2]
        /\ Last(Pieces)[1] + Last(Pieces)[2] = first + Needed
        /\ first + Needed <= Heard
        /\ SoundWhole <=> first + Needed <= SoundFound
    BY <2>1, PiecesFollow
  <2>5. Heard \in Int /\ Heard' = Heard /\ SoundFound' = SoundFound
    <3>1. HeardIn(chunks) \in Int
      <4>1. chunks \in Seq(Chunks) /\ [kind |-> "both", len |-> 0, got |-> 0] \in Chunks
        BY DEF PairsInv, AviTypes, Chunks
      <4> QED BY <4>1, HeardGrows
    <3> QED BY <2>1, <3>1, HeardIsTotal
  <2>6. UsedUp \in {k - 1, k} /\ (UsedUp = k <=> LeftIn(k) = Needed)
    BY <2>4 DEF UsedUp
  <2> DEFINE p == Needed - LeftIn(k - 1)
  <2>7. UsedUp # k => bufNode' = [bufNode EXCEPT ![audio_bufs[k]].processed = @ + p]
    <3> SUFFICES ASSUME UsedUp # k
                 PROVE  bufNode' = [bufNode EXCEPT ![audio_bufs[k]].processed = @ + p]
      OBVIOUS
    <3> DEFINE x == audio_bufs[k]
               used == bufNode[x].processed
    <3>1. x \in 1 .. Len(bufNode)
      BY <2>3, <2>4, ElementOfSeq
    <3>2. bufNode[x] \in AviNode
      BY <2>3, <3>1, ElementOfSeq
    <3>3. used \in Int
      BY <3>2 DEF AviNode
    <3>4. used + Needed - LeftIn(k - 1) = used + p
      BY <2>4, <3>3
    <3>5. bufNode' = [bufNode EXCEPT ![x].processed = used + Needed - LeftIn(k - 1)]
      BY <2>1
    <3> HIDE DEF x, used, p
    <3> QED BY <3>4, <3>5 DEF x, used
  <2>8. /\ Chained(bufNode', audio_bufs') /\ EndsAt(bufNode', audio_bufs', Heard)
        /\ BeginOf(bufNode', audio_bufs', Heard) = first + Needed
    <3>1. IF UsedUp = k THEN TakenWhole(bufNode, bufNode', audio_bufs, k, first + Needed)
                        ELSE TakenPart(bufNode, bufNode', audio_bufs, k, first + Needed)
      <4>1. CASE UsedUp = k
        BY <2>1, <2>4, <2>6, <4>1 DEF TakenWhole
      <4>2. CASE UsedUp # k
        <5>1. p \in Int /\ FromOf(bufNode, audio_bufs[k]) + p = first + Needed
          BY <2>4
        <5> HIDE DEF p, first, k
        <5> QED BY <2>7, <4>2, <5>1 DEF TakenPart
      <4> QED BY <4>1, <4>2
    <3>2. first + Needed \in Int
      BY <2>4
    <3> DEFINE u == UsedUp
               t == first + Needed
               rest == SubSeq(audio_bufs, u + 1, Len(audio_bufs))
    <3>3. /\ bufNode \in Seq(AviNode) /\ audio_bufs \in Seq(1 .. Len(bufNode)) /\ NoRepeats(audio_bufs)
          /\ k \in 1 .. Len(audio_bufs) /\ u \in {k - 1, k} /\ Heard \in Int /\ t \in Int
          /\ Chained(bufNode, audio_bufs) /\ EndsAt(bufNode, audio_bufs, Heard)
          /\ IF u = k THEN TakenWhole(bufNode, bufNode', audio_bufs, k, t)
                      ELSE TakenPart(bufNode, bufNode', audio_bufs, k, t)
      BY <2>3, <2>4, <2>5, <2>6, <3>1, <3>2
    <3>4. audio_bufs' = rest /\ Heard' = Heard
      BY <2>1, <2>5
    <3> HIDE DEF k, u, t
    <3>5. /\ Chained(bufNode', rest) /\ EndsAt(bufNode', rest, Heard)
          /\ BeginOf(bufNode', rest, Heard) = t
      BY <3>3, ChainIsCut
    <3> HIDE DEF rest
    <3> QED BY <3>4, <3>5 DEF t
  <2>9. OneStandard => first = n * Needed /\ first + Needed = (n + 1) * Needed
    <3> SUFFICES ASSUME OneStandard PROVE first = n * Needed /\ first + Needed = (n + 1) * Needed
      OBVIOUS
    <3>1. first = n * Needed
      BY <2>3 DEF PairsInv, SoundInOrder, BeginOf
    <3> QED BY <2>3, <2>4, <3>1
  <2>10. /\ Counted(bufNode', Tail(video_bufs), chunks, n + 1)
         /\ bufNode[h].chunk \in VideosIn(chunks)
         /\ Cardinality(UpTo(chunks, bufNode[h].chunk)) = n + 1
         /\ Holds(bufNode[h], chunks[bufNode[h].chunk])
    <3>1. SameChunks(bufNode, bufNode', video_bufs)
      <4> SUFFICES ASSUME NEW i \in 1 .. Len(video_bufs)
                   PROVE  bufNode'[video_bufs[i]] = bufNode[video_bufs[i]]
        BY DEF SameChunks
      <4>1. video_bufs[i] \in Listed(video_bufs) /\ audio_bufs[k] \in Listed(audio_bufs)
        BY <2>4 DEF Listed
      <4>2. video_bufs[i] # audio_bufs[k] /\ video_bufs[i] \in 1 .. Len(bufNode)
        BY <2>3, <4>1, ElementOfSeq DEF Ids
      <4>3. DOMAIN bufNode = 1 .. Len(bufNode)
        BY <2>3, LenProperties
      <4> HIDE DEF p, k
      <4> QED BY <2>1, <2>7, <4>2, <4>3
    <3>2. Counted(bufNode, video_bufs, chunks, n)
      BY DEF PairsInv, PicturesInOrder
    <3>3. video_bufs \in Seq(Ids) /\ video_bufs # <<>> /\ n \in Nat
      BY <2>3
    <3> HIDE DEF n, h
    <3>4. /\ Counted(bufNode', Tail(video_bufs), chunks, n + 1)
          /\ FirstIs(bufNode, video_bufs, chunks, n + 1)
      BY <3>1, <3>2, <3>3, CountedMoves, Zenon
    <3> QED BY <3>4 DEF h, FirstIs
  <2>11. \E S : aviOut \in Seq(S) /\ out \in S
    <3>1. PICK S : aviOut \in Seq(S)
      BY DEF PairsInv, AviTypes
    <3> DEFINE T == S \cup {out}
    <3>2. S \subseteq T /\ out \in T
      OBVIOUS
    <3> HIDE DEF T, out
    <3> QED BY <3>1, <3>2, SeqMonotonic
  <2>12. /\ (\E S : aviOut' \in Seq(S)) /\ Len(aviOut') = n + 1 /\ aviOut'[n + 1] = out
         /\ DOMAIN aviOut' = 1 .. n + 1 /\ \A i \in 1 .. n : aviOut'[i] = aviOut[i]
    <3>1. PICK S : aviOut \in Seq(S) /\ out \in S
      BY <2>11
    <3> HIDE DEF out
    <3> QED BY <2>1, <3>1, AppendProperties, LenProperties
  <2>13. AviTypes'
    <3>1. bufNode' \in Seq(AviNode)
      <4>1. CASE UsedUp = k
        BY <2>1, <2>3, <4>1
      <4>2. CASE UsedUp # k
        <5> DEFINE x == audio_bufs[k]
                   new == [bufNode[x] EXCEPT !.processed = @ + p]
        <5>1. x \in 1 .. Len(bufNode) /\ p \in Int
          <6>1. p \in Int
            BY <2>4
          <6>2. audio_bufs \in Seq(1 .. Len(bufNode)) /\ k \in 1 .. Len(audio_bufs)
            BY <2>3, <2>4
          <6> HIDE DEF k, p
          <6> QED BY <6>1, <6>2, ElementOfSeq
        <5>2. bufNode[x] \in AviNode
          BY <2>3, <5>1, ElementOfSeq
        <5> HIDE DEF p, k
        <5>3. new \in AviNode
          BY <5>1, <5>2, NodeIsTaken
        <5>4. bufNode' = [bufNode EXCEPT ![x] = new]
          BY <2>7, <4>2
        <5> HIDE DEF new, x
        <5> QED BY <2>3, <5>1, <5>3, <5>4, ExceptSeq
      <4> QED BY <4>1, <4>2
    <3> QED BY <2>1, <2>12, <3>1 DEF PairsInv, AviTypes
  <2>14. SoundInOrder' /\ CutAtEnd'
    <3>3. Filled(bufNode', audio_bufs', SoundFound)
      <4> DEFINE x == audio_bufs[k]
      <4>1. SameReading(bufNode, bufNode', audio_bufs)
        <5> SUFFICES ASSUME NEW i \in 1 .. Len(audio_bufs)
                     PROVE  LET old == bufNode[audio_bufs[i]]
                                new == bufNode'[audio_bufs[i]]
                            IN  new.from = old.from /\ new.usage = old.usage /\ new.read = old.read
          BY DEF SameReading
        <5> DEFINE y == audio_bufs[i]
        <5>1. bufNode[y] \in AviNode /\ y \in DOMAIN bufNode
          BY <2>3, ElementOfSeq, LenProperties
        <5>2. bufNode' = bufNode \/ bufNode' = [bufNode EXCEPT ![x].processed = @ + p]
          BY <2>1, <2>7
        <5>3. bufNode'[y] = bufNode[y]
                \/ bufNode'[y] = [bufNode[y] EXCEPT !.processed = @ + p]
          <6> HIDE DEF x, y, p
          <6> QED BY <5>1, <5>2
        <5> HIDE DEF y, x, p
        <5> QED BY <5>1, <5>3 DEF AviNode, y
      <4>2. Filled(bufNode', SubSeq(audio_bufs, UsedUp + 1, Len(audio_bufs)), SoundFound)
        <5>1. UsedUp \in 0 .. Len(audio_bufs)
          BY <2>4, <2>6
        <5> HIDE DEF x, p, k
        <5> QED BY <2>3, <4>1, <5>1, FilledIsCut
      <4> QED BY <2>1, <4>2
    <3>1. OneStandard' => OneStandard
      BY <2>1 DEF OneStandard, Numbers
    <3>2. Needed' = Needed
      BY <2>1 DEF Needed
    <3>4. OneStandard => (n + 1) * Needed <= Heard
      BY <2>4, <2>9
    <3>5. CutAtEnd'
      BY <2>1, <2>5 DEF PairsInv, CutAtEnd, Uncut
    <3>6. SoundInOrder'
      BY <2>5, <2>8, <2>9, <2>12, <3>1, <3>2, <3>3, <3>4 DEF SoundInOrder
    <3> QED BY <3>5, <3>6
  <2>15. PicturesInOrder'
    BY <2>1, <2>10, <2>12 DEF PicturesInOrder
  <2>16. StandardKept'
    BY <2>1, InTheseWords, InTheseWordsNext DEF PairsInv
  <2>17. FramesPaired'
    <3> SUFFICES ASSUME OneLength(chunks), NEW i \in 1 .. n + 1
                 PROVE  PairOf(aviOut'[i], i, chunks, Needed, SoundFound)
      <4>1. Needed' = Needed
        BY <2>1 DEF Needed
      <4> QED BY <2>1, <2>5, <2>12, <4>1 DEF FramesPaired
    <3>1. CASE i = n + 1
      <4>1. /\ out.chunk \in VideosIn(chunks) /\ Cardinality(UpTo(chunks, out.chunk)) = i
        BY <2>10, <3>1
      <4>2. out.pal = (chunks[out.chunk].len = Pal)
        <5>1. StandardIs(chunks, lastPal, audio_info)
          BY InTheseWords DEF PairsInv
        <5>2. out.pal = lastPal
          OBVIOUS
        <5> HIDE DEF out
        <5> QED BY <4>1, <5>1, <5>2 DEF StandardIs
      <4>3. out.sound = Pieces
        OBVIOUS
      <4>4. first = (i - 1) * Needed /\ first + Needed = i * Needed
        <5>1. OneStandard /\ i - 1 = n
          BY <2>3, <3>1, InTheseWords
        <5> QED BY <2>9, <3>1, <5>1
      <4>5. out.whole <=> /\ i * Needed <= SoundFound
                          /\ chunks[out.chunk].got = chunks[out.chunk].len
        <5>1. out.whole <=> SoundWhole /\ PictureWhole
          OBVIOUS
        <5>2. PictureWhole <=> chunks[out.chunk].got = chunks[out.chunk].len
          <6>1. out.chunk = bufNode[h].chunk
            OBVIOUS
          <6> HIDE DEF out
          <6> QED BY <2>10, <6>1 DEF Holds, PictureWhole
        <5>3. SoundWhole <=> i * Needed <= SoundFound
          BY <2>4, <4>4
        <5> HIDE DEF out
        <5> QED BY <5>1, <5>2, <5>3
      <4> HIDE DEF out, first
      <4> QED BY <2>4, <2>12, <3>1, <4>1, <4>2, <4>3, <4>4, <4>5 DEF PairOf
    <3>2. CASE i # n + 1
      <4>1. i \in 1 .. n
        BY <2>3, <3>2
      <4>2. PairOf(aviOut[i], i, chunks, Needed, SoundFound)
        BY <2>3, <4>1 DEF PairsInv, FramesPaired
      <4> QED BY <2>12, <4>1, <4>2
    <3> QED BY <3>1, <3>2
  <2> QED BY <2>2, <2>13, <2>14, <2>15, <2>16, <2>17 DEF PairsInv
<1> QED BY <1>1, <1>2

LEMMA PairsInitInv == AviInit => PairsInv
<1> SUFFICES ASSUME AviInit PROVE PairsInv
  OBVIOUS
<1>1. AviInv
  BY AviInitInv
<1>2. \A S : <<>> \in Seq(S)
  BY EmptySeq
<1>3. Len(<<>>) = 0 /\ DOMAIN <<>> = {}
  OBVIOUS
<1>4. AviTypes
  <2>1. bufNode \in Seq(AviNode) /\ chunks \in Seq(Chunks)
    BY <1>2 DEF AviInit
  <2>2. \E S : aviOut \in Seq(S)
    <3>1. aviOut \in Seq({})
      BY <1>2 DEF AviInit
    <3> QED BY <3>1
  <2>3. audio_info \in AudioInfo
    BY DEF AviInit, AudioInfo
  <2> QED BY <2>1, <2>2, <2>3 DEF AviInit, AviTypes
<1>5. VideosIn(<<>>) = {} /\ VideosIn(chunks) = {}
  BY <1>3 DEF VideosIn, AviInit
<1>6. HeardIn(<<>>) = 0 /\ FoundIn(<<>>) = 0
  <2> DEFINE f == [k \in {} |-> (<<>>)[k].len]
             g == [k \in {} |-> (<<>>)[k].got]
  <2>1. SoundsIn(<<>>) = {}
    BY <1>3 DEF SoundsIn
  <2>2. HeardIn(<<>>) = Total(f, {}) /\ FoundIn(<<>>) = Total(g, {})
    BY <2>1 DEF HeardIn, FoundIn
  <2>3. f \in [{} -> Int] /\ g \in [{} -> Int]
    OBVIOUS
  <2> HIDE DEF f, g
  <2> QED BY <2>2, <2>3, FS_EmptySet, TotalOfZeros
<1>7. Heard = 0 /\ SoundFound = 0 /\ CutAtEnd
  BY <1>6, HeardIsTotal DEF AviInit, CutAtEnd
<1>8. SoundInOrder
  <2>1. Chained(bufNode, audio_bufs) /\ Filled(bufNode, audio_bufs, SoundFound)
    BY <1>3 DEF Chained, Filled, AviInit
  <2> QED BY <1>3, <1>7, <2>1 DEF AviInit, SoundInOrder, EndsAt, BeginOf, Needed
<1>9. PicturesInOrder
  BY <1>3, <1>5, FS_EmptySet DEF AviInit, PicturesInOrder, Counted
<1>10. StandardKept
  BY <1>5, InTheseWords DEF StandardIs
<1>11. FramesPaired
  BY <1>3 DEF AviInit, FramesPaired
<1> QED BY <1>1, <1>4, <1>7, <1>8, <1>9, <1>10, <1>11 DEF PairsInv

LEMMA PairsStep ==
  ASSUME PairsInv, [AviNext]_aviVars, ~StoreRefuses
  PROVE  PairsInv'
<1>1. CASE ReadHeader
  BY <1>1, HeaderPairs
<1>2. CASE ReadChunk
  BY <1>2, AudioPairs, VideoPairs, BothPairs DEF ReadChunk, Reading
<1>3. CASE EndOfFile
  BY <1>3, PairsStay DEF EndOfFile
<1>4. CASE RunQueue
  BY <1>4, QueuePairs
<1>5. CASE UNCHANGED aviVars
  BY <1>5, PairsStay DEF aviVars, queues
<1> QED BY <1>1, <1>2, <1>3, <1>4, <1>5 DEF AviNext

(* What store will say of the sound is settled by the header, before the     *)
(* first chunk.  Sound that it refuses leaves the file empty; otherwise the  *)
(* frames are paired.                                                        *)
AviFile ==
  /\ audio_info \in AudioInfo
  /\ aviPc = "header" => AviInit
  /\ IF StoreRefuses THEN aviOut = <<>> ELSE PairsInv

LEMMA AviFileInit == AviInit => AviFile
<1> SUFFICES ASSUME AviInit PROVE AviFile
  OBVIOUS
<1>1. PairsInv
  BY PairsInitInv
<1> QED BY <1>1 DEF AviInit, AviFile, PairsInv, AviTypes

(* Behind the header only the size of a frame of sound changes.              *)
LEMMA InfoKept ==
  ASSUME audio_info \in AudioInfo, [AviNext]_aviVars, ~ReadHeader
  PROVE  audio_info' \in AudioInfo /\ StoreRefuses' = StoreRefuses
<1>1. CASE audio_info' = audio_info
  BY <1>1 DEF StoreRefuses
<1>2. CASE \E v \in Nat : audio_info' = [audio_info EXCEPT !.bytesperframe = v]
  <2>1. /\ audio_info' \in AudioInfo
        /\ audio_info'.frequency = audio_info.frequency /\ audio_info'.channels = audio_info.channels
    BY <1>2 DEF AudioInfo
  <2> QED BY <2>1 DEF StoreRefuses
<1>3. ASSUME NEW len, NEW got, ReadVideo(len, got), audio_info' # audio_info
      PROVE  \E v \in Nat : audio_info' = [audio_info EXCEPT !.bytesperframe = v]
  <2> DEFINE v == audio_info.bytespersecond \div (IF len = Pal THEN 25 ELSE 30)
  <2>1. audio_info' = [audio_info EXCEPT !.bytesperframe = v]
    BY <1>3 DEF ReadVideo, AtLimit, ReadTooLarge
  <2>2. v \in Nat
    <3>1. audio_info.bytespersecond \in Nat
      BY DEF AudioInfo
    <3> QED BY <3>1
  <2> QED BY <2>1, <2>2
<1>4. CASE ReadChunk
  <2>1. CASE \E len \in {Pal, Ntsc, TooLarge} : \E got \in Found(len) : ReadVideo(len, got)
    BY <1>1, <1>2, <1>3, <2>1
  <2>2. CASE \E len \in AudioLengths : \E got \in Found(len) : ReadAudio(len, got)
    <3>1. audio_info' = audio_info
      BY <2>2 DEF ReadAudio, AtLimit
    <3> QED BY <1>1, <3>1
  <2>3. CASE \E len \in {Pal, TooLarge} : \E got \in Found(len) : ReadBoth(len, got)
    <3>1. audio_info' = audio_info
      BY <2>3 DEF ReadBoth, ReadTooLarge, AtLimit
    <3> QED BY <1>1, <3>1
  <2> QED BY <1>4, <2>1, <2>2, <2>3 DEF ReadChunk
<1>5. CASE RunQueue \/ EndOfFile \/ UNCHANGED aviVars
  BY <1>1, <1>5 DEF RunQueue, EndOfFile, aviVars
<1> QED BY <1>4, <1>5 DEF AviNext

LEMMA NoneStored ==
  ASSUME [AviNext]_aviVars, StoreRefuses, aviOut = <<>>
  PROVE  aviOut' = <<>>
<1>1. CASE ReadChunk
  BY <1>1 DEF ReadChunk, ReadAudio, ReadVideo, ReadBoth, ReadTooLarge, AtLimit
<1>2. CASE RunQueue
  BY <1>2 DEF RunQueue, StoreFrame, StoreFails
<1>3. CASE ReadHeader \/ EndOfFile \/ UNCHANGED aviVars
  BY <1>3 DEF ReadHeader, EndOfFile, aviVars
<1> QED BY <1>1, <1>2, <1>3 DEF AviNext

LEMMA AviFileStep == AviFile /\ [AviNext]_aviVars => AviFile'
<1> SUFFICES ASSUME AviFile, [AviNext]_aviVars PROVE AviFile'
  OBVIOUS
<1>1. CASE ReadHeader
  <2>1. AviInit /\ aviPc' = "read" /\ aviOut' = <<>>
    BY <1>1 DEF AviFile, ReadHeader, AviInit
  <2>2. PairsInv
    BY <2>1, PairsInitInv
  <2>3. PairsInv'
    BY <1>1, <2>2, HeaderPairs
  <2> QED BY <2>1, <2>3 DEF AviFile, PairsInv, AviTypes
<1>2. CASE ~ReadHeader
  <2>1. audio_info' \in AudioInfo /\ StoreRefuses' = StoreRefuses
    BY <1>2, InfoKept DEF AviFile
  <2>2. aviPc' = "header" => AviInit'
    <3>1. aviPc' = "header" => UNCHANGED aviVars
      BY <1>2 DEF AviNext, ReadChunk, ReadAudio, ReadVideo, ReadBoth, ReadTooLarge, AtLimit, EndOfFile,
                  RunQueue, StoreFrame, StoreFails
    <3>2. UNCHANGED aviVars /\ aviPc' = "header" => AviInit'
      BY DEF AviFile, aviVars, AviInit
    <3> QED BY <3>1, <3>2
  <2>3. CASE StoreRefuses
    BY <2>1, <2>2, <2>3, NoneStored DEF AviFile
  <2>4. CASE ~StoreRefuses
    BY <2>1, <2>2, <2>4, PairsStep DEF AviFile
  <2> QED BY <2>3, <2>4
<1> QED BY <1>1, <1>2

LEMMA FileIsInOrder == AviFile => AviPairsInOrder
<1> SUFFICES ASSUME AviFile PROVE AviPairsInOrder
  OBVIOUS
<1>1. CASE StoreRefuses
  <2>1. aviOut = <<>> /\ DOMAIN aviOut = {}
    BY <1>1 DEF AviFile
  <2> QED BY <2>1 DEF AviPairsInOrder
<1>2. CASE ~StoreRefuses
  BY <1>2, PairedMeansInOrder DEF AviFile
<1> QED BY <1>1, <1>2

(* dvavi pairs the pictures of a file of one standard, in their order, with  *)
(* the sound of their own time, to the byte, whatever the sizes of the       *)
(* chunks and the length of the queues.  If the file ends inside a chunk,    *)
(* the frames that hold bytes of what was in memory before are exactly those *)
(* with a part of that chunk that the file lacks; and of sound with a rate   *)
(* that store refuses nothing is stored.                                     *)
THEOREM PicturesMeetTheirSound == AviSpec => []AviPairsInOrder
<1>1. AviSpec => []AviFile
  BY AviFileInit, AviFileStep, PTL DEF AviSpec
<1> QED BY <1>1, FileIsInOrder, PTL

(***************************************************************************)
(* dubdv: where it is in the input, and what it has stored.                *)
(***************************************************************************)
DubFrame == [picture : Nat, pal : BOOLEAN, sound : [from : Int, size : Nat]]
Dubbed == Len(dubOut) - Repeated
DubType ==
  /\ dub \in DubJobs /\ dubPc \in {"start", "repeat", "load", "copy", "done", "failed", "overrun"}
  /\ inFrame \in 0 .. Len(dub.frames) /\ repeats \in 0 .. dub.repeat
  /\ frameBuf \in Nat /\ dubPal \in BOOLEAN /\ gotframe \in BOOLEAN /\ dubHeard \in Nat
  /\ dubOut \in Seq(DubFrame) /\ copied \in Seq(Nat)

(* The frame in the buffer is the next one of the input, or an empty one and *)
(* then none is left.                                                        *)
FrameInHand ==
  dubPc \in {"repeat", "load", "copy", "done"} =>
    IF gotframe
      THEN /\ frameBuf = Dubbed + Len(copied) + 1 /\ inFrame = frameBuf /\ frameBuf <= Whole
           /\ dubPal <=> dub.frames[frameBuf] = "pal"
      ELSE frameBuf = 0 /\ inFrame >= Whole /\ Dubbed + Len(copied) >= Whole
DubPhases ==
  /\ dubPc = "start" => inFrame = 0 /\ repeats = dub.repeat
  /\ dubPc \in {"start", "repeat"} => Dubbed = 0
  /\ dubPc \in {"start", "repeat", "load"} => copied = <<>>
  /\ dubPc = "repeat" => gotframe
  /\ dubPc = "copy" => ~dub.truncate
  /\ dubPc = "done" /\ ~dub.truncate => ~gotframe
SoundRead ==
  dubPc \in {"start", "repeat", "load"} =>
    dubHeard = IF Dubbed = 0 THEN 0
               ELSE dubOut[Len(dubOut)].sound.from + dubOut[Len(dubOut)].sound.size
DubbedRight(i) ==
  LET k == i - Repeated
      o == dubOut[i]
  IN /\ o.picture = IF k <= Whole THEN k ELSE 0
     /\ o.picture = 0 => ~dub.truncate
     /\ o.sound.from = IF k = 1 THEN 0 ELSE dubOut[i - 1].sound.from + dubOut[i - 1].sound.size
     /\ o.pal = (k <= Whole /\ dub.frames[k] = "pal") \/ o.picture = 0
     /\ o.sound.size = dub.bytespersecond \div (IF o.pal THEN 25 ELSE 30)
DubOutput ==
  /\ Dubbed >= 0
  /\ \A i \in 1 .. Repeated : dubOut[i].picture = 1
  /\ \A i \in Repeated + 1 .. Len(dubOut) : DubbedRight(i)
  /\ \A k \in 1 .. Len(copied) : copied[k] = Dubbed + k
DubInv == DubType /\ FrameInHand /\ DubPhases /\ SoundRead /\ DubOutput

(* The program can fail only before it has written anything.                 *)
DubFails == /\ Unsupported \/ dubPc \in {"start", "failed"} => dubOut = <<>>
            /\ dubPc \in {"start", "failed"} => copied = <<>>

LEMMA WholeFramesFirst ==
  ASSUME dub \in DubJobs
  PROVE  /\ Whole \in 0 .. Len(dub.frames) /\ Len(dub.frames) \in Nat
         /\ \A k \in 1 .. Len(dub.frames) : dub.frames[k] \in WholeKinds <=> k <= Whole
<1>1. /\ dub.frames \in Seq(WholeKinds \cup CutKinds)
      /\ \A k \in 1 .. Len(dub.frames) - 1 : dub.frames[k] \in WholeKinds
  BY DubAssumption
<1>2. PICK n \in Nat : n = Len(dub.frames) /\ DOMAIN dub.frames = 1 .. n
  BY <1>1, LenProperties
<1>3. CASE n > 0 /\ dub.frames[n] \notin WholeKinds
  <2>1. {k \in DOMAIN dub.frames : dub.frames[k] \in WholeKinds} = 1 .. n - 1
    BY <1>1, <1>2, <1>3
  <2>2. Cardinality(1 .. n - 1) = n - 1
    BY <1>3, FS_Interval
  <2>3. Whole = n - 1
    BY Zenon, <2>1, <2>2 DEF Whole
  <2> QED BY <1>1, <1>2, <1>3, <2>3
<1>4. CASE ~(n > 0 /\ dub.frames[n] \notin WholeKinds)
  <2>1. {k \in DOMAIN dub.frames : dub.frames[k] \in WholeKinds} = 1 .. n
    BY <1>1, <1>2, <1>4
  <2>2. Cardinality(1 .. n) = n
    BY FS_Interval
  <2>3. Whole = n
    BY Zenon, <2>1, <2>2 DEF Whole
  <2> QED BY <1>1, <1>2, <1>4, <2>3
<1> QED BY <1>3, <1>4

(* What read_frame leaves: the next frame, or an empty one.                  *)
FrameIsReadNext ==
  /\ inFrame' \in 0 .. Len(dub.frames) /\ frameBuf' \in Nat
  /\ dubPal' \in BOOLEAN /\ gotframe' \in BOOLEAN
  /\ inFrame < Whole => /\ gotframe' /\ frameBuf' = inFrame + 1 /\ inFrame' = inFrame + 1
                        /\ dubPal' <=> dub.frames[inFrame + 1] = "pal"
  /\ inFrame >= Whole => ~gotframe' /\ frameBuf' = 0 /\ inFrame' >= Whole
LEMMA FrameIsRead ==
  ASSUME DubType, ReadFrame
  PROVE  FrameIsReadNext
<1> DEFINE n == Len(dub.frames)
           w == Whole
           i == inFrame
<1>1. /\ n \in Nat /\ w \in Nat /\ i \in Nat /\ w <= n /\ i <= n
      /\ \A k \in 1 .. n : dub.frames[k] \in WholeKinds <=> k <= w
  BY WholeFramesFirst DEF DubType
<1>2. Kind = IF i < n THEN dub.frames[i + 1] ELSE "end"
  BY DEF Kind
<1> HIDE DEF n, w, i
<1>3. (Kind \in WholeKinds <=> i < w) /\ (Kind = "end" => i = n)
  <2>1. CASE i < n
    <3>1. Kind = dub.frames[i + 1] /\ i + 1 \in 1 .. n
      BY <1>1, <1>2, <2>1
    <3>2. dub.frames \in Seq(WholeKinds \cup CutKinds)
      BY DubAssumption DEF DubType
    <3>3. dub.frames[i + 1] \in WholeKinds \cup CutKinds
      BY Zenon, <3>1, <3>2, ElementOfSeq DEF n
    <3>4. Kind # "end"
      BY <3>1, <3>3 DEF WholeKinds, CutKinds
    <3>5. Kind \in WholeKinds <=> i + 1 <= w
      BY Zenon, <1>1, <3>1
    <3>6. i + 1 <= w <=> i < w
      BY <1>1
    <3> QED BY Zenon, <3>4, <3>5, <3>6
  <2>2. CASE i = n
    <3>1. Kind = "end" /\ ~(i < w)
      BY <1>1, <1>2, <2>2
    <3> QED BY <2>2, <3>1 DEF WholeKinds
  <2> QED BY <1>1, <2>1, <2>2
<1>4. inFrame' = IF Kind = "end" THEN i ELSE i + 1
  BY DEF ReadFrame, i
<1>5. inFrame' \in 0 .. n
  BY <1>1, <1>2, <1>3, <1>4
<1>6. (gotframe' <=> i < w) /\ gotframe' \in BOOLEAN /\ dubPal' \in BOOLEAN
  <2>1. gotframe' = (Kind \in WholeKinds) /\ dubPal \in BOOLEAN
    BY DEF ReadFrame, DubType
  <2>2. dubPal' \in {TRUE, FALSE, dubPal}
    BY DEF ReadFrame
  <2>3. gotframe' <=> i < w
    BY <1>3, <2>1
  <2>4. gotframe' \in BOOLEAN
    BY <2>1
  <2>5. dubPal' \in BOOLEAN
    BY Zenon, <2>1, <2>2
  <2> QED BY <2>3, <2>4, <2>5
<1>7. frameBuf' = IF i < w THEN i + 1 ELSE 0
  BY <1>6 DEF ReadFrame, i
<1>8. i < w => inFrame' = i + 1 /\ (dubPal' <=> dub.frames[i + 1] = "pal")
  <2>1. i < w => /\ Kind = dub.frames[i + 1] /\ Kind \in {"pal", "ntsc"} /\ Kind # "end"
    BY <1>1, <1>2, <1>3 DEF WholeKinds
  <2>2. Kind \in {"pal", "ntsc"} => (dubPal' <=> Kind = "pal")
    BY DEF ReadFrame
  <2> QED BY <1>4, <2>1, <2>2
<1>9. i >= w => inFrame' >= w
  BY <1>1, <1>4
<1>10. i < w <=> ~(i >= w)
  BY <1>1
<1>11. i + 1 \in Nat /\ 0 \in Nat
  BY <1>1
<1> QED BY Zenon, <1>5, <1>6, <1>7, <1>8, <1>9, <1>10, <1>11 DEF n, w, i, FrameIsReadNext

LEMMA FrameIsStored ==
  ASSUME DubType, NEW piece \in [from : Int, size : Nat], Store(piece)
  PROVE  /\ dubOut' \in Seq(DubFrame) /\ Len(dubOut) \in Nat /\ Len(dubOut') = Len(dubOut) + 1
         /\ \A i \in 1 .. Len(dubOut) : dubOut'[i] = dubOut[i]
         /\ LET last == dubOut'[Len(dubOut) + 1]
            IN  last.picture = frameBuf /\ last.pal = dubPal /\ last.sound = piece
<1> DEFINE last == [picture |-> frameBuf, pal |-> dubPal, sound |-> piece]
<1>1. last \in DubFrame /\ dubOut \in Seq(DubFrame) /\ dubOut' = Append(dubOut, last)
  BY DEF DubType, DubFrame, Store
<1>2. last.picture = frameBuf /\ last.pal = dubPal /\ last.sound = piece
  OBVIOUS
<1> HIDE DEF last
<1>3. /\ dubOut' \in Seq(DubFrame) /\ Len(dubOut') = Len(dubOut) + 1
      /\ \A i \in 1 .. Len(dubOut) : dubOut'[i] = dubOut[i]
      /\ dubOut'[Len(dubOut) + 1] = last
  BY <1>1, AppendProperties
<1> QED BY <1>1, <1>2, <1>3, LenProperties

(* Nothing of the output changes.                                            *)
LEMMA OutputStays ==
  ASSUME DubOutput, UNCHANGED <<dub, dubOut, repeats, copied>>
  PROVE  DubOutput'
BY DEF DubOutput, DubbedRight, Dubbed, Repeated, Whole

LEMMA DubInitInv == DubInit => DubInv
<1> SUFFICES ASSUME DubInit PROVE DubInv
  OBVIOUS
<1>1. /\ dub \in DubJobs /\ dubPc = "start" /\ inFrame = 0 /\ frameBuf = 0 /\ dubPal = TRUE
      /\ gotframe = FALSE /\ dubHeard = 0 /\ repeats = dub.repeat
      /\ dubOut = <<>> /\ copied = <<>> /\ dub.repeat \in Nat
  BY DubAssumption DEF DubInit
<1>2. <<>> \in Seq(DubFrame) /\ <<>> \in Seq(Nat) /\ Len(<<>>) = 0
  BY EmptySeq
<1>3. Repeated = 0 /\ Dubbed = 0
  BY <1>1, <1>2 DEF Repeated, Dubbed
<1>4. DubType
  <2>1. 0 \in 0 .. Len(dub.frames)
    BY <1>1, WholeFramesFirst
  <2>2. dubPal \in BOOLEAN /\ gotframe \in BOOLEAN
    BY <1>1, Zenon
  <2> QED BY <1>1, <1>2, <2>1, <2>2 DEF DubType
<1>5. DubOutput
  BY <1>1, <1>2, <1>3 DEF DubOutput
<1> QED BY <1>1, <1>3, <1>4, <1>5 DEF DubInv, FrameInHand, DubPhases, SoundRead

(* Numbers that the steps compute with.                                      *)
DubInts ==
  /\ dub.repeat \in Nat /\ repeats \in Nat /\ repeats <= dub.repeat
  /\ Repeated \in Nat /\ Dubbed \in Nat /\ Len(dubOut) \in Nat
  /\ Len(dubOut) = Repeated + Dubbed /\ Len(copied) \in Nat
  /\ Whole \in Nat /\ inFrame \in Nat /\ dubHeard \in Nat
  /\ dub.bytespersecond \in Nat /\ dub.length \in Nat

LEMMA DubNumbers ==
  ASSUME DubInv
  PROVE  DubInts
<1>1. dub.repeat \in Nat /\ dub.bytespersecond \in Nat /\ dub.length \in Nat
  BY DubAssumption DEF DubInv, DubType
<1>2. repeats \in 0 .. dub.repeat /\ inFrame \in 0 .. Len(dub.frames) /\ dubHeard \in Nat
  BY DEF DubInv, DubType
<1>3. Len(dubOut) \in Nat /\ Len(copied) \in Nat
  BY LenProperties DEF DubInv, DubType
<1>4. Whole \in Nat /\ Len(dub.frames) \in Nat
  BY WholeFramesFirst DEF DubInv, DubType
<1>5. Repeated \in Nat
  BY <1>1, <1>2 DEF Repeated
<1> QED BY <1>1, <1>2, <1>3, <1>4, <1>5 DEF Dubbed, DubInv, DubOutput, DubInts

LEMMA StartKeeps == DubInv /\ Start => DubInv'
<1> SUFFICES ASSUME DubInv, Start PROVE DubInv'
  OBVIOUS
<1>n. DubInts
  BY DubNumbers
<1>1. /\ dubPc = "start" /\ ReadFrame /\ dubPc' = (IF gotframe' THEN "repeat" ELSE "load")
      /\ UNCHANGED <<dub, dubHeard, repeats, dubOut, copied>>
  BY DEF Start
<1>2. inFrame = 0 /\ Dubbed = 0 /\ copied = <<>> /\ dubHeard = 0 /\ Whole \in Nat
  BY <1>1, <1>n DEF DubInts, DubInv, DubPhases, SoundRead
<1>3. DubType /\ FrameIsReadNext
  BY <1>1, FrameIsRead DEF DubInv, FrameIsReadNext
<1>4. Dubbed' = 0 /\ Len(copied') = 0 /\ Whole' = Whole
  BY <1>1, <1>2 DEF Dubbed, Repeated, Whole
<1>5. DubType'
  BY <1>1, <1>3 DEF DubType, FrameIsReadNext
<1>6. FrameInHand'
  BY <1>1, <1>2, <1>3, <1>4 DEF FrameInHand, FrameIsReadNext
<1>7. DubPhases' /\ SoundRead'
  BY <1>1, <1>2, <1>4 DEF DubPhases, SoundRead
<1> QED BY <1>1, <1>5, <1>6, <1>7, OutputStays DEF DubInv

(* One frame more is stored; those before stay as they are.                  *)
LEMMA OutputGrows ==
  ASSUME DubInv, NEW piece \in [from : Int, size : Nat], Store(piece), dub' = dub
  PROVE  /\ dubOut' \in Seq(DubFrame) /\ Len(dubOut') = Len(dubOut) + 1
         /\ \A i \in 1 .. Len(dubOut) : dubOut'[i] = dubOut[i]
         /\ dubOut'[Len(dubOut')].picture = frameBuf /\ dubOut'[Len(dubOut')].pal = dubPal
         /\ dubOut'[Len(dubOut')].sound = piece /\ Whole' = Whole
<1>1. DubType /\ Whole' = Whole
  BY DEF DubInv, Whole
<1> QED BY <1>1, FrameIsStored

(* The program ends where it is, or does what nobody can say.                *)
LEMMA FailKeeps ==
  ASSUME DubInv, dubPc \in {"start", "repeat", "load"}, dubPc' \in {"failed", "overrun"},
         dubHeard' \in Nat,
         UNCHANGED <<dub, inFrame, frameBuf, dubPal, gotframe, repeats, dubOut, copied>>
  PROVE  DubInv'
<1>1. DubType' /\ FrameInHand' /\ SoundRead'
  BY DEF DubInv, DubType, FrameInHand, SoundRead
<1>2. DubPhases'
  BY DEF DubInv, DubPhases
<1> QED BY <1>1, <1>2, OutputStays DEF DubInv

LEMMA RepeatKeeps == DubInv /\ Repeat => DubInv'
<1> SUFFICES ASSUME DubInv, Repeat PROVE DubInv'
  OBVIOUS
<1>n. DubInts
  BY DubNumbers
<1>1. CASE repeats = 0 /\ dubPc' = "load" /\ UNCHANGED <<dubOut, repeats>>
  <2>1. /\ dubPc = "repeat" /\ dubPc' = "load"
        /\ UNCHANGED <<dub, inFrame, frameBuf, dubPal, gotframe, dubHeard, repeats, dubOut, copied>>
    BY <1>1 DEF Repeat
  <2>2. DubType'
    BY <2>1 DEF DubInv, DubType
  <2>3. Dubbed' = Dubbed /\ Whole' = Whole
    BY <2>1 DEF Dubbed, Repeated, Whole
  <2>4. FrameInHand' /\ DubPhases' /\ SoundRead'
    BY <2>1, <2>3 DEF DubInv, FrameInHand, DubPhases, SoundRead
  <2> QED BY <2>1, <2>2, <2>4, OutputStays DEF DubInv
<1>2. CASE repeats # 0 /\ Store(Garbage) /\ repeats' = repeats - 1 /\ UNCHANGED dubPc
  <2>1. /\ dubPc = "repeat" /\ dubPc' = "repeat" /\ Store(Garbage) /\ repeats' = repeats - 1
        /\ UNCHANGED <<dub, inFrame, frameBuf, dubPal, gotframe, dubHeard, copied>>
    BY <1>2 DEF Repeat
  <2>2. Garbage \in [from : Int, size : Nat]
    BY DEF Garbage
  <2>3. /\ dubOut' \in Seq(DubFrame) /\ Len(dubOut') = Len(dubOut) + 1
        /\ \A i \in 1 .. Len(dubOut) : dubOut'[i] = dubOut[i]
        /\ dubOut'[Len(dubOut')].picture = frameBuf /\ Whole' = Whole
    BY <2>1, <2>2, OutputGrows
  <2>4. Dubbed = 0 /\ copied = <<>> /\ gotframe /\ frameBuf = 1 /\ Len(copied) = 0
    BY <2>1 DEF DubInv, DubPhases, FrameInHand
  <2>5. /\ Repeated' = Repeated + 1 /\ Dubbed' = 0 /\ Len(dubOut) = Repeated
        /\ repeats' \in 0 .. dub.repeat /\ Repeated \in Nat
    <3>1. Repeated = dub.repeat - repeats /\ Repeated' = dub.repeat - (repeats - 1)
      BY <2>1 DEF Repeated
    <3>2. Dubbed = Len(dubOut) - Repeated /\ Dubbed' = Len(dubOut') - Repeated'
      BY DEF Dubbed
    <3>3. PICK p \in Nat, x \in Nat, l \in Nat : p = repeats /\ x = dub.repeat /\ l = Len(dubOut)
      BY <1>n DEF DubInts
    <3>4. p # 0 /\ p <= x /\ repeats' = p - 1
      BY <1>2, <1>n, <2>1, <3>3 DEF DubInts
    <3>5. l - (x - p) = 0 /\ Len(dubOut') = l + 1
      BY <2>3, <2>4, <3>1, <3>2, <3>3
    <3>6. Repeated = x - p /\ Repeated' = x - (p - 1)
      BY <3>1, <3>3
    <3>7. Dubbed' = l + 1 - (x - (p - 1))
      BY <3>2, <3>5, <3>6
    <3>8. repeats' \in 0 .. x /\ x - p \in Nat
      BY <3>3, <3>4
    <3>9. Repeated' = Repeated + 1
      BY <3>3, <3>6
    <3>10. Dubbed' = 0 /\ Len(dubOut) = Repeated
      <4>1. l = x - p
        BY <3>3, <3>5
      <4>2. Len(dubOut) = Repeated
        BY <3>3, <3>6, <4>1
      <4>3. l + 1 - (x - (p - 1)) = 0
        BY <3>3, <4>1
      <4> QED BY <3>7, <4>2, <4>3
    <3> QED BY <3>3, <3>6, <3>8, <3>9, <3>10
  <2>6. DubType'
    BY <2>1, <2>3, <2>5 DEF DubInv, DubType
  <2>7. FrameInHand' /\ DubPhases' /\ SoundRead'
    BY <2>1, <2>3, <2>4, <2>5 DEF DubInv, FrameInHand, DubPhases, SoundRead
  <2>8. DubOutput'
    BY <2>1, <2>3, <2>4, <2>5 DEF DubInv, DubOutput
  <2> QED BY <2>6, <2>7, <2>8 DEF DubInv
<1>3. CASE Fail
  BY <1>3, FailKeeps DEF Repeat, Fail, DubInv, DubType
<1> QED BY <1>1, <1>2, <1>3 DEF Repeat

LEMMA OverrunKeeps == DubInv /\ (SoundRefused \/ Overrun) => DubInv'
BY FailKeeps DEF SoundRefused, Overrun, Loading, DubInv, DubType

LEMMA TruncateKeeps == DubInv /\ Truncate => DubInv'
<1> SUFFICES ASSUME DubInv, Truncate PROVE DubInv'
  OBVIOUS
<1>1. /\ dubPc = "load" /\ ~gotframe /\ dub.truncate /\ dubPc' = "done"
      /\ UNCHANGED <<dub, inFrame, frameBuf, dubPal, gotframe, dubHeard, repeats, dubOut, copied>>
  BY DEF Truncate
<1>2. DubType'
  BY <1>1 DEF DubInv, DubType
<1>3. Dubbed' = Dubbed /\ Whole' = Whole
  BY <1>1 DEF Dubbed, Repeated, Whole
<1>4. FrameInHand' /\ DubPhases' /\ SoundRead'
  BY <1>1, <1>3 DEF DubInv, FrameInHand, DubPhases, SoundRead
<1> QED BY <1>1, <1>2, <1>4, OutputStays DEF DubInv

LEMMA SoundEndsKeeps == DubInv /\ SoundEnds => DubInv'
<1> SUFFICES ASSUME DubInv, SoundEnds PROVE DubInv'
  OBVIOUS
<1>n. DubInts
  BY DubNumbers
<1>1. /\ dubPc = "load" /\ dubHeard' = dub.length
      /\ dubPc' = (IF dub.truncate THEN "done" ELSE "copy")
      /\ UNCHANGED <<dub, inFrame, frameBuf, dubPal, gotframe, repeats, dubOut, copied>>
  BY DEF SoundEnds, Loading
<1>2. DubType'
  BY <1>1, <1>n DEF DubInts, DubInv, DubType
<1>3. Dubbed' = Dubbed /\ Whole' = Whole
  BY <1>1 DEF Dubbed, Repeated, Whole
<1>4. FrameInHand' /\ DubPhases' /\ SoundRead'
  BY <1>1, <1>3 DEF DubInv, FrameInHand, DubPhases, SoundRead
<1> QED BY <1>1, <1>2, <1>4, OutputStays DEF DubInv

LEMMA CopyKeeps == DubInv /\ Copy => DubInv'
<1> SUFFICES ASSUME DubInv, Copy PROVE DubInv'
  OBVIOUS
<1>n. DubInts
  BY DubNumbers
<1>1. CASE ~gotframe
  <2>1. /\ dubPc = "copy" /\ dubPc' = "done"
        /\ UNCHANGED <<dub, inFrame, frameBuf, dubPal, gotframe, dubHeard, repeats, dubOut, copied>>
    BY <1>1 DEF Copy
  <2>2. DubType'
    BY <2>1 DEF DubInv, DubType
  <2>3. Dubbed' = Dubbed /\ Whole' = Whole
    BY <2>1 DEF Dubbed, Repeated, Whole
  <2>4. FrameInHand' /\ DubPhases' /\ SoundRead'
    BY <1>1, <2>1, <2>3 DEF DubInv, FrameInHand, DubPhases, SoundRead
  <2> QED BY <2>1, <2>2, <2>4, OutputStays DEF DubInv
<1>2. CASE gotframe
  <2>1. /\ dubPc = "copy" /\ dubPc' = "copy" /\ copied' = Append(copied, frameBuf) /\ ReadFrame
        /\ UNCHANGED <<dub, dubHeard, repeats, dubOut>>
    BY <1>2 DEF Copy
  <2>2. /\ copied \in Seq(Nat) /\ frameBuf \in Nat /\ FrameIsReadNext
        /\ frameBuf = Dubbed + Len(copied) + 1 /\ inFrame = frameBuf /\ frameBuf <= Whole
    BY <1>2, <2>1, FrameIsRead DEF DubInv, DubType, FrameInHand
  <2>3. /\ copied' \in Seq(Nat) /\ Len(copied') = Len(copied) + 1 /\ Len(copied) \in Nat
        /\ \A k \in 1 .. Len(copied) : copied'[k] = copied[k]
        /\ copied'[Len(copied) + 1] = frameBuf
    BY <2>1, <2>2, AppendProperties, LenProperties
  <2>4. Dubbed' = Dubbed /\ Whole' = Whole /\ Repeated' = Repeated
    BY <2>1 DEF Dubbed, Repeated, Whole
  <2>5. DubType'
    BY <2>1, <2>2, <2>3 DEF DubInv, DubType, FrameIsReadNext
  <2>6. FrameInHand'
    BY <2>1, <2>2, <2>3, <2>4, <1>n, SMTT(30) DEF DubInts, FrameInHand, FrameIsReadNext
  <2>7. DubPhases' /\ SoundRead'
    BY <2>1 DEF DubInv, DubPhases, SoundRead
  <2>8. DubOutput'
    <3>1. \A k \in 1 .. Len(copied') : copied'[k] = Dubbed' + k
      <4>1. \A k \in 1 .. Len(copied) : copied[k] = Dubbed + k
        BY DEF DubInv, DubOutput
      <4>2. PICK c \in Nat : c = Len(copied)
        BY <1>n DEF DubInts
      <4>3. copied'[c + 1] = Dubbed + (c + 1)
        BY <1>n, <2>2, <2>3, <4>2 DEF DubInts
      <4>4. \A k \in 1 .. c : copied'[k] = Dubbed + k
        BY Zenon, <2>3, <4>1, <4>2
      <4>5. \A k \in 1 .. c + 1 : k = c + 1 \/ k \in 1 .. c
        OBVIOUS
      <4> QED BY Zenon, <2>3, <2>4, <4>2, <4>3, <4>4, <4>5
    <3>2. \A i \in Repeated + 1 .. Len(dubOut) : DubbedRight(i)'
      BY <2>1, <2>4 DEF DubInv, DubOutput, DubbedRight
    <3> QED BY <2>1, <2>4, <3>1, <3>2 DEF DubInv, DubOutput
  <2> QED BY <2>5, <2>6, <2>7, <2>8 DEF DubInv
<1> QED BY <1>1, <1>2

LEMMA DubStoredKeeps ==
  ASSUME DubInv, Dub, Store([from |-> dubHeard, size |-> DubSize]), ReadFrame,
         UNCHANGED <<dub, dubPc, repeats, copied>>
  PROVE  DubInv'
<1>n. DubInts
  BY DubNumbers
<1> DEFINE piece == [from |-> dubHeard, size |-> DubSize]
<1>1. /\ dubPc = "load" /\ dubPc' = "load" /\ (gotframe \/ ~dub.truncate)
      /\ dubHeard' = dubHeard + DubSize /\ Store(piece) /\ ReadFrame
      /\ UNCHANGED <<dub, repeats, copied>>
  BY DEF Dub, Loading
<1>2. DubSize \in Nat /\ dubHeard \in Nat
  BY <1>n DEF DubInts, DubSize
<1>3. piece \in [from : Int, size : Nat] /\ piece.from = dubHeard /\ piece.size = DubSize
  BY <1>2
<1> HIDE DEF piece
<1>4. /\ dubOut' \in Seq(DubFrame) /\ Len(dubOut') = Len(dubOut) + 1
      /\ \A i \in 1 .. Len(dubOut) : dubOut'[i] = dubOut[i]
      /\ dubOut'[Len(dubOut')].picture = frameBuf /\ dubOut'[Len(dubOut')].pal = dubPal
      /\ dubOut'[Len(dubOut')].sound = piece /\ Whole' = Whole
  BY <1>1, <1>3, OutputGrows
<1>5. FrameIsReadNext /\ copied = <<>> /\ Len(copied) = 0
  BY <1>1, FrameIsRead DEF DubInv, DubPhases
<1>6. Repeated' = Repeated /\ Dubbed' = Dubbed + 1
  <2>1. Repeated' = Repeated
    BY <1>1 DEF Repeated
  <2>2. Dubbed = Len(dubOut) - Repeated /\ Dubbed' = Len(dubOut') - Repeated'
    BY DEF Dubbed
  <2> QED BY <1>4, <1>n, <2>1, <2>2 DEF DubInts
<1>7. IF gotframe
        THEN /\ frameBuf = Dubbed + 1 /\ inFrame = frameBuf /\ frameBuf <= Whole
             /\ dubPal <=> dub.frames[frameBuf] = "pal"
        ELSE frameBuf = 0 /\ inFrame >= Whole /\ Dubbed >= Whole
  BY <1>1, <1>5, <1>n DEF DubInts, DubInv, FrameInHand
<1>8. DubType'
  BY <1>1, <1>2, <1>4, <1>5 DEF DubInv, DubType, FrameIsReadNext
<1>9. FrameInHand'
  <2>1. Len(copied') = 0 /\ dub' = dub
    BY <1>1, <1>5
  <2>2. CASE inFrame < Whole
    <3>1. /\ gotframe' /\ frameBuf' = inFrame + 1 /\ inFrame' = inFrame + 1
          /\ dubPal' <=> dub.frames[inFrame + 1] = "pal"
      BY <1>5, <2>2 DEF FrameIsReadNext
    <3>2. inFrame = Dubbed + 1
      BY <1>7, <1>n, <2>2 DEF DubInts
    <3> QED BY <1>4, <1>6, <1>n, <2>1, <2>2, <3>1, <3>2 DEF DubInts, FrameInHand
  <2>3. CASE inFrame >= Whole
    <3>1. ~gotframe' /\ frameBuf' = 0 /\ inFrame' >= Whole
      BY <1>5, <2>3 DEF FrameIsReadNext
    <3>2. Dubbed + 1 >= Whole
      BY <1>7, <1>n, <2>3 DEF DubInts
    <3> QED BY <1>4, <1>6, <1>n, <2>1, <3>1, <3>2 DEF DubInts, FrameInHand
  <2> QED BY <1>n, <2>2, <2>3 DEF DubInts
<1>10. DubPhases' /\ SoundRead'
  BY <1>1, <1>3, <1>4, <1>5, <1>6, <1>n DEF DubInts, DubInv, DubPhases, SoundRead
<1>11. ASSUME NEW i \in Repeated + 1 .. Len(dubOut) PROVE DubbedRight(i)'
  <2>1. /\ DubbedRight(i) /\ dubOut'[i] = dubOut[i]
        /\ i - Repeated # 1 => dubOut'[i - 1] = dubOut[i - 1]
    <3>1. DubbedRight(i)
      BY DEF DubInv, DubOutput
    <3>2. /\ i \in 1 .. Len(dubOut)
          /\ i - Repeated # 1 => i - 1 \in 1 .. Len(dubOut)
      BY <1>n DEF DubInts
    <3> QED BY <1>4, <3>1, <3>2
  <2> QED BY <1>1, <1>4, <1>6, <2>1 DEF DubbedRight
<1>12. ASSUME NEW i \in Nat, i = Len(dubOut') PROVE DubbedRight(i)'
  <2>1. i - Repeated = Dubbed + 1
    BY <1>4, <1>12, <1>n DEF DubInts
  <2>2. dubHeard = IF Dubbed = 0 THEN 0 ELSE dubOut'[i - 1].sound.from + dubOut'[i - 1].sound.size
    <3>1. dubHeard = IF Dubbed = 0 THEN 0
                     ELSE dubOut[Len(dubOut)].sound.from + dubOut[Len(dubOut)].sound.size
      BY <1>1 DEF DubInv, SoundRead
    <3>2. i - 1 = Len(dubOut) /\ (Dubbed # 0 => dubOut'[i - 1] = dubOut[Len(dubOut)])
      BY <1>4, <1>12, <1>n DEF DubInts
    <3> QED BY <3>1, <3>2
  <2>3. DubSize = dub.bytespersecond \div (IF dubOut'[i].pal THEN 25 ELSE 30)
    BY <1>4, <1>12 DEF DubSize
  <2>4. DubbedRight(i)' <=>
         LET k == i - Repeated'
             o == dubOut'[i]
         IN /\ o.picture = IF k <= Whole' THEN k ELSE 0
            /\ o.picture = 0 => ~dub'.truncate
            /\ o.sound.from = IF k = 1 THEN 0
                              ELSE dubOut'[i - 1].sound.from + dubOut'[i - 1].sound.size
            /\ o.pal = (k <= Whole' /\ dub'.frames[k] = "pal") \/ o.picture = 0
            /\ o.sound.size = dub'.bytespersecond \div (IF o.pal THEN 25 ELSE 30)
    BY DEF DubbedRight
  <2> DEFINE o == dubOut'[i]
  <2>5. /\ o.picture = frameBuf /\ o.pal = dubPal /\ o.sound.from = dubHeard
        /\ o.sound.size = DubSize
    BY <1>3, <1>4, <1>12
  <2>6. frameBuf = IF Dubbed + 1 <= Whole THEN Dubbed + 1 ELSE 0
    BY <1>7, <1>n DEF DubInts
  <2>7. frameBuf = 0 => ~dub.truncate
    BY <1>1, <1>7, <1>n DEF DubInts
  <2>8. dubPal = (Dubbed + 1 <= Whole /\ dub.frames[Dubbed + 1] = "pal") \/ frameBuf = 0
    <3>1. dubPal \in BOOLEAN
      BY DEF DubInv, DubType
    <3>2. frameBuf # 0 => /\ Dubbed + 1 <= Whole
                          /\ dubPal <=> dub.frames[Dubbed + 1] = "pal"
      BY <1>7, <1>n DEF DubInts
    <3> QED BY Zenon, <3>1, <3>2
  <2> HIDE DEF o
  <2>9. Dubbed + 1 = 1 <=> Dubbed = 0
    BY <1>n DEF DubInts
  <2> QED BY Zenon, <1>1, <1>4, <1>6, <2>1, <2>2, <2>3, <2>4, <2>5, <2>6, <2>7, <2>8, <2>9 DEF o
<1>13. DubOutput'
  <2>1. \A i \in Repeated + 1 .. Len(dubOut') : DubbedRight(i)'
    BY <1>4, <1>11, <1>12, <1>n DEF DubInts
  <2>2. \A i \in 1 .. Repeated : dubOut'[i].picture = 1
    BY <1>4, <1>n DEF DubInts, DubInv, DubOutput
  <2> QED BY <1>1, <1>5, <1>6, <2>1, <2>2, <1>n DEF DubInts, DubOutput
<1> QED BY <1>8, <1>9, <1>10, <1>13 DEF DubInv

LEMMA DubKeeps == DubInv /\ Dub => DubInv'
<1> SUFFICES ASSUME DubInv, Dub PROVE DubInv'
  OBVIOUS
<1>1. CASE Fail
  <2>1. dubPc = "load" /\ dubHeard' = dubHeard + DubSize
    BY DEF Dub, Loading
  <2>2. dubHeard + DubSize \in Nat
    <3>1. PICK b \in Nat, h \in Nat : b = dub.bytespersecond /\ h = dubHeard
      BY DubNumbers DEF DubInts
    <3>2. b \div 25 \in Nat /\ b \div 30 \in Nat
      OBVIOUS
    <3>3. DubSize \in Nat
      BY Zenon, <3>1, <3>2 DEF DubSize
    <3> QED BY <3>1, <3>3
  <2> QED BY <1>1, <2>1, <2>2, FailKeeps DEF Fail
<1>2. CASE ~Fail
  <2>1. /\ Store([from |-> dubHeard, size |-> DubSize]) /\ ReadFrame
        /\ UNCHANGED <<dub, dubPc, repeats, copied>>
    BY <1>2 DEF Dub
  <2> QED BY <2>1, DubStoredKeeps
<1> QED BY <1>1, <1>2

LEMMA DubStep == DubInv /\ [DubNext]_dubVars => DubInv'
<1>1. ASSUME DubInv, UNCHANGED dubVars PROVE DubInv'
  <2>1. DubType' /\ DubPhases' /\ SoundRead'
    BY <1>1 DEF dubVars, DubInv, DubType, DubPhases, SoundRead, Dubbed, Repeated
  <2>2. FrameInHand'
    BY <1>1 DEF dubVars, DubInv, FrameInHand, Dubbed, Repeated, Whole
  <2>3. DubOutput'
    BY <1>1, OutputStays DEF dubVars, DubInv
  <2> QED BY <2>1, <2>2, <2>3 DEF DubInv
<1> QED BY <1>1, StartKeeps, RepeatKeeps, OverrunKeeps, DubKeeps, TruncateKeeps,
           SoundEndsKeeps, CopyKeeps
        DEF DubNext

LEMMA DubFailsStep == DubInv /\ DubFails /\ [DubNext]_dubVars => DubFails'
<1> SUFFICES ASSUME DubInv, DubFails, [DubNext]_dubVars PROVE DubFails'
  OBVIOUS
<1> USE DEF DubFails
<1>1. CASE UNCHANGED dubVars
  BY <1>1 DEF dubVars, Unsupported
<1>2. DubPhases
  BY DEF DubInv
<1>3. CASE SoundRefused \/ Overrun \/ Truncate \/ SoundEnds
  BY <1>2, <1>3 DEF SoundRefused, Overrun, Truncate, SoundEnds, Loading, Unsupported
<1>4. CASE Start
  BY <1>4 DEF Start, Unsupported
<1>5. CASE Repeat
  BY <1>2, <1>5 DEF Repeat, Store, Fail, Unsupported, DubPhases
<1>6. CASE Dub
  BY <1>2, <1>6 DEF Dub, Loading, Store, Fail, Unsupported, DubPhases
<1>7. CASE Copy
  BY <1>7 DEF Copy, Unsupported
<1> QED BY <1>1, <1>3, <1>4, <1>5, <1>6, <1>7 DEF DubNext

(* The invariant says what the property does, of other places in dubOut.     *)
LEMMA DubInvSays == DubInv /\ DubFails => DubKeepsPictures
<1> SUFFICES ASSUME DubInv, DubFails PROVE DubKeepsPictures
  OBVIOUS
<1> DEFINE n == Len(dubOut) - Repeated
           first == SubSeq(dubOut, 1, Repeated)
           At(k) == dubOut[Repeated + k]
<1>n. DubInts /\ n = Dubbed
  BY DubNumbers DEF Dubbed
<1>1. ASSUME NEW k \in 1 .. Repeated PROVE first[k].picture = 1
  <2>1. first[k] = dubOut[k]
    BY <1>n, SubSeqProperties DEF DubInts, DubInv, DubType
  <2> QED BY <2>1 DEF DubInv, DubOutput
<1>2. ASSUME NEW k \in 1 .. n
      PROVE  /\ At(k).picture = IF k <= Whole THEN k ELSE 0
             /\ At(k).picture = 0 => ~dub.truncate
             /\ At(k).sound.from = IF k = 1 THEN 0 ELSE At(k - 1).sound.from + At(k - 1).sound.size
             /\ At(k).pal = (k <= Whole /\ dub.frames[k] = "pal") \/ At(k).picture = 0
             /\ At(k).sound.size = dub.bytespersecond \div (IF At(k).pal THEN 25 ELSE 30)
  <2>1. PICK i : /\ i = Repeated + k /\ i \in Repeated + 1 .. Len(dubOut)
                 /\ i - Repeated = k /\ i - 1 = Repeated + (k - 1)
    BY <1>n DEF DubInts
  <2>2. DubbedRight(i)
    BY <2>1 DEF DubInv, DubOutput
  <2> QED BY <2>1, <2>2 DEF DubbedRight
<1>3. \A k \in DOMAIN copied : copied[k] = n + k
  <2>1. DOMAIN copied = 1 .. Len(copied)
    BY LenProperties DEF DubInv, DubType
  <2> QED BY <1>n, <2>1 DEF DubInv, DubOutput
<1>4. dubPc = "done" /\ ~dub.truncate => n + Len(copied) >= Whole
  BY <1>n DEF DubInv, DubPhases, FrameInHand
<1>5. /\ Unsupported => dubOut = <<>>
      /\ dubPc = "failed" => dubOut = <<>> /\ copied = <<>>
  BY DEF DubFails
<1> QED BY <1>1, <1>2, <1>3, <1>4, <1>5 DEF DubKeepsPictures

(***************************************************************************)
(* dubdv loses no picture and doubles none, whatever frames of both        *)
(* standards come in and whatever the sound: the frames it stores are      *)
(* those of its input in their order, each with the next piece of sound,   *)
(* what it copies behind them follows on, and where it ends without        *)
(* --truncate none is left.  Sound that store refuses is found out before  *)
(* anything is written.                                                    *)
(***************************************************************************)
THEOREM DubLosesNothing == DubSpec => []DubKeepsPictures
<1>1. DubInit => DubFails
  BY DEF DubInit, DubFails
<1> QED BY <1>1, DubInitInv, DubStep, DubFailsStep, DubInvSays, PTL DEF DubSpec

(***************************************************************************)
(* playdv: the place of the picture in the window.                         *)
(***************************************************************************)
(* A window, with whatever format its picture has.                           *)
Display(format) ==
           [lib : {"Xv", "SDL", "gtk", "none"}, flags : {"asis", "normal", "wide"},
            swidth : Nat, sheight : Nat, dwidth : Nat, dheight : Nat,
            lwidth : Nat, lheight : Nat, lxoff : Nat, lyoff : Nat, picFormat : {format}]
IsDisplay(d) == d \in Display(d.picFormat)

(* The picture is in the middle, with bars at the sides or above and below.  *)
Pillars(d) == d.flags = "wide" /\ d.picFormat = FormatNormal
Letterbox(d) == d.flags = "normal" /\ d.picFormat = FormatWide
BarsRight(d) ==
  /\ d.lxoff = IF Pillars(d) THEN d.dwidth \div 8 ELSE 0
  /\ d.lwidth = IF Pillars(d) THEN (d.dwidth * 3) \div 4 ELSE d.dwidth
  /\ d.lyoff = IF Letterbox(d) THEN d.dheight \div 8 ELSE 0
  /\ d.lheight = IF Letterbox(d) THEN (d.dheight * 3) \div 4 ELSE d.dheight
Placed(d) == d.flags = "asis" \/ d.picFormat = FormatUnknown \/ BarsRight(d)

Rows(s) == IF s = "pal" THEN 576 ELSE 480
PlayInv ==
  /\ \E S : shown \in Seq(S)
  /\ playPc = "open" => shown = <<>>
  /\ playPc \in {"map", "remap", "show", "event", "end"} =>
       /\ IsDisplay(display) /\ Placed(display)
       /\ display.lib = "Xv" =>
            /\ display.flags = play.aspect
            /\ playPc # "remap" => display.sheight = Rows(playSystem)
            /\ shown # <<>> /\ display.flags # "asis" =>
                 display.picFormat = Last(shown).format

LEMMA BoxedFields ==
  ASSUME NEW d, IsDisplay(d), NEW x, NEW y
  PROVE  LET e == Boxed(d, x, y)
         IN  /\ IsDisplay(e)
             /\ e.lxoff = (IF x THEN d.dwidth \div 8 ELSE 0)
             /\ e.lyoff = (IF y THEN d.dheight \div 8 ELSE 0)
             /\ e.lwidth = (IF x THEN (d.dwidth * 3) \div 4 ELSE d.dwidth)
             /\ e.lheight = (IF y THEN (d.dheight * 3) \div 4 ELSE d.dheight)
             /\ e.lib = d.lib /\ e.flags = d.flags /\ e.sheight = d.sheight
             /\ e.dwidth = d.dwidth /\ e.dheight = d.dheight /\ e.picFormat = d.picFormat
<1>1. d.dwidth \in Nat /\ d.dheight \in Nat
  BY DEF IsDisplay, Display
<1>2. /\ d.dwidth \div 8 \in Nat /\ (d.dwidth * 3) \div 4 \in Nat
      /\ d.dheight \div 8 \in Nat /\ (d.dheight * 3) \div 4 \in Nat
  BY <1>1
<1> QED BY <1>1, <1>2 DEF Boxed, IsDisplay, Display

LEMMA FormatIsSet ==
  ASSUME NEW d, IsDisplay(d), NEW format
  PROVE  LET e == [d EXCEPT !.picFormat = format]
         IN  /\ IsDisplay(e) /\ e.picFormat = format
             /\ e.lxoff = d.lxoff /\ e.lyoff = d.lyoff /\ e.lwidth = d.lwidth
             /\ e.lheight = d.lheight /\ e.lib = d.lib /\ e.flags = d.flags
             /\ e.sheight = d.sheight /\ e.dwidth = d.dwidth /\ e.dheight = d.dheight
BY DEF IsDisplay, Display

(* dv_display_check_format puts the picture where its format asks for.       *)
LEMMA FormatIsChecked ==
  ASSUME NEW d, IsDisplay(d), NEW format, Placed(d)
  PROVE  LET e == CheckFormat(d, format)
         IN  /\ IsDisplay(e) /\ Placed(e)
             /\ e.lib = d.lib /\ e.flags = d.flags /\ e.sheight = d.sheight
             /\ d.flags # "asis" => e.picFormat = format
<1>1. CASE format = d.picFormat \/ d.flags = "asis"
  BY <1>1 DEF CheckFormat
<1>2. CASE ~(format = d.picFormat \/ d.flags = "asis")
  <2> DEFINE f == Fit(d, format)
             e == [f EXCEPT !.picFormat = format]
  <2>1. CheckFormat(d, format) = e
    BY <1>2 DEF CheckFormat
  <2>2. CASE format = FormatUnknown
    <3>1. f = d
      BY <2>2 DEF Fit
    <3> QED BY <1>2, <2>1, <2>2, <3>1, FormatIsSet DEF Placed
  <2>3. CASE format # FormatUnknown
    <3> DEFINE x == d.flags = "wide" /\ format = FormatNormal
               y == d.flags = "normal" /\ format = FormatWide
    <3>1. f = Boxed(d, x, y)
      BY <2>3 DEF Fit
    <3> HIDE DEF x, y
    <3>2. /\ IsDisplay(f)
          /\ f.lxoff = (IF x THEN d.dwidth \div 8 ELSE 0)
          /\ f.lyoff = (IF y THEN d.dheight \div 8 ELSE 0)
          /\ f.lwidth = (IF x THEN (d.dwidth * 3) \div 4 ELSE d.dwidth)
          /\ f.lheight = (IF y THEN (d.dheight * 3) \div 4 ELSE d.dheight)
          /\ f.lib = d.lib /\ f.flags = d.flags /\ f.sheight = d.sheight
          /\ f.dwidth = d.dwidth /\ f.dheight = d.dheight
      BY <3>1, BoxedFields
    <3> HIDE DEF f
    <3>3. /\ IsDisplay(e) /\ e.picFormat = format
          /\ e.lxoff = f.lxoff /\ e.lyoff = f.lyoff /\ e.lwidth = f.lwidth
          /\ e.lheight = f.lheight /\ e.lib = f.lib /\ e.flags = f.flags
          /\ e.sheight = f.sheight /\ e.dwidth = f.dwidth /\ e.dheight = f.dheight
      BY <3>2, FormatIsSet
    <3> HIDE DEF e
    <3>4. BarsRight(e)
      BY <3>2, <3>3 DEF BarsRight, Pillars, Letterbox, x, y
    <3> QED BY <2>1, <3>2, <3>3, <3>4 DEF Placed
  <2> QED BY <2>2, <2>3
<1> QED BY <1>1, <1>2

(* A window of a new size keeps the format.                                  *)
LEMMA WindowIsResized ==
  ASSUME NEW d, IsDisplay(d), NEW w \in Nat, NEW h \in Nat, Placed(d)
  PROVE  LET e == Resize(d, w, h)
         IN  /\ IsDisplay(e) /\ Placed(e)
             /\ e.lib = d.lib /\ e.flags = d.flags /\ e.sheight = d.sheight
             /\ d.flags # "asis" => e.picFormat = d.picFormat
<1> DEFINE c == [d EXCEPT !.dwidth = w, !.dheight = h, !.picFormat = FormatUnknown]
<1>1. /\ IsDisplay(c) /\ c.picFormat = FormatUnknown /\ c.lib = d.lib /\ c.flags = d.flags
      /\ c.sheight = d.sheight
  BY DEF IsDisplay, Display
<1>2. Resize(d, w, h) = CheckFormat(c, d.picFormat)
  BY DEF Resize
<1> HIDE DEF c
<1>3. Placed(c)
  BY <1>1 DEF Placed
<1> QED BY <1>1, <1>2, <1>3, FormatIsChecked

(* The window that is opened first.                                          *)
LEMMA WindowIsOpened ==
  ASSUME NEW rows \in Nat, DisplayAccepted(play), DisplayMethod(play.display, play.there) = "Xv"
  PROVE  LET d == XvInit(720, rows, play)
         IN  IsDisplay(d) /\ Placed(d) /\ d.lib = "Xv" /\ d.flags = play.aspect /\ d.sheight = rows
<1>1. play.aspect \in {"asis", "normal", "wide"} /\ (play.scale = 0 \/ play.scale \in 10 .. 100)
  BY DEF DisplayAccepted
<1>2. ASSUME NEW n \in Nat PROVE Percent(n, play.scale) \in Nat
  <2>1. CASE play.scale = 0
    BY <2>1 DEF Percent
  <2>2. CASE play.scale \in 10 .. 100
    <3>1. PICK z \in Nat : z = play.scale
      BY <2>2
    <3>2. n * z \in Nat
      OBVIOUS
    <3>3. (n * z) \div 100 \in Nat
      BY <3>2
    <3> QED BY <3>1, <3>3 DEF Percent
  <2> QED BY <1>1, <2>1, <2>2
<1> DEFINE w == Percent(CASE play.aspect = "asis" -> 720 [] play.aspect = "normal" -> 768
                          [] play.aspect = "wide" -> 1024, play.scale)
           h == Percent(IF play.aspect = "asis" THEN rows ELSE 576, play.scale)
           d == XvInit(720, rows, play)
<1>3. w \in Nat /\ h \in Nat
  <2>1. (CASE play.aspect = "asis" -> 720 [] play.aspect = "normal" -> 768
           [] play.aspect = "wide" -> 1024) \in Nat
    BY <1>1
  <2>2. (IF play.aspect = "asis" THEN rows ELSE 576) \in Nat
    OBVIOUS
  <2> QED BY ZenonT(40), <1>2, <2>1, <2>2
<1>4. d = [lib |-> "Xv", flags |-> play.aspect, swidth |-> 720, sheight |-> rows,
           dwidth |-> w, dheight |-> h, lwidth |-> w, lheight |-> h, lxoff |-> 0, lyoff |-> 0,
           picFormat |-> IF play.aspect = "asis" THEN FormatNormal ELSE FormatUnknown]
  BY DEF XvInit
<1> HIDE DEF w, h, d
<1>6. IsDisplay(d) /\ Placed(d) /\ d.lib = "Xv" /\ d.flags = play.aspect /\ d.sheight = rows
  BY <1>1, <1>3, <1>4 DEF IsDisplay, Display, Placed
<1> QED BY <1>6 DEF d

LEMMA OtherIsOpened ==
  ASSUME NEW lib \in {"SDL", "gtk", "none"}, NEW rows \in Nat
  PROVE  LET d == OtherInit(lib, 720, rows)
         IN  IsDisplay(d) /\ Placed(d) /\ d.lib # "Xv"
BY DEF OtherInit, IsDisplay, Display, Placed

LEMMA NormIsSet ==
  ASSUME NEW d, IsDisplay(d), NEW s
  PROVE  LET e == SetNorm(d, s)
         IN  /\ IsDisplay(e) /\ (Placed(d) => Placed(e)) /\ e.lib = d.lib /\ e.flags = d.flags
             /\ e.picFormat = d.picFormat /\ e.sheight = Rows(s)
<1> DEFINE e == SetNorm(d, s)
<1>1. /\ IsDisplay(e) /\ e.sheight = Rows(s)
      /\ e.lxoff = d.lxoff /\ e.lyoff = d.lyoff /\ e.lwidth = d.lwidth /\ e.lheight = d.lheight
      /\ e.lib = d.lib /\ e.flags = d.flags /\ e.picFormat = d.picFormat
      /\ e.dwidth = d.dwidth /\ e.dheight = d.dheight
  BY DEF SetNorm, IsDisplay, Display, Rows
<1> HIDE DEF e
<1>2. Placed(d) => Placed(e)
  BY <1>1 DEF Placed, BarsRight, Pillars, Letterbox
<1> QED BY <1>1, <1>2 DEF e

(* The steps that stop the program leave the player's loop.                  *)
LEMMA StopKeeps ==
  ASSUME PlayInv, NEW how, Stop(how), how \notin {"open", "map", "remap", "show", "event", "end"}
  PROVE  PlayInv'
BY DEF PlayInv, Stop

LEMMA OpenKeeps == PlayInv /\ OpenHeader => PlayInv'
<1> SUFFICES ASSUME PlayInv, OpenHeader PROVE PlayInv'
  OBVIOUS
<1>1. CASE Stop("usage")
  BY <1>1, StopKeeps
<1>2. CASE Stop(PipeExit(0, 5))
  BY <1>2, StopKeeps DEF PipeExit
<1>3. CASE DisplayAccepted(play) /\ ~Stop("usage") /\ ~Stop(PipeExit(0, 5))
  <2> DEFINE lib == DisplayMethod(play.display, play.there)
             rows == Rows(playSystem')
  <2>1. /\ display' = (IF lib = "Xv" THEN XvInit(720, rows, play) ELSE OtherInit(lib, 720, rows))
        /\ shown' = shown /\ play' = play
        /\ playPc' = IF lib = "none" THEN "no display" ELSE "map"
    BY <1>3, ZenonT(40) DEF OpenHeader, Rows
  <2>2. lib \in {"Xv", "SDL", "gtk", "none"} /\ rows \in Nat
    BY <1>3 DEF DisplayAccepted, DisplayMethod, Rows
  <2>3. shown' = <<>> /\ (\E S : shown' \in Seq(S))
    <3>1. playPc = "open"
      BY DEF OpenHeader
    <3>2. shown = <<>> /\ \E S : shown \in Seq(S)
      BY <3>1 DEF PlayInv
    <3> QED BY <2>1, <3>2
  <2> HIDE DEF lib, rows
  <2>4. CASE lib = "Xv"
    <3>1. display' = XvInit(720, rows, play) /\ playPc' = "map"
      BY <2>1, <2>4
    <3>2. /\ IsDisplay(display') /\ Placed(display') /\ display'.lib = "Xv"
          /\ display'.flags = play.aspect /\ display'.sheight = rows
      BY <1>3, <2>2, <2>4, <3>1, WindowIsOpened DEF lib
    <3>3. Placed(display)'
      BY <3>2 DEF Placed, BarsRight, Pillars, Letterbox
    <3> QED BY <2>1, <2>3, <3>1, <3>2, <3>3 DEF PlayInv, rows, Rows
  <2>5. CASE lib \in {"SDL", "gtk", "none"}
    <3>1. display' = OtherInit(lib, 720, rows)
      BY <2>1, <2>5, ZenonT(40)
    <3>2. IsDisplay(display') /\ Placed(display') /\ display'.lib # "Xv"
      BY <2>2, <2>5, <3>1, OtherIsOpened
    <3>3. Placed(display)'
      BY <3>2 DEF Placed, BarsRight, Pillars, Letterbox
    <3>4. playPc' # "open"
      BY <2>1
    <3> QED BY <2>3, <3>2, <3>3, <3>4 DEF PlayInv
  <2> QED BY <2>2, <2>4, <2>5
<1> QED BY <1>1, <1>2, <1>3 DEF OpenHeader

(* A display that stays, while no picture is shown.                          *)
LEMMA MapKeeps == PlayInv /\ (Map \/ Remap) => PlayInv'
<1> SUFFICES ASSUME PlayInv, Map \/ Remap PROVE PlayInv'
  OBVIOUS
<1>1. CASE Stop(PipeExit(playAt, Size(playSystem)))
  BY <1>1, StopKeeps DEF PipeExit
<1>2. CASE Map /\ ~Stop(PipeExit(playAt, Size(playSystem)))
  <2>1. /\ playPc = "map" /\ UNCHANGED <<play, display, shown>>
        /\ playPc' = IF playSystem' # playSystem THEN "remap" ELSE "show"
    BY <1>2 DEF Map, constVars
  <2>2. Placed(display)' <=> Placed(display)
    BY <2>1 DEF Placed, BarsRight, Pillars, Letterbox
  <2> QED BY <2>1, <2>2 DEF PlayInv
<1>3. CASE Remap /\ ~Stop(PipeExit(playAt, Size(playSystem)))
  <2>1. /\ playPc = "remap" /\ display' = SetNorm(display, playSystem) /\ playPc' = "show"
        /\ UNCHANGED <<play, shown, playSystem>>
    BY <1>3 DEF Remap, constVars
  <2>2. IsDisplay(display) /\ Placed(display)
    BY <2>1 DEF PlayInv
  <2>3. /\ IsDisplay(display') /\ (Placed(display) => Placed(display'))
        /\ display'.lib = display.lib /\ display'.flags = display.flags
        /\ display'.picFormat = display.picFormat /\ display'.sheight = Rows(playSystem)
    BY <2>1, <2>2, NormIsSet
  <2>4. Placed(display)' <=> Placed(display')
    BY DEF Placed, BarsRight, Pillars, Letterbox
  <2> QED BY <2>1, <2>2, <2>3, <2>4 DEF PlayInv
<1> QED BY <1>1, <1>2, <1>3

LEMMA ShowKeeps == PlayInv /\ Show => PlayInv'
<1> SUFFICES ASSUME PlayInv, Show PROVE PlayInv'
  OBVIOUS
<1>1. CASE Stop("crashed")
  BY <1>1, StopKeeps
<1>2. CASE ~Stop("crashed")
  <2> DEFINE frame == FrameAt(region)
             format == frame.format
             new == [units |-> WholeFrame, picture |-> pixels', system |-> playSystem,
                     format |-> frame.format]
  <2>1. /\ playPc = "show" /\ playPc' = "event" /\ display' = CheckFormat(display, format)
        /\ shown' = Append(shown, new) /\ UNCHANGED <<play, playSystem>>
    BY <1>2 DEF Show, constVars
  <2>2. PICK S : shown \in Seq(S)
    BY DEF PlayInv
  <2>3. new.format = format
    OBVIOUS
  <2> HIDE DEF new
  <2>4. shown' \in Seq(S \cup {new}) /\ shown' # <<>> /\ Last(shown') = new
    <3>1. shown \in Seq(S \cup {new}) /\ new \in S \cup {new}
      BY <2>2, SeqMonotonic
    <3>2. shown' \in Seq(S \cup {new}) /\ Len(shown') = Len(shown) + 1 /\ shown'[Len(shown) + 1] = new
      BY <2>1, <3>1, AppendProperties
    <3> QED BY <3>1, <3>2, LenProperties, EmptySeq DEF Last
  <2>5. Last(shown').format = format
    BY <2>3, <2>4
  <2> HIDE DEF format
  <2>6. IsDisplay(display) /\ Placed(display)
    BY <2>1 DEF PlayInv
  <2>7. /\ IsDisplay(display') /\ Placed(display') /\ display'.lib = display.lib
        /\ display'.flags = display.flags /\ display'.sheight = display.sheight
        /\ display.flags # "asis" => display'.picFormat = format
    BY <2>1, <2>5, <2>6, FormatIsChecked
  <2>8. Placed(display)' <=> Placed(display')
    BY DEF Placed, BarsRight, Pillars, Letterbox
  <2>9. display.lib = "Xv" => display.flags = play.aspect /\ display.sheight = Rows(playSystem)
    BY <2>1 DEF PlayInv
  <2> QED BY <2>1, <2>4, <2>5, <2>7, <2>8, <2>9 DEF PlayInv
<1> QED BY <1>1, <1>2

LEMMA EventKeeps == PlayInv /\ ShowEvents => PlayInv'
<1> SUFFICES ASSUME PlayInv, ShowEvents PROVE PlayInv'
  OBVIOUS
<1>1. /\ playPc = "event" /\ playPc' \in {"end", "map"}
      /\ UNCHANGED <<play, shown, playSystem>>
  BY DEF ShowEvents, constVars
<1>2. /\ IsDisplay(display) /\ Placed(display)
      /\ display.lib = "Xv" =>
           /\ display.flags = play.aspect /\ display.sheight = Rows(playSystem)
           /\ shown # <<>> /\ display.flags # "asis" =>
                display.picFormat = Last(shown).format
  BY <1>1 DEF PlayInv
<1>3. Placed(display)' <=> Placed(display')
  BY DEF Placed, BarsRight, Pillars, Letterbox
<1>4. CASE display' = display
  BY <1>1, <1>2, <1>3, <1>4 DEF PlayInv
<1>5. CASE \E s \in WindowSizes : display' = Resize(display, s[1], s[2])
  <2>1. PICK s \in WindowSizes : display' = Resize(display, s[1], s[2])
    BY <1>5
  <2>2. s[1] \in Nat /\ s[2] \in Nat
    BY PlayAssumption
  <2>3. /\ IsDisplay(display') /\ Placed(display') /\ display'.lib = display.lib
        /\ display'.flags = display.flags /\ display'.sheight = display.sheight
        /\ display.flags # "asis" => display'.picFormat = display.picFormat
    BY <1>2, <2>1, <2>2, WindowIsResized
  <2> QED BY <1>1, <1>2, <1>3, <2>3 DEF PlayInv
<1> QED BY <1>4, <1>5 DEF ShowEvents

LEMMA LoopKeeps == PlayInv /\ Loop => PlayInv'
<1> SUFFICES ASSUME PlayInv, Loop PROVE PlayInv'
  OBVIOUS
<1>1. /\ playPc \in {"end", "map"} /\ playPc' \in {"map", "done"}
      /\ UNCHANGED <<play, shown, playSystem, display>>
  BY DEF Loop
<1>2. Placed(display)' <=> Placed(display)
  BY <1>1 DEF Placed, BarsRight, Pillars, Letterbox
<1> QED BY <1>1, <1>2 DEF PlayInv

LEMMA PlayInvHolds == PlaySpec => []PlayInv
<1>1. PlayInit => PlayInv
  <2> SUFFICES ASSUME PlayInit PROVE PlayInv
    OBVIOUS
  <2>1. shown = <<>> /\ playPc = "open"
    BY DEF PlayInit
  <2>2. shown \in Seq({})
    BY <2>1
  <2> QED BY <2>1, <2>2 DEF PlayInv
<1>2. PlayInv /\ [PlayNext]_playVars => PlayInv'
  <2> SUFFICES ASSUME PlayInv, [PlayNext]_playVars PROVE PlayInv'
    OBVIOUS
  <2>1. CASE UNCHANGED playVars
    <3>1. UNCHANGED <<play, playPc, shown, playSystem, display>>
      BY <2>1 DEF playVars
    <3>2. Placed(display)' <=> Placed(display)
      BY <3>1 DEF Placed, BarsRight, Pillars, Letterbox
    <3> QED BY <3>1, <3>2 DEF PlayInv
  <2> QED BY <2>1, OpenKeeps, MapKeeps, ShowKeeps, EventKeeps, LoopKeeps DEF PlayNext
<1> QED BY <1>1, <1>2, PTL DEF PlaySpec

(* The shape of the picture: what the two divisions lose.                    *)
LEMMA Quarters ==
  ASSUME NEW n \in Nat
  PROVE  \E q, r \in Nat : q = (n * 3) \div 4 /\ 3 * n = 4 * q + r /\ r <= 3
<1>1. PICK m \in Nat : m = n * 3
  OBVIOUS
<1>2. m \div 4 \in Nat
  OBVIOUS
<1>3. m % 4 \in 0 .. 3
  OBVIOUS
<1>4. m = 4 * (m \div 4) + (m % 4)
  OBVIOUS
<1> DEFINE q == m \div 4
           r == m % 4
<1>5. q \in Nat /\ r \in Nat /\ r <= 3 /\ m = 4 * q + r
  BY <1>2, <1>3, <1>4
<1>6. q = (n * 3) \div 4
  BY <1>1
<1> HIDE DEF q, r
<1>7. 3 * n = 4 * q + r
  BY <1>1, <1>5
<1> QED BY <1>5, <1>6, <1>7

LEMMA Eighths ==
  ASSUME NEW n \in Nat
  PROVE  n \div 8 \in Nat /\ Near(2 * (n \div 8) + (n * 3) \div 4, n, 2)
BY DEF Near

(* What the invariant says is what the property asks for.                    *)
LEMMA PictureIsRight ==
  ASSUME NEW d, IsDisplay(d), d.flags \in {"wide", "normal"}, Placed(d), d.picFormat # FormatUnknown
  PROVE  InTheMiddle(d) /\ (WindowAsAsked(d) => AsRecorded(d, d.picFormat))
<1>1. PICK w \in Nat, h \in Nat : w = d.dwidth /\ h = d.dheight
  BY DEF IsDisplay, Display
<1>2. BarsRight(d)
  BY DEF Placed
<1>3. FormatWide # FormatNormal
  BY DEF FormatWide, FormatNormal
<1>4. CASE Pillars(d)
  <2>1. ~Letterbox(d) /\ d.flags = "wide" /\ d.picFormat = FormatNormal
    BY <1>4 DEF Pillars, Letterbox
  <2>2. d.lxoff = w \div 8 /\ d.lwidth = (w * 3) \div 4 /\ d.lyoff = 0 /\ d.lheight = h
    BY <1>1, <1>2, <1>4, <2>1 DEF BarsRight
  <2>3. PICK q \in Nat, r \in Nat : q = (w * 3) \div 4 /\ 3 * w = 4 * q + r /\ r <= 3
    BY Quarters
  <2>4. Near(2 * (w \div 8) + q, w, 2) /\ Near(2 * 0 + h, h, 2)
    BY <2>3, Eighths DEF Near
  <2>5. Wide(w, h, 16) => Normal(q, h, 8)
    BY <2>3 DEF Wide, Normal, Near
  <2> QED BY Zenon, <1>1, <1>3, <2>1, <2>2, <2>3, <2>4, <2>5
          DEF InTheMiddle, WindowAsAsked, AsRecorded
<1>5. CASE Letterbox(d)
  <2>1. ~Pillars(d) /\ d.flags = "normal" /\ d.picFormat = FormatWide
    BY <1>5 DEF Pillars, Letterbox
  <2>2. d.lyoff = h \div 8 /\ d.lheight = (h * 3) \div 4 /\ d.lxoff = 0 /\ d.lwidth = w
    BY <1>1, <1>2, <1>5, <2>1 DEF BarsRight
  <2>3. PICK q \in Nat, r \in Nat : q = (h * 3) \div 4 /\ 3 * h = 4 * q + r /\ r <= 3
    BY Quarters
  <2>4. Near(2 * (h \div 8) + q, h, 2) /\ Near(2 * 0 + w, w, 2)
    BY <2>3, Eighths DEF Near
  <2>5. Normal(w, h, 4) => Wide(w, q, 24)
    BY <2>3 DEF Wide, Normal, Near
  <2>6. "normal" # "wide"
    OBVIOUS
  <2> QED BY Zenon, <1>1, <1>3, <2>1, <2>2, <2>3, <2>4, <2>5, <2>6
          DEF InTheMiddle, WindowAsAsked, AsRecorded
<1>6. CASE ~Pillars(d) /\ ~Letterbox(d)
  <2>1. d.lyoff = 0 /\ d.lheight = h /\ d.lxoff = 0 /\ d.lwidth = w
    BY <1>1, <1>2, <1>6 DEF BarsRight
  <2>2. Near(2 * 0 + h, h, 2) /\ Near(2 * 0 + w, w, 2)
    BY DEF Near
  <2>3. (Wide(w, h, 16) => Wide(w, h, 24)) /\ (Normal(w, h, 4) => Normal(w, h, 8))
    BY DEF Wide, Normal, Near
  <2>4. /\ d.flags = "wide" => d.picFormat # FormatNormal
        /\ d.flags # "wide" => d.picFormat # FormatWide
    BY <1>6 DEF Pillars, Letterbox
  <2> QED BY Zenon, <1>1, <2>1, <2>2, <2>3, <2>4 DEF InTheMiddle, WindowAsAsked, AsRecorded
<1> QED BY <1>4, <1>5, <1>6

(* playdv: whatever the window's sizes, the standards and the formats of the *)
(* frames, a picture whose format is known is in the middle of the window    *)
(* that has an aspect, and fills it in one direction; while the window is of *)
(* the aspect that was asked for, the picture is 4:3 or 16:9 as it was       *)
(* recorded, within the rounding of the window and of its bars.              *)
THEOREM PictureKeepsAspect == PlaySpec => []AspectKept
<1>1. PlayInv => AspectKept
  <2> SUFFICES ASSUME PlayInv, playPc = "map", shown # <<>>, play.aspect # "asis",
                      display.lib = "Xv"
               PROVE  AspectKept
    BY DEF AspectKept
  <2>1. /\ IsDisplay(display) /\ Placed(display) /\ display.flags = play.aspect
        /\ display.picFormat = Last(shown).format /\ display.sheight = Rows(playSystem)
    BY DEF PlayInv
  <2>2. display.flags \in {"wide", "normal"}
    BY <2>1 DEF IsDisplay, Display
  <2>3. Last(shown).format # FormatUnknown =>
          /\ InTheMiddle(display)
          /\ WindowAsAsked(display) => AsRecorded(display, Last(shown).format)
    BY Zenon, <2>1, <2>2, PictureIsRight
  <2> QED BY <2>1, <2>3 DEF AspectKept, Rows
<1> QED BY <1>1, PlayInvHolds, PTL

(***************************************************************************)
(* playdv: where the frames of a stream begin.                             *)
(***************************************************************************)
(* FlattenSeq goes from one to the next.                                     *)
IsFlat(g, s) == g = [i \in 1 .. Len(s) |-> IF i = 1 THEN s[i] ELSE g[i - 1] \o s[i]]
Flats(s) == CHOOSE g : IsFlat(g, s)
LEMMA FlatExists ==
  ASSUME NEW s, Len(s) \in Nat
  PROVE  IsFlat(Flats(s), s)
<1> DEFINE n == Len(s)
           Follows(g, i) == g[i] = IF i = 1 THEN s[i] ELSE g[i - 1] \o s[i]
           UpToThere(k) == \E g : g = [i \in 1 .. k |-> g[i]] /\ \A i \in 1 .. k : Follows(g, i)
           P == {k \in 0 .. n : UpToThere(k)}
<1>1. 0 \in P
  <2> DEFINE g == [i \in 1 .. 0 |-> 0]
  <2>1. g = [i \in 1 .. 0 |-> g[i]] /\ \A i \in 1 .. 0 : Follows(g, i)
    OBVIOUS
  <2>2. UpToThere(0) /\ 0 \in 0 .. n
    BY <2>1
  <2> HIDE DEF UpToThere
  <2> QED BY <2>2
<1>2. ASSUME NEW k \in 0 .. n - 1, k \in P PROVE k + 1 \in P
  <2>1. PICK g : g = [i \in 1 .. k |-> g[i]] /\ \A i \in 1 .. k : Follows(g, i)
    BY <1>2
  <2> DEFINE h == [i \in 1 .. k + 1 |->
                     IF i <= k THEN g[i] ELSE IF i = 1 THEN s[i] ELSE g[i - 1] \o s[i]]
  <2>2. ASSUME NEW i \in 1 .. k + 1 PROVE Follows(h, i)
    <3>1. CASE i <= k
      <4>1. i \in 1 .. k /\ (i # 1 => i - 1 \in 1 .. k /\ i - 1 \in 1 .. k + 1 /\ i - 1 <= k)
        BY <3>1
      <4>2. h[i] = g[i] /\ (i # 1 => h[i - 1] = g[i - 1])
        BY <4>1
      <4>3. Follows(g, i)
        BY <2>1, <4>1
      <4> HIDE DEF h
      <4> QED BY <4>2, <4>3
    <3>2. CASE i = k + 1
      <4>1. h[i] = IF i = 1 THEN s[i] ELSE g[i - 1] \o s[i]
        BY <3>2
      <4>2. i # 1 => h[i - 1] = g[i - 1]
        BY <3>2
      <4> HIDE DEF h
      <4> QED BY <4>1, <4>2
    <3> QED BY <3>1, <3>2
  <2>3. h = [i \in 1 .. k + 1 |-> h[i]]
    OBVIOUS
  <2> HIDE DEF h
  <2>4. k + 1 \in 0 .. n
    OBVIOUS
  <2>5. UpToThere(k + 1)
    <3> HIDE DEF Follows
    <3> QED BY <2>2, <2>3
  <2> HIDE DEF UpToThere
  <2> QED BY <2>4, <2>5
<1>3. n \in P
  <2>1. \A k \in 0 .. n - 1 : k \in P => k + 1 \in P
    BY <1>2
  <2> HIDE DEF P
  <2>2. \A k \in 0 .. n : k \in P
    BY <1>1, <2>1, StepByStep
  <2> QED BY <2>2
<1>4. PICK g : g = [i \in 1 .. n |-> g[i]] /\ \A i \in 1 .. n : Follows(g, i)
  BY <1>3
<1>5. g = [i \in 1 .. n |-> IF i = 1 THEN s[i] ELSE g[i - 1] \o s[i]]
  BY <1>4
<1>6. \E h : IsFlat(h, s)
  BY <1>5 DEF IsFlat
<1> QED BY <1>6 DEF Flats

LEMMA FlatIsLast ==
  ASSUME NEW s, Len(s) \in Nat, Len(s) # 0
  PROVE  FlattenSeq(s) = Flats(s)[Len(s)]
BY Zenon DEF FlattenSeq, Flats, IsFlat

Places(frames) ==
  [f \in DOMAIN frames |-> [k \in 1 .. Size(frames[f].system) |-> <<f, k>>]]
FlatTo(frames, f) == Flats(Places(frames))[f]
Begin(frames, f) == IF f = 1 THEN 0 ELSE Len(FlatTo(frames, f - 1))
LEMMA FlatStep ==
  ASSUME NEW frames \in Seq(PlayFrame), NEW i \in 1 .. Len(frames)
  PROVE  /\ Size(frames[i].system) \in {5, 6}
         /\ Places(frames)[i] = [k \in 1 .. Size(frames[i].system) |-> <<i, k>>]
         /\ FlatTo(frames, i) = IF i = 1 THEN Places(frames)[i]
                                ELSE FlatTo(frames, i - 1) \o Places(frames)[i]
<1> DEFINE s == Places(frames)
<1>1. Len(frames) \in Nat /\ DOMAIN frames = 1 .. Len(frames)
  BY LenProperties
<1>2. /\ Len(s) = Len(frames) /\ s[i] = [k \in 1 .. Size(frames[i].system) |-> <<i, k>>]
  BY <1>1 DEF Places
<1> HIDE DEF s
<1>3. IsFlat(Flats(s), s)
  BY <1>1, <1>2, FlatExists
<1>4. Flats(s)[i] = IF i = 1 THEN s[i] ELSE Flats(s)[i - 1] \o s[i]
  BY <1>2, <1>3, Zenon DEF IsFlat
<1>5. Size(frames[i].system) \in {5, 6}
  BY DEF Size
<1> QED BY <1>2, <1>4, <1>5 DEF s, FlatTo

UnitsTo(i) == (1 .. i) \X Nat
(* Each frame is at its place, and what begins the stream stays.             *)
Flat(frames, i) ==
  /\ FlatTo(frames, i) \in Seq(UnitsTo(i))
  /\ Len(FlatTo(frames, i)) = Begin(frames, i) + Size(frames[i].system)
  /\ \A f \in 1 .. i : \A k \in 1 .. Size(frames[f].system) :
       FlatTo(frames, i)[Begin(frames, f) + k] = <<f, k>>
  /\ \A f \in 1 .. i : /\ Begin(frames, f) \in Nat
                       /\ Begin(frames, f) + Size(frames[f].system) <= Len(FlatTo(frames, i))
  /\ \A f \in 1 .. i : \A p \in 1 .. Len(FlatTo(frames, f)) :
       FlatTo(frames, i)[p] = FlatTo(frames, f)[p]
LEMMA FlatHolds ==
  ASSUME NEW frames \in Seq(PlayFrame)
  PROVE  \A i \in 1 .. Len(frames) : Flat(frames, i)
<1> DEFINE n == Len(frames)
           size(f) == Size(frames[f].system)
           P == {i \in 0 .. n : i = 0 \/ Flat(frames, i)}
<1>1. n \in Nat
  BY LenProperties
<1>2. ASSUME NEW i \in 1 .. n, i > 1 => Flat(frames, i - 1)
      PROVE  Flat(frames, i)
  <2> DEFINE g == FlatTo(frames, i)
             last == Places(frames)[i]
             z == size(i)
  <2>1. /\ z \in {5, 6} /\ last = [k \in 1 .. z |-> <<i, k>>]
        /\ g = IF i = 1 THEN last ELSE FlatTo(frames, i - 1) \o last
    BY FlatStep
  <2>2. last \in Seq(UnitsTo(i)) /\ Len(last) = z /\ \A k \in 1 .. z : last[k] = <<i, k>>
    <3>1. z \in Nat /\ \A k \in 1 .. z : <<i, k>> \in UnitsTo(i)
      BY <2>1 DEF UnitsTo
    <3> HIDE DEF z
    <3>2. [k \in 1 .. z |-> <<i, k>>] \in Seq(UnitsTo(i))
      BY <3>1
    <3> QED BY <2>1, <3>1, <3>2
  <2>3. CASE i = 1
    <3>1. g = last /\ Begin(frames, 1) = 0 /\ \A f \in 1 .. i : f = 1
      BY <2>1, <2>3 DEF Begin
    <3> HIDE DEF last, z, g
    <3>2. /\ g \in Seq(UnitsTo(i)) /\ Len(g) = z /\ z \in Nat
          /\ \A k \in 1 .. z : g[0 + k] = <<i, k>>
      <4>1. z \in Nat /\ \A k \in 1 .. z : 0 + k = k
        BY <2>1
      <4> QED BY <2>2, <3>1, <4>1
    <3> QED BY <2>3, <3>1, <3>2 DEF Flat, g, z
  <2>4. CASE i # 1
    <3> DEFINE e == FlatTo(frames, i - 1)
               q == Len(e)
    <3>1. i - 1 \in 1 .. n /\ Flat(frames, i - 1) /\ Begin(frames, i) = q
      BY <1>2, <2>1, <2>4 DEF Begin
    <3>8. g = e \o last
      BY <2>1, <2>4
    <3>2. /\ e \in Seq(UnitsTo(i - 1))
          /\ \A f \in 1 .. i - 1 : \A k \in 1 .. size(f) : e[Begin(frames, f) + k] = <<f, k>>
          /\ \A f \in 1 .. i - 1 : Begin(frames, f) \in Nat /\ Begin(frames, f) + size(f) <= q
          /\ \A f \in 1 .. i - 1 : \A p \in 1 .. Len(FlatTo(frames, f)) : e[p] = FlatTo(frames, f)[p]
      BY <3>1 DEF Flat
    <3>3. e \in Seq(UnitsTo(i)) /\ q \in Nat
      <4>1. UnitsTo(i - 1) \subseteq UnitsTo(i)
        BY <3>1 DEF UnitsTo
      <4> HIDE DEF e
      <4> QED BY <3>2, <4>1, SeqMonotonic, LenProperties
    <3> HIDE DEF g, last, e
    <3>4. /\ g \in Seq(UnitsTo(i)) /\ Len(g) = q + z
          /\ \A p \in 1 .. q + z : g[p] = IF p <= q THEN e[p] ELSE last[p - q]
      BY <2>2, <3>3, <3>8, ConcatProperties, ZenonT(60)
    <3> HIDE DEF q, z
    <3>5. ASSUME NEW f \in 1 .. i, NEW k \in 1 .. size(f)
          PROVE  g[Begin(frames, f) + k] = <<f, k>>
      <4>1. CASE f = i
        <5>1. q + k \in 1 .. q + z /\ ~(q + k <= q) /\ (q + k) - q = k /\ k \in 1 .. z
          BY <2>1, <3>3, <4>1 DEF z
        <5> QED BY <2>2, <3>1, <3>4, <4>1, <5>1
      <4>2. CASE f # i
        <5>1. f \in 1 .. i - 1
          BY <4>2
        <5>2. size(f) \in {5, 6}
          BY DEF Size
        <5> HIDE DEF size
        <5>3. k \in Int /\ 1 <= k /\ k <= size(f)
          BY <5>2
        <5>5. Begin(frames, f) \in Nat /\ Begin(frames, f) + size(f) <= q
          BY <3>2, <5>1
        <5>4. Begin(frames, f) + k \in 1 .. q /\ Begin(frames, f) + k \in 1 .. q + z
          BY <2>1, <3>3, <5>2, <5>3, <5>5, SMTT(30)
        <5> QED BY <3>2, <3>4, <5>1, <5>4, SMTT(30)
      <4> QED BY <4>1, <4>2
    <3>6. ASSUME NEW f \in 1 .. i
          PROVE  Begin(frames, f) \in Nat /\ Begin(frames, f) + size(f) <= Len(g)
      <4>1. CASE f = i
        BY <2>1, <3>1, <3>3, <3>4, <4>1 DEF z
      <4>2. CASE f # i
        <5>1. f \in 1 .. i - 1 /\ size(f) \in {5, 6}
          BY <4>2 DEF Size
        <5> HIDE DEF size
        <5>2. Begin(frames, f) \in Nat /\ Begin(frames, f) + size(f) <= q
          BY <3>2, <5>1
        <5> QED BY <2>1, <3>3, <3>4, <5>1, <5>2, SMTT(30)
      <4> QED BY <4>1, <4>2
    <3>7. ASSUME NEW f \in 1 .. i, NEW p \in 1 .. Len(FlatTo(frames, f))
          PROVE  g[p] = FlatTo(frames, f)[p]
      <4>1. CASE f = i
        BY <4>1 DEF g
      <4>2. CASE f # i
        <5>1. f \in 1 .. i - 1 /\ f + 1 \in 1 .. i
          BY <4>2
        <5>2. Len(FlatTo(frames, f)) = Begin(frames, f + 1)
          BY <5>1 DEF Begin
        <5>3. Begin(frames, f + 1) \in Nat /\ Begin(frames, f + 1) <= q
          <6>1. CASE f + 1 = i
            BY <3>1, <3>3, <6>1
          <6>2. CASE f + 1 # i
            <7>1. f + 1 \in 1 .. i - 1 /\ size(f + 1) \in {5, 6}
              BY <5>1, <6>2 DEF Size
            <7> HIDE DEF size
            <7> QED BY <3>2, <3>3, <7>1, SMTT(30)
          <6> QED BY <6>1, <6>2
        <5>4. p \in 1 .. q /\ p \in 1 .. q + z
          BY <2>1, <3>3, <5>2, <5>3
        <5> QED BY <3>2, <3>4, <5>1, <5>4, SMTT(30)
      <4> QED BY <4>1, <4>2
    <3> QED BY <3>1, <3>4, <3>5, <3>6, <3>7 DEF Flat, g, z
  <2> QED BY <2>3, <2>4
<1>3. ASSUME NEW i \in 0 .. n - 1, i \in P PROVE i + 1 \in P
  <2>1. i + 1 \in 1 .. n /\ (i + 1) - 1 = i /\ (i + 1 > 1 => i # 0)
    BY <1>1
  <2>2. Flat(frames, i + 1)
    BY <1>2, <1>3, <2>1
  <2> QED BY <2>1, <2>2
<1>4. 0 \in P /\ \A i \in 0 .. n - 1 : i \in P => i + 1 \in P
  BY <1>1, <1>3
<1> HIDE DEF P
<1>5. \A i \in 0 .. n : i \in P
  BY <1>1, <1>4, StepByStep
<1> QED BY <1>1, <1>5 DEF P

(* The stream as a whole.                                                    *)
LEMMA StreamIs ==
  ASSUME NEW frames \in Seq(PlayFrame), frames # <<>>
  PROVE  LET n == Len(frames)
         IN  /\ n \in Nat \ {0} /\ Begin(frames, 1) = 0
             /\ \A f \in 1 .. n + 1 : Begin(frames, f) \in Nat
             /\ \A f \in 1 .. n : Begin(frames, f + 1) = Begin(frames, f) + Size(frames[f].system)
             /\ Stream(frames) \in Seq(Nat \X Nat) /\ Len(Stream(frames)) = Begin(frames, n + 1)
             /\ \A f \in 1 .. n : \A k \in 1 .. Size(frames[f].system) :
                  Stream(frames)[Begin(frames, f) + k] = <<f, k>>
             /\ \A p \in 1 .. Begin(frames, n) : Stream(frames)[p][1] # n
<1> DEFINE n == Len(frames)
           s == Places(frames)
<1>1. n \in Nat /\ n # 0 /\ DOMAIN frames = 1 .. n
  BY LenProperties, EmptySeq
<1>2. Stream(frames) = FlatTo(frames, n)
  <2>1. Len(s) = n
    BY <1>1 DEF Places
  <2>2. Stream(frames) = FlattenSeq(s)
    BY DEF Stream, Places
  <2> HIDE DEF s
  <2> QED BY <1>1, <2>1, <2>2, FlatIsLast DEF FlatTo, s
<1>3. \A f \in 1 .. n : Flat(frames, f) /\ Size(frames[f].system) \in {5, 6}
  BY FlatHolds DEF Size
<1>4. n \in 1 .. n /\ Flat(frames, n) /\ Begin(frames, n + 1) = Len(FlatTo(frames, n))
  BY <1>1, <1>3 DEF Begin
<1>5. \A f \in 1 .. n : Begin(frames, f + 1) = Begin(frames, f) + Size(frames[f].system)
  <2> SUFFICES ASSUME NEW f \in 1 .. n
               PROVE  Begin(frames, f + 1) = Begin(frames, f) + Size(frames[f].system)
    OBVIOUS
  <2>1. Begin(frames, f + 1) = Len(FlatTo(frames, f))
    BY <1>1 DEF Begin
  <2> QED BY <1>3, <2>1 DEF Flat
<1>6. \A f \in 1 .. n + 1 : Begin(frames, f) \in Nat
  <2>1. \A f \in 1 .. n : Begin(frames, f) \in Nat
    BY <1>4 DEF Flat
  <2>2. Begin(frames, n + 1) \in Nat
    <3>1. Begin(frames, n + 1) = Begin(frames, n) + Size(frames[n].system)
      BY <1>4, <1>5
    <3> QED BY <1>3, <1>4, <2>1, <3>1
  <2> QED BY <1>1, <2>1, <2>2
<1>7. Stream(frames) \in Seq(Nat \X Nat)
  <2>1. UnitsTo(n) \subseteq (Nat \X Nat)
    BY <1>1 DEF UnitsTo
  <2> QED BY <1>2, <1>4, <2>1, SeqMonotonic DEF Flat
<1>8. \A p \in 1 .. Begin(frames, n) : Stream(frames)[p][1] # n
  <2> SUFFICES ASSUME NEW p \in 1 .. Begin(frames, n) PROVE Stream(frames)[p][1] # n
    OBVIOUS
  <2>1. n # 1 /\ n - 1 \in 1 .. n
    BY <1>1 DEF Begin
  <2> DEFINE e == FlatTo(frames, n - 1)
  <2>2. Begin(frames, n) = Len(e) /\ e \in Seq(UnitsTo(n - 1))
    BY <1>3, <2>1 DEF Begin, Flat
  <2>3. Stream(frames)[p] = e[p]
    BY <1>2, <1>4, <2>1, <2>2 DEF Flat
  <2> HIDE DEF e
  <2>4. e[p] \in UnitsTo(n - 1)
    BY <2>2, ElementOfSeq
  <2>5. e[p][1] \in 1 .. n - 1
    BY <2>4 DEF UnitsTo
  <2> QED BY <1>1, <2>3, <2>5
<1> QED BY <1>1, <1>2, <1>4, <1>5, <1>6, <1>7, <1>8, ZenonT(60) DEF Flat, Begin

(* Later frames begin later.                                                 *)
LEMMA FramesFollow ==
  ASSUME NEW frames \in Seq(PlayFrame), frames # <<>>,
         NEW f \in 1 .. Len(frames) + 1, NEW g \in 1 .. Len(frames) + 1, f < g
  PROVE  Begin(frames, f) + Size(frames[f].system) <= Begin(frames, g)
<1> DEFINE n == Len(frames)
           P == {d \in 0 .. n - f : Begin(frames, f + 1) <= Begin(frames, f + 1 + d)}
<1>1. /\ n \in Nat \ {0} /\ \A i \in 1 .. n + 1 : Begin(frames, i) \in Nat
      /\ \A i \in 1 .. n : /\ Begin(frames, i + 1) = Begin(frames, i) + Size(frames[i].system)
                           /\ Size(frames[i].system) \in {5, 6}
  BY StreamIs DEF Size
<1>2. f \in 1 .. n /\ f + 1 \in 1 .. n + 1 /\ n - f \in Nat /\ g - f - 1 \in 0 .. n - f
      /\ f + 1 + (g - f - 1) = g
  BY <1>1
<1>3. 0 \in P
  BY <1>1, <1>2
<1>4. \A d \in 0 .. n - f - 1 : d \in P => d + 1 \in P
  <2> SUFFICES ASSUME NEW d \in 0 .. n - f - 1, d \in P PROVE d + 1 \in P
    OBVIOUS
  <2>1. f + 1 + d \in 1 .. n /\ f + 1 + d \in 1 .. n + 1 /\ (f + 1 + d) + 1 = f + 1 + (d + 1)
        /\ d + 1 \in 0 .. n - f /\ f + 1 + (d + 1) \in 1 .. n + 1
    BY <1>1, <1>2
  <2>2. Begin(frames, f + 1 + (d + 1)) = Begin(frames, f + 1 + d) + Size(frames[f + 1 + d].system)
    BY <1>1, <2>1
  <2>3. Begin(frames, f + 1 + d) <= Begin(frames, f + 1 + (d + 1))
    <3>1. Size(frames[f + 1 + d].system) \in {5, 6} /\ Begin(frames, f + 1 + d) \in Nat
      BY <1>1, <2>1
    <3> QED BY <2>2, <3>1
  <2>4. Begin(frames, f + 1) <= Begin(frames, f + 1 + d)
    OBVIOUS
  <2>5. /\ Begin(frames, f + 1) \in Nat /\ Begin(frames, f + 1 + d) \in Nat
        /\ Begin(frames, f + 1 + (d + 1)) \in Nat
    BY <1>1, <1>2, <2>1
  <2> QED BY <2>1, <2>3, <2>4, <2>5
<1> HIDE DEF P
<1>5. \A d \in 0 .. n - f : d \in P
  BY <1>2, <1>3, <1>4, StepByStep
<1>6. Begin(frames, f + 1) <= Begin(frames, g)
  BY <1>2, <1>5 DEF P
<1> QED BY <1>1, <1>2, <1>6

(***************************************************************************)
(* playdv: which units of the stream are where.                            *)
(***************************************************************************)
(* The buffer of a pipe holds what was read, but for one unit at most that   *)
(* was put aside.                                                            *)
InBuffer(u, map, over, pos, r) ==
  /\ map \in [offset : Nat, length : 0 .. 6] /\ over \in [size : {0, 1}, offset : Nat]
  /\ pos = map.offset + map.length + over.size
  /\ \A i \in 1 .. map.length : r[i] = u[map.offset + i]
  /\ over.size = 1 => over.offset = 5 /\ map.length = 5 /\ r[6] = u[map.offset + 6]
PipeHeld == InBuffer(Units, lastMap, overrun, filePos, region) /\ filePos <= play.size

LEMMA PipeIsRead ==
  ASSUME NEW offset \in Nat, NEW length \in {5, 6}, PipeHeld, play.size \in Nat, play' = play,
         ~PipeEnds(offset, length), Read(offset, length),
         \/ offset = lastMap.offset /\ overrun.size = 0
         \/ offset # lastMap.offset /\ offset = lastMap.offset + lastMap.length
  PROVE  /\ PipeHeld' /\ lastMap' = [offset |-> offset, length |-> length]
         /\ (offset = lastMap.offset => lastMap.length <= length) => overrun'.size = 0
<1> DEFINE x == lastMap.offset
           l == lastMap.length
           s == overrun.size
           o == overrun.offset
           toRead == ToRead(offset, length)
           n == FromPipe(toRead)
<1>1. /\ x \in Nat /\ l \in 0 .. 6 /\ s \in {0, 1} /\ o \in Nat /\ filePos = x + l + s
      /\ lastMap = [offset |-> x, length |-> l] /\ overrun = [size |-> s, offset |-> o]
      /\ \A i \in 1 .. l : region[i] = Units[x + i]
      /\ s = 1 => o = 5 /\ l = 5 /\ region[6] = Units[x + 6]
      /\ filePos <= play.size
  BY DEF PipeHeld, InBuffer
<1>2. Units' = Units
  BY DEF Units
<1>3. /\ Again(offset) <=> x = offset
      /\ Surplus(offset, length) <=> x = offset /\ l > length
      /\ Kept(offset, length) <=> x = offset /\ l = length
      /\ toRead = IF x = offset THEN length - l ELSE length
  BY DEF Again, Surplus, Kept, ToRead
<1> HIDE DEF x, l, s, o
<1>4. CASE Kept(offset, length)
  <2>1. UNCHANGED mapVars
    BY <1>3, <1>4, <1>1 DEF Read
  <2>2. PipeHeld'
    BY <1>2, <2>1 DEF PipeHeld, mapVars
  <2>3. s = 0
    BY <1>3, <1>4 DEF s, x
  <2> QED BY <1>1, <1>3, <1>4, <2>1, <2>2, <2>3 DEF mapVars, s
<1>5. CASE Surplus(offset, length)
  <2>1. /\ overrun' = [size |-> l - length, offset |-> length] /\ lastMap' = [lastMap EXCEPT !.length = length]
        /\ UNCHANGED <<region, filePos>>
    BY <1>1, <1>3, <1>5 DEF Read, l
  <2>2. l = 6 /\ length = 5 /\ x = offset /\ s = 0
    BY <1>1, <1>3, <1>5 DEF s, x
  <2>3. lastMap' = [offset |-> offset, length |-> 5] /\ overrun' = [size |-> 1, offset |-> 5]
    BY <1>1, <2>1, <2>2
  <2>4. InBuffer(Units, lastMap', overrun', filePos', region')
    BY <1>1, <2>1, <2>2, <2>3 DEF InBuffer
  <2> QED BY <1>1, <1>2, <2>1, <2>2, <2>3, <2>4 DEF PipeHeld, l, x
<1>6. CASE ~Kept(offset, length) /\ ~Surplus(offset, length)
  <2>1. /\ lastMap' = [offset |-> offset, length |-> length]
        /\ overrun' = IF toRead > s THEN [overrun EXCEPT !.size = 0]
                      ELSE [size |-> s - toRead, offset |-> o + toRead]
        /\ region' = [i \in 1 .. 6 |-> IF i \in length - n + 1 .. length
                                       THEN Units[filePos + i - (length - n)] ELSE Moved[i]]
        /\ filePos' = filePos + n
    BY <1>6 DEF Read, s, o
  <2>2. \A i \in 1 .. 6 : Moved[i] = IF i <= s THEN region[o + i] ELSE region[i]
    BY DEF Moved, s, o
  <2>3. /\ toRead \in 1 .. 6 /\ toRead > s /\ n = toRead - s /\ n \in 0 .. 6
    <3>1. \/ x = offset /\ s = 0 /\ l < length /\ toRead = length - l
          \/ x # offset /\ toRead = length
      BY <1>1, <1>3, <1>6 DEF x, s
    <3>2. toRead \in 1 .. 6 /\ toRead > s
      BY <1>1, <3>1
    <3> QED BY <1>1, <3>2 DEF FromPipe, s
  <2>4. filePos + n = offset + length /\ filePos + n <= play.size
    <3>1. filePos + n <= play.size
      BY <1>1, <1>6, <2>3 DEF PipeEnds
    <3> QED BY <1>1, <1>3, <2>3, <3>1 DEF x, s, l
  <2>5. overrun' = [size |-> 0, offset |-> o]
    BY <1>1, <2>1, <2>3
  <2> HIDE DEF n, toRead
  <2>6. ASSUME NEW i \in 1 .. length PROVE region'[i] = Units[offset + i]
    <3>1. CASE i \in length - n + 1 .. length
      <4>1. region'[i] = Units[filePos + i - (length - n)]
        BY <2>1, <3>1
      <4>2. filePos + i - (length - n) = offset + i
        BY <1>1, <2>3, <2>4
      <4> QED BY <4>1, <4>2
    <3>2. CASE i \notin length - n + 1 .. length
      <4>1. region'[i] = Moved[i] /\ i <= length - n
        BY <2>1, <2>3, <3>2
      <4>2. CASE x = offset
        <5>1. s = 0 /\ i \in 1 .. l
          BY <1>1, <1>3, <2>3, <4>1, <4>2 DEF s, x
        <5> QED BY <1>1, <2>2, <4>1, <4>2, <5>1
      <4>3. CASE x # offset
        <5>1. s = 1 /\ i = 1 /\ offset = x + 5
          BY <1>1, <1>3, <2>3, <4>1, <4>3 DEF s, x, l
        <5>2. region'[i] = region[6] /\ region[6] = Units[x + 6] /\ offset + i = x + 6
          BY <1>1, <2>2, <4>1, <5>1
        <5> QED BY <5>2
      <4> QED BY <4>2, <4>3
    <3> QED BY <3>1, <3>2
  <2>7. InBuffer(Units, lastMap', overrun', filePos', region')
    <3> DEFINE map == [offset |-> offset, length |-> length]
               over == [size |-> 0, offset |-> o]
    <3>1. /\ map \in [offset : Nat, length : 0 .. 6] /\ over \in [size : {0, 1}, offset : Nat]
          /\ map.offset = offset /\ map.length = length /\ over.size = 0 /\ offset + length + 0 = offset + length
      BY <1>1
    <3>2. lastMap' = map /\ overrun' = over /\ filePos' = offset + length
      BY <2>1, <2>4, <2>5
    <3> HIDE DEF map, over
    <3> QED BY <2>6, <3>1, <3>2 DEF InBuffer
  <2> QED BY <1>2, <2>1, <2>4, <2>5, <2>7 DEF PipeHeld
<1> QED BY <1>4, <1>5, <1>6

(* What is so of a file and the stream in it.                                *)
FrameCountOf == Len(play.frames)
Starts(f) == Begin(play.frames, f)
SizeAt(f) == Size(play.frames[f].system)
LEMMA FileIs ==
  ASSUME play \in PlayJobs
  PROVE  /\ FrameCountOf \in Nat \ {0} /\ play.loops \in Int /\ play.size \in Nat \ {0}
         /\ Starts(1) = 0 /\ \A f \in 1 .. FrameCountOf + 1 : Starts(f) \in Nat
         /\ \A f \in 1 .. FrameCountOf : /\ Starts(f + 1) = Starts(f) + SizeAt(f)
                                         /\ play.frames[f].system \in {"pal", "ntsc"}
                                         /\ SizeAt(f) \in {5, 6}
         /\ play.size \in Starts(FrameCountOf) + 1 .. Starts(FrameCountOf + 1)
         /\ Len(Stream(play.frames)) = Starts(FrameCountOf + 1)
         /\ \A f \in 1 .. FrameCountOf : \A k \in 1 .. SizeAt(f) :
              Starts(f) + k <= play.size => Units[Starts(f) + k] = <<f, k>>
<1> DEFINE fs == play.frames
           n == Len(fs)
           z == play.size
           u == Stream(fs)
<1>1. /\ fs \in Seq(PlayFrame) /\ fs # <<>> /\ play.loops \in Int
      /\ z \in 1 .. Len(u) /\ u[z][1] = n
  BY PlayAssumption
<1> HIDE DEF fs
<1>2. /\ n \in Nat \ {0} /\ Begin(fs, 1) = 0
      /\ \A f \in 1 .. n + 1 : Begin(fs, f) \in Nat
      /\ \A f \in 1 .. n : Begin(fs, f + 1) = Begin(fs, f) + Size(fs[f].system)
      /\ u \in Seq(Nat \X Nat) /\ Len(u) = Begin(fs, n + 1)
      /\ \A f \in 1 .. n : \A k \in 1 .. Size(fs[f].system) : u[Begin(fs, f) + k] = <<f, k>>
      /\ \A p \in 1 .. Begin(fs, n) : u[p][1] # n
  BY <1>1, StreamIs
<1> HIDE DEF n, z, u
<1>3. Begin(fs, n) \in Nat /\ Begin(fs, n + 1) \in Nat
  BY <1>2
<1>4. z \in Nat \ {0} /\ z \in Begin(fs, n) + 1 .. Begin(fs, n + 1)
  BY <1>1, <1>2, <1>3
<1>5. \A f \in 1 .. n : fs[f].system \in {"pal", "ntsc"} /\ Size(fs[f].system) \in {5, 6}
  <2> SUFFICES ASSUME NEW f \in 1 .. n
               PROVE  fs[f].system \in {"pal", "ntsc"} /\ Size(fs[f].system) \in {5, 6}
    OBVIOUS
  <2>1. fs[f] \in PlayFrame
    BY <1>1, ElementOfSeq DEF n
  <2> QED BY <2>1 DEF PlayFrame, Size
<1>6. \A p \in 1 .. z : Units[p] = u[p]
  <2>1. Units = SubSeq(u, 1, z)
    BY DEF Units, u, z, fs
  <2>2. SubSeq(u, 1, z) = [p \in 1 .. z |-> u[p]]
    BY <1>1, <1>2, SubSeqProperties, <1>4
  <2> QED BY <2>1, <2>2
<1>7. ASSUME NEW f \in 1 .. n, NEW k \in 1 .. Size(fs[f].system), Begin(fs, f) + k <= z
      PROVE  Units[Begin(fs, f) + k] = <<f, k>>
  <2>1. Begin(fs, f) + k \in 1 .. z
    <3>1. Begin(fs, f) \in Nat /\ k \in Nat \ {0}
      BY <1>2, <1>5
    <3> QED BY <1>4, <1>7, <3>1
  <2> QED BY <1>2, <1>6, <2>1
<1> QED BY <1>1, <1>2, <1>4, <1>5, <1>7 DEF FrameCountOf, Starts, SizeAt, fs, n, z, u

LEMMA StartsFollow ==
  ASSUME play \in PlayJobs, NEW f \in 1 .. FrameCountOf + 1, NEW g \in 1 .. FrameCountOf + 1, f < g
  PROVE  Starts(f) + SizeAt(f) <= Starts(g)
BY PlayAssumption, FramesFollow DEF Starts, SizeAt, FrameCountOf

(***************************************************************************)
(* The invariant, for the first time through the stream.  Done frames are  *)
(* shown; the next one is the frame number Done + 1.                       *)
(***************************************************************************)
FirstRound == loopCount = play.loops
Done == Len(shown)
Right(s, n) ==
  /\ s[n].units = UnitsOf(n) /\ s[n].system = play.frames[n].system
  /\ s[n].picture = IF n = 1 \/ FrameChanged(play.frames[n]) THEN n ELSE s[n - 1].picture
ShownRight == \A n \in 1 .. Done : Right(shown, n)
Running == playPc \in {"map", "remap", "show", "event"}
InLoop ==
  /\ playSystem \in {"pal", "ntsc"} /\ playAt \in Nat
  /\ ~play.pipe => eof = play.size - SizeAt(1)
  /\ (prevDecoded <=> Done # 0) /\ (Done # 0 => pixels = shown[Done].picture)
AtMap ==
  playPc = "map" =>
    /\ Done \in 0 .. FrameCountOf /\ playAt = Starts(Done + 1)
    /\ play.pipe => \/ Done = 0 /\ lastMap.offset = playAt /\ lastMap.length = 5 /\ overrun.size = 0
                    \/ Done # 0 /\ lastMap.offset # playAt /\ lastMap.offset + lastMap.length = playAt
    /\ ~play.pipe /\ Done # 0 => Starts(Done) <= eof
AtFrame ==
  playPc \in {"remap", "show"} =>
    /\ Done + 1 \in 1 .. FrameCountOf /\ playAt = Starts(Done + 1)
    /\ playSystem = play.frames[Done + 1].system
    /\ ~play.pipe => playAt <= eof
    /\ play.pipe => lastMap.offset = playAt
AtRemap == playPc = "remap" /\ play.pipe => overrun.size = 0 /\ lastMap.length \in {5, 6}
AtShow ==
  playPc = "show" =>
    /\ \A i \in 1 .. Size(playSystem) : region[i] \in {<<Done + 1, i>>, Junk}
    /\ play.pipe => lastMap.length = Size(playSystem)
AtEvent ==
  playPc = "event" =>
    /\ Done \in 1 .. FrameCountOf /\ playAt = Starts(Done) /\ playSystem = play.frames[Done].system
    /\ ~play.pipe => playAt <= eof
    /\ play.pipe => lastMap.offset = playAt /\ lastMap.length = Size(playSystem)
AtStart ==
  playPc = "open" => /\ shown = <<>> /\ ~prevDecoded /\ playAt = 0
                     /\ lastMap = [offset |-> 0, length |-> 0] /\ overrun.size = 0
ShowInv ==
  /\ play \in PlayJobs /\ loopCount \in Int /\ loopCount <= play.loops
  /\ \E S : shown \in Seq(S)
  /\ FirstRound =>
       /\ ShownRight /\ AtStart
       /\ play.pipe /\ (Running \/ playPc = "open") => PipeHeld
       /\ Running => InLoop
       /\ AtMap /\ AtFrame /\ AtRemap /\ AtShow /\ AtEvent
       /\ playPc = "exit 0" => Done = FrameCountOf

(* A frame of a file is there, or something behind the file's end.           *)
LEMMA ViewShows ==
  ASSUME play \in PlayJobs, NEW f \in 1 .. FrameCountOf, NEW length \in {5, 6}, length <= SizeAt(f)
  PROVE  \A i \in 1 .. length : View(Starts(f), length)[i] \in {<<f, i>>, Junk}
<1> SUFFICES ASSUME NEW i \in 1 .. length
             PROVE  View(Starts(f), length)[i] \in {<<f, i>>, Junk}
  OBVIOUS
<1>1. i \in 1 .. SizeAt(f) /\ i \in 1 .. 6 /\ Starts(f) \in Nat
  <2>1. SizeAt(f) \in {5, 6} /\ Starts(f) \in Nat
    BY FileIs
  <2> QED BY <2>1
<1>2. View(Starts(f), length)[i] = IF i <= length /\ Starts(f) + i <= play.size THEN Units[Starts(f) + i] ELSE Junk
  BY <1>1 DEF View
<1>3. Starts(f) + i <= play.size => Units[Starts(f) + i] = <<f, i>>
  BY <1>1, FileIs
<1> QED BY <1>2, <1>3

(* The last frame ends the stream; what begins where the stream ends is      *)
(* none.                                                                     *)
LEMMA FrameBegins ==
  ASSUME play \in PlayJobs, NEW n \in 0 .. FrameCountOf, Starts(n + 1) + 1 <= play.size
  PROVE  n + 1 \in 1 .. FrameCountOf
<1>1. n # FrameCountOf
  BY FileIs
<1> QED BY <1>1, FileIs

LEMMA UnitsStay ==
  ASSUME play' = play
  PROVE  /\ Units' = Units /\ FrameCountOf' = FrameCountOf
         /\ \A f : Starts(f)' = Starts(f) /\ SizeAt(f)' = SizeAt(f) /\ UnitsOf(f)' = UnitsOf(f)
         /\ \A n : Right(shown, n)' <=> Right(shown', n)
BY DEF Units, FrameCountOf, Starts, SizeAt, UnitsOf, Right

(* A step that shows nothing and stops the program, or goes round again.     *)
LEMMA ShownStays ==
  ASSUME ShowInv, UNCHANGED <<play, shown>>
  PROVE  /\ play' \in PlayJobs /\ (\E S : shown' \in Seq(S))
         /\ (FirstRound /\ loopCount' = loopCount => ShownRight' /\ FirstRound' /\ Done' = Done)
<1>1. play \in PlayJobs /\ \E S : shown \in Seq(S)
  BY DEF ShowInv
<1>2. ASSUME FirstRound PROVE ShownRight'
  <2>1. ShownRight
    BY <1>2 DEF ShowInv
  <2> QED BY <2>1 DEF ShownRight, Done, Right, UnitsOf
<1> QED BY <1>1, <1>2 DEF FirstRound, Done

LEMMA PlayStops ==
  ASSUME ShowInv, NEW how, Stop(how),
         how \notin {"open", "map", "remap", "show", "event"},
         how = "exit 0" /\ FirstRound => Done = FrameCountOf
  PROVE  ShowInv'
<1>1. /\ UNCHANGED <<play, shown, loopCount>> /\ playPc' = how
  BY DEF Stop, constVars
<1>2. /\ play' \in PlayJobs /\ (\E S : shown' \in Seq(S)) /\ (FirstRound <=> FirstRound')
      /\ FirstRound => ShownRight' /\ Done' = Done
  BY <1>1, ShownStays DEF FirstRound
<1>3. FrameCountOf' = FrameCountOf
  BY <1>1 DEF FrameCountOf
<1>4. loopCount' \in Int /\ loopCount' <= play'.loops
  BY <1>1 DEF ShowInv
<1>5. FirstRound' =>
        /\ AtStart' /\ AtMap' /\ AtFrame' /\ AtRemap' /\ AtShow' /\ AtEvent'
        /\ ~(Running \/ playPc = "open")' /\ (playPc' = "exit 0" => Done' = FrameCountOf')
  BY <1>1, <1>2, <1>3 DEF AtStart, AtMap, AtFrame, AtRemap, AtShow, AtEvent, Running
<1> QED BY <1>2, <1>4, <1>5 DEF ShowInv

LEMMA LoopFrames == ShowInv /\ Loop => ShowInv'
<1> SUFFICES ASSUME ShowInv, Loop PROVE ShowInv'
  OBVIOUS
<1>1. UNCHANGED <<play, shown>> /\ loopCount' = loopCount - 1
  BY DEF Loop
<1>2. loopCount' \in Int /\ loopCount' <= play'.loops /\ ~FirstRound'
  <2>1. play.loops \in Int /\ loopCount \in Int /\ loopCount <= play.loops
    BY FileIs DEF ShowInv
  <2> QED BY <1>1, <2>1 DEF FirstRound
<1> QED BY <1>1, <1>2, ShownStays DEF ShowInv

(* What a mapping or a read brings, and where the buffer stands then.        *)
LEMMA RegionIsMapped ==
  ASSUME play \in PlayJobs, play' = play, NEW n \in 0 .. FrameCountOf, NEW length \in {5, 6},
         ~Ends(Starts(n + 1), length), MapRegion(Starts(n + 1), length),
         ~play.pipe => Starts(n + 1) + 1 <= play.size,
         play.pipe =>
           /\ PipeHeld
           /\ \/ Starts(n + 1) = lastMap.offset /\ overrun.size = 0
              \/ Starts(n + 1) # lastMap.offset /\ Starts(n + 1) = lastMap.offset + lastMap.length
  PROVE  /\ n + 1 \in 1 .. FrameCountOf /\ FrameAt(region') = play.frames[n + 1]
         /\ \A i \in 1 .. length : i <= SizeAt(n + 1) => region'[i] \in {<<n + 1, i>>, Junk}
         /\ play.pipe =>
              /\ PipeHeld' /\ lastMap' = [offset |-> Starts(n + 1), length |-> length]
              /\ (Starts(n + 1) = lastMap.offset => lastMap.length <= length) => overrun'.size = 0
<1> DEFINE x == Starts(n + 1)
<1>1. x \in Nat /\ play.size \in Nat /\ n + 1 \in 1 .. FrameCountOf + 1
  BY FileIs
<1>2. CASE play.pipe
  <2>1. Read(x, length) /\ ~PipeEnds(x, length)
    BY <1>2 DEF MapRegion, Ends
  <2>2. /\ PipeHeld' /\ lastMap' = [offset |-> x, length |-> length]
        /\ (x = lastMap.offset => lastMap.length <= length) => overrun'.size = 0
    BY <1>1, <1>2, <2>1, PipeIsRead
  <2>3. /\ \A i \in 1 .. length : region'[i] = Units[x + i]
        /\ x + length <= play.size
    <3>1. InBuffer(Units', lastMap', overrun', filePos', region') /\ filePos' <= play.size
      BY <2>2 DEF PipeHeld
    <3>2. Units' = Units
      BY UnitsStay
    <3>3. lastMap'.offset = x /\ lastMap'.length = length /\ overrun'.size \in {0, 1}
      BY <2>2, <3>1 DEF InBuffer
    <3>4. filePos' = x + length + overrun'.size
      BY <3>1, <3>3 DEF InBuffer
    <3>5. \A i \in 1 .. length : region'[i] = Units[x + i]
      BY <3>1, <3>2, <3>3 DEF InBuffer
    <3> HIDE DEF x
    <3> QED BY <1>1, <3>1, <3>3, <3>4, <3>5
  <2>4. n + 1 \in 1 .. FrameCountOf
    BY <1>1, <2>3, FrameBegins
  <2>5. \A i \in 1 .. length : i <= SizeAt(n + 1) => region'[i] = <<n + 1, i>>
    <3> SUFFICES ASSUME NEW i \in 1 .. length, i <= SizeAt(n + 1)
                 PROVE  region'[i] = <<n + 1, i>>
      OBVIOUS
    <3>1. SizeAt(n + 1) \in {5, 6}
      BY <2>4, FileIs
    <3>2. i \in 1 .. SizeAt(n + 1) /\ x + i <= play.size
      BY <1>1, <2>3, <3>1
    <3>3. Units[x + i] = <<n + 1, i>>
      BY <2>4, <3>2, FileIs
    <3> QED BY <2>3, <3>3
  <2>6. FrameAt(region') = play.frames[n + 1]
    <3>1. region'[1] = <<n + 1, 1>>
      <4>1. SizeAt(n + 1) \in {5, 6}
        BY <2>4, FileIs
      <4> QED BY <2>5, <4>1
    <3>2. region'[1][1] = n + 1
      BY <3>1
    <3> QED BY <3>2 DEF FrameAt
  <2> QED BY <2>2, <2>4, <2>5, <2>6
<1>3. CASE ~play.pipe
  <2>1. region' = View(x, length) /\ x + 1 <= play.size
    BY <1>3 DEF MapRegion
  <2>2. n + 1 \in 1 .. FrameCountOf /\ SizeAt(n + 1) \in {5, 6}
    <3>1. n + 1 \in 1 .. FrameCountOf
      BY <2>1, FrameBegins
    <3> QED BY <3>1, FileIs
  <2>3. \A i \in 1 .. length : i <= SizeAt(n + 1) =>
          region'[i] = IF x + i <= play.size THEN <<n + 1, i>> ELSE Junk
    <3> SUFFICES ASSUME NEW i \in 1 .. length, i <= SizeAt(n + 1)
                 PROVE  region'[i] = IF x + i <= play.size THEN <<n + 1, i>> ELSE Junk
      OBVIOUS
    <3>1. region'[i] = IF x + i <= play.size THEN Units[x + i] ELSE Junk
      BY <2>1 DEF View
    <3>2. i \in 1 .. SizeAt(n + 1)
      BY <2>2
    <3>3. x + i <= play.size => Units[x + i] = <<n + 1, i>>
      BY <2>2, <3>2, FileIs
    <3> QED BY <3>1, <3>3
  <2>4. FrameAt(region') = play.frames[n + 1]
    <3>1. region'[1] = <<n + 1, 1>>
      <4>1. 1 \in 1 .. length /\ 1 <= SizeAt(n + 1)
        BY <2>2
      <4> QED BY <2>1, <2>3, <4>1
    <3>2. region'[1][1] = n + 1
      BY <3>1
    <3> QED BY <3>2 DEF FrameAt
  <2> QED BY <1>3, <2>2, <2>3, <2>4
<1> QED BY <1>2, <1>3

(* The two ends of a pipe.                                                   *)
Emptied(offset, length) == filePos = play.size /\ FromPipe(ToRead(offset, length)) = length
LEMMA PipeExits ==
  ASSUME NEW offset, NEW length
  PROVE  /\ PipeExit(offset, length) \in {"exit 0", "short read"}
         /\ PipeExit(offset, length) = "exit 0" => Emptied(offset, length)
BY DEF PipeExit, Emptied

LEMMA PipeStops ==
  ASSUME ShowInv, NEW offset, NEW length, Stop(PipeExit(offset, length)),
         Emptied(offset, length) /\ FirstRound => Done = FrameCountOf
  PROVE  ShowInv'
<1> DEFINE how == PipeExit(offset, length)
<1>1. how \in {"exit 0", "short read"} /\ (how = "exit 0" /\ FirstRound => Done = FrameCountOf) /\ Stop(how)
  BY PipeExits
<1> HIDE DEF how
<1> QED BY <1>1, PlayStops

(* Where the file ends no frame begins.                                      *)
LEMMA EndsAfterAll ==
  ASSUME play \in PlayJobs, NEW n \in 0 .. FrameCountOf, Starts(n + 1) = play.size
  PROVE  n = FrameCountOf
<1> SUFFICES ASSUME n # FrameCountOf PROVE FALSE
  OBVIOUS
<1>1. FrameCountOf \in Nat /\ FrameCountOf # 0
  BY FileIs
<1>2. play.size \in Starts(FrameCountOf) + 1 .. Starts(FrameCountOf + 1)
  BY FileIs
<1>3. n + 1 \in 1 .. FrameCountOf /\ n + 1 \in 1 .. FrameCountOf + 1
      /\ FrameCountOf \in 1 .. FrameCountOf + 1 /\ FrameCountOf \in 1 .. FrameCountOf
      /\ FrameCountOf + 1 \in 1 .. FrameCountOf + 1
  BY <1>1
<1>4. Starts(FrameCountOf) \in Nat /\ Starts(FrameCountOf + 1) \in Nat /\ Starts(n + 1) \in Nat
      /\ SizeAt(n + 1) \in {5, 6}
  BY <1>3, FileIs
<1>5. CASE n + 1 = FrameCountOf
  <2>1. Starts(n + 1) = Starts(FrameCountOf)
    BY <1>5
  <2> QED BY <1>2, <1>4, <2>1
<1>6. CASE n + 1 # FrameCountOf
  <2>1. n + 1 < FrameCountOf
    BY <1>1, <1>3, <1>6
  <2>2. Starts(n + 1) + SizeAt(n + 1) <= Starts(FrameCountOf)
    BY <1>3, <2>1, StartsFollow
  <2> QED BY <1>2, <1>4, <2>2
<1> QED BY <1>5, <1>6

LEMMA OpenFrames == ShowInv /\ OpenHeader => ShowInv'
<1> SUFFICES ASSUME ShowInv, OpenHeader PROVE ShowInv'
  OBVIOUS
<1>1. play \in PlayJobs /\ playPc = "open"
  BY DEF ShowInv, OpenHeader
<1>2. CASE Stop("usage")
  BY <1>2, PlayStops
<1>3. CASE Stop(PipeExit(0, 5)) /\ Ends(0, 5)
  <2>1. ~(Emptied(0, 5) /\ FirstRound)
    <3> SUFFICES ASSUME FirstRound, Emptied(0, 5) PROVE FALSE
      OBVIOUS
    <3>1. PipeHeld /\ lastMap = [offset |-> 0, length |-> 0] /\ overrun.size = 0
      BY <1>1, <1>3 DEF ShowInv, AtStart, Ends
    <3>2. filePos = 0
      <4>1. filePos = lastMap.offset + lastMap.length + overrun.size
        BY <3>1 DEF PipeHeld, InBuffer
      <4>2. lastMap.offset = 0 /\ lastMap.length = 0 /\ overrun.size = 0
        BY <3>1
      <4> QED BY <4>1, <4>2
    <3>3. filePos = play.size
      BY DEF Emptied
    <3> QED BY <1>1, <3>2, <3>3, FileIs
  <2> QED BY <1>3, <2>1, PipeStops
<1>4. CASE /\ ~Ends(0, 5) /\ MapRegion(0, 5)
           /\ playSystem' = FrameAt(region').system /\ playPc' \in {"no display", "map"}
           /\ eof' = play.size - Size(playSystem')
           /\ UNCHANGED <<play, loopCount, playAt, frameCount, prevDecoded, pixels, shown, heardFrames>>
  <2>1. /\ play' \in PlayJobs /\ (\E S : shown' \in Seq(S)) /\ (FirstRound <=> FirstRound')
        /\ FirstRound => ShownRight' /\ Done' = Done
        /\ loopCount' \in Int /\ loopCount' <= play'.loops
    BY <1>4, ShownStays DEF FirstRound, ShowInv
  <2>2. SUFFICES ASSUME FirstRound
                 PROVE  /\ AtStart' /\ AtMap' /\ AtFrame' /\ AtRemap' /\ AtShow' /\ AtEvent'
                        /\ Running' => InLoop'
                        /\ play'.pipe /\ (Running \/ playPc = "open")' => PipeHeld'
                        /\ playPc' # "exit 0"
    BY <2>1 DEF ShowInv
  <2>3. Done = 0 /\ ~prevDecoded /\ playAt = 0 /\ Starts(0 + 1) = 0 /\ 0 + 1 = 1
        /\ 0 \in 0 .. FrameCountOf /\ 1 \in 1 .. FrameCountOf /\ FrameCountOf \in Nat
    <3>1. shown = <<>> /\ ~prevDecoded /\ playAt = 0
      BY <1>1, <2>2 DEF ShowInv, AtStart
    <3> QED BY <1>1, <3>1, FileIs DEF Done
  <2>4. play.pipe =>
          /\ PipeHeld /\ lastMap = [offset |-> 0, length |-> 0] /\ overrun.size = 0
    BY <1>1, <2>2 DEF ShowInv, AtStart
  <2>5. /\ FrameAt(region') = play.frames[1]
        /\ play.pipe =>
             /\ PipeHeld' /\ lastMap' = [offset |-> 0, length |-> 5] /\ overrun'.size = 0
    <3>1. play.size \in Nat \ {0} /\ ~Ends(Starts(0 + 1), 5) /\ MapRegion(Starts(0 + 1), 5)
      BY <1>1, <1>4, <2>3, FileIs
    <3>2. ~play.pipe => Starts(0 + 1) + 1 <= play.size
      BY <2>3, <3>1
    <3>3. play.pipe => Starts(0 + 1) = lastMap.offset /\ overrun.size = 0 /\ lastMap.length <= 5
      BY <2>3, <2>4
    <3> QED BY <1>1, <1>4, <2>3, <2>4, <3>1, <3>2, <3>3, RegionIsMapped, ZenonT(60)
  <2>6. playSystem' = play.frames[1].system /\ playSystem' \in {"pal", "ntsc"} /\ SizeAt(1)' = SizeAt(1)
        /\ eof' = play.size - SizeAt(1)
    BY <1>1, <1>4, <2>3, <2>5, FileIs DEF SizeAt
  <2>7. InLoop'
    <3>1. Done' = 0 /\ playAt' = 0 /\ ~prevDecoded' /\ 0 \in Nat /\ play'.size = play.size
      BY <1>4, <2>1, <2>2, <2>3
    <3>2. playAt' \in Nat /\ playSystem' \in {"pal", "ntsc"} /\ eof' = play'.size - SizeAt(1)'
      BY <2>6, <3>1
    <3>3. prevDecoded' <=> Done' # 0
      BY <3>1
    <3> QED BY <3>1, <3>2, <3>3 DEF InLoop
  <2>8. AtMap'
    <3>1. Done' = 0 /\ Starts(1)' = 0 /\ FrameCountOf' = FrameCountOf /\ playAt' = 0
      BY <1>4, <2>1, <2>2, <2>3, UnitsStay
    <3>2. Starts(Done + 1)' = 0
      BY <3>1, <2>3
    <3> QED BY <1>4, <2>3, <2>5, <3>1, <3>2 DEF AtMap
  <2> QED BY <1>4, <2>5, <2>7, <2>8 DEF AtStart, AtFrame, AtRemap, AtShow, AtEvent, Running
<1> QED BY <1>2, <1>3, <1>4, ZenonT(60) DEF OpenHeader

(* The header of the next frame, or the end.                                 *)
LEMMA MapFrames == ShowInv /\ Map => ShowInv'
<1> SUFFICES ASSUME ShowInv, Map PROVE ShowInv'
  OBVIOUS
<1> DEFINE z == Size(playSystem)
           n == Done
<1>1. play \in PlayJobs /\ playPc = "map" /\ (playAt <= eof \/ play.pipe) /\ z \in {5, 6}
  BY DEF ShowInv, Map, Size
<1>2. FirstRound =>
        /\ InLoop /\ (play.pipe => PipeHeld)
        /\ n \in 0 .. FrameCountOf /\ playAt = Starts(n + 1)
        /\ play.pipe => \/ n = 0 /\ lastMap.offset = playAt /\ lastMap.length = 5 /\ overrun.size = 0
                        \/ n # 0 /\ lastMap.offset # playAt /\ lastMap.offset + lastMap.length = playAt
  BY <1>1 DEF ShowInv, AtMap, Running
<1>3. CASE Stop(PipeExit(playAt, z)) /\ Ends(playAt, z)
  <2>1. Emptied(playAt, z) /\ FirstRound => n = FrameCountOf
    <3> SUFFICES ASSUME Emptied(playAt, z), FirstRound PROVE n = FrameCountOf
      OBVIOUS
    <3>1. play.pipe /\ filePos = play.size /\ FromPipe(ToRead(playAt, z)) = z
      BY <1>3 DEF Ends, Emptied
    <3>2. /\ lastMap.offset \in Nat /\ lastMap.length \in 0 .. 6 /\ overrun.size \in {0, 1}
          /\ filePos = lastMap.offset + lastMap.length + overrun.size
      BY <1>2, <3>1 DEF PipeHeld, InBuffer
    <3>3. n # 0 /\ playAt = filePos
      <4>1. CASE n = 0 /\ lastMap.offset = playAt /\ lastMap.length = 5 /\ overrun.size = 0
        <5>1. ToRead(playAt, z) = z - 5
          BY <4>1 DEF ToRead, Again
        <5>2. FromPipe(z - 5) = IF z - 5 > 0 THEN z - 5 - 0 ELSE 0
          BY <4>1 DEF FromPipe
        <5>3. z - 5 \in {0, 1}
          BY <1>1
        <5>4. FromPipe(z - 5) # z
          BY <1>1, <5>2, <5>3
        <5> QED BY <3>1, <5>1, <5>4
      <4>2. CASE n # 0 /\ lastMap.offset # playAt /\ lastMap.offset + lastMap.length = playAt
        <5>1. ToRead(playAt, z) = z
          BY <4>2 DEF ToRead, Again
        <5>2. FromPipe(z) = IF z > overrun.size THEN z - overrun.size ELSE 0
          BY DEF FromPipe
        <5>3. FromPipe(z) = z
          BY <3>1, <5>1
        <5>4. overrun.size = 0
          BY <1>1, <3>2, <5>2, <5>3
        <5> QED BY <3>2, <4>2, <5>4
      <4> QED BY <1>2, <3>1, <4>1, <4>2
    <3> HIDE DEF n
    <3>4. Starts(n + 1) = play.size /\ FrameCountOf \in Nat
      BY <1>1, <1>2, <3>1, <3>3, FileIs
    <3> QED BY <1>1, <1>2, <3>4, EndsAfterAll
  <2> QED BY <1>3, <2>1, PipeStops
<1>4. CASE /\ ~Ends(playAt, z) /\ MapRegion(playAt, z)
           /\ playSystem' = FrameAt(region').system
           /\ playPc' = (IF playSystem' # playSystem THEN "remap" ELSE "show")
           /\ UNCHANGED <<constVars, playAt, display, frameCount, prevDecoded, pixels, shown, heardFrames>>
  <2>1. UNCHANGED <<play, loopCount, shown, eof, playAt, prevDecoded, pixels>>
    BY <1>4 DEF constVars
  <2>2. /\ play' \in PlayJobs /\ (\E S : shown' \in Seq(S)) /\ (FirstRound <=> FirstRound')
        /\ FirstRound => ShownRight' /\ Done' = Done
        /\ loopCount' \in Int /\ loopCount' <= play'.loops
    BY <2>1, ShownStays DEF FirstRound, ShowInv
  <2>3. SUFFICES ASSUME FirstRound
                 PROVE  /\ AtFrame' /\ AtRemap' /\ AtShow' /\ InLoop' /\ (play'.pipe => PipeHeld')
    BY <1>4, <2>2 DEF ShowInv, AtStart, AtMap, AtEvent, Running
  <2>4. play.pipe => lastMap.length \in 0 .. 6 /\ lastMap.offset \in Nat
    BY <1>2, <2>3 DEF PipeHeld, InBuffer
  <2>5. /\ n + 1 \in 1 .. FrameCountOf /\ FrameAt(region') = play.frames[n + 1]
        /\ \A i \in 1 .. z : i <= SizeAt(n + 1) => region'[i] \in {<<n + 1, i>>, Junk}
        /\ play.pipe => /\ PipeHeld' /\ lastMap' = [offset |-> playAt, length |-> z]
                        /\ overrun'.size = 0
    <3>1. ~play.pipe => Starts(n + 1) + 1 <= play.size
      <4> SUFFICES ASSUME ~play.pipe PROVE Starts(n + 1) + 1 <= play.size
        OBVIOUS
      <4>1. playAt <= play.size - SizeAt(1) /\ playAt \in Nat /\ playAt = Starts(n + 1)
        BY <1>1, <1>2, <2>3 DEF InLoop
      <4>2. SizeAt(1) \in {5, 6} /\ play.size \in Nat
        BY <1>1, FileIs
      <4> QED BY <4>1, <4>2
    <3>2. play.pipe => \/ Starts(n + 1) = lastMap.offset /\ overrun.size = 0
                       \/ Starts(n + 1) # lastMap.offset /\ Starts(n + 1) = lastMap.offset + lastMap.length
      BY <1>2, <2>3
    <3>3. play.pipe => (Starts(n + 1) = lastMap.offset => lastMap.length <= z)
      BY <1>1, <1>2, <2>3
    <3>4. /\ n \in 0 .. FrameCountOf /\ ~Ends(Starts(n + 1), z) /\ MapRegion(Starts(n + 1), z)
          /\ playAt = Starts(n + 1) /\ play' = play /\ (play.pipe => PipeHeld)
      BY <1>2, <1>4, <2>1, <2>3
    <3> HIDE DEF n, z
    <3> QED BY <1>1, <3>1, <3>2, <3>3, <3>4, RegionIsMapped
  <2>6. /\ playSystem' = play.frames[n + 1].system /\ playSystem' \in {"pal", "ntsc"}
        /\ Size(playSystem') = SizeAt(n + 1)
    BY <1>1, <1>4, <2>5, FileIs DEF SizeAt
  <2>7. Done' = n /\ FrameCountOf' = FrameCountOf /\ \A f : Starts(f)' = Starts(f) /\ SizeAt(f)' = SizeAt(f)
    BY <2>1, <2>2, <2>3, UnitsStay
  <2>8. AtFrame'
    <3>1. Starts(Done + 1)' = Starts(n + 1)
      BY <2>1 DEF Starts, Done
    <3> QED BY <1>1, <1>2, <2>1, <2>3, <2>5, <2>6, <2>7, <3>1 DEF AtFrame
  <2>9. AtRemap'
    BY <1>1, <2>1, <2>5 DEF AtRemap
  <2>10. AtShow'
    <3> SUFFICES ASSUME playPc' = "show"
                 PROVE  /\ \A i \in 1 .. Size(playSystem') : region'[i] \in {<<n + 1, i>>, Junk}
                        /\ play.pipe => lastMap'.length = Size(playSystem')
      BY <2>1, <2>7 DEF AtShow
    <3>1. playSystem' = playSystem
      BY <1>4
    <3>2. Size(playSystem') = z /\ z = SizeAt(n + 1)
      BY <2>6, <3>1
    <3>3. \A i \in 1 .. z : i <= z
      BY <1>1
    <3> HIDE DEF z, n
    <3> QED BY <2>5, <3>2, <3>3
  <2>11. InLoop'
    BY <1>2, <2>1, <2>3, <2>6, <2>7 DEF InLoop, Done
  <2> QED BY <2>1, <2>5, <2>8, <2>9, <2>10, <2>11
<1> QED BY <1>3, <1>4 DEF Map

(* A frame begins within a file before its last offset.                      *)
LEMMA StartsWithin ==
  ASSUME play \in PlayJobs, NEW n \in 0 .. FrameCountOf, playAt = Starts(n + 1), InLoop, ~play.pipe,
         playAt <= eof
  PROVE  Starts(n + 1) + 1 <= play.size
<1>1. SizeAt(1) \in {5, 6} /\ play.size \in Nat
  <2>1. 1 \in 1 .. FrameCountOf
    BY FileIs
  <2> QED BY <2>1, FileIs
<1>2. eof = play.size - SizeAt(1) /\ playAt \in Nat
  BY DEF InLoop
<1> QED BY <1>1, <1>2

(* The frame once more, with the size it has.                                *)
LEMMA RemapFrames == ShowInv /\ Remap => ShowInv'
<1> SUFFICES ASSUME ShowInv, Remap PROVE ShowInv'
  OBVIOUS
<1> DEFINE z == Size(playSystem)
           n == Done
<1>1. play \in PlayJobs /\ playPc = "remap" /\ z \in {5, 6}
  BY DEF ShowInv, Remap, Size
<1>2. FirstRound =>
        /\ InLoop /\ (play.pipe => PipeHeld)
        /\ n + 1 \in 1 .. FrameCountOf /\ playAt = Starts(n + 1) /\ playSystem = play.frames[n + 1].system
        /\ ~play.pipe => playAt <= eof
        /\ play.pipe => lastMap.offset = playAt /\ overrun.size = 0 /\ lastMap.length \in {5, 6}
  BY <1>1 DEF ShowInv, AtFrame, AtRemap, Running
<1>3. CASE Stop(PipeExit(playAt, z)) /\ Ends(playAt, z)
  <2>1. ~(Emptied(playAt, z) /\ FirstRound)
    <3> SUFFICES ASSUME Emptied(playAt, z), FirstRound PROVE FALSE
      OBVIOUS
    <3>1. play.pipe /\ FromPipe(ToRead(playAt, z)) = z
      BY <1>3 DEF Ends, Emptied
    <3>2. lastMap.offset = playAt /\ overrun.size = 0 /\ lastMap.length \in {5, 6}
      BY <1>2, <3>1
    <3>3. ToRead(playAt, z) = z - lastMap.length
      BY <3>2 DEF ToRead, Again
    <3>4. z - lastMap.length \in {-1, 0, 1}
      BY <1>1, <3>2
    <3>5. FromPipe(z - lastMap.length) = IF z - lastMap.length > 0 THEN z - lastMap.length - 0 ELSE 0
      BY <3>2 DEF FromPipe
    <3>6. FromPipe(z - lastMap.length) # z
      BY <1>1, <3>2, <3>4, <3>5
    <3> QED BY <3>1, <3>3, <3>6
  <2> QED BY <1>3, <2>1, PipeStops
<1>4. CASE /\ ~Ends(playAt, z) /\ MapRegion(playAt, z) /\ playPc' = "show"
           /\ UNCHANGED <<constVars, playAt, playSystem, frameCount, prevDecoded, pixels, shown, heardFrames>>
  <2>1. UNCHANGED <<play, loopCount, shown, eof, playAt, playSystem, prevDecoded, pixels>>
    BY <1>4 DEF constVars
  <2>2. /\ play' \in PlayJobs /\ (\E S : shown' \in Seq(S)) /\ (FirstRound <=> FirstRound')
        /\ FirstRound => ShownRight' /\ Done' = Done
        /\ loopCount' \in Int /\ loopCount' <= play'.loops
    BY <2>1, ShownStays DEF FirstRound, ShowInv
  <2>3. SUFFICES ASSUME FirstRound
                 PROVE  /\ AtFrame' /\ AtShow' /\ InLoop' /\ (play'.pipe => PipeHeld')
    BY <1>4, <2>2 DEF ShowInv, AtStart, AtMap, AtRemap, AtEvent, Running
  <2>4. /\ n \in 0 .. FrameCountOf /\ z = SizeAt(n + 1) /\ playAt = Starts(n + 1)
        /\ ~play.pipe => Starts(n + 1) + 1 <= play.size
    <3>1. n \in 0 .. FrameCountOf
      <4>1. n \in Nat /\ FrameCountOf \in Nat
        BY <1>1, FileIs, LenProperties DEF ShowInv, Done
      <4> HIDE DEF n
      <4> QED BY <1>2, <2>3, <4>1
    <3> QED BY <1>1, <1>2, <2>3, <3>1, StartsWithin DEF SizeAt
  <2>5. /\ \A i \in 1 .. z : region'[i] \in {<<n + 1, i>>, Junk}
        /\ play.pipe => PipeHeld' /\ lastMap' = [offset |-> playAt, length |-> z]
    <3>1. /\ ~Ends(Starts(n + 1), z) /\ MapRegion(Starts(n + 1), z) /\ play' = play
          /\ play.pipe => PipeHeld /\ Starts(n + 1) = lastMap.offset /\ overrun.size = 0
      BY <1>2, <1>4, <2>1, <2>3, <2>4
    <3>2. \A i \in 1 .. z : i <= z
      BY <1>1
    <3> HIDE DEF n, z
    <3>3. /\ \A i \in 1 .. z : i <= SizeAt(n + 1) => region'[i] \in {<<n + 1, i>>, Junk}
          /\ play.pipe => PipeHeld' /\ lastMap' = [offset |-> Starts(n + 1), length |-> z]
      BY <1>1, <2>4, <3>1, RegionIsMapped
    <3> QED BY <2>4, <3>2, <3>3
  <2>6. AtFrame'
    <3>1. Done' = n /\ FrameCountOf' = FrameCountOf /\ Starts(Done + 1)' = Starts(n + 1)
      BY <2>1, <2>2, <2>3 DEF Starts, Done, FrameCountOf
    <3>2. lastMap' = [offset |-> playAt, length |-> z] => lastMap'.offset = playAt'
      BY <2>1
    <3> QED BY <1>2, <2>1, <2>3, <2>5, <3>1, <3>2 DEF AtFrame
  <2>7. AtShow'
    <3>1. Done' = n /\ playSystem' = playSystem
      BY <2>1, <2>2, <2>3
    <3> QED BY <2>1, <2>5, <3>1 DEF AtShow
  <2>8. InLoop'
    BY <1>2, <2>1, <2>3 DEF InLoop, Done, SizeAt
  <2> QED BY <2>1, <2>5, <2>6, <2>7, <2>8
<1> QED BY <1>3, <1>4 DEF Remap

(* One frame more is shown.                                                  *)
LEMMA OneMoreShown ==
  ASSUME NEW S, shown \in Seq(S), NEW r, shown' = Append(shown, r)
  PROVE  /\ Done \in Nat /\ Done' = Done + 1 /\ shown' \in Seq(S \cup {r})
         /\ shown'[Done + 1] = r /\ \A m \in 1 .. Done : shown'[m] = shown[m]
<1> DEFINE T == S \cup {r}
<1>1. shown \in Seq(T) /\ r \in T
  <2>1. S \subseteq T
    OBVIOUS
  <2> HIDE DEF T
  <2>2. shown \in Seq(T)
    BY <2>1, SeqMonotonic
  <2> QED BY <2>2 DEF T
<1> HIDE DEF T
<1>2. /\ shown' \in Seq(T) /\ Len(shown') = Len(shown) + 1
      /\ \A m \in 1 .. Len(shown) : shown'[m] = shown[m]
      /\ shown'[Len(shown) + 1] = r
  BY <1>1, AppendProperties
<1>3. Len(shown) \in Nat
  BY LenProperties
<1> QED BY <1>2, <1>3 DEF Done, T

LEMMA ShowFrames == ShowInv /\ Show => ShowInv'
<1> SUFFICES ASSUME ShowInv, Show PROVE ShowInv'
  OBVIOUS
<1> DEFINE z == Size(playSystem)
           n == Done
<1>1. play \in PlayJobs /\ playPc = "show" /\ z \in {5, 6}
  BY DEF ShowInv, Show, Size
<1>2. FirstRound =>
        /\ InLoop /\ ShownRight /\ (play.pipe => PipeHeld)
        /\ n + 1 \in 1 .. FrameCountOf /\ playAt = Starts(n + 1) /\ playSystem = play.frames[n + 1].system
        /\ ~play.pipe => playAt <= eof
        /\ play.pipe => lastMap.offset = playAt /\ lastMap.length = z
        /\ \A i \in 1 .. z : region[i] \in {<<n + 1, i>>, Junk}
  BY <1>1 DEF ShowInv, AtFrame, AtShow, Running
<1>3. CASE Stop("crashed")
  BY <1>3, PlayStops
<1>4. CASE ~Faults(region, z) /\ ~Stop("crashed")
  <2> DEFINE frame == FrameAt(region)
             r == [units |-> WholeFrame, picture |-> pixels', system |-> playSystem, format |-> frame.format]
  <2>1. /\ pixels' = IF ~prevDecoded \/ FrameChanged(frame) THEN region[1][1] ELSE pixels
        /\ prevDecoded' = TRUE /\ shown' = Append(shown, r) /\ playPc' = "event"
        /\ UNCHANGED <<play, loopCount, eof, region, lastMap, overrun, filePos, playAt, playSystem>>
    BY <1>4 DEF Show, constVars, mapVars
  <2>2. PICK S : shown \in Seq(S)
    BY DEF ShowInv
  <2>3. /\ n \in Nat /\ Done' = n + 1 /\ shown' \in Seq(S \cup {r})
        /\ shown'[n + 1] = r /\ \A m \in 1 .. n : shown'[m] = shown[m]
    <3> HIDE DEF r
    <3> QED BY <2>1, <2>2, OneMoreShown
  <2>4. /\ play' \in PlayJobs /\ (FirstRound <=> FirstRound')
        /\ loopCount' \in Int /\ loopCount' <= play'.loops /\ (\E T : shown' \in Seq(T))
    BY <2>1, <2>3 DEF FirstRound, ShowInv
  <2> HIDE DEF n, z
  <2>5. SUFFICES ASSUME FirstRound
                 PROVE  ShownRight' /\ InLoop' /\ AtEvent' /\ (play'.pipe => PipeHeld')
    BY <2>1, <2>4 DEF ShowInv, AtStart, AtMap, AtFrame, AtRemap, AtShow, Running
  <2>6. \A i \in 1 .. z : region[i] = <<n + 1, i>>
    BY <1>2, <1>4, <2>5 DEF Faults
  <2>7. WholeFrame = UnitsOf(n + 1) /\ frame = play.frames[n + 1] /\ region[1][1] = n + 1
    <3>1. region[1][1] = n + 1
      <4>1. region[1] = <<n + 1, 1>>
        BY <1>1, <2>6
      <4> QED BY <4>1
    <3>2. WholeFrame = [i \in 1 .. z |-> <<n + 1, i>>]
      BY <2>6 DEF WholeFrame, z
    <3>3. UnitsOf(n + 1) = [i \in 1 .. z |-> <<n + 1, i>>]
      BY <1>2, <2>5 DEF UnitsOf, z
    <3> QED BY <3>1, <3>2, <3>3 DEF FrameAt
  <2> HIDE DEF r
  <2>8. r.units = UnitsOf(n + 1) /\ r.system = play.frames[n + 1].system /\ r.picture = pixels'
    BY <1>2, <2>5, <2>7 DEF r
  <2>9. pixels' = IF n + 1 = 1 \/ FrameChanged(play.frames[n + 1]) THEN n + 1 ELSE shown[n].picture
    <3>1. (prevDecoded <=> n # 0) /\ (n # 0 => pixels = shown[n].picture) /\ (n + 1 = 1 <=> n = 0)
      BY <1>2, <2>3, <2>5 DEF InLoop, n
    <3> HIDE DEF frame
    <3> QED BY <2>1, <2>7, <3>1
  <2>10. ASSUME NEW m \in 1 .. n + 1 PROVE Right(shown', m)
    <3>1. CASE m = n + 1
      <4>1. m # 1 => n \in 1 .. n /\ m - 1 = n
        BY <2>3, <3>1
      <4>2. m # 1 => shown'[m - 1] = shown[n]
        BY <2>3, <4>1
      <4> QED BY <2>3, <2>8, <2>9, <3>1, <4>2 DEF Right
    <3>2. CASE m # n + 1
      <4>1. m \in 1 .. n /\ (m # 1 => m - 1 \in 1 .. n)
        BY <2>3, <3>2
      <4>2. shown'[m] = shown[m] /\ (m # 1 => shown'[m - 1] = shown[m - 1])
        BY <2>3, <4>1
      <4>3. Right(shown, m)
        BY <1>2, <2>5, <4>1 DEF ShownRight, n
      <4> QED BY <4>2, <4>3 DEF Right
    <3> QED BY <3>1, <3>2
  <2>11. ShownRight'
    <3>1. \A m : Right(shown, m)' <=> Right(shown', m)
      BY <2>1, UnitsStay
    <3> QED BY <2>3, <2>10, <3>1 DEF ShownRight
  <2>12. InLoop'
    <3>1. Done' # 0 /\ pixels' = shown'[Done'].picture
      BY <2>3, <2>8
    <3>2. SizeAt(1)' = SizeAt(1)
      BY <2>1, UnitsStay
    <3> QED BY <1>2, <2>1, <2>5, <3>1, <3>2 DEF InLoop
  <2>13. AtEvent'
    <3>1. Done' = n + 1 /\ FrameCountOf' = FrameCountOf /\ Starts(Done)' = Starts(n + 1)
      BY <2>1, <2>3 DEF Starts, FrameCountOf
    <3> QED BY <1>2, <2>1, <2>5, <3>1 DEF AtEvent, z
  <2>14. play'.pipe => PipeHeld'
    BY <1>2, <2>1, <2>5 DEF PipeHeld, Units
  <2> QED BY <2>11, <2>12, <2>13, <2>14
<1> QED BY <1>3, <1>4 DEF Show

(* On to the next frame, or out of the loop.                                 *)
LEMMA EventFrames == ShowInv /\ ShowEvents => ShowInv'
<1> SUFFICES ASSUME ShowInv, ShowEvents PROVE ShowInv'
  OBVIOUS
<1> DEFINE z == Size(playSystem)
           n == Done
<1>1. play \in PlayJobs /\ playPc = "event"
  BY DEF ShowInv, ShowEvents
<1>2. /\ playPc' \in {"end", "map"} /\ playAt' = IF playPc' = "end" THEN playAt ELSE playAt + z
      /\ UNCHANGED <<play, eof, loopCount, region, lastMap, overrun, filePos, playSystem,
                     prevDecoded, pixels, shown>>
  BY DEF ShowEvents, constVars, mapVars
<1>3. /\ play' \in PlayJobs /\ (\E S : shown' \in Seq(S)) /\ (FirstRound <=> FirstRound')
      /\ FirstRound => ShownRight' /\ Done' = Done
      /\ loopCount' \in Int /\ loopCount' <= play'.loops
  BY <1>2, ShownStays DEF FirstRound, ShowInv
<1>4. SUFFICES ASSUME FirstRound, playPc' = "map"
               PROVE  InLoop' /\ AtMap' /\ (play'.pipe => PipeHeld')
  BY <1>2, <1>3 DEF ShowInv, AtStart, AtMap, AtFrame, AtRemap, AtShow, AtEvent, Running
<1>5. /\ n \in 1 .. FrameCountOf /\ playAt = Starts(n) /\ playSystem = play.frames[n].system
      /\ ~play.pipe => playAt <= eof
      /\ play.pipe => lastMap.offset = playAt /\ lastMap.length = z
      /\ InLoop /\ (play.pipe => PipeHeld)
  BY <1>1, <1>4 DEF ShowInv, AtEvent, Running
<1>6. /\ z \in {5, 6} /\ Starts(n + 1) = Starts(n) + z /\ Starts(n) \in Nat
      /\ n # 0 /\ n \in 0 .. FrameCountOf
  <2>1. z = SizeAt(n) /\ FrameCountOf \in Nat
    BY <1>1, <1>5, FileIs DEF SizeAt
  <2> HIDE DEF n, z
  <2>2. n \in 1 .. FrameCountOf + 1 /\ n # 0 /\ n \in 0 .. FrameCountOf
    BY <1>5, <2>1
  <2> QED BY <1>1, <1>5, <2>1, <2>2, FileIs
<1>7. playAt' = Starts(n + 1)
  BY <1>2, <1>4, <1>5, <1>6
<1> HIDE DEF z
<1>8. AtMap'
  <2>1. Done' = n /\ FrameCountOf' = FrameCountOf /\ Starts(Done + 1)' = Starts(n + 1) /\ Starts(Done)' = Starts(n)
    BY <1>2, <1>3, <1>4 DEF Starts, FrameCountOf, Done
  <2> HIDE DEF n
  <2>2. play.pipe => lastMap'.offset # playAt' /\ lastMap'.offset + lastMap'.length = playAt'
    BY <1>2, <1>5, <1>6, <1>7
  <2>3. ~play.pipe => Starts(n) <= eof'
    BY <1>2, <1>5
  <2> QED BY <1>2, <1>6, <1>7, <2>1, <2>2, <2>3 DEF AtMap
<1>9. InLoop'
  <2>1. playAt' \in Nat
    BY <1>6, <1>7
  <2>2. Done' = Done /\ SizeAt(1)' = SizeAt(1)
    BY <1>2, <1>3, <1>4, UnitsStay
  <2> QED BY <1>2, <1>5, <2>1, <2>2 DEF InLoop
<1>10. play'.pipe => PipeHeld'
  BY <1>2, <1>5 DEF PipeHeld, Units
<1> QED BY <1>8, <1>9, <1>10

LEMMA ShowInvInit == PlayInit => ShowInv
<1> SUFFICES ASSUME PlayInit PROVE ShowInv
  OBVIOUS
<1>1. /\ play \in PlayJobs /\ playPc = "open" /\ loopCount = play.loops
      /\ lastMap = [offset |-> 0, length |-> 0] /\ overrun = [size |-> 0, offset |-> 0]
      /\ filePos = 0 /\ playAt = 0 /\ prevDecoded = FALSE /\ shown = <<>>
  BY DEF PlayInit
<1>2. play.loops \in Int /\ play.size \in Nat
  BY <1>1, FileIs
<1>3. ShownRight /\ AtStart /\ \E S : shown \in Seq(S)
  <2>1. shown \in Seq({}) /\ Done = 0
    BY <1>1 DEF Done
  <2>2. ShownRight
    BY <2>1 DEF ShownRight
  <2> QED BY <1>1, <2>1, <2>2 DEF AtStart
<1>4. PipeHeld
  <2>1. InBuffer(Units, lastMap, overrun, filePos, region)
    <3>1. lastMap \in [offset : Nat, length : 0 .. 6] /\ overrun \in [size : {0, 1}, offset : Nat]
      BY <1>1
    <3>2. lastMap.offset = 0 /\ lastMap.length = 0 /\ overrun.size = 0
      BY <1>1
    <3> QED BY <1>1, <3>1, <3>2 DEF InBuffer
  <2> QED BY <1>1, <1>2, <2>1 DEF PipeHeld
<1>5. AtMap /\ AtFrame /\ AtRemap /\ AtShow /\ AtEvent /\ ~Running /\ playPc # "exit 0"
  BY <1>1 DEF AtMap, AtFrame, AtRemap, AtShow, AtEvent, Running
<1>6. loopCount \in Int /\ loopCount <= play.loops
  BY <1>1, <1>2
<1> QED BY <1>1, <1>3, <1>4, <1>5, <1>6 DEF ShowInv

LEMMA ShowInvStep == ShowInv /\ [PlayNext]_playVars => ShowInv'
<1>1. ShowInv /\ UNCHANGED playVars => ShowInv'
  <2> SUFFICES ASSUME ShowInv, UNCHANGED playVars PROVE ShowInv'
    OBVIOUS
  <2>1. UNCHANGED <<play, playPc, region, lastMap, overrun, filePos, playAt, eof, playSystem, loopCount,
                    prevDecoded, pixels, shown>>
    BY DEF playVars
  <2>2. FirstRound' = FirstRound /\ Done' = Done /\ Running' = Running /\ FrameCountOf' = FrameCountOf
        /\ (PipeHeld' <=> PipeHeld) /\ (ShownRight' <=> ShownRight) /\ (InLoop' <=> InLoop)
    BY <2>1 DEF FirstRound, Done, Running, FrameCountOf, PipeHeld, Units, ShownRight, Right, UnitsOf,
                InLoop, SizeAt
  <2>3. (AtStart' <=> AtStart) /\ (AtMap' <=> AtMap) /\ (AtFrame' <=> AtFrame) /\ (AtRemap' <=> AtRemap)
        /\ (AtShow' <=> AtShow) /\ (AtEvent' <=> AtEvent)
    BY <2>1 DEF AtStart, AtMap, AtFrame, AtRemap, AtShow, AtEvent, Done, FrameCountOf, Starts
  <2> QED BY <2>1, <2>2, <2>3 DEF ShowInv
<1> QED BY <1>1, OpenFrames, MapFrames, RemapFrames, ShowFrames, EventFrames, LoopFrames DEF PlayNext

(* How many frames of a whole file begin before its last offset.             *)
LEMMA FramesOfFile ==
  ASSUME play \in PlayJobs, play.size = Starts(FrameCountOf + 1), NEW n \in 0 .. FrameCountOf,
         Starts(n + 1) > play.size - SizeAt(1), n # 0 => Starts(n) <= play.size - SizeAt(1)
  PROVE  n = FrameCountOf - (IF play.frames[1].system = "pal" /\ play.frames[FrameCountOf].system = "ntsc"
                             THEN 1 ELSE 0)
<1> DEFINE N == FrameCountOf
           s == SizeAt(1)
           l == SizeAt(N)
           e == Starts(N)
<1>1. /\ N \in Nat /\ N # 0 /\ Starts(N + 1) = e + l /\ e \in Nat /\ s \in {5, 6} /\ l \in {5, 6}
      /\ play.frames[1].system \in {"pal", "ntsc"} /\ play.frames[N].system \in {"pal", "ntsc"}
  <2>1. N \in Nat /\ N # 0
    BY FileIs
  <2>2. 1 \in 1 .. N /\ N \in 1 .. N /\ N \in 1 .. N + 1
    BY <2>1
  <2> QED BY <2>1, <2>2, FileIs
<1>2. l < s <=> play.frames[1].system = "pal" /\ play.frames[N].system = "ntsc"
  BY <1>1 DEF SizeAt, Size
<1> HIDE DEF s, l, e
<1>3. n # 0
  <2> SUFFICES ASSUME n = 0 PROVE FALSE
    OBVIOUS
  <2>1. Starts(1) = 0 /\ Starts(n + 1) = Starts(1) /\ 1 \in 1 .. N + 1 /\ N + 1 \in 1 .. N + 1 /\ 1 < N + 1
    BY <1>1, FileIs
  <2>2. Starts(1) + s <= Starts(N + 1)
    BY <2>1, StartsFollow DEF s
  <2>3. 0 > e + l - s
    BY <1>1, <2>1 DEF s
  <2> QED BY <1>1, <2>1, <2>2, <2>3
<1>4. CASE n = N
  <2>1. e <= e + l - s
    BY <1>1, <1>3, <1>4 DEF s, e
  <2>2. ~(l < s)
    BY <1>1, <2>1
  <2> QED BY <1>1, <1>2, <1>4, <2>2
<1>5. CASE n # N
  <2>1. n + 1 \in 1 .. N /\ n + 1 \in 1 .. N + 1 /\ N \in 1 .. N + 1
    BY <1>1, <1>5
  <2>2. Starts(n + 1) > e + l - s /\ Starts(n + 1) \in Nat /\ SizeAt(n + 1) \in {5, 6}
    <3>1. Starts(n + 1) > e + l - s
      BY <1>1 DEF s
    <3>2. Starts(n + 1) \in Nat /\ SizeAt(n + 1) \in {5, 6}
      BY <2>1, FileIs
    <3> QED BY <3>1, <3>2
  <2>3. n + 1 = N
    <3> SUFFICES ASSUME n + 1 # N PROVE FALSE
      OBVIOUS
    <3>1. n + 1 < N
      BY <1>1, <2>1
    <3>2. Starts(n + 1) + SizeAt(n + 1) <= e
      BY <2>1, <3>1, StartsFollow DEF e
    <3> QED BY <1>1, <2>2, <3>2
  <2>4. Starts(n + 1) = e
    BY <2>3 DEF e
  <2>5. l < s
    BY <1>1, <2>2, <2>4
  <2> QED BY <1>1, <1>2, <2>3, <2>5
<1> QED BY <1>4, <1>5

LEMMA ShowInvSays == ShowInv => PlayerReadsFrames
<1> SUFFICES ASSUME ShowInv, FirstRound PROVE PlayerReadsFrames
  BY DEF PlayerReadsFrames, FirstRound
<1>1. /\ play \in PlayJobs /\ ShownRight /\ AtMap /\ (Running => InLoop)
      /\ playPc = "exit 0" => Done = FrameCountOf
  BY DEF ShowInv
<1>2. \A n \in DOMAIN shown : Right(shown, n)
  <2>1. DOMAIN shown = 1 .. Done
    BY LenProperties DEF ShowInv, Done
  <2> QED BY <1>1, <2>1 DEF ShownRight
<1>3. ASSUME playPc = "map", ~play.pipe, playAt > eof, ~CutShort
      PROVE  Done = FrameCountOf -
               (IF play.frames[1].system = "pal" /\ play.frames[FrameCountOf].system = "ntsc" THEN 1 ELSE 0)
  <2>1. play.size = Starts(FrameCountOf + 1)
    <3>1. /\ play.size \in Starts(FrameCountOf) + 1 .. Starts(FrameCountOf + 1)
          /\ Len(Stream(play.frames)) = Starts(FrameCountOf + 1)
          /\ play.size \in Nat
      BY <1>1, FileIs
    <3>2. Starts(FrameCountOf + 1) \in Nat /\ Starts(FrameCountOf) \in Nat
      <4>1. FrameCountOf \in 1 .. FrameCountOf + 1 /\ FrameCountOf + 1 \in 1 .. FrameCountOf + 1
        <5>1. FrameCountOf \in Nat /\ FrameCountOf # 0
          BY <1>1, FileIs
        <5> QED BY <5>1
      <4> QED BY <1>1, <4>1, FileIs
    <3>3. ~(play.size < Starts(FrameCountOf + 1))
      BY <1>3, <3>1 DEF CutShort
    <3> QED BY <3>1, <3>2, <3>3
  <2>2. /\ Done \in 0 .. FrameCountOf /\ playAt = Starts(Done + 1)
        /\ Done # 0 => Starts(Done) <= eof
        /\ eof = play.size - SizeAt(1)
    BY <1>1, <1>3 DEF AtMap, InLoop, Running
  <2>3. Starts(Done + 1) > play.size - SizeAt(1) /\ (Done # 0 => Starts(Done) <= play.size - SizeAt(1))
    BY <1>3, <2>2
  <2> QED BY <1>1, <2>1, <2>2, <2>3, FramesOfFile
<1>4. Last(play.frames) = play.frames[FrameCountOf]
  BY DEF Last, FrameCountOf
<1> QED BY <1>1, <1>2, <1>3, <1>4 DEF PlayerReadsFrames, Right, Done, FrameCountOf

(* playdv: the frames of a stream are shown one after the other, each of its *)
(* own units, in its own standard and with its own picture, from a pipe and  *)
(* from a file, however often the standard changes.                          *)
THEOREM FramesAreRead == PlaySpec => []PlayerReadsFrames
<1>1. PlaySpec => []ShowInv
  BY ShowInvInit, ShowInvStep, PTL DEF PlaySpec
<1> QED BY <1>1, ShowInvSays, PTL
=============================================================================
