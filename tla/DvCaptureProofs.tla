--------------------------- MODULE DvCaptureProofs ---------------------------
(***************************************************************************)
(* Theorems about DvCapture, for every frame size, pool size and number of *)
(* frames.                                                                 *)
(***************************************************************************)
EXTENDS DvCapture, BufListsProofs

USE DEF PushBack, Rest, BlockFull

(* Which blocks are in hand at which point of the two threads. *)
Flow ==
  /\ pc = "push" => f # NULL
  /\ pc \in {"signal", "get", "malloc"} => f = NULL
  /\ wpc \in {"fwrite", "release"} <=> wf # NULL

(* No size exceeds the packets really stored. *)
Sized ==
  /\ f # NULL => frame_size <= Len(data[f])
  /\ pc = "push" => usage[f] <= Len(data[f])
  /\ \A b \in InFlight : usage[b] <= Len(data[b])

IInv == TypeOK /\ Flow /\ OneOwner /\ Sized

LEMMA ConstantFacts ==
  /\ PalPackets \in Nat /\ NtscPackets \in Nat
  /\ 0 < NtscPackets /\ NtscPackets < PalPackets
  /\ MaxBufferBlocks \in Nat /\ MaxAlloc \in Nat /\ CamFrames \in Nat \ {0}
  /\ MaxLost \in Nat /\ MaxCount \in Nat \ {0} /\ Endless \in BOOLEAN
  /\ StartFrame \in Nat /\ CapNumFrames \in Nat \cup {Unlimited}
BY CaptureAssumption

LEMMA BlockNumbers ==
  /\ Blocks \subseteq Nat \ {0}
  /\ \A b \in Blocks : b # NULL
  /\ \A q \in Seq(Blocks) : q \in Seq(Nat \ {0})
<1>1. Blocks \subseteq Nat \ {0}
  BY ConstantFacts DEF Blocks
<1>2. \A q \in Seq(Blocks) : q \in Seq(Nat \ {0})
  BY <1>1, SeqMonotonic
<1> QED
  BY <1>1, <1>2 DEF NULL

(* The next packet of the camera is a packet. *)
LEMMA NextPacketType ==
  ASSUME cam \in Packet, CameraOn, NextPacket
  PROVE  cam' \in Packet
<1> USE ConstantFacts DEF Packet, CameraOn, FrameSize
<1>1. CASE cam.ix < FrameSize(cam.pal)
  <2>1. cam.ix + 1 \in 1..PalPackets
    BY <1>1
  <2>2. cam' = [cam EXCEPT !.ix = cam.ix + 1]
    BY <1>1 DEF NextPacket
  <2> QED
    BY <2>1, <2>2
<1>2. CASE ~(cam.ix < FrameSize(cam.pal))
  <2>1. PICK pal \in BOOLEAN :
          cam' = [fr  |-> IF Endless /\ cam.fr = CamFrames - 1 THEN 0 ELSE cam.fr + 1,
                  ix  |-> 1,
                  pal |-> pal]
    BY <1>2 DEF NextPacket
  <2> QED
    BY <2>1
<1> QED
  BY <1>1, <1>2

(* Storing packet p behind n packets of block b changes that block only. *)
LEMMA StoreEffect ==
  ASSUME TypeOK, NEW b \in Blocks, NEW n \in 0..(PalPackets - 1), NEW p \in Packet,
         n <= Len(data[b]), Store(b, n, p)
  PROVE  /\ data' \in [Blocks -> Seq(Packet)]
         /\ frame_size' \in 0..PalPackets
         /\ frame_size' <= Len(data'[b])
         /\ \A c \in Blocks \ {b} : data'[c] = data[c]
<1>1. data[b] \in Seq(Packet) /\ Len(data[b]) \in Nat /\ n \in Nat
  BY ConstantFacts, LenProperties DEF TypeOK
<1>2. \A i \in 1..n : data[b][i] \in Packet
  BY <1>1, ElementOfSeq
<1>3. SubSeq(data[b], 1, n) \in Seq(Packet) /\ Len(SubSeq(data[b], 1, n)) = n
  BY <1>1, <1>2, SubSeqProperties
<1>4. /\ Append(SubSeq(data[b], 1, n), p) \in Seq(Packet)
      /\ Len(Append(SubSeq(data[b], 1, n), p)) = n + 1
  BY <1>3, AppendProperties
<1> QED
  BY <1>4, ConstantFacts DEF TypeOK, Store

LEMMA OpenFrameEffect ==
  ASSUME TypeOK, NEW b \in Blocks, NEW p \in Packet, NEW left, OpenFrame(b, p, left)
  PROVE  /\ data' \in [Blocks -> Seq(Packet)]
         /\ frame_size' \in 0..PalPackets
         /\ frame_size' <= Len(data'[b])
         /\ \A c \in Blocks \ {b} : data'[c] = data[c]
         /\ f' = b
<1>1. Len(data[b]) \in Nat
  BY LenProperties DEF TypeOK
<1>2. CASE left # 0
  BY <1>1, <1>2, StoreEffect, ConstantFacts DEF OpenFrame
<1>3. CASE left = 0
  BY <1>1, <1>3, ConstantFacts DEF OpenFrame, TypeOK
<1> QED
  BY <1>2, <1>3

(* The camera's step, and main's share of it. *)
LEMMA ReceiveType ==
  ASSUME TypeOK, NEW start, Receive(start)
  PROVE  cam' \in Packet /\ lost' = lost /\ cam \in Packet
BY NextPacketType DEF Receive, TypeOK

LEMMA BumpType == \A n \in 0..MaxCount : Bump(n) \in 0..MaxCount
BY ConstantFacts DEF Bump

LEMMA BeginStartType ==
  ASSUME TypeOK, BeginStart
  PROVE  /\ cam' \in Packet /\ pkt' \in Packet /\ lost' = lost
         /\ isPAL' \in BOOLEAN /\ found_first_block' \in BOOLEAN
         /\ cap_start_frame' \in Nat
         /\ cap_num_frames' \in Nat \cup {Unlimited}
         /\ broken_frames' \in 0..MaxCount /\ frames_captured' \in 0..MaxCount
         /\ pc = "recv"
<1>1. cam' \in Packet /\ lost' = lost /\ cam \in Packet
  BY ReceiveType DEF BeginStart
<1>2. cam.pal \in BOOLEAN
  BY <1>1 DEF Packet
<1>3. cap_num_frames' \in Nat \cup {Unlimited}
  BY DEF BeginStart, Receive, CountDown, TypeOK, Unlimited
<1>4. broken_frames' \in 0..MaxCount /\ frames_captured' \in 0..MaxCount
  BY BumpType DEF BeginStart, TypeOK
<1> QED
  BY <1>1, <1>2, <1>3, <1>4 DEF BeginStart, Receive, TypeOK

-----------------------------------------------------------------------------
(* Type correctness is preserved. *)
LEMMA TypeStep == IInv /\ [Next]_vars => TypeOK'
<1> SUFFICES ASSUME IInv, [Next]_vars PROVE TypeOK'
  OBVIOUS
<1> USE DEF blockVars, frameVars, countVars, writerVars, camVars
<1>t. TypeOK /\ Flow /\ OneOwner /\ Sized
  BY DEF IInv
<1>1. CASE LosePacket
  BY <1>1, <1>t, NextPacketType, ConstantFacts DEF LosePacket, TypeOK
<1>2. CASE StorePacket
  <2>1. f \in Blocks /\ frame_size \in 0..(PalPackets - 1) /\ frame_size <= Len(data[f])
    BY <1>2, <1>t, ConstantFacts DEF StorePacket, TypeOK, Sized
  <2>2. cam' \in Packet /\ lost' = lost /\ cam \in Packet
    BY <1>2, <1>t, ReceiveType DEF StorePacket
  <2>3. data' \in [Blocks -> Seq(Packet)] /\ frame_size' \in 0..PalPackets
    BY <1>2, <1>t, <2>1, <2>2, StoreEffect DEF StorePacket
  <2> QED
    BY <1>2, <1>t, <2>2, <2>3 DEF StorePacket, TypeOK
<1>3. CASE OverflowFrame
  <2>1. broken_frames' \in 0..MaxCount
    BY <1>3, <1>t, BumpType DEF OverflowFrame, TypeOK
  <2>2. cam' \in Packet /\ lost' = lost
    BY <1>3, <1>t, ReceiveType DEF OverflowFrame
  <2> QED
    BY <1>3, <1>t, <2>1, <2>2, ConstantFacts DEF OverflowFrame, TypeOK
<1>4. CASE IgnorePacket
  BY <1>4, <1>t, ReceiveType, ZenonT(60) DEF IgnorePacket, TypeOK
<1>5. CASE SkipFrame
  <2>1. cap_start_frame' \in Nat
    BY <1>5, <1>t DEF SkipFrame, TypeOK
  <2>2. cam' \in Packet /\ lost' = lost
    BY <1>5, <1>t, ReceiveType DEF SkipFrame
  <2> QED
    BY <1>5, <1>t, <2>1, <2>2 DEF SkipFrame, TypeOK
<1>6. CASE CompleteFrame
  BY <1>6, <1>t, BeginStartType DEF CompleteFrame, TypeOK
<1>7. CASE DiscardFrame
  <2>1. cam \in Packet /\ f \in Blocks
    BY <1>7, <1>t DEF DiscardFrame, TypeOK
  <2>2. data' \in [Blocks -> Seq(Packet)] /\ frame_size' \in 0..PalPackets /\ f' = f
    BY <1>7, <1>t, <2>1, OpenFrameEffect DEF DiscardFrame
  <2> QED
    BY <1>7, <1>t, <2>2, BeginStartType DEF DiscardFrame, TypeOK
<1>8. CASE StartWithoutBlock
  BY <1>8, <1>t, BeginStartType DEF StartWithoutBlock, TypeOK
<1>9. CASE PushFrame
  <2>1. f \in Blocks
    BY <1>9, <1>t DEF PushFrame, TypeOK, Flow
  <2>2. buf_queue' \in Seq(Blocks)
    BY <1>9, <1>t, <2>1, AppendProperties DEF PushFrame, TypeOK
  <2> QED
    BY <1>9, <1>t, <2>2 DEF PushFrame, TypeOK
<1>10. CASE SignalWriter
  BY <1>10, <1>t DEF SignalWriter, TypeOK
<1>11. CASE GetFromFreeList
  <2>1. CASE free_list # <<>>
    <3>1. Head(free_list) \in Blocks /\ Tail(free_list) \in Seq(Blocks)
      BY <1>t, <2>1, HeadTailProperties DEF TypeOK
    <3>2. /\ data' \in [Blocks -> Seq(Packet)] /\ frame_size' \in 0..PalPackets
          /\ f' = Head(free_list)
      BY <1>11, <1>t, <2>1, <3>1, OpenFrameEffect DEF GetFromFreeList, TypeOK
    <3> QED
      BY <1>11, <1>t, <2>1, <3>1, <3>2 DEF GetFromFreeList, TypeOK
  <2>2. CASE free_list = <<>>
    BY <1>11, <1>t, <2>2 DEF GetFromFreeList, TypeOK
  <2> QED
    BY <2>1, <2>2
<1>12. CASE GetFromMalloc
  <2>1. alloc + 1 \in Blocks
    BY <1>12, <1>t, ConstantFacts DEF GetFromMalloc, TypeOK, Blocks
  <2>2. /\ data' \in [Blocks -> Seq(Packet)] /\ frame_size' \in 0..PalPackets
        /\ f' = alloc + 1
    BY <1>12, <1>t, <2>1, OpenFrameEffect DEF GetFromMalloc, TypeOK
  <2>3. alloc' \in 0..MaxAlloc
    BY <1>12, <1>t, ConstantFacts DEF GetFromMalloc, TypeOK
  <2> QED
    BY <1>12, <1>t, <2>1, <2>2, <2>3 DEF GetFromMalloc, TypeOK
<1>13. CASE BufferOverrun
  <2>1. broken_frames' \in 0..MaxCount
    BY <1>13, <1>t, BumpType DEF BufferOverrun, TypeOK
  <2> QED
    BY <1>13, <1>t, <2>1, ConstantFacts DEF BufferOverrun, TypeOK
<1>14. CASE StopCapture
  BY <1>14, <1>t DEF StopCapture, TypeOK
<1>15. CASE JoinWriter
  BY <1>15, <1>t DEF JoinWriter, TypeOK
<1>16. CASE CheckCount
  BY <1>16, <1>t DEF CheckCount, TypeOK
<1>17. CASE StartWaiting
  BY <1>17, <1>t DEF StartWaiting, TypeOK
<1>18. CASE WakeSpuriously
  BY <1>18, <1>t DEF WakeSpuriously, TypeOK
<1>19. CASE PopFrame
  <2>1. CASE buf_queue # <<>>
    <3>1. Head(buf_queue) \in Blocks /\ Tail(buf_queue) \in Seq(Blocks)
      BY <1>t, <2>1, HeadTailProperties DEF TypeOK
    <3> QED
      BY <1>19, <1>t, <2>1, <3>1 DEF PopFrame, TypeOK
  <2>2. CASE buf_queue = <<>>
    BY <1>19, <1>t, <2>2 DEF PopFrame, TypeOK
  <2> QED
    BY <2>1, <2>2
<1>20. CASE WriteFrame
  <2>1. wf \in Blocks /\ wf \in InFlight
    BY <1>20, <1>t DEF WriteFrame, TypeOK, Flow, InFlight, Held
  <2>2. /\ data[wf] \in Seq(Packet) /\ usage[wf] \in Nat
        /\ usage[wf] <= Len(data[wf]) /\ Len(data[wf]) \in Nat
    BY <1>t, <2>1, LenProperties, ConstantFacts DEF TypeOK, Sized
  <2>3. \A i \in 1..usage[wf] : data[wf][i] \in Packet
    BY <2>2, ElementOfSeq
  <2>4. Content(wf) \in Seq(Packet)
    BY <2>2, <2>3, SubSeqProperties DEF Content
  <2> QED
    BY <1>20, <1>t, <2>4 DEF WriteFrame, TypeOK
<1>21. CASE ReleaseBlock
  <2>1. wf \in Blocks
    BY <1>21, <1>t DEF ReleaseBlock, TypeOK, Flow
  <2>2. free_list' \in Seq(Blocks)
    BY <1>21, <1>t, <2>1, AppendProperties DEF ReleaseBlock, TypeOK
  <2> QED
    BY <1>21, <1>t, <2>2 DEF ReleaseBlock, TypeOK
<1>22. CASE UNCHANGED vars
  BY <1>22, <1>t DEF vars, TypeOK
<1> QED
  BY <1>1, <1>2, <1>3, <1>4, <1>5, <1>6, <1>7, <1>8, <1>9, <1>10, <1>11, <1>12,
     <1>13, <1>14, <1>15, <1>16, <1>17, <1>18, <1>19, <1>20, <1>21, <1>22
     DEF Next, MainNext, WriterNext

-----------------------------------------------------------------------------
(* The program points and the blocks in hand stay in step. *)
LEMMA FlowStep == IInv /\ [Next]_vars => Flow'
<1> SUFFICES ASSUME IInv, [Next]_vars PROVE Flow'
  OBVIOUS
<1> USE DEF blockVars, frameVars, countVars, writerVars, camVars
<1>t. TypeOK /\ Flow
  BY DEF IInv
<1>1. CASE LosePacket
  BY <1>1, <1>t DEF LosePacket, Flow
<1>2. CASE StorePacket
  BY <1>2, <1>t DEF StorePacket, Flow
<1>3. CASE OverflowFrame
  BY <1>3, <1>t DEF OverflowFrame, Flow
<1>4. CASE IgnorePacket
  BY <1>4, <1>t DEF IgnorePacket, Flow
<1>5. CASE SkipFrame
  BY <1>5, <1>t DEF SkipFrame, Flow
<1>6. CASE CompleteFrame
  BY <1>6, <1>t DEF CompleteFrame, Flow
<1>7. CASE DiscardFrame
  BY <1>7, <1>t DEF DiscardFrame, OpenFrame, BeginStart, Receive, Flow
<1>8. CASE StartWithoutBlock
  BY <1>8, <1>t DEF StartWithoutBlock, Flow
<1>9. CASE PushFrame
  BY <1>9, <1>t DEF PushFrame, Flow
<1>10. CASE SignalWriter
  BY <1>10, <1>t DEF SignalWriter, Flow
<1>11. CASE GetFromFreeList
  BY <1>11, <1>t DEF GetFromFreeList, OpenFrame, Flow
<1>12. CASE GetFromMalloc
  BY <1>12, <1>t DEF GetFromMalloc, OpenFrame, Flow
<1>13. CASE BufferOverrun
  BY <1>13, <1>t DEF BufferOverrun, Flow
<1>14. CASE StopCapture
  BY <1>14, <1>t DEF StopCapture, Flow
<1>15. CASE JoinWriter
  BY <1>15, <1>t DEF JoinWriter, Flow
<1>16. CASE CheckCount
  BY <1>16, <1>t DEF CheckCount, Flow
<1>17. CASE StartWaiting
  BY <1>17, <1>t DEF StartWaiting, Flow
<1>18. CASE WakeSpuriously
  BY <1>18, <1>t DEF WakeSpuriously, Flow
<1>19. CASE PopFrame
  <2>1. CASE buf_queue # <<>>
    <3>1. Head(buf_queue) \in Blocks
      BY <1>t, <2>1, HeadTailProperties DEF TypeOK
    <3>2. Head(buf_queue) # NULL
      BY <3>1, BlockNumbers
    <3> QED
      BY <1>19, <1>t, <2>1, <3>2 DEF PopFrame, Flow
  <2>2. CASE buf_queue = <<>>
    BY <1>19, <1>t, <2>2 DEF PopFrame, Flow
  <2> QED
    BY <2>1, <2>2
<1>20. CASE WriteFrame
  BY <1>20, <1>t DEF WriteFrame, Flow
<1>21. CASE ReleaseBlock
  BY <1>21, <1>t DEF ReleaseBlock, Flow
<1>22. CASE UNCHANGED vars
  BY <1>22, <1>t DEF vars, Flow
<1> QED
  BY <1>1, <1>2, <1>3, <1>4, <1>5, <1>6, <1>7, <1>8, <1>9, <1>10, <1>11, <1>12,
     <1>13, <1>14, <1>15, <1>16, <1>17, <1>18, <1>19, <1>20, <1>21, <1>22
     DEF Next, MainNext, WriterNext

-----------------------------------------------------------------------------
(* Every block keeps exactly one owner. *)
LEMMA OwnerStep == IInv /\ [Next]_vars => OneOwner'
<1> SUFFICES ASSUME IInv, [Next]_vars PROVE OneOwner'
  OBVIOUS
<1> USE DEF blockVars, frameVars, countVars, writerVars, camVars
<1>t. TypeOK /\ Flow /\ OneOwner
  BY DEF IInv
<1>o. /\ ExactlyOneOwner(buf_queue, free_list, f, wf, alloc)
      /\ AllAccounted(buf_queue, free_list, f, wf, alloc)
  BY <1>t DEF OneOwner
<1>q. /\ buf_queue \in Seq(Nat \ {0}) /\ free_list \in Seq(Nat \ {0})
      /\ Len(buf_queue) \in Nat /\ Len(free_list) \in Nat /\ alloc \in Nat
  BY <1>t, BlockNumbers, LenProperties, ConstantFacts DEF TypeOK
<1>1. CASE UNCHANGED <<buf_queue, free_list, f, wf, alloc>>
  BY <1>1, <1>o DEF OneOwner
<1>2. CASE PushFrame
  <2>1. f \in Nat \ {0}
    BY <1>2, <1>t, BlockNumbers DEF PushFrame, Flow, TypeOK
  <2>2. ExactlyOneOwner(Append(buf_queue, f), free_list, NULL, wf, alloc)
    BY <1>o, <1>q, <2>1, OwnerPush
  <2>3. AllAccounted(Append(buf_queue, f), free_list, NULL, wf, alloc)
    BY <1>o, <1>q, <2>1, AccountPush DEF NULL
  <2> QED
    BY <1>2, <2>2, <2>3 DEF PushFrame, OneOwner
<1>3. CASE GetFromFreeList /\ free_list # <<>>
  <2>1. f = NULL /\ Head(free_list) \in Nat \ {0}
    BY <1>3, <1>t, <1>q, HeadTailProperties DEF GetFromFreeList, Flow
  <2>2. ExactlyOneOwner(buf_queue, Tail(free_list), Head(free_list), wf, alloc)
    BY <1>3, <1>o, <1>q, <2>1, OwnerPop, OwnerSymmetry
  <2>3. AllAccounted(Tail(free_list), buf_queue, Head(free_list), wf, alloc)
    BY <1>3, <1>o, <1>q, <2>1, AccountPop, AccountSymmetry DEF NULL
  <2>4. AllAccounted(buf_queue, Tail(free_list), Head(free_list), wf, alloc)
    BY <1>3, <1>q, <2>3, AccountSymmetry, HeadTailProperties, LenProperties
  <2> QED
    BY <1>3, <2>2, <2>4 DEF GetFromFreeList, OpenFrame, OneOwner
<1>4. CASE GetFromMalloc
  <2>1. f = NULL
    BY <1>4, <1>t DEF GetFromMalloc, Flow
  <2>2. ExactlyOneOwner(buf_queue, free_list, alloc + 1, wf, alloc + 1)
    BY <1>o, <1>q, <2>1, OwnerMalloc
  <2>3. AllAccounted(buf_queue, free_list, alloc + 1, wf, alloc + 1)
    BY <1>o, <1>q, <2>1 DEF AllAccounted, InHand, NULL
  <2> QED
    BY <1>4, <2>2, <2>3 DEF GetFromMalloc, OpenFrame, OneOwner
<1>5. CASE PopFrame /\ buf_queue # <<>>
  <2>1. wf = NULL /\ Head(buf_queue) \in Nat \ {0}
    BY <1>5, <1>t, <1>q, HeadTailProperties DEF PopFrame, Flow
  <2>2. ExactlyOneOwner(Tail(buf_queue), free_list, f, Head(buf_queue), alloc)
    BY <1>5, <1>o, <1>q, <2>1, OwnerPop, OwnerSymmetry
  <2>3. AllAccounted(Tail(buf_queue), free_list, Head(buf_queue), f, alloc)
    BY <1>5, <1>o, <1>q, <2>1, AccountPop, AccountSymmetry DEF NULL
  <2>4. AllAccounted(Tail(buf_queue), free_list, f, Head(buf_queue), alloc)
    BY <1>5, <1>q, <2>3, AccountSymmetry, HeadTailProperties, LenProperties
  <2> QED
    BY <1>5, <2>2, <2>4 DEF PopFrame, OneOwner
<1>6. CASE ReleaseBlock
  <2>1. wf \in Nat \ {0}
    BY <1>6, <1>t, BlockNumbers DEF ReleaseBlock, Flow, TypeOK
  <2>2. ExactlyOneOwner(buf_queue, Append(free_list, wf), f, NULL, alloc)
    BY <1>o, <1>q, <2>1, OwnerPush, OwnerSymmetry
  <2>3. AllAccounted(Append(free_list, wf), buf_queue, NULL, f, alloc)
    BY <1>o, <1>q, <2>1, AccountPush, AccountSymmetry DEF NULL
  <2>4. AllAccounted(buf_queue, Append(free_list, wf), f, NULL, alloc)
    BY <1>q, <2>1, <2>3, AccountSymmetry, AppendProperties, LenProperties
  <2> QED
    BY <1>6, <2>2, <2>4 DEF ReleaseBlock, OneOwner
<1>7. UNCHANGED <<buf_queue, free_list, f, wf, alloc>> \/ PushFrame
        \/ (GetFromFreeList /\ free_list # <<>>) \/ GetFromMalloc
        \/ (PopFrame /\ buf_queue # <<>>) \/ ReleaseBlock
  BY DEF Next, MainNext, WriterNext, vars, LosePacket, StorePacket, OverflowFrame,
         IgnorePacket, SkipFrame, CompleteFrame, DiscardFrame, StartWithoutBlock,
         SignalWriter, GetFromFreeList, BufferOverrun, StopCapture, JoinWriter,
         CheckCount, StartWaiting, WakeSpuriously, PopFrame, WriteFrame, OpenFrame
<1> QED
  BY <1>1, <1>2, <1>3, <1>4, <1>5, <1>6, <1>7

-----------------------------------------------------------------------------
(* Only the block main holds changes: neither the bytes nor the size of a  *)
(* block on its way to the file do.                                        *)
LEMMA InFlightFrozen ==
  ASSUME IInv, [Next]_vars, NEW b \in InFlight
  PROVE  b \in Blocks /\ data'[b] = data[b] /\ usage'[b] = usage[b]
<1> USE DEF blockVars, frameVars, countVars, writerVars, camVars
<1>t. TypeOK /\ Flow /\ OneOwner /\ Sized
  BY DEF IInv
<1>o. /\ b \in Blocks /\ b # f /\ b # alloc + 1 /\ b \notin Listed(free_list)
  <2>1. b \in 1..alloc
    BY <1>t DEF OneOwner, ExactlyOneOwner, InFlight
  <2>2. b \notin Held(f) /\ b \notin Listed(free_list)
    BY <1>t DEF OneOwner, ExactlyOneOwner, InFlight
  <2>3. b # NULL
    BY <2>1, <1>t, ConstantFacts DEF NULL, TypeOK
  <2>4. b # f
    BY <2>2, <2>3 DEF Held
  <2> QED
    BY <2>1, <2>2, <2>4, <1>t, ConstantFacts DEF TypeOK, Blocks
<1>1. CASE UNCHANGED <<data, usage>>
  BY <1>1, <1>o
<1>2. CASE StorePacket
  <2>1. f \in Blocks /\ frame_size \in 0..(PalPackets - 1) /\ frame_size <= Len(data[f])
    BY <1>2, <1>t, ConstantFacts DEF StorePacket, TypeOK, Sized
  <2>2. cam \in Packet
    BY <1>t DEF TypeOK
  <2> QED
    BY <1>2, <1>o, <1>t, <2>1, <2>2, StoreEffect DEF StorePacket
<1>3. CASE CompleteFrame
  BY <1>3, <1>o, <1>t DEF CompleteFrame, TypeOK
<1>4. CASE DiscardFrame
  <2>1. cam \in Packet /\ f \in Blocks
    BY <1>4, <1>t DEF DiscardFrame, TypeOK
  <2> QED
    BY <1>4, <1>o, <1>t, <2>1, OpenFrameEffect DEF DiscardFrame
<1>5. CASE GetFromFreeList /\ free_list # <<>>
  <2>1. Head(free_list) \in Blocks /\ Head(free_list) \in Listed(free_list)
    BY <1>5, <1>t, HeadTailProperties, ListedTail, SMTT(30) DEF TypeOK, OneOwner, ExactlyOneOwner
  <2> QED
    BY <1>5, <1>o, <1>t, <2>1, OpenFrameEffect DEF GetFromFreeList, TypeOK
<1>6. CASE GetFromMalloc
  <2>1. alloc + 1 \in Blocks
    BY <1>6, <1>t, ConstantFacts DEF GetFromMalloc, TypeOK, Blocks
  <2> QED
    BY <1>6, <1>o, <1>t, <2>1, OpenFrameEffect DEF GetFromMalloc, TypeOK
<1>7. UNCHANGED <<data, usage>> \/ StorePacket \/ CompleteFrame \/ DiscardFrame
        \/ (GetFromFreeList /\ free_list # <<>>) \/ GetFromMalloc
  BY DEF Next, MainNext, WriterNext, vars, LosePacket, OverflowFrame, PushFrame,
         IgnorePacket, SkipFrame, StartWithoutBlock, ReleaseBlock,
         SignalWriter, GetFromFreeList, BufferOverrun, StopCapture, JoinWriter,
         CheckCount, StartWaiting, WakeSpuriously, PopFrame, WriteFrame
<1> QED
  BY <1>1, <1>2, <1>3, <1>4, <1>5, <1>6, <1>7

(* A block joins those on their way to the file only when main pushes it.  *)
LEMMA InFlightGrowth ==
  ASSUME IInv, [Next]_vars
  PROVE  /\ InFlight' \subseteq InFlight \cup Held(f)
         /\ pc # "push" => InFlight' \subseteq InFlight
<1> USE DEF blockVars, frameVars, countVars, writerVars, camVars
<1>t. TypeOK /\ Flow /\ OneOwner
  BY DEF IInv
<1>1. CASE UNCHANGED <<buf_queue, wf>>
  BY <1>1 DEF InFlight
<1>2. CASE PushFrame
  <2>1. f \in Blocks
    BY <1>2, <1>t DEF PushFrame, Flow, TypeOK
  <2>2. Listed(buf_queue') = Listed(buf_queue) \cup {f}
    BY <1>2, <1>t, <2>1, ListedAppend DEF PushFrame, TypeOK
  <2>3. Held(f) = {f}
    BY <2>1, BlockNumbers DEF Held
  <2> QED
    BY <1>2, <2>2, <2>3 DEF PushFrame, InFlight
<1>3. CASE PopFrame /\ buf_queue # <<>>
  <2>1. Listed(buf_queue) = {Head(buf_queue)} \cup Listed(Tail(buf_queue))
    BY <1>3, <1>t, ListedTail DEF TypeOK, OneOwner, ExactlyOneOwner
  <2>2. Held(wf') \subseteq {Head(buf_queue)}
    BY <1>3 DEF PopFrame, Held
  <2> QED
    BY <1>3, <2>1, <2>2 DEF PopFrame, InFlight
<1>4. CASE ReleaseBlock
  <2>1. Held(wf') = {}
    BY <1>4 DEF ReleaseBlock, Held
  <2> QED
    BY <1>4, <2>1 DEF ReleaseBlock, InFlight
<1>5. UNCHANGED <<buf_queue, wf>> \/ PushFrame \/ (PopFrame /\ buf_queue # <<>>)
        \/ ReleaseBlock
  BY DEF Next, MainNext, WriterNext, vars, LosePacket, StorePacket, OverflowFrame,
         IgnorePacket, SkipFrame, CompleteFrame, DiscardFrame, StartWithoutBlock,
         SignalWriter, GetFromFreeList, GetFromMalloc, BufferOverrun, StopCapture,
         JoinWriter, CheckCount, StartWaiting, WakeSpuriously, PopFrame, WriteFrame
<1> QED
  BY <1>1, <1>2, <1>3, <1>4, <1>5

(* The sizes recorded stay within the bytes stored. *)
LEMMA SizedStep == IInv /\ [Next]_vars => Sized'
<1> SUFFICES ASSUME IInv, [Next]_vars PROVE Sized'
  OBVIOUS
<1> USE DEF blockVars, frameVars, countVars, writerVars, camVars
<1>t. TypeOK /\ Flow /\ OneOwner /\ Sized
  BY DEF IInv
<1>u. TypeOK'
  BY TypeStep
<1>1. f' # NULL => frame_size' <= Len(data'[f'])
  <2> SUFFICES ASSUME f' # NULL PROVE frame_size' <= Len(data'[f'])
    OBVIOUS
  <2>f. f' \in Blocks /\ data'[f'] \in Seq(Packet) /\ Len(data'[f']) \in Nat
    BY <1>u, LenProperties DEF TypeOK
  <2>1. CASE UNCHANGED <<data, f, frame_size>>
    BY <2>1, <1>t DEF Sized
  <2>2. CASE frame_size' = 0
    BY <2>2, <2>f
  <2>3. CASE StorePacket
    <3>1. f \in Blocks /\ frame_size \in 0..(PalPackets - 1) /\ frame_size <= Len(data[f])
      BY <2>3, <1>t, ConstantFacts DEF StorePacket, TypeOK, Sized
    <3>2. cam \in Packet
      BY <1>t DEF TypeOK
    <3> QED
      BY <2>3, <1>t, <3>1, <3>2, StoreEffect DEF StorePacket
  <2>4. CASE DiscardFrame
    <3>1. cam \in Packet /\ f \in Blocks
      BY <2>4, <1>t DEF DiscardFrame, TypeOK
    <3> QED
      BY <2>4, <1>t, <3>1, OpenFrameEffect DEF DiscardFrame
  <2>5. CASE GetFromFreeList /\ free_list # <<>>
    <3>1. Head(free_list) \in Blocks
      BY <2>5, <1>t, HeadTailProperties DEF TypeOK
    <3> QED
      BY <2>5, <1>t, <3>1, OpenFrameEffect DEF GetFromFreeList, TypeOK
  <2>6. CASE GetFromMalloc
    <3>1. alloc + 1 \in Blocks
      BY <2>6, <1>t, ConstantFacts DEF GetFromMalloc, TypeOK, Blocks
    <3> QED
      BY <2>6, <1>t, <3>1, OpenFrameEffect DEF GetFromMalloc, TypeOK
  <2>7. UNCHANGED <<data, f, frame_size>> \/ frame_size' = 0 \/ StorePacket
          \/ DiscardFrame \/ (GetFromFreeList /\ free_list # <<>>) \/ GetFromMalloc
    BY DEF Next, MainNext, WriterNext, vars, LosePacket, OverflowFrame, PushFrame,
           IgnorePacket, SkipFrame, CompleteFrame, StartWithoutBlock, ReleaseBlock,
           SignalWriter, GetFromFreeList, BufferOverrun, StopCapture, JoinWriter,
           CheckCount, StartWaiting, WakeSpuriously, PopFrame, WriteFrame
  <2> QED
    BY <2>1, <2>2, <2>3, <2>4, <2>5, <2>6, <2>7
<1>2. pc' = "push" => usage'[f'] <= Len(data'[f'])
  <2>1. CASE CompleteFrame
    <3>1. f' = f /\ f \in Blocks /\ usage'[f] = frame_size /\ data' = data
      BY <2>1, <1>t DEF CompleteFrame, TypeOK
    <3> QED
      BY <2>1, <3>1, <1>t DEF Sized, CompleteFrame
  <2>2. CASE pc' = pc /\ pc # "recv"
    <3>1. CASE pc = "push"
      <4>1. UNCHANGED <<f, data, usage>>
        BY <2>2, <3>1 DEF Next, MainNext, WriterNext, vars, LosePacket, StorePacket,
           OverflowFrame, IgnorePacket, SkipFrame, CompleteFrame, DiscardFrame,
           StartWithoutBlock, BeginStart, Receive, PushFrame, SignalWriter,
           GetFromFreeList, GetFromMalloc, BufferOverrun, StopCapture, JoinWriter,
           CheckCount, StartWaiting, WakeSpuriously, PopFrame, WriteFrame, ReleaseBlock
      <4> QED
        BY <3>1, <4>1, <1>t DEF Sized
    <3> QED
      BY <2>2, <3>1
  <2>3. CompleteFrame \/ (pc' = pc /\ pc # "recv") \/ pc' # "push"
    BY DEF Next, MainNext, WriterNext, vars, LosePacket, StorePacket, OverflowFrame,
       IgnorePacket, SkipFrame, DiscardFrame, BeginStart, Receive, StartWithoutBlock,
       PushFrame, SignalWriter, GetFromFreeList, GetFromMalloc, BufferOverrun,
       StopCapture, JoinWriter, CheckCount, StartWaiting, WakeSpuriously, PopFrame,
       WriteFrame, ReleaseBlock
  <2> QED
    BY <2>1, <2>2, <2>3
<1>3. \A b \in InFlight' : usage'[b] <= Len(data'[b])
  <2> SUFFICES ASSUME NEW b \in InFlight' PROVE usage'[b] <= Len(data'[b])
    OBVIOUS
  <2>1. CASE b \in InFlight
    BY <2>1, <1>t, InFlightFrozen DEF Sized
  <2>2. CASE b \notin InFlight
    <3>1. pc = "push" /\ b = f
      BY <2>2, InFlightGrowth DEF Held
    <3>2. UNCHANGED <<data, usage>>
      BY <3>1 DEF Next, MainNext, WriterNext, vars, LosePacket, StorePacket,
         OverflowFrame, IgnorePacket, SkipFrame, CompleteFrame, DiscardFrame,
         StartWithoutBlock, BeginStart, Receive, PushFrame, SignalWriter,
         GetFromFreeList, GetFromMalloc, BufferOverrun, StopCapture, JoinWriter,
         CheckCount, StartWaiting, WakeSpuriously, PopFrame, WriteFrame, ReleaseBlock
    <3> QED
      BY <3>1, <3>2, <1>t DEF Sized
  <2> QED
    BY <2>1, <2>2
<1> QED
  BY <1>1, <1>2, <1>3 DEF Sized

-----------------------------------------------------------------------------
LEMMA InitIInv == Init => IInv
<1> SUFFICES ASSUME Init PROVE IInv
  OBVIOUS
<1>1. TypeOK
  <2>1. cam \in Packet /\ pkt \in Packet
    BY DEF Init
  <2>2. cap_num_frames \in Nat \cup {Unlimited} /\ cap_start_frame \in Nat
    BY ConstantFacts DEF Init
  <2>3. data \in [Blocks -> Seq(Packet)] /\ usage \in [Blocks -> 0..PalPackets]
    <3>1. <<>> \in Seq(Packet) /\ 0 \in 0..PalPackets
      BY ConstantFacts, EmptySeq
    <3> QED
      BY <3>1 DEF Init
  <2>4. buf_queue \in Seq(Blocks) /\ free_list \in Seq(Blocks) /\ dst \in Seq(Packet)
    BY EmptySeq DEF Init
  <2>5. /\ alloc = 0 /\ pc = "recv" /\ f = NULL /\ frame_size = 0
        /\ broken_frames = 0 /\ frames_captured = 0
        /\ wpc = "check" /\ wf = NULL /\ lost = 0
    BY DEF Init
  <2>6. isPAL \in BOOLEAN /\ found_first_block \in BOOLEAN
    BY DEF Init
  <2> QED
    BY <2>1, <2>2, <2>3, <2>4, <2>5, <2>6, ConstantFacts DEF TypeOK
<1>2. Flow
  BY DEF Init, Flow
<1>3. /\ Listed(<<>>) = {} /\ NoRepeats(<<>>) /\ Len(<<>>) = 0 /\ 1..0 = {}
      /\ Held(NULL) = {} /\ InHand(NULL) = 0
  <2>1. Len(<<>>) = 0
    BY EmptySeq
  <2> QED
    BY <2>1 DEF Listed, NoRepeats, Held, InHand
<1>4. OneOwner
  BY <1>3 DEF Init, OneOwner, ExactlyOneOwner, AllAccounted
<1>5. Sized
  BY <1>3 DEF Init, Sized, InFlight
<1> QED
  BY <1>1, <1>2, <1>4, <1>5 DEF IInv

LEMMA Invariance == Spec => []IInv
<1>1. IInv /\ [Next]_vars => IInv'
  BY TypeStep, FlowStep, OwnerStep, SizedStep DEF IInv
<1> QED
  BY InitIInv, <1>1, PTL DEF Spec

(* Every variable keeps its type: in particular no size or count leaves    *)
(* its range and no block number is used that malloc did not return.       *)
THEOREM TypeCorrect == Spec => []TypeOK
<1>1. IInv => TypeOK
  BY DEF IInv
<1> QED
  BY Invariance, <1>1, PTL

(* push_back, pop_front and get_free_block, called by two threads in any   *)
(* order, keep every buffer block in exactly one place and lose none.      *)
THEOREM BlocksHaveOneOwner == Spec => []OneOwner
<1>1. IInv => OneOwner
  BY DEF IInv
<1> QED
  BY Invariance, <1>1, PTL

-----------------------------------------------------------------------------
(* The frames in transit form a FIFO channel.                              *)

LEMMA InOrderType ==
  ASSUME IInv
  PROVE  /\ InOrder \in Seq(Blocks) /\ Len(InOrder) \in Nat
         /\ Len(InOrder) = (IF wpc = "fwrite" THEN 1 ELSE 0) + Len(buf_queue)
         /\ \A i \in 1..Len(InOrder) : InOrder[i] \in InFlight
<1>t. TypeOK /\ Flow
  BY DEF IInv
<1>q. buf_queue \in Seq(Blocks) /\ Len(buf_queue) \in Nat
  BY <1>t, LenProperties DEF TypeOK
<1>1. CASE wpc = "fwrite"
  <2>1. wf \in Blocks /\ Held(wf) = {wf}
    BY <1>1, <1>t DEF Flow, TypeOK, Held
  <2>2. <<wf>> \in Seq(Blocks) /\ Len(<<wf>>) = 1 /\ <<wf>>[1] = wf
    BY <2>1
  <2>3. InOrder = <<wf>> \o buf_queue
    BY <1>1 DEF InOrder
  <2>4. /\ InOrder \in Seq(Blocks) /\ Len(InOrder) = 1 + Len(buf_queue)
        /\ \A i \in 1..(1 + Len(buf_queue)) :
             InOrder[i] = IF i <= 1 THEN <<wf>>[i] ELSE buf_queue[i - 1]
    BY <2>2, <2>3, <1>q, ConcatProperties
  <2>5. ASSUME NEW i \in 1..Len(InOrder) PROVE InOrder[i] \in InFlight
    <3>1. CASE i = 1
      BY <3>1, <2>1, <2>2, <2>4 DEF InFlight
    <3>2. CASE i - 1 \in 1..Len(buf_queue)
      BY <3>2, <2>4, <1>q DEF InFlight, Listed
    <3> QED
      BY <3>1, <3>2, <2>4, <1>q
  <2> QED
    BY <1>1, <1>q, <2>4, <2>5
<1>2. CASE wpc # "fwrite"
  <2>1. InOrder = buf_queue
    BY <1>2, <1>q, ConcatEmptySeq DEF InOrder
  <2> QED
    BY <1>2, <1>q, <2>1 DEF InFlight, Listed
<1> QED
  BY <1>1, <1>2

PendingOK ==
  /\ Pending \in Seq(Seq(Packet)) /\ Len(Pending) = Len(InOrder)
  /\ \A i \in 1..Len(InOrder) : Pending[i] = Content(InOrder[i])

LEMMA PendingType == IInv => PendingOK
<1> SUFFICES ASSUME IInv PROVE PendingOK
  OBVIOUS
<1>1. /\ Len(InOrder) \in Nat
      /\ \A i \in 1..Len(InOrder) : InOrder[i] \in Blocks /\ InOrder[i] \in InFlight
  BY InOrderType, ElementOfSeq
<1>2. ASSUME NEW b \in Blocks, b \in InFlight PROVE Content(b) \in Seq(Packet)
  <2>1. /\ data[b] \in Seq(Packet) /\ usage[b] \in Nat
        /\ usage[b] <= Len(data[b]) /\ Len(data[b]) \in Nat
    BY <1>2, LenProperties, ConstantFacts DEF IInv, TypeOK, Sized
  <2>2. \A i \in 1..usage[b] : data[b][i] \in Packet
    BY <2>1, ElementOfSeq
  <2> QED
    BY <2>1, <2>2, SubSeqProperties DEF Content
<1>3. \A i \in 1..Len(InOrder) : Content(InOrder[i]) \in Seq(Packet)
  BY <1>1, <1>2
<1> QED
  BY <1>1, <1>3, IsASeq DEF Pending, PendingOK

(* The frame in block b after a step. *)
ContentNext(b) == SubSeq(data'[b], 1, usage'[b])

(* A block that was in transit still holds the same frame after a step. *)
LEMMA ContentFrozen ==
  ASSUME IInv, [Next]_vars, NEW b \in InFlight
  PROVE  ContentNext(b) = Content(b)
BY InFlightFrozen DEF Content, ContentNext

LEMMA PendingTypeNext ==
  ASSUME IInv, [Next]_vars
  PROVE  /\ Pending' \in Seq(Seq(Packet)) /\ Len(Pending') = Len(InOrder')
         /\ \A i \in 1..Len(InOrder') : Pending'[i] = ContentNext(InOrder'[i])
<1>1. IInv'
  BY TypeStep, FlowStep, OwnerStep, SizedStep DEF IInv
<1>2. PendingOK'
  BY <1>1, PendingType, PTL
<1> QED
  BY <1>2 DEF PendingOK, Content, ContentNext

(* If the blocks in transit stay the same, so do their frames. *)
LEMMA PendingSame ==
  ASSUME IInv, [Next]_vars, InOrder' = InOrder
  PROVE  Pending' = Pending
<1>1. /\ Pending \in Seq(Seq(Packet)) /\ Pending' \in Seq(Seq(Packet))
      /\ Len(Pending') = Len(Pending) /\ Len(Pending) = Len(InOrder)
  BY PendingType, PendingTypeNext DEF PendingOK
<1>2. ASSUME NEW i \in 1..Len(Pending) PROVE Pending'[i] = Pending[i]
  <2>1. InOrder[i] \in InFlight /\ i \in 1..Len(InOrder)
    BY <1>1, InOrderType
  <2> QED
    BY <2>1, ContentFrozen, PendingType, PendingTypeNext DEF PendingOK
<1> QED
  BY <1>1, <1>2, SeqEqual

(* push_back(&buf_queue, f) puts one frame into the channel. *)
LEMMA PushPuts ==
  ASSUME IInv, PushFrame
  PROVE  Channel!Put
<1> USE DEF blockVars, frameVars, countVars, writerVars, camVars
<1>n. [Next]_vars
  BY DEF Next, MainNext
<1>t. TypeOK /\ Flow /\ OneOwner
  BY DEF IInv
<1>1. f \in Blocks /\ f # NULL
  BY <1>t DEF PushFrame, Flow, TypeOK
<1>2. InOrder' = Append(InOrder, f)
  <2>1. buf_queue \in Seq(Blocks) /\ buf_queue' = Append(buf_queue, f)
    BY <1>t DEF TypeOK, PushFrame
  <2>2. wpc' = wpc /\ wf' = wf
    BY DEF PushFrame
  <2>3. Append(buf_queue, f) = buf_queue \o <<f>> /\ <<f>> \in Seq(Blocks)
    BY <1>1, <2>1, AppendIsConcat
  <2>4. CASE wpc = "fwrite"
    <3>1. <<wf>> \in Seq(Blocks)
      BY <2>4, <1>t DEF Flow, TypeOK
    <3>2. <<wf>> \o (buf_queue \o <<f>>) = (<<wf>> \o buf_queue) \o <<f>>
      BY <2>1, <2>3, <3>1, ConcatAssociative
    <3>3. InOrder = <<wf>> \o buf_queue /\ InOrder \in Seq(Blocks)
      BY <2>4, InOrderType DEF InOrder
    <3>4. InOrder' = <<wf>> \o Append(buf_queue, f)
      BY <2>1, <2>2, <2>4 DEF InOrder
    <3> QED
      BY <1>1, <2>3, <3>2, <3>3, <3>4, AppendIsConcat
  <2>5. CASE wpc # "fwrite"
    <3>1. InOrder = <<>> \o buf_queue /\ InOrder' = <<>> \o Append(buf_queue, f)
      BY <2>1, <2>2, <2>5 DEF InOrder
    <3>2. Append(buf_queue, f) \in Seq(Blocks)
      BY <1>1, <2>1, AppendProperties
    <3> QED
      BY <2>1, <3>1, <3>2, ConcatEmptySeq
  <2> QED
    BY <2>4, <2>5
<1>3. /\ InOrder \in Seq(Blocks) /\ Len(InOrder) \in Nat
      /\ Len(InOrder') = Len(InOrder) + 1
      /\ \A i \in 1..Len(InOrder) : InOrder'[i] = InOrder[i]
  BY <1>1, <1>2, InOrderType, AppendProperties
<1>4. /\ Pending \in Seq(Seq(Packet)) /\ Pending' \in Seq(Seq(Packet))
      /\ Len(Pending) = Len(InOrder) /\ Len(Pending') = Len(Pending) + 1
  BY <1>n, <1>3, PendingType, PendingTypeNext DEF PendingOK
<1>5. ASSUME NEW i \in 1..Len(Pending) PROVE Pending'[i] = Pending[i]
  <2>1. InOrder[i] \in InFlight /\ i \in 1..Len(InOrder) /\ i \in 1..Len(InOrder')
    BY <1>3, <1>4, InOrderType
  <2> QED
    BY <1>n, <1>3, <2>1, ContentFrozen, PendingType, PendingTypeNext DEF PendingOK
<1>6. SubSeq(Pending', 1, Len(Pending)) = Pending
  <2> DEFINE n == Len(Pending)
             r == SubSeq(Pending', 1, n)
  <2>1. n \in Nat /\ \A i \in 1..n : Pending'[i] \in Seq(Packet)
    BY <1>3, <1>4, ElementOfSeq
  <2>2. /\ r \in Seq(Seq(Packet)) /\ Len(r) = n
        /\ \A i \in 1..n : r[i] = Pending'[i]
    BY <2>1, SubSeqProperties
  <2> HIDE DEF r
  <2>3. r = Pending
    BY <1>4, <1>5, <2>2, SeqEqual
  <2> QED
    BY <2>3 DEF r
<1>7. Len(Pending) < MaxAlloc
  <2>1. InHand(f) = 1 /\ InHand(wf) \in Nat /\ Len(free_list) \in Nat
        /\ Len(buf_queue) \in Nat /\ alloc \in Nat /\ alloc <= MaxAlloc
    BY <1>1, <1>t, LenProperties, ConstantFacts DEF InHand, TypeOK
  <2>2. wpc = "fwrite" => InHand(wf) = 1
    BY <1>t DEF Flow, InHand
  <2>3. Len(InOrder) <= Len(buf_queue) + InHand(wf)
    BY <2>1, <2>2, InOrderType
  <2>4. alloc = Len(buf_queue) + Len(free_list) + InHand(f) + InHand(wf)
    BY <1>t DEF OneOwner, AllAccounted
  <2> QED
    BY <1>3, <1>4, <2>1, <2>3, <2>4, ConstantFacts
<1>8. dst' = dst
  BY DEF PushFrame
<1> QED
  BY <1>4, <1>6, <1>7, <1>8 DEF Channel!Put

(* fwrite hands over the oldest frame. *)
LEMMA WriteDelivers ==
  ASSUME IInv, WriteFrame
  PROVE  Channel!Deliver
<1> USE DEF blockVars, frameVars, countVars, writerVars, camVars
<1>n. [Next]_vars
  BY DEF Next, WriterNext
<1>t. TypeOK /\ Flow
  BY DEF IInv
<1>1. /\ wf \in Blocks /\ buf_queue \in Seq(Blocks)
      /\ wpc = "fwrite" /\ wpc' = "release" /\ buf_queue' = buf_queue
  BY <1>t DEF WriteFrame, Flow, TypeOK
<1>2. InOrder = <<wf>> \o buf_queue /\ InOrder' = <<>> \o buf_queue
  BY <1>1 DEF InOrder
<1>3. InOrder' = buf_queue
  BY <1>1, <1>2, ConcatEmptySeq
<1>4. /\ Len(buf_queue) \in Nat /\ Len(InOrder) = Len(buf_queue) + 1
      /\ InOrder[1] = wf
      /\ \A i \in 1..Len(buf_queue) : InOrder[i + 1] = buf_queue[i]
  <2>1. <<wf>> \in Seq(Blocks) /\ Len(<<wf>>) = 1 /\ <<wf>>[1] = wf
    BY <1>1
  <2>2. Len(buf_queue) \in Nat
    BY <1>1, LenProperties
  <2>3. /\ Len(InOrder) = 1 + Len(buf_queue)
        /\ \A i \in 1..(1 + Len(buf_queue)) :
             InOrder[i] = IF i <= 1 THEN <<wf>>[i] ELSE buf_queue[i - 1]
    BY <1>1, <1>2, <2>1, ConcatProperties
  <2> QED
    BY <2>1, <2>2, <2>3
<1>5. /\ Pending \in Seq(Seq(Packet)) /\ Pending' \in Seq(Seq(Packet))
      /\ Len(Pending) = Len(buf_queue) + 1 /\ Len(Pending') = Len(buf_queue)
  BY <1>n, <1>3, <1>4, PendingType, PendingTypeNext DEF PendingOK
<1>6. Pending # <<>>
  BY <1>4, <1>5, EmptySeq
<1>7. /\ Tail(Pending) \in Seq(Seq(Packet)) /\ Len(Tail(Pending)) = Len(buf_queue)
      /\ \A i \in 1..Len(buf_queue) : Tail(Pending)[i] = Pending[i + 1]
      /\ Head(Pending) = Pending[1]
  BY <1>4, <1>5, <1>6, HeadTailProperties
<1>8. ASSUME NEW i \in 1..Len(buf_queue) PROVE Pending'[i] = Tail(Pending)[i]
  <2>1. i + 1 \in 1..Len(InOrder) /\ InOrder[i + 1] = buf_queue[i]
    BY <1>4
  <2>2. Pending[i + 1] = Content(buf_queue[i]) /\ buf_queue[i] \in InFlight
    BY <2>1, PendingType, InOrderType DEF PendingOK
  <2>3. Pending'[i] = ContentNext(buf_queue[i])
    BY <1>n, <1>1, <1>3, PendingTypeNext
  <2> QED
    BY <1>n, <1>7, <2>2, <2>3, ContentFrozen, <1>1
<1>9. Pending' = Tail(Pending)
  BY <1>5, <1>7, <1>8, SeqEqual
<1>10. dst' = Head(Pending)
  <2>1. Pending[1] = Content(wf)
    BY <1>4, PendingType DEF PendingOK
  <2> QED
    BY <1>7, <2>1 DEF WriteFrame
<1> QED
  BY <1>6, <1>9, <1>10 DEF Channel!Deliver

(* No other step moves a frame in or out of the channel. *)
LEMMA OthersStutter ==
  ASSUME IInv, [Next]_vars, ~PushFrame, ~WriteFrame
  PROVE  InOrder' = InOrder /\ dst' = dst
<1> USE DEF blockVars, frameVars, countVars, writerVars, camVars
<1>t. TypeOK /\ Flow
  BY DEF IInv
<1>1. CASE PopFrame /\ buf_queue # <<>>
  <2>1. /\ wpc = "drain" /\ wpc' = "fwrite" /\ dst' = dst
        /\ wf' = Head(buf_queue) /\ buf_queue' = Tail(buf_queue)
    BY <1>1 DEF PopFrame
  <2>2. buf_queue \in Seq(Blocks) /\ buf_queue # <<>>
    BY <1>1, <1>t DEF TypeOK
  <2>3. InOrder = <<>> \o buf_queue /\ InOrder' = <<Head(buf_queue)>> \o Tail(buf_queue)
    BY <2>1 DEF InOrder
  <2>4. <<Head(buf_queue)>> \o Tail(buf_queue) = buf_queue
    <3> DEFINE h == Head(buf_queue)
               t == Tail(buf_queue)
    <3>1. /\ h \in Blocks /\ t \in Seq(Blocks) /\ Len(buf_queue) \in Nat
          /\ Len(buf_queue) # 0 /\ Len(t) = Len(buf_queue) - 1 /\ h = buf_queue[1]
          /\ \A i \in 1..Len(t) : t[i] = buf_queue[i + 1]
      BY <2>2, HeadTailProperties, LenProperties, EmptySeq
    <3> HIDE DEF h, t
    <3>2. <<h>> \in Seq(Blocks) /\ Len(<<h>>) = 1 /\ <<h>>[1] = h
      BY <3>1
    <3>3. /\ <<h>> \o t \in Seq(Blocks) /\ Len(<<h>> \o t) = Len(buf_queue)
          /\ \A i \in 1..Len(buf_queue) :
               (<<h>> \o t)[i] = IF i <= 1 THEN <<h>>[i] ELSE t[i - 1]
      BY <3>1, <3>2, ConcatProperties
    <3>4. ASSUME NEW i \in 1..Len(buf_queue) PROVE (<<h>> \o t)[i] = buf_queue[i]
      <4>1. CASE i = 1
        BY <3>1, <3>2, <3>3, <4>1
      <4>2. CASE i # 1
        <5>1. i - 1 \in 1..Len(t) /\ (i - 1) + 1 = i
          BY <3>1, <4>2
        <5> QED
          BY <3>1, <3>3, <4>2, <5>1
      <4> QED
        BY <4>1, <4>2
    <3>5. <<h>> \o t = buf_queue
      BY <2>2, <3>3, <3>4, SeqEqual
    <3> QED
      BY <3>5 DEF h, t
  <2> QED
    BY <2>1, <2>2, <2>3, <2>4, ConcatEmptySeq
<1>2. CASE UNCHANGED <<buf_queue, wf, dst>> /\ (wpc' = "fwrite" <=> wpc = "fwrite")
  BY <1>2 DEF InOrder
<1>3. CASE ReleaseBlock
  BY <1>3 DEF ReleaseBlock, InOrder
<1>4. (PopFrame /\ buf_queue # <<>>) \/ ReleaseBlock
        \/ (UNCHANGED <<buf_queue, wf, dst>> /\ (wpc' = "fwrite" <=> wpc = "fwrite"))
  BY DEF Next, MainNext, WriterNext, vars, LosePacket, StorePacket, OverflowFrame,
         IgnorePacket, SkipFrame, CompleteFrame, DiscardFrame, StartWithoutBlock,
         SignalWriter, GetFromFreeList, GetFromMalloc, BufferOverrun, StopCapture,
         JoinWriter, CheckCount, StartWaiting, WakeSpuriously, PopFrame
<1> QED
  BY <1>1, <1>2, <1>3, <1>4

(* Every frame that main hands to the writer reaches the file once,        *)
(* unaltered, and in the order of capture: capture implements the channel. *)
THEOREM CaptureImplementsChannel == Spec => ImplementsChannel
<1>1. Init => Channel!Init
  <2> SUFFICES ASSUME Init PROVE Pending = <<>> /\ dst = <<>>
    BY DEF Channel!Init
  <2>1. IInv /\ wpc # "fwrite" /\ buf_queue = <<>> /\ dst = <<>>
    BY InitIInv DEF Init
  <2>2. Len(InOrder) = 0
    BY <2>1, InOrderType, EmptySeq
  <2>3. Pending \in Seq(Seq(Packet)) /\ Len(Pending) = 0
    BY <2>1, <2>2, PendingType DEF PendingOK
  <2> QED
    BY <2>1, <2>3, EmptySeq
<1>2. IInv /\ [Next]_vars => [Channel!Next]_(Channel!chanVars)
  <2> SUFFICES ASSUME IInv, [Next]_vars PROVE [Channel!Next]_(Channel!chanVars)
    OBVIOUS
  <2>1. CASE PushFrame
    BY <2>1, PushPuts DEF Channel!Next
  <2>2. CASE WriteFrame
    BY <2>2, WriteDelivers DEF Channel!Next
  <2>3. CASE ~PushFrame /\ ~WriteFrame
    BY <2>3, OthersStutter, PendingSame DEF Channel!chanVars
  <2> QED
    BY <2>1, <2>2, <2>3
<1> QED
  BY <1>1, <1>2, Invariance, PTL DEF Spec, ImplementsChannel, Channel!Spec

-----------------------------------------------------------------------------
(* What the losses on the bus do to the frames.                            *)

(* The frame in hand began with packet 1 of frame fr, and k packets are    *)
(* kept of it.  Either all packets since then were kept; or some were lost *)
(* within that frame, and its size will be wrong; or the start of the next *)
(* frame was lost too, and more starts than one frame holds packets must   *)
(* have passed before the size is right again.                             *)
FrameNow == FrameSize(isPAL)
Exact(fr, k) ==
  /\ k \in 1..FrameNow
  /\ IF k < FrameNow THEN cam = [fr |-> fr, ix |-> k + 1, pal |-> isPAL] ELSE cam.ix = 1
Behind(k) ==
  /\ lost >= 1 /\ k < FrameNow
  /\ IF cam.ix = 1 THEN k + lost >= FrameNow
     ELSE cam.pal = isPAL /\ k < cam.ix - 1 /\ k + lost >= cam.ix - 1
Beyond(k) ==
  /\ lost >= 1
  /\ k + lost >= FrameNow + (IF cam.ix = 1 THEN NtscPackets ELSE cam.ix - 1)
Clean(b, k) == \A i \in 1..k : data[b][i] = [fr |-> data[b][1].fr, ix |-> i, pal |-> isPAL]

Begun ==
  pc = "recv" /\ f # NULL /\ cap_num_frames # 0 =>
    /\ frame_size >= 1
    /\ \/ Clean(f, frame_size) /\ Exact(data[f][1].fr, frame_size)
       \/ Behind(frame_size) \/ Beyond(frame_size)
Opening ==
  pc \in {"push", "signal", "get", "malloc"} =>
    /\ pkt.ix = 1 /\ pkt.pal = isPAL
    /\ Exact(pkt.fr, 1) \/ Behind(1) \/ Beyond(1)
WholeOrLoss(b) == Whole(Content(b)) \/ lost >= NtscPackets
Pushed == pc = "push" => WholeOrLoss(f)
Queued == \A b \in InFlight : WholeOrLoss(b)
CamInPlace == cam.ix <= FrameSize(cam.pal)
Found == f # NULL \/ pc \in {"push", "signal", "get", "malloc"} => found_first_block
Unharmed == lost = 0 \/ broken_frames = 0
LossInv == CamInPlace /\ Found /\ (Unharmed => Begun /\ Opening /\ Pushed /\ Queued)

(* The camera's step, field by field. *)
LEMMA CamNext ==
  ASSUME cam \in Packet, CameraOn, NextPacket, CamInPlace
  PROVE  /\ cam.ix \in Nat \ {0} /\ cam.pal \in BOOLEAN /\ cam'.pal \in BOOLEAN
         /\ cam.ix < FrameSize(cam.pal) => cam' = [fr |-> cam.fr, ix |-> cam.ix + 1, pal |-> cam.pal]
         /\ cam.ix < FrameSize(cam.pal) => cam'.ix = cam.ix + 1 /\ cam'.pal = cam.pal
         /\ cam.ix >= FrameSize(cam.pal) => cam'.ix = 1 /\ cam.ix = FrameSize(cam.pal)
         /\ CamInPlace'
<1>1. /\ cam.ix \in Nat \ {0} /\ cam.pal \in BOOLEAN /\ cam'.pal \in BOOLEAN
      /\ FrameSize(cam.pal) \in Nat \ {0} /\ FrameSize(cam'.pal) \in Nat \ {0}
      /\ cam = [fr |-> cam.fr, ix |-> cam.ix, pal |-> cam.pal]
  BY NextPacketType, ConstantFacts DEF Packet, FrameSize
<1>2. CASE cam.ix < FrameSize(cam.pal)
  <2>1. cam' = [fr |-> cam.fr, ix |-> cam.ix + 1, pal |-> cam.pal]
    BY <1>1, <1>2 DEF NextPacket
  <2>2. cam'.ix = cam.ix + 1 /\ cam'.pal = cam.pal
    BY <2>1
  <2> QED
    BY <1>1, <1>2, <2>1, <2>2 DEF CamInPlace
<1>3. CASE ~(cam.ix < FrameSize(cam.pal))
  <2>1. cam'.ix = 1
    BY <1>3 DEF NextPacket
  <2> QED
    BY <1>1, <1>3, <2>1 DEF CamInPlace
<1> QED
  BY <1>2, <1>3

LEMMA FrameNowType ==
  ASSUME TypeOK
  PROVE  /\ FrameNow \in Nat /\ FrameNow >= NtscPackets /\ NtscPackets >= 1
         /\ FrameNow <= PalPackets /\ lost \in Nat /\ frame_size \in Nat
         /\ isPAL \in BOOLEAN /\ cam \in Packet
         /\ \A pal \in BOOLEAN : FrameSize(pal) \in Nat /\ FrameSize(pal) >= NtscPackets
BY ConstantFacts DEF TypeOK, FrameNow, FrameSize

(* A packet is lost while k packets are kept. *)
LEMMA LossMoves ==
  ASSUME TypeOK, CamInPlace, LosePacket, NEW fr, NEW k \in Nat, k >= 1,
         Exact(fr, k) \/ Behind(k) \/ Beyond(k)
  PROVE  Behind(k)' \/ Beyond(k)'
<1>t. /\ FrameNow \in Nat /\ lost \in Nat /\ NtscPackets \in Nat /\ NtscPackets >= 1
      /\ FrameSize(cam.pal) \in Nat /\ FrameSize(cam.pal) >= NtscPackets
      /\ isPAL' = isPAL /\ FrameNow' = FrameNow /\ lost' = lost + 1
      /\ CameraOn /\ NextPacket /\ cam \in Packet
  <2>1. cam.pal \in BOOLEAN
    BY FrameNowType DEF Packet
  <2> QED
    BY <2>1, FrameNowType, ConstantFacts DEF LosePacket, frameVars, FrameNow
<1>c. /\ cam.ix \in Nat \ {0}
      /\ cam.ix < FrameSize(cam.pal) => cam'.ix = cam.ix + 1 /\ cam'.pal = cam.pal
      /\ cam.ix >= FrameSize(cam.pal) => cam'.ix = 1 /\ cam.ix = FrameSize(cam.pal)
  BY <1>t, CamNext
<1>1. CASE Exact(fr, k) /\ k < FrameNow
  <2>1. cam.ix = k + 1 /\ cam.pal = isPAL
    BY <1>1 DEF Exact
  <2>2. FrameSize(cam.pal) = FrameNow
    BY <2>1 DEF FrameNow
  <2>3. CASE k + 1 < FrameNow
    BY <1>t, <1>c, <2>1, <2>2, <2>3 DEF Behind
  <2>4. CASE ~(k + 1 < FrameNow)
    BY <1>t, <1>1, <1>c, <2>1, <2>2, <2>4 DEF Behind
  <2> QED
    BY <2>3, <2>4
<1>2. CASE Exact(fr, k) /\ ~(k < FrameNow)
  <2>1. cam.ix = 1 /\ k = FrameNow
    BY <1>2, <1>t DEF Exact
  <2> QED
    BY <1>t, <1>c, <2>1 DEF Beyond
<1>3. CASE Behind(k)
  <2>1. CASE cam.ix = 1
    <3>1. k + lost >= FrameNow
      BY <1>3, <2>1 DEF Behind
    <3> QED
      BY <1>t, <1>c, <2>1, <3>1 DEF Beyond
  <2>2. CASE cam.ix # 1
    <3>1. cam.pal = isPAL /\ k < cam.ix - 1 /\ k + lost >= cam.ix - 1 /\ k < FrameNow
      BY <1>3, <2>2 DEF Behind
    <3>2. FrameSize(cam.pal) = FrameNow
      BY <3>1 DEF FrameNow
    <3> QED
      BY <1>t, <1>c, <2>2, <3>1, <3>2 DEF Behind
  <2> QED
    BY <2>1, <2>2
<1>4. CASE Beyond(k)
  <2>1. k + lost >= FrameNow + (IF cam.ix = 1 THEN NtscPackets ELSE cam.ix - 1)
    BY <1>4 DEF Beyond
  <2>2. k + lost' >= FrameNow + (IF cam'.ix = 1 THEN NtscPackets ELSE cam'.ix - 1)
    <3>1. k + lost >= FrameNow + cam.ix - 1
      BY <1>t, <1>c, <2>1
    <3>2. k + lost' >= FrameNow + cam.ix
      BY <1>t, <1>c, <3>1
    <3> QED
      BY <1>t, <1>c, <3>2
  <2> QED
    BY <1>t, <2>2 DEF Beyond
<1> QED
  BY <1>1, <1>2, <1>3, <1>4

(* A packet that does not start a frame is kept. *)
LEMMA StoreMoves ==
  ASSUME TypeOK, CamInPlace, Receive(FALSE), isPAL' = isPAL, NEW fr, NEW k \in Nat, k >= 1
  PROVE  /\ Exact(fr, k) => /\ Exact(fr, k + 1)' /\ k < FrameNow
                            /\ cam = [fr |-> fr, ix |-> k + 1, pal |-> isPAL]
         /\ Behind(k) => Behind(k + 1)'
         /\ Beyond(k) => Beyond(k + 1)'
<1>t. /\ FrameNow \in Nat /\ lost \in Nat /\ NtscPackets \in Nat /\ NtscPackets >= 1
      /\ FrameSize(cam.pal) \in Nat /\ FrameSize(cam.pal) >= NtscPackets
      /\ FrameNow' = FrameNow /\ lost' = lost
      /\ CameraOn /\ NextPacket /\ cam \in Packet
  <2>1. cam.pal \in BOOLEAN
    BY FrameNowType DEF Packet
  <2> QED
    BY <2>1, FrameNowType, ConstantFacts DEF Receive, FrameNow
<1>c. /\ cam.ix \in Nat \ {0} /\ cam.ix # 1
      /\ cam.ix < FrameSize(cam.pal) => cam' = [fr |-> cam.fr, ix |-> cam.ix + 1, pal |-> cam.pal]
      /\ cam.ix < FrameSize(cam.pal) => cam'.ix = cam.ix + 1 /\ cam'.pal = cam.pal
      /\ cam.ix >= FrameSize(cam.pal) => cam'.ix = 1 /\ cam.ix = FrameSize(cam.pal)
  <2>1. cam.ix # 1
    BY DEF Receive, IsStartOfFrame
  <2> QED
    BY <1>t, <2>1, CamNext
<1>1. ASSUME Exact(fr, k)
      PROVE  /\ Exact(fr, k + 1)' /\ k < FrameNow
             /\ cam = [fr |-> fr, ix |-> k + 1, pal |-> isPAL]
  <2>1. k < FrameNow /\ cam = [fr |-> fr, ix |-> k + 1, pal |-> isPAL]
    BY <1>1, <1>c DEF Exact
  <2>2. cam.ix = k + 1 /\ cam.pal = isPAL /\ cam.fr = fr
    BY <2>1
  <2>3. FrameSize(cam.pal) = FrameNow
    BY <2>2 DEF FrameNow
  <2>4. CASE k + 1 < FrameNow
    <3>1. cam' = [fr |-> fr, ix |-> (k + 1) + 1, pal |-> isPAL]
      BY <1>c, <2>2, <2>3, <2>4
    <3>2. k + 1 \in 1..FrameNow
      BY <1>t, <2>4
    <3> QED
      BY <1>t, <2>1, <2>4, <3>1, <3>2 DEF Exact
  <2>5. CASE ~(k + 1 < FrameNow)
    <3>1. cam'.ix = 1 /\ k + 1 \in 1..FrameNow
      BY <1>t, <1>c, <2>1, <2>2, <2>3, <2>5
    <3> QED
      BY <1>t, <2>1, <2>5, <3>1 DEF Exact
  <2> QED
    BY <2>4, <2>5
<1>2. ASSUME Behind(k) PROVE Behind(k + 1)'
  <2>1. /\ cam.pal = isPAL /\ k < cam.ix - 1 /\ k + lost >= cam.ix - 1 /\ k < FrameNow
        /\ lost >= 1
    BY <1>2, <1>c DEF Behind
  <2>2. FrameSize(cam.pal) = FrameNow
    BY <2>1 DEF FrameNow
  <2> QED
    BY <1>t, <1>c, <2>1, <2>2 DEF Behind
<1>3. ASSUME Beyond(k) PROVE Beyond(k + 1)'
  <2>1. k + lost >= FrameNow + cam.ix - 1 /\ lost >= 1
    BY <1>3, <1>t, <1>c DEF Beyond
  <2> QED
    BY <1>t, <1>c, <2>1 DEF Beyond
<1> QED
  BY <1>1, <1>2, <1>3

(* A frame is started: its first packet is the only one so far. *)
LEMMA StartMoves ==
  ASSUME TypeOK, CamInPlace, BeginStart
  PROVE  /\ pkt' = cam /\ cam.ix = 1 /\ isPAL' = cam.pal
         /\ Exact(pkt.fr, 1)'
<1>t. /\ CameraOn /\ NextPacket /\ cam \in Packet /\ pkt' = cam /\ isPAL' = cam.pal
      /\ cam.ix = 1 /\ cam.pal \in BOOLEAN
      /\ FrameSize(cam.pal) \in Nat /\ FrameSize(cam.pal) >= 1
  <2>1. cam.pal \in BOOLEAN
    BY FrameNowType DEF Packet
  <2> QED
    BY <2>1, FrameNowType, ConstantFacts DEF BeginStart, Receive, IsStartOfFrame
<1>c. /\ cam.ix < FrameSize(cam.pal) => cam' = [fr |-> cam.fr, ix |-> cam.ix + 1, pal |-> cam.pal]
      /\ cam.ix >= FrameSize(cam.pal) => cam'.ix = 1 /\ cam.ix = FrameSize(cam.pal)
  BY <1>t, CamNext
<1>1. FrameNow' = FrameSize(cam.pal)
  BY <1>t DEF FrameNow
<1>2. 1 \in 1..FrameNow'
  BY <1>t, <1>1
<1>3. CASE 1 < FrameSize(cam.pal)
  <2>1. cam' = [fr |-> cam.fr, ix |-> 1 + 1, pal |-> isPAL']
    BY <1>t, <1>c, <1>3
  <2> QED
    BY <1>t, <1>1, <1>2, <1>3, <2>1 DEF Exact
<1>4. CASE ~(1 < FrameSize(cam.pal))
  <2>1. cam'.ix = 1
    BY <1>t, <1>c, <1>4
  <2> QED
    BY <1>t, <1>1, <1>2, <1>4, <2>1 DEF Exact
<1> QED
  BY <1>t, <1>3, <1>4

(* The bytes behind StoreEffect. *)
LEMMA StoreContent ==
  ASSUME TypeOK, NEW b \in Blocks, NEW n \in 0..(PalPackets - 1), NEW p \in Packet,
         n <= Len(data[b]), Store(b, n, p)
  PROVE  /\ frame_size' = n + 1
         /\ \A i \in 1..n : data'[b][i] = data[b][i]
         /\ data'[b][n + 1] = p
<1>1. data[b] \in Seq(Packet) /\ Len(data[b]) \in Nat /\ n \in Nat
  BY ConstantFacts, LenProperties DEF TypeOK
<1>2. \A i \in 1..n : data[b][i] \in Packet
  BY <1>1, ElementOfSeq
<1> DEFINE s == SubSeq(data[b], 1, n)
<1>3. s \in Seq(Packet) /\ Len(s) = n /\ \A i \in 1..n : s[i] = data[b][i]
  BY <1>1, <1>2, SubSeqProperties
<1>4. data'[b] = Append(s, p)
  BY DEF Store, TypeOK
<1> HIDE DEF s
<1>5. Append(s, p)[n + 1] = p /\ \A i \in 1..n : Append(s, p)[i] = s[i]
  BY <1>3, AppendProperties
<1> QED
  BY <1>3, <1>4, <1>5 DEF Store

(* A frame of the right size with nothing lost is the frame that was sent. *)
LEMMA CleanIsWhole ==
  ASSUME TypeOK, NEW b \in Blocks, FrameNow <= Len(data[b]), Clean(b, FrameNow)
  PROVE  Whole(SubSeq(data[b], 1, FrameNow))
<1> DEFINE s == SubSeq(data[b], 1, FrameNow)
<1>1. FrameNow \in Nat /\ FrameNow >= 1 /\ data[b] \in Seq(Packet) /\ Len(data[b]) \in Nat
  BY FrameNowType, LenProperties, ConstantFacts DEF TypeOK
<1>2. \A i \in 1..FrameNow : data[b][i] \in Packet
  BY <1>1, ElementOfSeq
<1>3. s \in Seq(Packet) /\ Len(s) = FrameNow /\ \A i \in 1..FrameNow : s[i] = data[b][i]
  BY <1>1, <1>2, SubSeqProperties
<1> HIDE DEF s
<1>4. 1 \in 1..FrameNow /\ s[1] = data[b][1]
  BY <1>1, <1>3
<1>5. data[b][1] = [fr |-> data[b][1].fr, ix |-> 1, pal |-> isPAL]
  BY <1>4 DEF Clean
<1>6. s[1].pal = isPAL /\ s[1].fr = data[b][1].fr
  BY <1>4, <1>5
<1>7. \A i \in 1..Len(s) : s[i] = [fr |-> s[1].fr, ix |-> i, pal |-> s[1].pal]
  BY <1>3, <1>6 DEF Clean
<1>8. s # <<>> /\ Len(s) = FrameSize(s[1].pal)
  BY <1>1, <1>3, <1>6, EmptySeq DEF FrameNow
<1>9. Whole(s)
  BY <1>7, <1>8 DEF Whole
<1> QED
  BY <1>9 DEF s

(* A frame that ends with the right size is whole, or a frame was lost.    *)
LEMMA RightSize ==
  ASSUME IInv, LossInv, Unharmed, BeginStart, f # NULL, ~FrameBroken
  PROVE  /\ frame_size = FrameNow /\ f \in Blocks
         /\ Whole(SubSeq(data[f], 1, frame_size)) \/ lost >= NtscPackets
<1>t. TypeOK /\ Sized /\ f \in Blocks /\ frame_size <= Len(data[f])
  BY DEF IInv, TypeOK, Sized
<1>1. pc = "recv" /\ cap_num_frames # 0 /\ cam.ix = 1
  BY DEF BeginStart, Receive, IsStartOfFrame
<1>2. /\ frame_size >= 1 /\ frame_size \in Nat
      /\ \/ Clean(f, frame_size) /\ Exact(data[f][1].fr, frame_size)
         \/ Behind(frame_size) \/ Beyond(frame_size)
  BY <1>t, <1>1, FrameNowType DEF LossInv, Begun
<1>3. frame_size = FrameNow
  BY <1>2 DEF FrameBroken, FrameNow
<1>4. ~Behind(frame_size)
  BY <1>t, <1>3, FrameNowType DEF Behind
<1>5. Beyond(frame_size) => lost >= NtscPackets
  <2>1. Beyond(frame_size) => FrameNow + lost >= FrameNow + NtscPackets
    BY <1>1, <1>3 DEF Beyond
  <2> QED
    BY <2>1, <1>t, FrameNowType, ConstantFacts
<1>6. Clean(f, frame_size) => Whole(SubSeq(data[f], 1, frame_size))
  BY <1>t, <1>3, CleanIsWhole
<1> QED
  BY <1>t, <1>2, <1>3, <1>4, <1>5, <1>6

LEMMA UnharmedBefore ==
  ASSUME IInv, [Next]_vars, Unharmed'
  PROVE  /\ Unharmed /\ lost' >= lost /\ lost \in Nat /\ lost' \in Nat
         /\ broken_frames' = Bump(broken_frames) => lost' = 0
<1> USE DEF blockVars, frameVars, countVars, writerVars, camVars
<1>t. TypeOK /\ lost \in Nat /\ broken_frames \in Nat /\ MaxCount \in Nat \ {0}
  BY ConstantFacts DEF IInv, TypeOK
<1>1. Bump(broken_frames) # 0
  BY <1>t DEF Bump
<1>2. lost' = lost + 1 \/ lost' = lost
  BY DEF Next, MainNext, WriterNext, vars, LosePacket, StorePacket, OverflowFrame,
         IgnorePacket, SkipFrame, CompleteFrame, DiscardFrame, StartWithoutBlock,
         BeginStart, Receive, PushFrame, SignalWriter, GetFromFreeList, GetFromMalloc,
         BufferOverrun, StopCapture, JoinWriter, CheckCount, StartWaiting,
         WakeSpuriously, PopFrame, WriteFrame, ReleaseBlock
<1>3. broken_frames' = broken_frames \/ broken_frames' = Bump(broken_frames)
  BY DEF Next, MainNext, WriterNext, vars, LosePacket, StorePacket, OverflowFrame,
         IgnorePacket, SkipFrame, CompleteFrame, DiscardFrame, StartWithoutBlock,
         BeginStart, Receive, PushFrame, SignalWriter, GetFromFreeList, GetFromMalloc,
         BufferOverrun, StopCapture, JoinWriter, CheckCount, StartWaiting,
         WakeSpuriously, PopFrame, WriteFrame, ReleaseBlock
<1> QED
  BY <1>t, <1>1, <1>2, <1>3 DEF Unharmed

LEMMA PlaceStep == IInv /\ LossInv /\ [Next]_vars => CamInPlace' /\ Found'
<1> SUFFICES ASSUME IInv, LossInv, [Next]_vars PROVE CamInPlace' /\ Found'
  OBVIOUS
<1> USE DEF blockVars, frameVars, countVars, writerVars, camVars
<1>t. TypeOK /\ CamInPlace /\ Found /\ cam \in Packet
  BY DEF IInv, LossInv, TypeOK
<1>1. cam' = cam \/ (CameraOn /\ NextPacket)
  BY DEF Next, MainNext, WriterNext, vars, LosePacket, StorePacket, OverflowFrame,
         IgnorePacket, SkipFrame, CompleteFrame, DiscardFrame, StartWithoutBlock,
         BeginStart, Receive, PushFrame, SignalWriter, GetFromFreeList, GetFromMalloc,
         BufferOverrun, StopCapture, JoinWriter, CheckCount, StartWaiting,
         WakeSpuriously, PopFrame, WriteFrame, ReleaseBlock
<1>2. CamInPlace'
  <2>1. CASE cam' = cam
    BY <1>t, <2>1 DEF CamInPlace
  <2>2. CASE CameraOn /\ NextPacket
    BY <1>t, <2>2, CamNext
  <2> QED
    BY <1>1, <2>1, <2>2
<1>3. Found'
  <2>1. CASE BeginStart
    BY <2>1 DEF BeginStart, Found
  <2>2. CASE UNCHANGED <<f, pc, found_first_block>>
    BY <1>t, <2>2 DEF Found
  <2>3. CASE UNCHANGED found_first_block /\ pc \in {"push", "signal", "get", "malloc"}
    BY <1>t, <2>3 DEF Found
  <2>4. CASE UNCHANGED <<f, found_first_block>> /\ pc' \in {"join", "closed"}
    BY <1>t, <2>4 DEF Found
  <2>5. \/ BeginStart \/ UNCHANGED <<f, pc, found_first_block>>
        \/ UNCHANGED found_first_block /\ pc \in {"push", "signal", "get", "malloc"}
        \/ UNCHANGED <<f, found_first_block>> /\ pc' \in {"join", "closed"}
    BY DEF Next, MainNext, WriterNext, vars, LosePacket, StorePacket, OverflowFrame,
           IgnorePacket, SkipFrame, CompleteFrame, DiscardFrame, StartWithoutBlock,
           PushFrame, SignalWriter, GetFromFreeList, GetFromMalloc,
           BufferOverrun, StopCapture, JoinWriter, CheckCount, StartWaiting,
           WakeSpuriously, PopFrame, WriteFrame, ReleaseBlock
  <2> QED
    BY <2>1, <2>2, <2>3, <2>4, <2>5
<1> QED
  BY <1>2, <1>3

(* The first packet of a frame goes to the start of its block.             *)
LEMMA OpenBegins ==
  ASSUME TypeOK, NEW b \in Blocks, NEW left, left # 0, OpenFrame(b, pkt, left),
         pkt.ix = 1, pkt.pal = isPAL, Exact(pkt.fr, 1) \/ Behind(1) \/ Beyond(1),
         UNCHANGED <<cam, lost, isPAL>>
  PROVE  /\ frame_size' = 1
         /\ \/ Clean(f, frame_size)' /\ Exact(data[f][1].fr, frame_size)'
            \/ Behind(frame_size)' \/ Beyond(frame_size)'
<1>1. Len(data[b]) \in Nat /\ pkt \in Packet /\ f' = b
  BY LenProperties DEF TypeOK, OpenFrame
<1>2. frame_size' = 1 /\ data'[b][1] = pkt
  <2>1. Store(b, 0, pkt) /\ 0 \in 0..(PalPackets - 1) /\ 0 <= Len(data[b])
    BY <1>1, ConstantFacts DEF OpenFrame
  <2> QED
    BY <1>1, <2>1, StoreContent
<1>3. pkt = [fr |-> pkt.fr, ix |-> 1, pal |-> isPAL]
  BY <1>1 DEF Packet
<1>4. FrameNow' = FrameNow
  BY DEF FrameNow
<1>5. Exact(pkt.fr, 1) => Clean(f, frame_size)' /\ Exact(data[f][1].fr, frame_size)'
  <2>1. data'[f'][1] = [fr |-> data'[f'][1].fr, ix |-> 1, pal |-> isPAL']
    BY <1>1, <1>2, <1>3
  <2>2. \A i \in 1..1 : i = 1
    OBVIOUS
  <2>3. Clean(f, frame_size)'
    BY <1>2, <2>1, <2>2 DEF Clean
  <2>4. data'[f'][1].fr = pkt.fr
    BY <1>1, <1>2
  <2> QED
    BY <1>2, <1>4, <2>3, <2>4 DEF Exact
<1>6. Behind(1) => Behind(frame_size)'
  BY <1>2, <1>4 DEF Behind
<1>7. Beyond(1) => Beyond(frame_size)'
  BY <1>2, <1>4 DEF Beyond
<1> QED
  BY <1>2, <1>5, <1>6, <1>7

(* The frame in hand.                                                      *)
LEMMA BegunStep ==
  ASSUME IInv, LossInv, [Next]_vars, Unharmed'
  PROVE  Begun'
<1> USE DEF blockVars, frameVars, countVars, writerVars, camVars
<1>t. /\ TypeOK /\ Flow /\ Sized /\ CamInPlace /\ Found /\ Unharmed /\ Begun /\ Opening
      /\ broken_frames' = Bump(broken_frames) => lost' = 0
  BY UnharmedBefore DEF IInv, LossInv
<1> SUFFICES ASSUME (pc = "recv" /\ f # NULL /\ cap_num_frames # 0)'
             PROVE  /\ frame_size' >= 1
                    /\ \/ Clean(f, frame_size)' /\ Exact(data[f][1].fr, frame_size)'
                       \/ Behind(frame_size)' \/ Beyond(frame_size)'
  BY DEF Begun
<1> DEFINE Hand == /\ frame_size >= 1 /\ frame_size \in Nat /\ f \in Blocks
                   /\ \/ Clean(f, frame_size) /\ Exact(data[f][1].fr, frame_size)
                      \/ Behind(frame_size) \/ Beyond(frame_size)
<1>h. pc = "recv" /\ f # NULL /\ cap_num_frames # 0 => Hand
  BY <1>t, FrameNowType DEF Begun, TypeOK
<1>o. pc \in {"get", "malloc"} =>
        /\ pkt.ix = 1 /\ pkt.pal = isPAL
        /\ Exact(pkt.fr, 1) \/ Behind(1) \/ Beyond(1)
  BY <1>t DEF Opening
<1>1. CASE LosePacket
  <2>1. UNCHANGED <<pc, f, frame_size, cap_num_frames>>
    BY <1>1 DEF LosePacket
  <2>2. Hand
    BY <1>h, <2>1
  <2>3. Behind(frame_size)' \/ Beyond(frame_size)'
    <3>1. PICK k, r : k \in Nat /\ k = frame_size /\ r = data[f][1].fr
      BY <2>2
    <3>2. k >= 1 /\ (Exact(r, k) \/ Behind(k) \/ Beyond(k))
      BY <2>2, <3>1
    <3>3. Behind(k)' \/ Beyond(k)'
      BY <1>1, <1>t, <3>1, <3>2, LossMoves
    <3>4. frame_size' = k
      BY <2>1, <3>1
    <3> QED
      BY <3>3, <3>4 DEF Behind, Beyond
  <2> QED
    BY <2>1, <2>2, <2>3
<1>2. CASE StorePacket
  <2>1. /\ Receive(FALSE) /\ isPAL' = isPAL /\ f' = f /\ cap_num_frames' = cap_num_frames
        /\ pc = "recv" /\ f # NULL /\ Store(f, frame_size, cam) /\ ~BlockFull
    BY <1>2 DEF StorePacket, Receive
  <2>2. Hand
    BY <1>h, <2>1
  <2>3. /\ f \in Blocks /\ frame_size \in 0..(PalPackets - 1) /\ frame_size <= Len(data[f])
        /\ cam \in Packet
    BY <2>1, <2>2, <1>t, ConstantFacts DEF TypeOK, Sized
  <2>4. /\ frame_size' = frame_size + 1
        /\ \A i \in 1..frame_size : data'[f][i] = data[f][i]
        /\ data'[f][frame_size + 1] = cam
    BY <1>t, <2>1, <2>3, StoreContent
  <2>k. PICK k, r : k \in Nat /\ k = frame_size /\ r = data[f][1].fr
    BY <2>2
  <2>m. /\ Exact(r, k) => /\ Exact(r, k + 1)' /\ k < FrameNow
                          /\ cam = [fr |-> r, ix |-> k + 1, pal |-> isPAL]
        /\ Behind(k) => Behind(k + 1)'
        /\ Beyond(k) => Beyond(k + 1)'
    <3>1. k >= 1
      BY <2>2, <2>k
    <3> QED
      BY <1>t, <2>1, <2>k, <3>1, StoreMoves
  <2>5. Behind(frame_size) => Behind(frame_size)'
    BY <2>4, <2>k, <2>m DEF Behind
  <2>6. Beyond(frame_size) => Beyond(frame_size)'
    BY <2>4, <2>k, <2>m DEF Beyond
  <2>7. ASSUME Clean(f, frame_size), Exact(data[f][1].fr, frame_size)
        PROVE  Clean(f, frame_size)' /\ Exact(data[f][1].fr, frame_size)'
    <3>1. Exact(r, k + 1)' /\ cam = [fr |-> r, ix |-> frame_size + 1, pal |-> isPAL]
      BY <2>7, <2>k, <2>m
    <3>2. data'[f'][1].fr = r
      BY <2>1, <2>2, <2>4, <2>k
    <3>3. ASSUME NEW i \in 1..(frame_size + 1)
          PROVE  data'[f'][i] = [fr |-> data'[f'][1].fr, ix |-> i, pal |-> isPAL']
      <4>1. CASE i = frame_size + 1
        BY <2>1, <2>4, <3>1, <3>2, <4>1
      <4>2. CASE i # frame_size + 1
        <5>1. i \in 1..frame_size
          BY <2>2, <4>2
        <5>2. data[f][i] = [fr |-> r, ix |-> i, pal |-> isPAL]
          BY <2>7, <2>k, <5>1 DEF Clean
        <5> QED
          BY <2>1, <2>4, <3>2, <5>1, <5>2
      <4> QED
        BY <4>1, <4>2
    <3>4. Clean(f, frame_size)'
      BY <2>4, <3>3 DEF Clean
    <3>5. Exact(data[f][1].fr, frame_size)'
      <4>1. frame_size' = k + 1
        BY <2>4, <2>k
      <4> QED
        BY <3>1, <3>2, <4>1 DEF Exact
    <3> QED
      BY <3>4, <3>5
  <2>8. frame_size' >= 1
    BY <2>2, <2>4
  <2> QED
    BY <2>2, <2>5, <2>6, <2>7, <2>8
<1>3. CASE OverflowFrame
  <2>1. /\ Receive(FALSE) /\ isPAL' = isPAL /\ pc = "recv" /\ f # NULL /\ BlockFull
        /\ cap_num_frames # 0 /\ lost' = lost /\ broken_frames' = Bump(broken_frames)
    BY <1>3 DEF OverflowFrame, Receive
  <2>2. Hand /\ lost = 0
    BY <1>h, <1>t, <2>1
  <2>3. Exact(data[f][1].fr, frame_size)
    BY <2>2 DEF Behind, Beyond
  <2>4. frame_size < FrameNow
    BY <1>t, <2>1, <2>2, <2>3, StoreMoves
  <2> QED
    BY <1>t, <2>1, <2>2, <2>4, FrameNowType, ConstantFacts
<1>4. CASE IgnorePacket
  BY <1>4, <1>t DEF IgnorePacket, Found
<1>5. CASE SkipFrame
  BY <1>5, <1>t DEF SkipFrame, Found
<1>6. CASE DiscardFrame
  <2>1. /\ BeginStart /\ f # NULL /\ FrameBroken /\ pc = "recv" /\ cap_num_frames # 0
        /\ cam.ix = 1 /\ lost' = lost /\ broken_frames' = Bump(broken_frames)
    BY <1>6 DEF DiscardFrame, BeginStart, Receive, IsStartOfFrame
  <2>2. Hand /\ lost = 0
    BY <1>h, <1>t, <2>1
  <2>3. Exact(data[f][1].fr, frame_size)
    BY <2>2 DEF Behind, Beyond
  <2>4. frame_size # FrameNow /\ frame_size \in 1..FrameNow
    BY <2>1, <2>3 DEF FrameBroken, FrameNow, Exact
  <2>5. frame_size < FrameNow
    BY <2>4, <1>t, FrameNowType
  <2>6. cam = [fr |-> data[f][1].fr, ix |-> frame_size + 1, pal |-> isPAL]
    BY <2>3, <2>5 DEF Exact
  <2>7. cam.ix = frame_size + 1
    BY <2>6
  <2> QED
    BY <2>1, <2>2, <2>7
<1>7. CASE GetFromFreeList /\ free_list # <<>>
  <2>1. Head(free_list) \in Blocks
    BY <1>7, <1>t, HeadTailProperties DEF TypeOK
  <2>2. /\ OpenFrame(Head(free_list), pkt, cap_num_frames) /\ UNCHANGED <<cam, lost, isPAL>>
        /\ cap_num_frames # 0 /\ pc = "get"
    BY <1>7 DEF GetFromFreeList
  <2> QED
    BY <1>t, <1>o, <2>1, <2>2, OpenBegins
<1>8. CASE GetFromMalloc
  <2>1. alloc + 1 \in Blocks
    BY <1>8, <1>t, ConstantFacts DEF GetFromMalloc, TypeOK, Blocks
  <2>2. /\ OpenFrame(alloc + 1, pkt, cap_num_frames) /\ UNCHANGED <<cam, lost, isPAL>>
        /\ cap_num_frames # 0 /\ pc = "malloc"
    BY <1>8 DEF GetFromMalloc
  <2> QED
    BY <1>t, <1>o, <2>1, <2>2, OpenBegins
<1>9. CASE BufferOverrun
  BY <1>9, <1>t DEF BufferOverrun, Flow
<1>10. CASE UNCHANGED <<pc, data, f, frame_size, isPAL, cam, lost, cap_num_frames>>
  BY <1>10, <1>h DEF Clean, Exact, Behind, Beyond, FrameNow
<1>11. \/ LosePacket \/ StorePacket \/ OverflowFrame \/ IgnorePacket \/ SkipFrame \/ DiscardFrame
       \/ (GetFromFreeList /\ free_list # <<>>) \/ GetFromMalloc \/ BufferOverrun
       \/ UNCHANGED <<pc, data, f, frame_size, isPAL, cam, lost, cap_num_frames>>
  BY DEF Next, MainNext, WriterNext, vars, CompleteFrame, StartWithoutBlock, PushFrame,
         SignalWriter, GetFromFreeList, StopCapture, JoinWriter, CheckCount, StartWaiting,
         WakeSpuriously, PopFrame, WriteFrame, ReleaseBlock
<1> QED
  BY <1>1, <1>2, <1>3, <1>4, <1>5, <1>6, <1>7, <1>8, <1>9, <1>10, <1>11

(* The frame whose first packet waits for a block.                         *)
LEMMA OpeningStep ==
  ASSUME IInv, LossInv, [Next]_vars, Unharmed'
  PROVE  Opening'
<1> USE DEF blockVars, frameVars, countVars, writerVars, camVars
<1>t. TypeOK /\ Flow /\ CamInPlace /\ Opening
  BY UnharmedBefore DEF IInv, LossInv
<1>1. CASE BeginStart
  BY <1>1, <1>t, StartMoves DEF Opening
<1>2. CASE LosePacket
  <2>1. UNCHANGED <<pc, pkt, isPAL>>
    BY <1>2 DEF LosePacket
  <2>2. pc \in {"push", "signal", "get", "malloc"} => Behind(1)' \/ Beyond(1)'
    BY <1>2, <1>t, LossMoves DEF Opening
  <2> QED
    BY <1>t, <2>1, <2>2 DEF Opening
<1>3. CASE UNCHANGED <<pkt, isPAL, cam, lost>> /\ pc \in {"push", "signal", "get", "malloc"}
  BY <1>3, <1>t DEF Opening, Exact, Behind, Beyond, FrameNow
<1>4. CASE pc' \notin {"push", "signal", "get", "malloc"}
  BY <1>4 DEF Opening
<1>5. \/ BeginStart \/ LosePacket \/ pc' \notin {"push", "signal", "get", "malloc"}
      \/ UNCHANGED <<pkt, isPAL, cam, lost>> /\ pc \in {"push", "signal", "get", "malloc"}
  BY DEF Next, MainNext, WriterNext, vars, StorePacket, OverflowFrame,
         IgnorePacket, SkipFrame, CompleteFrame, DiscardFrame, StartWithoutBlock, Receive,
         PushFrame, SignalWriter, GetFromFreeList, GetFromMalloc,
         BufferOverrun, StopCapture, JoinWriter, CheckCount, StartWaiting,
         WakeSpuriously, PopFrame, WriteFrame, ReleaseBlock
<1> QED
  BY <1>1, <1>2, <1>3, <1>4, <1>5

(* The finished frames.                                                    *)
LEMMA FinishedStep ==
  ASSUME IInv, LossInv, [Next]_vars, Unharmed'
  PROVE  Pushed' /\ Queued'
<1> USE DEF blockVars, frameVars, countVars, writerVars, camVars
<1>t. /\ TypeOK /\ Flow /\ Pushed /\ Queued /\ Unharmed
      /\ lost \in Nat /\ lost' \in Nat /\ lost' >= lost
  BY UnharmedBefore DEF IInv, LossInv
<1>n. lost >= NtscPackets => lost' >= NtscPackets
  BY <1>t, ConstantFacts
<1>1. Pushed'
  <2>1. CASE CompleteFrame
    <3>1. /\ BeginStart /\ f # NULL /\ ~FrameBroken /\ UNCHANGED <<f, data>>
          /\ usage' = [usage EXCEPT ![f] = frame_size]
      BY <2>1 DEF CompleteFrame
    <3>2. f \in Blocks /\ (Whole(SubSeq(data[f], 1, frame_size)) \/ lost >= NtscPackets)
      BY <1>t, <3>1, RightSize
    <3>3. usage'[f] = frame_size
      BY <1>t, <3>1, <3>2 DEF TypeOK
    <3>4. Content(f)' = SubSeq(data[f], 1, frame_size)
      BY <3>1, <3>3 DEF Content
    <3>5. WholeOrLoss(f)'
      BY <1>n, <3>2, <3>4 DEF WholeOrLoss, Whole
    <3> QED
      BY <3>5 DEF Pushed
  <2>2. CASE pc = "push" /\ UNCHANGED <<f, data, usage>>
    <3>1. Content(f)' = Content(f)
      BY <2>2 DEF Content
    <3>2. WholeOrLoss(f)'
      BY <1>t, <1>n, <2>2, <3>1 DEF Pushed, WholeOrLoss, Whole
    <3> QED
      BY <3>2 DEF Pushed
  <2>3. CASE pc' # "push"
    BY <2>3 DEF Pushed
  <2>4. CompleteFrame \/ (pc = "push" /\ UNCHANGED <<f, data, usage>>) \/ pc' # "push"
    BY DEF Next, MainNext, WriterNext, vars, LosePacket, StorePacket, OverflowFrame,
           IgnorePacket, SkipFrame, DiscardFrame, StartWithoutBlock, Receive, BeginStart,
           PushFrame, SignalWriter, GetFromFreeList, GetFromMalloc,
           BufferOverrun, StopCapture, JoinWriter, CheckCount, StartWaiting,
           WakeSpuriously, PopFrame, WriteFrame, ReleaseBlock
  <2> QED
    BY <2>1, <2>2, <2>3, <2>4
<1>2. ASSUME NEW b \in InFlight' PROVE WholeOrLoss(b)'
  <2>1. CASE b \in InFlight
    <3>1. Content(b)' = Content(b)
      BY <2>1, ContentFrozen DEF Content, ContentNext
    <3> QED
      BY <1>t, <1>n, <2>1, <3>1 DEF Queued, WholeOrLoss, Whole
  <2>2. CASE b \notin InFlight
    <3>1. pc = "push" /\ b = f
      BY <2>2, InFlightGrowth DEF Held
    <3>2. UNCHANGED <<data, usage>>
      BY <3>1 DEF Next, MainNext, WriterNext, vars, LosePacket, StorePacket,
         OverflowFrame, IgnorePacket, SkipFrame, CompleteFrame, DiscardFrame,
         StartWithoutBlock, BeginStart, Receive, PushFrame, SignalWriter,
         GetFromFreeList, GetFromMalloc, BufferOverrun, StopCapture, JoinWriter,
         CheckCount, StartWaiting, WakeSpuriously, PopFrame, WriteFrame, ReleaseBlock
    <3>3. Content(b)' = Content(f)
      BY <3>1, <3>2 DEF Content
    <3> QED
      BY <1>t, <1>n, <3>1, <3>3 DEF Pushed, WholeOrLoss, Whole
  <2> QED
    BY <2>1, <2>2
<1> QED
  BY <1>1, <1>2 DEF Queued

LEMMA InitLossInv == Init => LossInv
<1> SUFFICES ASSUME Init PROVE LossInv
  OBVIOUS
<1>1. f = NULL /\ pc = "recv" /\ wf = NULL /\ buf_queue = <<>> /\ CamInPlace
  BY DEF Init, CamInPlace
<1>2. InFlight = {}
  <2>1. Len(<<>>) = 0 /\ 1..0 = {}
    BY EmptySeq
  <2> QED
    BY <1>1, <2>1 DEF InFlight, Listed, Held
<1> QED
  BY <1>1, <1>2 DEF LossInv, Found, Begun, Opening, Pushed, Queued

LEMMA LossInvariance == Spec => [](IInv /\ LossInv)
<1>1. IInv /\ LossInv /\ [Next]_vars => LossInv'
  BY PlaceStep, BegunStep, OpeningStep, FinishedStep DEF LossInv
<1>2. IInv /\ [Next]_vars => IInv'
  BY TypeStep, FlowStep, OwnerStep, SizedStep DEF IInv
<1> QED
  BY InitIInv, InitLossInv, <1>1, <1>2, PTL DEF Spec

(* handle_packet and the writer hand over nothing but frames as the camera *)
(* sent them, whatever the threads and the buffers do, if the bus loses    *)
(* nothing.                                                                *)
THEOREM FramesStayWhole == Spec => []LosslessFramesWhole
<1>1. LossInv => LosslessFramesWhole
  BY ConstantFacts DEF LossInv, Unharmed, Queued, WholeOrLoss, LosslessFramesWhole
<1> QED
  BY LossInvariance, <1>1, PTL

(* handle_packet takes a mixture of two frames for a frame, with no frame  *)
(* counted as broken, only after a whole frame's worth of packets is lost. *)
THEOREM SplicesNeedLosses == Spec => []SilentSpliceNeedsLoss
<1>1. LossInv => SilentSpliceNeedsLoss
  BY DEF LossInv, Unharmed, Queued, WholeOrLoss, SilentSpliceNeedsLoss, Spliced
<1> QED
  BY LossInvariance, <1>1, PTL
=============================================================================
