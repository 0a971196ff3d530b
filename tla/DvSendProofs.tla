---------------------------- MODULE DvSendProofs ----------------------------
(***************************************************************************)
(* Theorems about DvSend, for any inputs, start and end, and any number of *)
(* buffers.                                                                *)
(***************************************************************************)
EXTENDS DvSend, BufListsProofs

USE DEF PushBack, Rest

Preparing == pc \in {"open", "skip", "failed"}

(* Which blocks are in hand at which point of the two threads. *)
Flow ==
  /\ pc \in {"transmit", "release"} <=> f_node # NULL
  /\ rpc \in {"read", "give_up", "push"} <=> rf # NULL
  /\ rpc = "none" <=> Preparing

(* Main holds a frame of the inputs it has not sent yet. *)
Due == pc = "transmit" /\ data[f_node] # UnderrunFrame

(* The number of the last frame that has left the queue. *)
Taken == IF Due THEN bus + 1 ELSE bus

(* How many frames are on their way. *)
InTransit == Len(buf_queue) + (IF Due THEN 1 ELSE 0)

(* The frames between the inputs and the bus are numbered without a gap.   *)
Numbered ==
  /\ Preparing => /\ frames_read + start_frame = StartFrame /\ bus = StartFrame
                  /\ buf_queue = <<>>
  /\ Due => data[f_node] = bus + 1
  /\ \A i \in 1..Len(buf_queue) : data[buf_queue[i]] = Taken + i
  /\ ~Preparing => frames_read = Taken + Len(buf_queue) + (IF rpc = "push" THEN 1 ELSE 0)
  /\ rpc = "push" => data[rf] = frames_read

IInv == TypeOK /\ Flow /\ OneOwner /\ Numbered

LEMMA ConstantFacts ==
  /\ Files \in Seq(Nat \cup {Missing}) /\ Len(Files) \in Nat
  /\ StartFrame \in Nat /\ NBuffers \in Nat /\ MaxBufferBlocks \in Nat
  /\ MaxAlloc \in Nat /\ RaiseStep \in Nat
BY SendAssumption, LenProperties

LEMMA BlockNumbers ==
  /\ Blocks \subseteq Nat \ {0}
  /\ \A q \in Seq(Blocks) : q \in Seq(Nat \ {0})
<1>1. Blocks \subseteq Nat \ {0}
  BY ConstantFacts DEF Blocks
<1> QED
  BY <1>1, SeqMonotonic

-----------------------------------------------------------------------------
(* The initial states. *)
LEMMA InitIInv == Init => IInv
<1> SUFFICES ASSUME Init PROVE IInv
  OBVIOUS
<1>1. <<>> \in Seq(Blocks) /\ Len(<<>>) = 0
  BY EmptySeq
<1>2. TypeOK
  <2>1. data \in [Blocks -> Nat]
    BY DEF Init, UnderrunFrame
  <2>2. is_eof \in BOOLEAN /\ underrun_data_frame \in BOOLEAN /\ fire \in BOOLEAN
    BY DEF Init
  <2> QED
    BY <1>1, <2>1, <2>2, ConstantFacts DEF Init, TypeOK
<1>3. Flow
  BY DEF Init, Flow, Preparing, NULL
<1>4. OneOwner
  BY <1>1 DEF Init, OneOwner, ExactlyOneOwner, AllAccounted, InHand, Held, Listed,
              NoRepeats, NULL
<1>5. Numbered
  BY <1>1, ConstantFacts DEF Init, Numbered, Preparing, Taken, Due
<1> QED
  BY <1>2, <1>3, <1>4, <1>5 DEF IInv

-----------------------------------------------------------------------------
(* Type correctness is preserved. *)
LEMMA TypeStep == IInv /\ [Next]_vars => TypeOK'
<1> SUFFICES ASSUME IInv, [Next]_vars PROVE TypeOK'
  OBVIOUS
<1> USE DEF blockVars, inputVars, mainVars, readerVars
<1>t. TypeOK /\ Flow
  BY DEF IInv
<1>1. CASE OpenFirst
  BY <1>1, <1>t, ConstantFacts DEF OpenFirst, OpenNextInput, NextOpens, TypeOK
<1>2. CASE SkipFrame
  BY <1>2, <1>t, ConstantFacts DEF SkipFrame, ReadFrame, TypeOK
<1>3. CASE SkipToNextInput
  BY <1>3, <1>t, ConstantFacts DEF SkipToNextInput, OpenNextInput, NextOpens, TypeOK
<1>4. CASE CreateReader
  BY <1>4, <1>t, ConstantFacts DEF CreateReader, TypeOK
<1>5. CASE StartWaiting
  BY <1>5, <1>t, ConstantFacts DEF StartWaiting, TypeOK
<1>6. CASE EnterLoop
  BY <1>6, <1>t, ConstantFacts DEF EnterLoop, TypeOK
<1>7. CASE NextBuffer
  BY <1>7, <1>t, ConstantFacts DEF NextBuffer, TypeOK
<1>8. CASE CheckEof
  BY <1>8, <1>t, ConstantFacts DEF CheckEof, TypeOK
<1>9. CASE GetFromMalloc
  <2>1. alloc' \in 0..MaxAlloc /\ f_node' \in Blocks \cup {NULL}
    BY <1>9, <1>t, ConstantFacts, SMTT(30) DEF GetFromMalloc, MayMalloc, Blocks, TypeOK
  <2>2. data' \in [Blocks -> Nat]
    <3>1. data' = data \/ data' = [data EXCEPT ![f_node'] = 0]
      BY <1>9 DEF GetFromMalloc, UnderrunFrame
    <3> QED
      BY <1>t, <3>1, SMTT(30) DEF TypeOK
  <2> QED
    BY <1>9, <1>t, <2>1, <2>2 DEF GetFromMalloc, TypeOK
<1>10. CASE Transmit
  <2>1. bus' \in Nat
    BY <1>10, <1>t DEF Transmit, TypeOK, Flow
  <2> QED
    BY <1>10, <1>t, <2>1 DEF Transmit, TypeOK
<1>11. CASE SignalReader
  <2>1. fire' \in BOOLEAN
    BY <1>11, <1>t DEF SignalReader, TypeOK
  <2>2. start_frame' \in Nat
    BY <1>11, <1>t DEF SignalReader, TypeOK
  <2> QED
    BY <1>11, <1>t, <2>1, <2>2 DEF SignalReader, TypeOK
<1>12. CASE JoinReader
  BY <1>12, <1>t, ConstantFacts DEF JoinReader, TypeOK
<1>13. CASE ReaderGetFromMalloc
  BY <1>13, <1>t, ConstantFacts, SMTT(30) DEF ReaderGetFromMalloc, FillReturns, MayMalloc, Blocks, TypeOK
<1>14. CASE ReaderRead
  <2>1. pos' \in Nat /\ frames_read' \in Nat
    BY <1>14, <1>t DEF ReaderRead, ReadFrame, TypeOK
  <2>2. data' \in [Blocks -> Nat]
    <3>1. data' = [data EXCEPT ![rf] = frames_read + 1] /\ frames_read + 1 \in Nat
      BY <1>14, <1>t DEF ReaderRead, TypeOK
    <3> QED
      BY <1>t, <3>1 DEF TypeOK
  <2> QED
    BY <1>14, <1>t, <2>1, <2>2 DEF ReaderRead, ReadFrame, TypeOK
<1>15. CASE ReaderNextInput
  <2>1. is_eof' \in BOOLEAN /\ underrun_data_frame' \in BOOLEAN
    BY <1>15, <1>t DEF ReaderNextInput, OpenNextInput, TypeOK
  <2>2. file' \in 0..Len(Files) /\ pos' \in Nat /\ frames_read' \in Nat
    BY <1>15, <1>t, ConstantFacts DEF ReaderNextInput, OpenNextInput, NextOpens, TypeOK
  <2> QED
    BY <1>15, <1>t, <2>1, <2>2 DEF ReaderNextInput, TypeOK
<1>16. CASE ReaderSignal
  BY <1>16, <1>t, ConstantFacts DEF ReaderSignal, WokenMain, TypeOK
<1>17. CASE ReaderCheck
  BY <1>17, <1>t, ConstantFacts DEF ReaderCheck, TypeOK
<1>18. CASE ReaderWait
  BY <1>18, <1>t, ConstantFacts DEF ReaderWait, TypeOK
<1>19. CASE WakeSpuriously
  <2>1. fire' \in BOOLEAN
    BY <1>19, <1>t DEF WakeSpuriously, TypeOK
  <2>2. UNCHANGED underrun_data_frame
    BY <1>19 DEF WakeSpuriously
  <2>3. /\ pc' \in {pc, "loop", "pop_again"}
        /\ rpc' \in {rpc, "get"}
    BY <1>19 DEF WakeSpuriously, WokenMain
  <2> QED
    BY <1>19, <1>t, <2>1, <2>2, <2>3 DEF WakeSpuriously, TypeOK
<1>20. ASSUME NEW place \in {"check_eof", "crashed"}, Pop(place) PROVE TypeOK'
  <2>1. buf_queue # <<>> => /\ Head(buf_queue) \in Blocks
                           /\ Tail(buf_queue) \in Seq(Blocks)
    BY <1>t, HeadTailProperties DEF TypeOK
  <2> QED
    BY <1>20, <1>t, <2>1, ZenonT(60) DEF Pop, TypeOK
<1>21. CASE PopFrame
  BY <1>20, <1>21 DEF PopFrame
<1>22. CASE PopAgain
  BY <1>20, <1>22 DEF PopAgain
<1>23. CASE GetFromFreeList
  <2>1. free_list # <<>> => /\ Head(free_list) \in Blocks
                           /\ Tail(free_list) \in Seq(Blocks)
    BY <1>t, HeadTailProperties DEF TypeOK
  <2> QED
    <3>1. f_node' \in Blocks \cup {NULL}
      BY <1>23, <1>t, <2>1 DEF GetFromFreeList, TypeOK
    <3>2. data' = data \/ data' = [data EXCEPT ![f_node'] = 0]
      BY <1>23 DEF GetFromFreeList, UnderrunFrame
    <3>3. data' \in [Blocks -> Nat]
      BY <1>t, <3>2, SMTT(30) DEF TypeOK
    <3> QED
      BY <1>23, <1>t, <2>1, <3>1, <3>3, ZenonT(60) DEF GetFromFreeList, TypeOK
<1>24. CASE ReleaseBlock
  <2>1. Append(free_list, f_node) \in Seq(Blocks)
    BY <1>24, <1>t, AppendProperties DEF ReleaseBlock, TypeOK, Flow
  <2> QED
    BY <1>24, <1>t, <2>1 DEF ReleaseBlock, TypeOK
<1>25. CASE ReaderGetFromFreeList
  <2>1. free_list # <<>> => /\ Head(free_list) \in Blocks
                           /\ Tail(free_list) \in Seq(Blocks)
    BY <1>t, HeadTailProperties DEF TypeOK
  <2> QED
    BY <1>25, <1>t, <2>1, ZenonT(60) DEF ReaderGetFromFreeList, TypeOK
<1>26. CASE ReaderGiveUp
  <2>1. Append(free_list, rf) \in Seq(Blocks)
    BY <1>26, <1>t, AppendProperties DEF ReaderGiveUp, TypeOK, Flow
  <2> QED
    BY <1>26, <1>t, <2>1 DEF ReaderGiveUp, FillReturns, TypeOK
<1>27. CASE ReaderPush
  <2>1. Append(buf_queue, rf) \in Seq(Blocks)
    BY <1>27, <1>t, AppendProperties DEF ReaderPush, TypeOK, Flow
  <2> QED
    BY <1>27, <1>t, <2>1 DEF ReaderPush, TypeOK
<1>28. CASE UNCHANGED vars
  BY <1>28, <1>t DEF vars, TypeOK
<1> QED
  BY <1>1, <1>2, <1>3, <1>4, <1>5, <1>6, <1>7, <1>8, <1>9, <1>10, <1>11, <1>12, <1>13,
     <1>14, <1>15, <1>16, <1>17, <1>18, <1>19, <1>21, <1>22, <1>23, <1>24, <1>25, <1>26,
     <1>27, <1>28 DEF Next, MainNext, ReaderNext

-----------------------------------------------------------------------------
(* What the threads have in hand is preserved. *)
LEMMA FlowStep == IInv /\ [Next]_vars => Flow'
<1> SUFFICES ASSUME IInv, [Next]_vars PROVE Flow'
  OBVIOUS
<1> USE DEF blockVars, inputVars, mainVars, readerVars, Preparing
<1>t. TypeOK /\ Flow
  BY DEF IInv
<1>b. \A b \in Blocks : b # NULL
  BY BlockNumbers DEF NULL
<1>1. CASE MainNext
  <2>1. rf' = rf
    BY <1>1 DEF MainNext, OpenFirst, SkipFrame, SkipToNextInput, CreateReader, StartWaiting,
       EnterLoop, NextBuffer, PopFrame, PopAgain, Pop, CheckEof, GetFromFreeList,
       GetFromMalloc, Transmit, ReleaseBlock, SignalReader, JoinReader
  <2>2. \/ rpc' = rpc /\ ~CreateReader
        \/ pc = "skip" /\ pc' = "start" /\ rpc' = "get"
        \/ rpc = "waiting" /\ rpc' = "get" /\ ~CreateReader
    <3>1. CASE CreateReader
      BY <3>1 DEF CreateReader
    <3>2. CASE SignalReader
      BY <3>2 DEF SignalReader, CreateReader
    <3>3. CASE ~CreateReader /\ ~SignalReader
      BY <1>1, <3>3 DEF MainNext, OpenFirst, SkipFrame, SkipToNextInput, StartWaiting,
         EnterLoop, NextBuffer, PopFrame, PopAgain, Pop, CheckEof, GetFromFreeList,
         GetFromMalloc, Transmit, ReleaseBlock, JoinReader
    <3> QED
      BY <3>1, <3>2, <3>3
  <2>3. pc' \in {"transmit", "release"} <=> f_node' # NULL
    <3>1. CASE PopFrame \/ PopAgain
      <4>1. buf_queue # <<>> => Head(buf_queue) \in Blocks
        BY <1>t, HeadTailProperties DEF TypeOK
      <4> QED
        BY <3>1, <4>1, <1>t, <1>b DEF PopFrame, PopAgain, Pop, Flow
    <3>2. CASE GetFromFreeList
      <4>1. free_list # <<>> => Head(free_list) \in Blocks
        BY <1>t, HeadTailProperties DEF TypeOK
      <4> QED
        BY <3>2, <4>1, <1>t, <1>b DEF GetFromFreeList, Flow
    <3>3. CASE GetFromMalloc
      <4>1. MayMalloc => alloc + 1 # NULL
        BY <1>t, ConstantFacts DEF TypeOK, NULL
      <4> QED
        BY <3>3, <4>1, <1>t DEF GetFromMalloc, Flow
    <3>4. CASE ~(PopFrame \/ PopAgain \/ GetFromFreeList \/ GetFromMalloc)
      BY <1>1, <3>4, <1>t DEF Flow, MainNext, OpenFirst, SkipFrame, SkipToNextInput,
         CreateReader, StartWaiting, EnterLoop, NextBuffer, CheckEof, Transmit,
         ReleaseBlock, SignalReader, JoinReader
    <3> QED
      BY <3>1, <3>2, <3>3, <3>4
  <2>4. rpc' = "none" <=> Preparing'
    BY <1>1, <1>t, <2>2 DEF Flow, MainNext, OpenFirst, SkipFrame, SkipToNextInput,
       CreateReader, StartWaiting, EnterLoop, NextBuffer, PopFrame, PopAgain, Pop, CheckEof,
       GetFromFreeList, GetFromMalloc, Transmit, ReleaseBlock, SignalReader, JoinReader
  <2> QED
    BY <1>t, <2>1, <2>2, <2>3, <2>4 DEF Flow
<1>2. CASE ReaderNext
  <2>1. f_node' = f_node /\ rpc # "none" /\ rpc' # "none"
    BY <1>2, <1>t DEF ReaderNext, ReaderGetFromFreeList, ReaderGetFromMalloc, ReaderRead,
       ReaderNextInput, ReaderGiveUp, ReaderPush, ReaderSignal, ReaderCheck, ReaderWait,
       FillReturns
  <2>2. \/ pc' = pc
        \/ pc = "start_waiting" /\ pc' = "loop"
        \/ pc = "underrun_waiting" /\ pc' = "pop_again"
    BY <1>2 DEF ReaderNext, ReaderGetFromFreeList, ReaderGetFromMalloc, ReaderRead,
       ReaderNextInput, ReaderGiveUp, ReaderPush, ReaderSignal, ReaderCheck, ReaderWait,
       WokenMain
  <2>3. rpc' \in {"read", "give_up", "push"} <=> rf' # NULL
    <3>1. CASE ReaderGetFromFreeList
      <4>1. free_list # <<>> => Head(free_list) \in Blocks
        BY <1>t, HeadTailProperties DEF TypeOK
      <4> QED
        BY <3>1, <4>1, <1>t, <1>b DEF ReaderGetFromFreeList, Flow
    <3>2. CASE ReaderGetFromMalloc
      <4>1. MayMalloc => alloc + 1 # NULL
        BY <1>t, ConstantFacts DEF TypeOK, NULL
      <4> QED
        BY <3>2, <4>1, <1>t DEF ReaderGetFromMalloc, FillReturns, Flow
    <3>3. CASE ~(ReaderGetFromFreeList \/ ReaderGetFromMalloc)
      BY <1>2, <3>3, <1>t DEF Flow, ReaderNext, ReaderRead, ReaderNextInput, ReaderGiveUp,
         ReaderPush, ReaderSignal, ReaderCheck, ReaderWait, FillReturns
    <3> QED
      BY <3>1, <3>2, <3>3
  <2> QED
    BY <1>t, <2>1, <2>2, <2>3 DEF Flow
<1>3. CASE WakeSpuriously
  BY <1>3, <1>t DEF WakeSpuriously, WokenMain, Flow
<1>4. CASE UNCHANGED vars
  BY <1>4, <1>t DEF vars, Flow
<1> QED
  BY <1>1, <1>2, <1>3, <1>4 DEF Next

-----------------------------------------------------------------------------
(* Every block keeps exactly one owner. *)
LEMMA OwnerStep == IInv /\ [Next]_vars => OneOwner'
<1> SUFFICES ASSUME IInv, [Next]_vars PROVE OneOwner'
  OBVIOUS
<1> USE DEF blockVars, inputVars, mainVars, readerVars
<1>t. TypeOK /\ Flow
  BY DEF IInv
<1>o. Owned(buf_queue, free_list, f_node, rf, alloc)
  BY DEF IInv, OneOwner, Owned
<1>q. /\ buf_queue \in Seq(Nat \ {0}) /\ free_list \in Seq(Nat \ {0}) /\ alloc \in Nat
      /\ f_node # NULL => f_node \in Nat \ {0}
      /\ rf # NULL => rf \in Nat \ {0}
  BY <1>t, BlockNumbers, ConstantFacts DEF TypeOK
<1> SUFFICES Owned(buf_queue', free_list', f_node', rf', alloc')
  BY DEF OneOwner, Owned
<1>1. CASE UNCHANGED <<buf_queue, free_list, f_node, rf, alloc>>
  BY <1>1, <1>o
<1>2. CASE (PopFrame \/ PopAgain) /\ buf_queue # <<>>
  <2>1. f_node = NULL
    BY <1>2, <1>t DEF PopFrame, PopAgain, Flow
  <2>2. Owned(Tail(buf_queue), free_list, Head(buf_queue), rf, alloc)
    BY <1>2, <1>o, <1>q, <2>1, OwnedPop
  <2> QED
    BY <1>2, <2>2 DEF PopFrame, PopAgain, Pop
<1>3. CASE GetFromFreeList /\ free_list # <<>>
  <2>1. f_node = NULL /\ Tail(free_list) \in Seq(Nat \ {0})
    BY <1>3, <1>t, <1>q, HeadTailProperties DEF GetFromFreeList, Flow
  <2>2. Owned(free_list, buf_queue, NULL, rf, alloc)
    BY <1>o, <1>q, <2>1, OwnedSymmetry
  <2>3. Owned(Tail(free_list), buf_queue, Head(free_list), rf, alloc)
    BY <1>3, <1>q, <2>2, OwnedPop
  <2>4. Owned(buf_queue, Tail(free_list), Head(free_list), rf, alloc)
    BY <1>q, <2>1, <2>3, OwnedSymmetry
  <2> QED
    BY <1>3, <2>4 DEF GetFromFreeList
<1>4. CASE GetFromMalloc /\ MayMalloc
  <2>1. f_node = NULL
    BY <1>4, <1>t DEF GetFromMalloc, Flow
  <2>2. Owned(buf_queue, free_list, alloc + 1, rf, alloc + 1)
    BY <1>o, <1>q, <2>1, OwnedMalloc
  <2> QED
    BY <1>4, <2>2 DEF GetFromMalloc
<1>5. CASE ReleaseBlock
  <2>1. f_node \in Nat \ {0}
    BY <1>5, <1>t, <1>q DEF ReleaseBlock, Flow
  <2>2. Append(free_list, f_node) \in Seq(Nat \ {0})
    BY <1>q, <2>1, AppendProperties
  <2>3. Owned(free_list, buf_queue, f_node, rf, alloc)
    BY <1>o, <1>q, OwnedSymmetry
  <2>4. Owned(Append(free_list, f_node), buf_queue, NULL, rf, alloc)
    BY <1>q, <2>1, <2>3, OwnedPush
  <2>5. Owned(buf_queue, Append(free_list, f_node), NULL, rf, alloc)
    BY <1>q, <2>2, <2>4, OwnedSymmetry
  <2> QED
    BY <1>5, <2>5 DEF ReleaseBlock
<1>6. CASE ReaderGetFromFreeList /\ free_list # <<>>
  <2>1. rf = NULL /\ Tail(free_list) \in Seq(Nat \ {0})
    BY <1>6, <1>t, <1>q, HeadTailProperties DEF ReaderGetFromFreeList, Flow
  <2>2. Owned(free_list, buf_queue, NULL, f_node, alloc)
    BY <1>o, <1>q, <2>1, OwnedSymmetry
  <2>3. Owned(Tail(free_list), buf_queue, Head(free_list), f_node, alloc)
    BY <1>6, <1>q, <2>2, OwnedPop
  <2>4. Owned(buf_queue, Tail(free_list), f_node, Head(free_list), alloc)
    BY <1>q, <2>1, <2>3, OwnedSymmetry
  <2> QED
    BY <1>6, <2>4 DEF ReaderGetFromFreeList
<1>7. CASE ReaderGetFromMalloc /\ MayMalloc
  <2>1. rf = NULL
    BY <1>7, <1>t DEF ReaderGetFromMalloc, Flow
  <2>2. Owned(buf_queue, free_list, NULL, f_node, alloc)
    BY <1>o, <1>q, <2>1, OwnedSymmetry
  <2>3. Owned(buf_queue, free_list, alloc + 1, f_node, alloc + 1)
    BY <1>q, <2>2, OwnedMalloc
  <2>4. Owned(buf_queue, free_list, f_node, alloc + 1, alloc + 1)
    BY <1>q, <2>3, OwnedSymmetry
  <2> QED
    BY <1>7, <2>4 DEF ReaderGetFromMalloc
<1>8. CASE ReaderGiveUp
  <2>1. rf \in Nat \ {0}
    BY <1>8, <1>t, <1>q DEF ReaderGiveUp, Flow
  <2>2. Append(free_list, rf) \in Seq(Nat \ {0})
    BY <1>q, <2>1, AppendProperties
  <2>3. Owned(free_list, buf_queue, rf, f_node, alloc)
    BY <1>o, <1>q, OwnedSymmetry
  <2>4. Owned(Append(free_list, rf), buf_queue, NULL, f_node, alloc)
    BY <1>q, <2>1, <2>3, OwnedPush
  <2>5. Owned(buf_queue, Append(free_list, rf), f_node, NULL, alloc)
    BY <1>q, <2>2, <2>4, OwnedSymmetry
  <2> QED
    BY <1>8, <2>5 DEF ReaderGiveUp
<1>9. CASE ReaderPush
  <2>1. rf \in Nat \ {0}
    BY <1>9, <1>t, <1>q DEF ReaderPush, Flow
  <2>2. Append(buf_queue, rf) \in Seq(Nat \ {0})
    BY <1>q, <2>1, AppendProperties
  <2>3. Owned(buf_queue, free_list, rf, f_node, alloc)
    BY <1>o, <1>q, OwnedSymmetry
  <2>4. Owned(Append(buf_queue, rf), free_list, NULL, f_node, alloc)
    BY <1>q, <2>1, <2>3, OwnedPush
  <2>5. Owned(Append(buf_queue, rf), free_list, f_node, NULL, alloc)
    BY <1>q, <2>2, <2>4, OwnedSymmetry
  <2> QED
    BY <1>9, <2>5 DEF ReaderPush
<1>10. \/ UNCHANGED <<buf_queue, free_list, f_node, rf, alloc>>
       \/ (PopFrame \/ PopAgain) /\ buf_queue # <<>>
       \/ GetFromFreeList /\ free_list # <<>>
       \/ GetFromMalloc /\ MayMalloc
       \/ ReleaseBlock
       \/ ReaderGetFromFreeList /\ free_list # <<>>
       \/ ReaderGetFromMalloc /\ MayMalloc
       \/ ReaderGiveUp \/ ReaderPush
  BY DEF Next, vars, MainNext, ReaderNext, OpenFirst, SkipFrame, SkipToNextInput,
     CreateReader, StartWaiting, EnterLoop, NextBuffer, PopFrame, PopAgain, Pop, CheckEof,
     GetFromFreeList, GetFromMalloc, Transmit, SignalReader, JoinReader,
     ReaderGetFromFreeList, ReaderGetFromMalloc, ReaderRead, ReaderNextInput, ReaderSignal,
     ReaderCheck, ReaderWait, WakeSpuriously
<1> QED
  BY <1>1, <1>2, <1>3, <1>4, <1>5, <1>6, <1>7, <1>8, <1>9, <1>10
-----------------------------------------------------------------------------
(* A block in hand, or one about to be taken, is not queued.               *)
LEMMA Apart ==
  ASSUME IInv
  PROVE  /\ f_node # NULL => f_node \notin Listed(buf_queue) /\ f_node # rf
         /\ rf # NULL => rf \notin Listed(buf_queue)
         /\ free_list # <<>> => /\ Head(free_list) \in Blocks
                                /\ Head(free_list) \notin Listed(buf_queue)
                                /\ Head(free_list) # rf
         /\ alloc + 1 \notin Listed(buf_queue) /\ alloc + 1 # rf
<1>t. TypeOK /\ ExactlyOneOwner(buf_queue, free_list, f_node, rf, alloc)
  BY DEF IInv, OneOwner
<1>1. Held(f_node) = (IF f_node = NULL THEN {} ELSE {f_node})
      /\ Held(rf) = (IF rf = NULL THEN {} ELSE {rf})
  BY DEF Held
<1>2. free_list # <<>> => Head(free_list) \in Blocks /\ Head(free_list) \in Listed(free_list)
  <2>1. ASSUME free_list # <<>> PROVE Head(free_list) = free_list[1] /\ 1 \in 1..Len(free_list)
    BY <1>t, <2>1, HeadTailProperties, LenProperties, EmptySeq DEF TypeOK
  <2> QED
    BY <1>t, <2>1, HeadTailProperties DEF TypeOK, Listed
<1>3. alloc \in Nat /\ alloc + 1 \notin 1..alloc /\ alloc + 1 # NULL
  BY <1>t, ConstantFacts DEF TypeOK, NULL
<1>4. Head(free_list) \in Blocks => Head(free_list) # NULL
  BY BlockNumbers DEF NULL
<1> QED
  BY <1>t, <1>1, <1>2, <1>3, <1>4 DEF ExactlyOneOwner

(* A write to a block that is not queued leaves the queued frames alone.   *)
LEMMA QueuedFramesKept ==
  ASSUME TypeOK, NEW b, NEW v, b \notin Listed(buf_queue), data' = [data EXCEPT ![b] = v]
  PROVE  \A i \in 1..Len(buf_queue) : data'[buf_queue[i]] = data[buf_queue[i]]
<1> SUFFICES ASSUME NEW i \in 1..Len(buf_queue)
             PROVE  data'[buf_queue[i]] = data[buf_queue[i]]
  OBVIOUS
<1>1. buf_queue[i] # b
  BY DEF Listed
<1>2. buf_queue[i] \in Blocks
  BY ElementOfSeq DEF TypeOK
<1> QED
  BY <1>1, <1>2 DEF TypeOK

(* The steps before the reader exists. *)
LEMMA NumberedPreparing ==
  ASSUME IInv, OpenFirst \/ SkipFrame \/ SkipToNextInput \/ CreateReader
  PROVE  Numbered' /\ InTransit' = InTransit /\ bus' = bus
<1> USE DEF blockVars, inputVars, mainVars, readerVars, Preparing
<1>t. TypeOK /\ Flow /\ Numbered
  BY DEF IInv
<1>1. Preparing /\ rpc = "none" /\ pc # "transmit"
  BY <1>t DEF Flow, OpenFirst, SkipFrame, SkipToNextInput, CreateReader
<1>2. /\ frames_read + start_frame = StartFrame /\ bus = StartFrame /\ buf_queue = <<>>
  BY <1>t, <1>1 DEF Numbered
<1>3. /\ buf_queue' = <<>> /\ bus' = StartFrame /\ rpc' # "push" /\ pc' # "transmit"
  BY <1>1, <1>2 DEF OpenFirst, SkipFrame, SkipToNextInput, CreateReader
<1>4. frames_read' + start_frame' = StartFrame
  BY <1>t, <1>2, ConstantFacts, SMTT(30) DEF TypeOK, OpenFirst, SkipFrame, SkipToNextInput,
     CreateReader, ReadFrame, OpenNextInput
<1>6. Len(buf_queue') = 0 /\ 1..0 = {}
  BY <1>3, EmptySeq
<1>7. frames_read' \in Nat /\ StartFrame \in Nat
  BY <1>t, ConstantFacts DEF TypeOK, OpenFirst, SkipFrame, SkipToNextInput, CreateReader,
     ReadFrame, OpenNextInput
<1>8. ~Due' /\ Taken' = StartFrame
  BY <1>3 DEF Due, Taken
<1>9. ~Preparing' => frames_read' = StartFrame
  <2>1. ~Preparing' => CreateReader
    BY <1>1 DEF OpenFirst, SkipFrame, SkipToNextInput, OpenNextInput
  <2>2. CreateReader => frames_read' = frames_read /\ start_frame = 0
    BY DEF CreateReader
  <2>3. frames_read \in Nat
    BY <1>t DEF TypeOK
  <2>4. start_frame = 0 => frames_read = StartFrame
    BY <1>2, <2>3
  <2> QED
    BY <2>1, <2>2, <2>4
<1>10. Numbered'
  BY <1>3, <1>4, <1>6, <1>7, <1>8, <1>9 DEF Numbered
<1>11. InTransit' = InTransit
  BY <1>1, <1>2, <1>3, <1>8 DEF InTransit, Due
<1> QED
  BY <1>2, <1>3, <1>10, <1>11

(* The steps that move no frame. *)
Idle ==
  /\ UNCHANGED <<buf_queue, data, bus, frames_read>>
  /\ ~Preparing /\ ~Preparing'
  /\ pc' = "transmit" <=> pc = "transmit"
  /\ rpc' = "push" <=> rpc = "push"
  /\ pc = "transmit" => f_node' = f_node
  /\ rpc = "push" => rf' = rf

LEMMA NumberedIdle ==
  ASSUME IInv, Idle PROVE Numbered' /\ InTransit' = InTransit /\ bus' = bus
<1>1. Numbered
  BY DEF IInv
<1>2. (Due' <=> Due) /\ Taken' = Taken
  BY DEF Idle, Due, Taken
<1>3. Due => data'[f_node'] = bus' + 1
  BY <1>1 DEF Numbered, Idle, Due
<1> QED
  BY <1>1, <1>2, <1>3 DEF Numbered, Idle, InTransit

(* pop_front by main. *)
LEMMA NumberedPop ==
  ASSUME IInv, PopFrame \/ PopAgain, buf_queue # <<>>
  PROVE  Numbered' /\ InTransit' = InTransit /\ bus' = bus
<1> USE DEF inputVars, readerVars, Preparing
<1>t. TypeOK /\ Flow /\ Numbered
  BY DEF IInv
<1>1. /\ pc \in {"pop", "pop_again"} /\ pc' = "transmit"
      /\ f_node' = Head(buf_queue) /\ buf_queue' = Tail(buf_queue)
      /\ UNCHANGED <<data, bus, frames_read, rpc, rf>>
  BY DEF PopFrame, PopAgain, Pop
<1>2. ~Due /\ Taken = bus /\ bus \in Nat /\ frames_read \in Nat
  BY <1>1, <1>t DEF Due, Taken, TypeOK
<1>3. /\ Len(buf_queue) \in Nat /\ Len(buf_queue) > 0
      /\ Len(buf_queue') = Len(buf_queue) - 1
      /\ \A i \in 1..Len(buf_queue') : buf_queue'[i] = buf_queue[i + 1]
      /\ f_node' = buf_queue[1]
  BY <1>t, <1>1, HeadTailProperties, LenProperties, EmptySeq DEF TypeOK
<1>4. \A i \in 1..Len(buf_queue) : data[buf_queue[i]] = bus + i
  BY <1>t, <1>2 DEF Numbered
<1>5. data'[f_node'] = bus' + 1
  BY <1>1, <1>3, <1>4
<1>6. Due' /\ Taken' = bus + 1
  BY <1>1, <1>2, <1>5 DEF Due, Taken, UnderrunFrame
<1>7. ASSUME NEW i \in 1..Len(buf_queue') PROVE data'[buf_queue'[i]] = Taken' + i
  <2>1. i + 1 \in 1..Len(buf_queue) /\ buf_queue'[i] = buf_queue[i + 1]
    BY <1>3
  <2>2. data'[buf_queue'[i]] = bus + (i + 1)
    BY <1>1, <1>4, <2>1
  <2> QED
    BY <1>2, <1>3, <1>6, <2>2
<1>8. frames_read' = Taken' + Len(buf_queue') + (IF rpc' = "push" THEN 1 ELSE 0)
  <2>1. frames_read = bus + Len(buf_queue) + (IF rpc = "push" THEN 1 ELSE 0)
    BY <1>t, <1>1, <1>2 DEF Numbered
  <2> QED
    BY <1>1, <1>2, <1>3, <1>6, <2>1
<1>9. rpc' = "push" => data'[rf'] = frames_read'
  BY <1>t, <1>1 DEF Numbered
<1>10. Numbered'
  BY <1>1, <1>5, <1>7, <1>8, <1>9 DEF Numbered
<1>11. InTransit' = InTransit
  BY <1>2, <1>3, <1>6 DEF InTransit
<1> QED
  BY <1>1, <1>10, <1>11

(* get_free_block by main, for the underrun frame. *)
LEMMA NumberedUnderrun ==
  ASSUME IInv, \/ GetFromFreeList /\ free_list # <<>>
               \/ GetFromMalloc /\ MayMalloc
  PROVE  Numbered' /\ InTransit' = InTransit /\ bus' = bus
<1> USE DEF inputVars, readerVars, Preparing
<1>t. TypeOK /\ Flow /\ Numbered
  BY DEF IInv
<1>1. /\ pc \in {"get", "malloc"} /\ pc' = "transmit"
      /\ UNCHANGED <<buf_queue, bus, frames_read, rpc, rf>>
      /\ data' = [data EXCEPT ![f_node'] = UnderrunFrame]
  BY DEF GetFromFreeList, GetFromMalloc
<1>2. f_node' \notin Listed(buf_queue) /\ f_node' # rf /\ f_node' \in Blocks
  <2>1. CASE GetFromFreeList /\ free_list # <<>>
    BY <2>1, Apart DEF GetFromFreeList
  <2>2. CASE GetFromMalloc /\ MayMalloc
    <3>1. alloc + 1 \in Blocks
      BY <2>2, <1>t, ConstantFacts DEF MayMalloc, Blocks, TypeOK
    <3> QED
      BY <2>2, <3>1, Apart DEF GetFromMalloc
  <2> QED
    BY <2>1, <2>2
<1>3. ~Due /\ ~Due' /\ Taken = bus /\ Taken' = bus
  <2>1. data'[f_node'] = UnderrunFrame
    BY <1>1, <1>2, <1>t DEF TypeOK
  <2> QED
    BY <1>1, <2>1 DEF Due, Taken
<1>4. \A i \in 1..Len(buf_queue) : data'[buf_queue[i]] = data[buf_queue[i]]
  BY <1>1, <1>2, <1>t, QueuedFramesKept
<1>5. rpc = "push" => rf \in Blocks /\ data'[rf] = data[rf]
  BY <1>1, <1>2, <1>t DEF TypeOK, Flow
<1>6. Numbered'
  BY <1>1, <1>3, <1>4, <1>5, <1>t DEF Numbered
<1> QED
  BY <1>1, <1>3, <1>6 DEF InTransit

(* The frame goes out. *)
LEMMA NumberedTransmit ==
  ASSUME IInv, Transmit
  PROVE  /\ Numbered'
         /\ InTransit' = Len(buf_queue)
         /\ bus' = (IF Due THEN bus + 1 ELSE bus)
<1> USE DEF blockVars, inputVars, readerVars, mainVars, Preparing
<1>t. TypeOK /\ Flow /\ Numbered
  BY DEF IInv
<1>1. /\ pc = "transmit" /\ pc' = "release"
      /\ UNCHANGED <<buf_queue, data, frames_read, rpc, rf>>
  BY DEF Transmit
<1>2. bus' = Taken
  <2>1. CASE Due
    BY <1>t, <2>1 DEF Transmit, Numbered, Taken, Due
  <2>2. CASE ~Due
    BY <1>1, <2>2 DEF Transmit, Taken, Due
  <2> QED
    BY <2>1, <2>2
<1>3. ~Due' /\ Taken' = Taken
  BY <1>1, <1>2 DEF Due, Taken
<1>4. Numbered'
  BY <1>1, <1>3, <1>t DEF Numbered
<1>5. InTransit' = Len(buf_queue)
  BY <1>1, <1>3, <1>t, LenProperties DEF InTransit, TypeOK
<1> QED
  BY <1>2, <1>4, <1>5 DEF Taken

(* The reader reads a frame into its block. *)
LEMMA NumberedRead ==
  ASSUME IInv, ReaderRead PROVE Numbered' /\ InTransit' = InTransit /\ bus' = bus
<1> USE DEF inputVars, readerVars, mainVars, Preparing
<1>t. TypeOK /\ Flow /\ Numbered
  BY DEF IInv
<1>1. /\ rpc = "read" /\ rpc' = "push" /\ frames_read' = frames_read + 1
      /\ UNCHANGED <<buf_queue, bus, pc, f_node, rf>>
      /\ data' = [data EXCEPT ![rf] = frames_read + 1]
  BY DEF ReaderRead, ReadFrame
<1>2. rf \in Blocks /\ rf # NULL /\ rf \notin Listed(buf_queue) /\ ~Preparing
      /\ (f_node # NULL => f_node # rf)
  BY <1>1, <1>t, Apart DEF Flow, TypeOK
<1>3. \A i \in 1..Len(buf_queue) : data'[buf_queue[i]] = data[buf_queue[i]]
  BY <1>1, <1>2, <1>t, QueuedFramesKept
<1>4. pc = "transmit" => data'[f_node] = data[f_node]
  BY <1>1, <1>2, <1>t DEF Flow, TypeOK
<1>5. (Due' <=> Due) /\ Taken' = Taken
  BY <1>1, <1>4 DEF Due, Taken
<1>6. Due => data'[f_node] = bus + 1
  BY <1>4, <1>t DEF Due, Numbered
<1>7. data'[rf] = frames_read'
  BY <1>1, <1>2, <1>t DEF TypeOK
<1>8. frames_read' = Taken' + Len(buf_queue') + (IF rpc' = "push" THEN 1 ELSE 0)
  <2>1. frames_read = Taken + Len(buf_queue) + 0
    BY <1>t, <1>1, <1>2 DEF Numbered
  <2>2. Taken \in Nat /\ Len(buf_queue) \in Nat
    BY <1>t, LenProperties DEF TypeOK, Taken
  <2> QED
    BY <1>1, <1>5, <2>1, <2>2
<1>9. \A i \in 1..Len(buf_queue') : data'[buf_queue'[i]] = Taken' + i
  BY <1>1, <1>3, <1>5, <1>t DEF Numbered
<1>10. Numbered'
  BY <1>1, <1>2, <1>5, <1>6, <1>7, <1>8, <1>9 DEF Numbered
<1> QED
  BY <1>1, <1>5, <1>10 DEF InTransit

(* push_back by the reader. *)
LEMMA NumberedPush ==
  ASSUME IInv, ReaderPush
  PROVE  Numbered' /\ InTransit' = InTransit + 1 /\ bus' = bus
<1> USE DEF inputVars, readerVars, mainVars, Preparing
<1>t. TypeOK /\ Flow /\ Numbered
  BY DEF IInv
<1>1. /\ rpc = "push" /\ rpc' # "push" /\ buf_queue' = Append(buf_queue, rf)
      /\ UNCHANGED <<data, bus, frames_read, pc, f_node>>
  BY DEF ReaderPush
<1>2. (Due' <=> Due) /\ Taken' = Taken /\ Taken \in Nat /\ ~Preparing /\ rf \in Blocks
  BY <1>1, <1>t DEF Due, Taken, TypeOK, Flow
<1>3. /\ Len(buf_queue) \in Nat /\ Len(buf_queue') = Len(buf_queue) + 1
      /\ \A i \in 1..Len(buf_queue) : buf_queue'[i] = buf_queue[i]
      /\ buf_queue'[Len(buf_queue) + 1] = rf
  BY <1>t, <1>1, <1>2, AppendProperties, LenProperties DEF TypeOK
<1>4. frames_read = Taken + Len(buf_queue) + 1 /\ data[rf] = frames_read
  BY <1>t, <1>1, <1>2 DEF Numbered
<1>5. ASSUME NEW i \in 1..Len(buf_queue') PROVE data'[buf_queue'[i]] = Taken' + i
  <2>1. CASE i \in 1..Len(buf_queue)
    BY <1>1, <1>2, <1>3, <1>t, <2>1 DEF Numbered
  <2>2. CASE i = Len(buf_queue) + 1
    BY <1>1, <1>2, <1>3, <1>4, <2>2
  <2> QED
    BY <1>3, <2>1, <2>2
<1>6. frames_read' = Taken' + Len(buf_queue') + (IF rpc' = "push" THEN 1 ELSE 0)
  BY <1>1, <1>2, <1>3, <1>4
<1>7. Due' => data'[f_node'] = bus' + 1
  BY <1>1, <1>2, <1>t DEF Numbered
<1>8. Numbered'
  BY <1>1, <1>2, <1>5, <1>6, <1>7 DEF Numbered
<1>9. InTransit' = InTransit + 1
  BY <1>2, <1>3 DEF InTransit
<1> QED
  BY <1>1, <1>8, <1>9

(* Every other step moves no frame. *)
LEMMA OthersIdle ==
  ASSUME IInv, Next,
         ~(OpenFirst \/ SkipFrame \/ SkipToNextInput \/ CreateReader),
         ~((PopFrame \/ PopAgain) /\ buf_queue # <<>>),
         ~(GetFromFreeList /\ free_list # <<>>), ~(GetFromMalloc /\ MayMalloc),
         ~Transmit, ~ReaderRead, ~ReaderPush
  PROVE  Idle
<1> USE DEF blockVars, inputVars, mainVars, readerVars, Preparing
<1>t. Flow
  BY DEF IInv
<1>1. CASE MainNext
  <2>1. UNCHANGED <<buf_queue, data, bus, frames_read, rf>>
    BY <1>1 DEF MainNext, StartWaiting, EnterLoop, NextBuffer, PopFrame, PopAgain, Pop,
       CheckEof, GetFromFreeList, GetFromMalloc, ReleaseBlock, SignalReader, JoinReader
  <2>2. ~Preparing /\ ~Preparing' /\ pc # "transmit" /\ pc' # "transmit"
    BY <1>1, <1>t DEF MainNext, StartWaiting, EnterLoop, NextBuffer, PopFrame, PopAgain,
       Pop, CheckEof, GetFromFreeList, GetFromMalloc, ReleaseBlock, SignalReader, JoinReader
  <2>3. rpc' = "push" <=> rpc = "push"
    BY <1>1 DEF MainNext, StartWaiting, EnterLoop, NextBuffer, PopFrame, PopAgain, Pop,
       CheckEof, GetFromFreeList, GetFromMalloc, ReleaseBlock, SignalReader, JoinReader
  <2> QED
    BY <2>1, <2>2, <2>3 DEF Idle
<1>2. CASE ReaderNext
  <2>1. UNCHANGED <<buf_queue, data, bus, frames_read, f_node>>
    BY <1>2 DEF ReaderNext, ReaderGetFromFreeList, ReaderGetFromMalloc, ReaderNextInput,
       OpenNextInput, ReaderGiveUp, ReaderSignal, ReaderCheck, ReaderWait
  <2>2. rpc # "none" /\ rpc # "push" /\ rpc' # "push"
    BY <1>2 DEF ReaderNext, ReaderGetFromFreeList, ReaderGetFromMalloc, ReaderNextInput,
       ReaderGiveUp, ReaderSignal, ReaderCheck, ReaderWait, FillReturns
  <2>3. \/ pc' = pc
        \/ pc = "start_waiting" /\ pc' = "loop"
        \/ pc = "underrun_waiting" /\ pc' = "pop_again"
    BY <1>2 DEF ReaderNext, ReaderGetFromFreeList, ReaderGetFromMalloc, ReaderNextInput,
       ReaderGiveUp, ReaderSignal, ReaderCheck, ReaderWait, WokenMain
  <2> QED
    BY <1>t, <2>1, <2>2, <2>3 DEF Idle, Flow
<1>3. CASE WakeSpuriously
  BY <1>3, <1>t DEF WakeSpuriously, WokenMain, Idle, Flow
<1> QED
  BY <1>1, <1>2, <1>3 DEF Next

LEMMA NumberedStep == IInv /\ [Next]_vars => Numbered'
<1> SUFFICES ASSUME IInv, [Next]_vars PROVE Numbered'
  OBVIOUS
<1>1. CASE UNCHANGED vars
  BY <1>1 DEF vars, blockVars, inputVars, mainVars, readerVars, IInv, Numbered, Preparing,
              Due, Taken
<1>2. CASE Next
  BY <1>2, OthersIdle, NumberedIdle, NumberedPreparing, NumberedPop, NumberedUnderrun,
     NumberedTransmit, NumberedRead, NumberedPush
<1> QED
  BY <1>1, <1>2

-----------------------------------------------------------------------------
(* The inductive invariant, and what follows from it. *)
LEMMA Invariance == Spec => []IInv
<1>1. IInv /\ [Next]_vars => IInv'
  BY TypeStep, FlowStep, OwnerStep, NumberedStep DEF IInv
<1> QED
  BY <1>1, InitIInv, PTL DEF Spec

(* The lists, the inputs and both threads keep their types. *)
THEOREM TypeCorrect == Spec => []TypeOK
<1>1. IInv => TypeOK
  BY DEF IInv
<1> QED
  BY <1>1, Invariance, PTL

(* Each block belongs to one list or one thread, in any interleaving. *)
THEOREM BlocksHaveOneOwner == Spec => []OneOwner
<1>1. IInv => OneOwner
  BY DEF IInv
<1> QED
  BY <1>1, Invariance, PTL

(* The step that puts a frame on the bus, and all the others. *)
LEMMA FrameSteps ==
  ASSUME IInv, [Next]_vars
  PROVE  \/ InTransit' = InTransit /\ bus' = bus
         \/ ReaderPush /\ InTransit' = InTransit + 1 /\ bus' = bus
         \/ Due /\ InTransit' = Len(buf_queue) /\ bus' = bus + 1
<1>1. CASE UNCHANGED vars
  BY <1>1 DEF vars, blockVars, inputVars, mainVars, readerVars, InTransit, Due
<1>2. CASE Transmit
  <2>1. CASE Due
    BY <1>2, <2>1, NumberedTransmit
  <2>2. CASE ~Due
    <3>1. InTransit = Len(buf_queue)
      BY <2>2, LenProperties DEF InTransit, IInv, TypeOK
    <3> QED
      BY <1>2, <2>2, <3>1, NumberedTransmit
  <2> QED
    BY <2>1, <2>2
<1>3. CASE Next /\ ~Transmit
  BY <1>3, OthersIdle, NumberedIdle, NumberedPreparing, NumberedPop, NumberedUnderrun,
     NumberedRead, NumberedPush
<1> QED
  BY <1>1, <1>2, <1>3

(* The frames of the inputs come out in order, none twice, none left out. *)
THEOREM FramesSentInOrder == Spec => SentInOrder
<1>1. IInv /\ [Next]_vars => [bus' = bus + 1]_bus
  BY FrameSteps
<1> QED
  BY <1>1, Invariance, PTL DEF Spec, SentInOrder

-----------------------------------------------------------------------------
(* The abstract channel holds the next InTransit frames.                   *)
Numbers(from, n) == [i \in 1..n |-> from + i]

LEMMA NumbersFacts ==
  ASSUME NEW from \in Nat, NEW n \in Nat
  PROVE  /\ Numbers(from, n) \in Seq(Nat) /\ Len(Numbers(from, n)) = n
         /\ \A i \in 1..n : Numbers(from, n)[i] = from + i
<1>1. \A i \in 1..n : from + i \in Nat
  OBVIOUS
<1>2. Numbers(from, n) \in [1..n -> Nat]
  BY <1>1 DEF Numbers
<1>3. Numbers(from, n) \in Seq(Nat)
  BY <1>2, SeqDef
<1> QED
  BY <1>2, <1>3, LenProperties DEF Numbers

NumbersPending ==
  /\ Pending = Numbers(bus, InTransit)
  /\ InTransit \in Nat /\ bus \in Nat

LEMMA PendingNumbers == IInv => NumbersPending
<1> SUFFICES ASSUME IInv PROVE NumbersPending
  OBVIOUS
<1> USE DEF NumbersPending
<1>t. TypeOK /\ Flow /\ Numbered
  BY DEF IInv
<1>1. buf_queue \in Seq(Blocks) /\ Len(buf_queue) \in Nat /\ bus \in Nat
  BY <1>t, LenProperties DEF TypeOK
<1>2. CASE Due
  <2>1. /\ f_node \in Blocks /\ Taken = bus + 1 /\ InTransit = Len(buf_queue) + 1
        /\ InOrder = <<f_node>> \o buf_queue /\ data[f_node] = bus + 1
    BY <1>2, <1>t DEF Due, Taken, InTransit, InOrder, Numbered, Flow, TypeOK
  <2>2. <<f_node>> \in Seq(Blocks) /\ Len(<<f_node>>) = 1 /\ <<f_node>>[1] = f_node
    BY <2>1
  <2>3. /\ Len(InOrder) = InTransit
        /\ \A i \in 1..InTransit :
             InOrder[i] = IF i <= 1 THEN <<f_node>>[i] ELSE buf_queue[i - 1]
    BY <1>1, <2>1, <2>2, ConcatProperties
  <2>4. ASSUME NEW i \in 1..InTransit PROVE data[InOrder[i]] = bus + i
    <3>1. CASE i = 1
      BY <2>1, <2>2, <2>3, <3>1
    <3>2. CASE i # 1
      <4>1. i - 1 \in 1..Len(buf_queue) /\ InOrder[i] = buf_queue[i - 1]
        BY <1>1, <2>1, <2>3, <3>2
      <4>2. data[buf_queue[i - 1]] = Taken + (i - 1)
        BY <1>t, <4>1 DEF Numbered
      <4> QED
        BY <1>1, <2>1, <4>1, <4>2
    <3> QED
      BY <3>1, <3>2
  <2> QED
    BY <1>1, <2>1, <2>3, <2>4 DEF Pending, Numbers
<1>3. CASE ~Due
  <2>1. InOrder = buf_queue /\ Taken = bus /\ InTransit = Len(buf_queue)
    BY <1>1, <1>3, ConcatEmptySeq DEF Due, Taken, InTransit, InOrder
  <2>2. \A i \in 1..InTransit : data[InOrder[i]] = bus + i
    BY <1>t, <2>1 DEF Numbered
  <2> QED
    BY <1>1, <2>1, <2>2 DEF Pending, Numbers
<1> QED
  BY <1>2, <1>3

LEMMA PendingNumbersNext ==
  IInv' => /\ Pending' = Numbers(bus', InTransit')
           /\ InTransit' \in Nat /\ bus' \in Nat
<1>1. IInv' => NumbersPending'
  BY PendingNumbers, PTL
<1> QED
  BY <1>1 DEF NumbersPending, Numbers

(* There is a block for each of these frames, and for the reader's. *)
LEMMA RoomForOne == IInv /\ rpc = "push" => InTransit < MaxAlloc
<1> SUFFICES ASSUME IInv, rpc = "push" PROVE InTransit < MaxAlloc
  OBVIOUS
<1>t. TypeOK /\ Flow /\ AllAccounted(buf_queue, free_list, f_node, rf, alloc)
  BY DEF IInv, OneOwner
<1>1. /\ Len(buf_queue) \in Nat /\ Len(free_list) \in Nat
      /\ alloc \in 0..MaxAlloc /\ MaxAlloc \in Nat
  BY <1>t, LenProperties, ConstantFacts DEF TypeOK
<1>2. InHand(rf) = 1 /\ InHand(f_node) \in {0, 1} /\ (Due => InHand(f_node) = 1)
  BY <1>t DEF Flow, InHand, Due
<1>3. alloc = Len(buf_queue) + Len(free_list) + InHand(f_node) + 1
  BY <1>t, <1>2 DEF AllAccounted
<1> QED
  BY <1>1, <1>2, <1>3 DEF InTransit

(* One more frame at the end of the channel, ...                           *)
LEMMA NumbersPut ==
  ASSUME NEW from \in Nat, NEW n \in Nat
  PROVE  SubSeq(Numbers(from, n + 1), 1, n) = Numbers(from, n)
<1> DEFINE long == Numbers(from, n + 1)
           short == Numbers(from, n)
           sub == SubSeq(long, 1, n)
<1>1. /\ long \in Seq(Nat) /\ Len(long) = n + 1
      /\ \A i \in 1..(n + 1) : long[i] = from + i
      /\ short \in Seq(Nat) /\ Len(short) = n
      /\ \A i \in 1..n : short[i] = from + i
  BY NumbersFacts
<1> HIDE DEF long, short
<1>2. \A i \in 1..n : long[i] \in Nat
  BY <1>1
<1>3. sub \in Seq(Nat) /\ Len(sub) = n /\ \A i \in 1..n : sub[i] = long[i]
  BY <1>1, <1>2, SubSeqProperties
<1> HIDE DEF sub
<1>4. \A i \in 1..n : sub[i] = short[i]
  BY <1>1, <1>3
<1>5. sub = short
  BY <1>1, <1>3, <1>4, SeqEqual
<1> QED
  BY <1>5 DEF sub, long, short

(* ... or one less at its front. *)
LEMMA NumbersDeliver ==
  ASSUME NEW from \in Nat, NEW n \in Nat
  PROVE  /\ Numbers(from, n + 1) # <<>>
         /\ Head(Numbers(from, n + 1)) = from + 1
         /\ Tail(Numbers(from, n + 1)) = Numbers(from + 1, n)
<1> DEFINE long == Numbers(from, n + 1)
           short == Numbers(from + 1, n)
           t == Tail(long)
<1>1. /\ long \in Seq(Nat) /\ Len(long) = n + 1
      /\ \A i \in 1..(n + 1) : long[i] = from + i
      /\ short \in Seq(Nat) /\ Len(short) = n
      /\ \A i \in 1..n : short[i] = (from + 1) + i
  <2>1. n + 1 \in Nat /\ from + 1 \in Nat
    OBVIOUS
  <2> HIDE DEF long, short
  <2>2. /\ long \in Seq(Nat) /\ Len(long) = n + 1
        /\ \A i \in 1..(n + 1) : long[i] = from + i
    BY <2>1, NumbersFacts DEF long
  <2>3. /\ short \in Seq(Nat) /\ Len(short) = n
        /\ \A i \in 1..n : short[i] = (from + 1) + i
    BY <2>1, NumbersFacts DEF short
  <2> QED
    BY <2>2, <2>3
<1> HIDE DEF long, short
<1>2. long # <<>>
  BY <1>1, EmptySeq
<1>3. /\ t \in Seq(Nat) /\ Len(t) = n /\ Head(long) = long[1]
      /\ \A i \in 1..n : t[i] = long[i + 1]
  BY <1>1, <1>2, HeadTailProperties
<1> HIDE DEF t
<1>4. ASSUME NEW i \in 1..n PROVE t[i] = short[i]
  <2>1. i + 1 \in 1..(n + 1) /\ from + (i + 1) = (from + 1) + i
    OBVIOUS
  <2> QED
    BY <1>1, <1>3, <2>1
<1>5. t = short
  BY <1>1, <1>3, <1>4, SeqEqual
<1>6. 1 \in 1..(n + 1)
  OBVIOUS
<1> QED
  BY <1>1, <1>2, <1>3, <1>5, <1>6 DEF long, short, t

(* Between the reader and the bus the frames behave as in the channel:     *)
(* send implements it.                                                     *)
THEOREM SendImplementsChannel == Spec => ImplementsChannel
<1>1. Init => Channel!Init
  <2> SUFFICES ASSUME Init PROVE Pending = <<>> /\ bus = StartFrame
    BY DEF Channel!Init
  <2>1. /\ Pending = Numbers(bus, InTransit) /\ InTransit \in Nat /\ bus \in Nat
    BY InitIInv, PendingNumbers DEF NumbersPending
  <2>2. InTransit = 0 /\ bus = StartFrame
    BY EmptySeq DEF Init, InTransit, Due
  <2>3. Pending \in Seq(Nat) /\ Len(Pending) = 0
    BY <2>1, <2>2, NumbersFacts
  <2> QED
    BY <2>2, <2>3, EmptySeq
<1>2. IInv /\ IInv' /\ [Next]_vars => [Channel!Next]_(Channel!chanVars)
  <2> SUFFICES ASSUME IInv, IInv', [Next]_vars PROVE [Channel!Next]_(Channel!chanVars)
    OBVIOUS
  <2>1. /\ Pending = Numbers(bus, InTransit) /\ InTransit \in Nat /\ bus \in Nat
        /\ Pending' = Numbers(bus', InTransit') /\ InTransit' \in Nat /\ bus' \in Nat
    BY PendingNumbers, PendingNumbersNext DEF NumbersPending
  <2>2. CASE InTransit' = InTransit /\ bus' = bus
    BY <2>1, <2>2 DEF Channel!chanVars
  <2>3. CASE ReaderPush /\ InTransit' = InTransit + 1 /\ bus' = bus
    <3>1. InTransit < MaxAlloc
      BY <2>3, RoomForOne DEF ReaderPush
    <3>2. Len(Pending) = InTransit /\ Len(Pending') = InTransit + 1
      BY <2>1, <2>3, NumbersFacts
    <3>3. SubSeq(Pending', 1, Len(Pending)) = Pending
      BY <2>1, <2>3, <3>2, NumbersPut
    <3> QED
      BY <2>3, <3>1, <3>2, <3>3 DEF Channel!Next, Channel!Put
  <2>4. CASE Due /\ InTransit' = Len(buf_queue) /\ bus' = bus + 1
    <3>1. InTransit = InTransit' + 1
      BY <2>4 DEF InTransit
    <3>2. Pending # <<>> /\ Head(Pending) = bus' /\ Tail(Pending) = Pending'
      BY <2>1, <2>4, <3>1, NumbersDeliver
    <3> QED
      BY <3>2 DEF Channel!Next, Channel!Deliver
  <2> QED
    BY <2>2, <2>3, <2>4, FrameSteps
<1> QED
  BY <1>1, <1>2, Invariance, PTL DEF Spec, ImplementsChannel, Channel!Spec
=============================================================================
