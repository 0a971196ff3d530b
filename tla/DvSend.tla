------------------------------- MODULE DvSend -------------------------------
(***************************************************************************)
(* dvconnect in send mode (encodedv/dvconnect.c): read_in_thread reads     *)
(* frames from the input files into buffer blocks, the main thread         *)
(* (send_raw, fill_buffer) turns them into packets for the 1394 bus.       *)
(* wakeup_cond tells the reader that a block is free, wakeup_rev_cond      *)
(* tells main that a frame is there; neither wait tests a predicate.       *)
(*                                                                         *)
(* Atomicity is that of DvCapture: a list operation is one step, a signal  *)
(* is one step, and so is every unlocked read of what both threads use     *)
(* (buf_queue.usage, max_buffer_blocks, is_eof).                           *)
(***************************************************************************)
EXTENDS BufLists

CONSTANTS
  Files,            (* Files[i]: whole frames in input i, or Missing       *)
  Missing,          (* an input fopen cannot open                          *)
  StartFrame,       (* --start-frame                                       *)
  EndFrame,         (* --end-frame, or Unlimited                           *)
  NBuffers,         (* --kbuffers                                          *)
  MaxBufferBlocks,  (* --buffers: the initial max_buffer_blocks            *)
  CeilBufferBlocks, (* ceil_buffer_blocks                                  *)
  RaiseStep,        (* what an underrun adds to max_buffer_blocks (25)     *)
  MaxAlloc,         (* blocks there is memory for                          *)
  Spurious          (* may pthread_cond_wait return without a signal       *)

(* A frame count no transmission reaches: the default, 0xfffffff. *)
Unlimited == -1

ASSUME SendAssumption ==
  /\ Missing \notin Nat
  /\ Files \in Seq(Nat \cup {Missing})
  /\ StartFrame \in Nat /\ EndFrame \in Nat \cup {Unlimited}
  /\ NBuffers \in Nat /\ MaxBufferBlocks \in Nat /\ MaxAlloc \in Nat
  /\ CeilBufferBlocks \in Nat /\ RaiseStep \in Nat \ {0}
  /\ Spurious \in BOOLEAN

Blocks == 1..MaxAlloc

(* Frames are numbered through all inputs, from 1; the underrun frame is 0. *)
UnderrunFrame == 0

VARIABLES
  buf_queue,          (* blocks with a frame to send                       *)
  free_list,          (* blocks ready to be filled                         *)
  alloc,              (* number of blocks malloc has returned              *)
  data,               (* data[b]: the frame in block b                     *)
  max_buffer_blocks,
  file, pos,          (* src_fp: the open input, frames read from it       *)
  frames_read,        (* frames read from all inputs, skipped ones too     *)
  is_eof,
  underrun_data_frame,(* was a frame given to send in underruns            *)
  pc,                 (* where the main thread is                          *)
  start_frame,        (* frames to skip, later the frames sent             *)
  unused_buffers,
  f_node,             (* the block fill_buffer works on, or NULL           *)
  rpc,                (* where read_in_thread is                           *)
  fire,               (* the argument of fill_buf_queue                    *)
  rf,                 (* the block fill_buf_queue works on, or NULL        *)
  bus                 (* the last frame of the inputs put on the bus       *)

blockVars  == <<buf_queue, free_list, alloc, data>>
inputVars  == <<file, pos, frames_read, underrun_data_frame>>
mainVars   == <<start_frame, unused_buffers, f_node>>
readerVars == <<fire, rf>>
vars == <<blockVars, max_buffer_blocks, inputVars, is_eof, pc, mainVars,
          rpc, readerVars, bus>>

Init ==
  /\ buf_queue = <<>> /\ free_list = <<>> /\ alloc = 0
  /\ data = [b \in Blocks |-> UnderrunFrame]
  /\ max_buffer_blocks = MaxBufferBlocks
  /\ file = 0 /\ pos = 0 /\ frames_read = 0 /\ is_eof = FALSE
  /\ underrun_data_frame \in BOOLEAN
  /\ pc = "open" /\ start_frame = StartFrame /\ unused_buffers = NBuffers
  /\ f_node = NULL
  /\ rpc = "none" /\ fire = FALSE /\ rf = NULL
  /\ bus = StartFrame

-----------------------------------------------------------------------------
(* The inputs.                                                             *)

(* read_frame finds a whole frame. *)
FrameThere == pos < Files[file]

ReadFrame ==
  /\ FrameThere
  /\ pos' = pos + 1
  /\ frames_read' = frames_read + 1
  /\ UNCHANGED <<file, underrun_data_frame>>

(* open_next_input.  Once it has failed nobody calls it again.             *)
NextOpens == file < Len(Files) /\ Files[file + 1] # Missing

OpenNextInput ==
  /\ NextOpens
  /\ file' = file + 1
  /\ pos' = 0
  /\ UNCHANGED <<frames_read, underrun_data_frame>>

-----------------------------------------------------------------------------
(* The main thread before the transmission: send_raw up to its loop.       *)

OpenFirst ==
  /\ pc = "open"
  /\ IF NextOpens THEN OpenNextInput /\ pc' = "skip"
                  ELSE UNCHANGED inputVars /\ pc' = "failed"
  /\ UNCHANGED <<blockVars, max_buffer_blocks, is_eof, mainVars, rpc, readerVars, bus>>

SkipFrame ==
  /\ pc = "skip" /\ start_frame > 0
  /\ ReadFrame
  /\ start_frame' = start_frame - 1
  /\ UNCHANGED <<blockVars, max_buffer_blocks, is_eof, pc, unused_buffers, f_node,
                 rpc, readerVars, bus>>

SkipToNextInput ==
  /\ pc = "skip" /\ start_frame > 0 /\ ~FrameThere
  /\ IF NextOpens THEN OpenNextInput /\ UNCHANGED pc
                  ELSE UNCHANGED inputVars /\ pc' = "failed"
  /\ UNCHANGED <<blockVars, max_buffer_blocks, is_eof, mainVars, rpc, readerVars, bus>>

CreateReader ==
  /\ pc = "skip" /\ start_frame = 0
  /\ rpc' = "get"
  /\ pc' = "start"
  /\ UNCHANGED <<blockVars, max_buffer_blocks, inputVars, is_eof, mainVars, readerVars, bus>>

(* pthread_cond_wait(&wakeup_rev_cond): at the start and in an underrun.   *)
StartWaiting ==
  /\ \/ pc = "start" /\ pc' = "start_waiting"
     \/ pc = "underrun" /\ pc' = "underrun_waiting"
  /\ UNCHANGED <<blockVars, max_buffer_blocks, inputVars, is_eof, mainVars, rpc,
                 readerVars, bus>>

(* Where main is once wakeup_rev_cond has woken it. *)
WokenMain ==
  CASE pc = "start_waiting"    -> "loop"
    [] pc = "underrun_waiting" -> "pop_again"
    [] OTHER                   -> pc

-----------------------------------------------------------------------------
(* The main thread: the loop of send_raw, and fill_buffer.                 *)

MoreToSend == EndFrame = Unlimited \/ start_frame < EndFrame

EnterLoop ==
  /\ pc = "loop"
  /\ pc' = IF MoreToSend THEN "fill" ELSE "join"
  /\ UNCHANGED <<blockVars, max_buffer_blocks, inputVars, is_eof, mainVars, rpc,
                 readerVars, bus>>

(* while (unused_buffers--); after it the kernel hands back one buffer.    *)
NextBuffer ==
  /\ pc = "fill"
  /\ IF unused_buffers > 0
     THEN unused_buffers' = unused_buffers - 1 /\ pc' = "pop"
     ELSE unused_buffers' = 1 /\ pc' = "loop"
  /\ UNCHANGED <<blockVars, max_buffer_blocks, inputVars, is_eof, start_frame,
                 f_node, rpc, readerVars, bus>>

(* f_node = pop_front(&buf_queue), with the place to go on when it is NULL. *)
Pop(ifEmpty) ==
  /\ IF buf_queue # <<>>
     THEN /\ f_node' = Head(buf_queue)
          /\ buf_queue' = Rest(buf_queue)
          /\ pc' = "transmit"
     ELSE pc' = ifEmpty /\ UNCHANGED <<f_node, buf_queue>>
  /\ UNCHANGED <<free_list, alloc, data, max_buffer_blocks, inputVars, is_eof,
                 start_frame, unused_buffers, rpc, readerVars, bus>>

PopFrame == pc = "pop" /\ Pop("check_eof")

(* The queue was empty: is_eof, the reader's, is read now. *)
CheckEof ==
  /\ pc = "check_eof"
  /\ pc' = IF is_eof THEN "join" ELSE IF underrun_data_frame THEN "get" ELSE "underrun"
  /\ max_buffer_blocks' =
       IF ~is_eof /\ ~underrun_data_frame /\ max_buffer_blocks < CeilBufferBlocks
       THEN max_buffer_blocks + RaiseStep ELSE max_buffer_blocks
  /\ UNCHANGED <<blockVars, inputVars, is_eof, mainVars, rpc, readerVars, bus>>

(* After the wait a NULL is dereferenced. *)
PopAgain == pc = "pop_again" /\ Pop("crashed")

(* f_node = get_free_block(), for the underrun frame. *)
GetFromFreeList ==
  /\ pc = "get"
  /\ IF free_list # <<>>
     THEN /\ f_node' = Head(free_list)
          /\ free_list' = Rest(free_list)
          /\ data' = [data EXCEPT ![f_node'] = UnderrunFrame]
          /\ pc' = "transmit"
     ELSE pc' = "malloc" /\ UNCHANGED <<f_node, free_list, data>>
  /\ UNCHANGED <<buf_queue, alloc, max_buffer_blocks, inputVars, is_eof,
                 start_frame, unused_buffers, rpc, readerVars, bus>>

(* Mutant of MayMalloc: the result of malloc is not checked.               *)
QueueNotFull == Len(buf_queue) < max_buffer_blocks

MayMalloc == Len(buf_queue) < max_buffer_blocks /\ alloc < MaxAlloc

(* ... where a NULL is dereferenced, too. *)
GetFromMalloc ==
  /\ pc = "malloc"
  /\ IF MayMalloc
     THEN /\ alloc' = alloc + 1
          /\ f_node' = alloc + 1
          /\ data' = [data EXCEPT ![f_node'] = UnderrunFrame]
          /\ pc' = "transmit"
     ELSE pc' = "crashed" /\ UNCHANGED <<alloc, f_node, data>>
  /\ UNCHANGED <<buf_queue, free_list, max_buffer_blocks, inputVars, is_eof,
                 start_frame, unused_buffers, rpc, readerVars, bus>>

(* The frame is copied, packet by packet, into the kernel's buffer. *)
Transmit ==
  /\ pc = "transmit"
  /\ bus' = IF data[f_node] = UnderrunFrame THEN bus ELSE data[f_node]
  /\ pc' = "release"
  /\ UNCHANGED <<blockVars, max_buffer_blocks, inputVars, is_eof, mainVars, rpc, readerVars>>

(* push_back(&free_list, f_node) *)
ReleaseBlock ==
  /\ pc = "release"
  /\ free_list' = PushBack(free_list, f_node)
  /\ f_node' = NULL
  /\ pc' = "signal"
  /\ UNCHANGED <<buf_queue, alloc, data, max_buffer_blocks, inputVars, is_eof,
                 start_frame, unused_buffers, rpc, readerVars, bus>>

(* Mutant of SignalReader: the reader is not told.                         *)
SilentRelease ==
  /\ pc = "signal"
  /\ start_frame' = IF EndFrame = Unlimited THEN start_frame ELSE start_frame + 1
  /\ pc' = "fill"
  /\ UNCHANGED <<blockVars, max_buffer_blocks, inputVars, is_eof, unused_buffers,
                 f_node, rpc, readerVars, bus>>

(* pthread_cond_signal(&wakeup_cond), and start_frame++ in send_raw.       *)
SignalReader ==
  /\ pc = "signal"
  /\ IF rpc = "waiting" THEN rpc' = "get" /\ fire' = TRUE ELSE UNCHANGED <<rpc, fire>>
  /\ start_frame' = IF EndFrame = Unlimited THEN start_frame ELSE start_frame + 1
  /\ pc' = "fill"
  /\ UNCHANGED <<blockVars, max_buffer_blocks, inputVars, is_eof, unused_buffers,
                 f_node, rf, bus>>

JoinReader ==
  /\ pc = "join" /\ rpc = "done"
  /\ pc' = "done"
  /\ UNCHANGED <<blockVars, max_buffer_blocks, inputVars, is_eof, mainVars, rpc,
                 readerVars, bus>>

MainNext ==
  \/ OpenFirst \/ SkipFrame \/ SkipToNextInput \/ CreateReader \/ StartWaiting
  \/ EnterLoop \/ NextBuffer \/ PopFrame \/ CheckEof \/ PopAgain
  \/ GetFromFreeList \/ GetFromMalloc \/ Transmit \/ ReleaseBlock
  \/ SignalReader \/ JoinReader

-----------------------------------------------------------------------------
(* read_in_thread and fill_buf_queue                                       *)

Alive == pc # "crashed"

(* fill_buf_queue returns to its first or to a later call. *)
FillReturns == rpc' = IF fire THEN "check" ELSE "first_signal"

ReaderGetFromFreeList ==
  /\ Alive /\ rpc = "get"
  /\ IF free_list # <<>>
     THEN rf' = Head(free_list) /\ free_list' = Rest(free_list) /\ rpc' = "read"
     ELSE rpc' = "malloc" /\ UNCHANGED <<rf, free_list>>
  /\ UNCHANGED <<buf_queue, alloc, data, max_buffer_blocks, inputVars, is_eof, pc,
                 mainVars, fire, bus>>

ReaderGetFromMalloc ==
  /\ Alive /\ rpc = "malloc"
  /\ IF MayMalloc
     THEN alloc' = alloc + 1 /\ rf' = alloc + 1 /\ rpc' = "read"
     ELSE FillReturns /\ UNCHANGED <<alloc, rf>>
  /\ UNCHANGED <<buf_queue, free_list, data, max_buffer_blocks, inputVars, is_eof, pc,
                 mainVars, fire, bus>>

ReaderRead ==
  /\ Alive /\ rpc = "read"
  /\ ReadFrame
  /\ data' = [data EXCEPT ![rf] = frames_read + 1]
  /\ rpc' = "push"
  /\ UNCHANGED <<buf_queue, free_list, alloc, max_buffer_blocks, is_eof, pc,
                 mainVars, readerVars, bus>>

(* The input is used up: goto again with the next one, or end of file.     *)
ReaderNextInput ==
  /\ Alive /\ rpc = "read" /\ ~FrameThere
  /\ IF NextOpens THEN OpenNextInput /\ UNCHANGED <<is_eof, rpc>>
                  ELSE is_eof' = TRUE /\ rpc' = "give_up" /\ UNCHANGED inputVars
  /\ UNCHANGED <<blockVars, max_buffer_blocks, pc, mainVars, readerVars, bus>>

(* Mutant of ReaderGiveUp: the block goes to the other list.               *)
QueueUnreadBlock ==
  /\ Alive /\ rpc = "give_up"
  /\ buf_queue' = PushBack(buf_queue, rf)
  /\ rf' = NULL
  /\ FillReturns
  /\ UNCHANGED <<free_list, alloc, data, max_buffer_blocks, inputVars, is_eof, pc,
                 mainVars, fire, bus>>

ReaderGiveUp ==
  /\ Alive /\ rpc = "give_up"
  /\ free_list' = PushBack(free_list, rf)
  /\ rf' = NULL
  /\ FillReturns
  /\ UNCHANGED <<buf_queue, alloc, data, max_buffer_blocks, inputVars, is_eof, pc,
                 mainVars, fire, bus>>

ReaderPush ==
  /\ Alive /\ rpc = "push"
  /\ buf_queue' = PushBack(buf_queue, rf)
  /\ rf' = NULL
  /\ rpc' = IF fire THEN "fire" ELSE "get"
  /\ UNCHANGED <<free_list, alloc, data, max_buffer_blocks, inputVars, is_eof, pc,
                 mainVars, fire, bus>>

(* pthread_cond_signal(&wakeup_rev_cond) *)
ReaderSignal ==
  /\ Alive
  /\ \/ rpc = "fire" /\ rpc' = "get"
     \/ rpc = "first_signal" /\ rpc' = "check"
  /\ pc' = WokenMain
  /\ UNCHANGED <<blockVars, max_buffer_blocks, inputVars, is_eof, mainVars,
                 readerVars, bus>>

ReaderCheck ==
  /\ Alive /\ rpc = "check"
  /\ rpc' = IF is_eof THEN "done" ELSE "wait"
  /\ UNCHANGED <<blockVars, max_buffer_blocks, inputVars, is_eof, pc, mainVars,
                 readerVars, bus>>

ReaderWait ==
  /\ Alive /\ rpc = "wait"
  /\ rpc' = "waiting"
  /\ UNCHANGED <<blockVars, max_buffer_blocks, inputVars, is_eof, pc, mainVars,
                 readerVars, bus>>

ReaderNext ==
  \/ ReaderGetFromFreeList \/ ReaderGetFromMalloc \/ ReaderRead \/ ReaderNextInput
  \/ ReaderGiveUp \/ ReaderPush \/ ReaderSignal \/ ReaderCheck \/ ReaderWait

(* POSIX lets pthread_cond_wait return without a signal. *)
WakeSpuriously ==
  /\ Spurious
  /\ \/ pc' = WokenMain /\ pc' # pc /\ UNCHANGED <<rpc, fire>>
     \/ Alive /\ rpc = "waiting" /\ rpc' = "get" /\ fire' = TRUE /\ UNCHANGED pc
  /\ UNCHANGED <<blockVars, max_buffer_blocks, inputVars, is_eof, mainVars, rf, bus>>

-----------------------------------------------------------------------------
Next == MainNext \/ ReaderNext \/ WakeSpuriously

Spec == Init /\ [][Next]_vars

(* Both threads are scheduled; the kernel hands its buffers back.          *)
Fairness == WF_vars(MainNext) /\ WF_vars(ReaderNext)

FairSpec == Spec /\ Fairness

-----------------------------------------------------------------------------
(* Properties.                                                             *)

(* Type invariant of the lists, the inputs and both threads. *)
TypeOK ==
  /\ buf_queue \in Seq(Blocks) /\ free_list \in Seq(Blocks)
  /\ alloc \in 0..MaxAlloc
  /\ data \in [Blocks -> Nat]
  /\ max_buffer_blocks \in Nat
  /\ file \in 0..Len(Files) /\ pos \in Nat /\ frames_read \in Nat
  /\ is_eof \in BOOLEAN /\ underrun_data_frame \in BOOLEAN
  /\ pc \in {"open", "skip", "failed", "start", "start_waiting", "loop", "fill", "pop",
             "check_eof", "underrun", "underrun_waiting", "pop_again", "get", "malloc",
             "transmit", "release", "signal", "join", "done", "crashed"}
  /\ start_frame \in Nat /\ unused_buffers \in Nat
  /\ f_node \in Blocks \cup {NULL}
  /\ rpc \in {"none", "get", "malloc", "read", "give_up", "push", "fire", "first_signal",
              "check", "wait", "waiting", "done"}
  /\ fire \in BOOLEAN
  /\ rf \in Blocks \cup {NULL}
  /\ bus \in Nat

(* Both threads allocate and both recycle blocks, each through two steps   *)
(* that the other may interrupt; still every block has exactly one owner.  *)
OneOwner ==
  /\ ExactlyOneOwner(buf_queue, free_list, f_node, rf, alloc)
  /\ AllAccounted(buf_queue, free_list, f_node, rf, alloc)

(* The frames of the inputs come out on the bus without a gap, a           *)
(* repetition or a change of order, whatever underrun frames are sent in   *)
(* between and whatever signals are lost.                                  *)
SentInOrder == [][bus' = bus + 1]_bus

(* The blocks between the reader's push and the bus, oldest first. *)
InOrder ==
  (IF pc = "transmit" /\ data[f_node] # UnderrunFrame THEN <<f_node>> ELSE <<>>)
    \o buf_queue

Pending == [i \in 1..Len(InOrder) |-> data[InOrder[i]]]

Channel == INSTANCE FrameChannel WITH
             Capacity <- MaxAlloc, None <- StartFrame, chan <- Pending, last <- bus

(* The frames read reach the bus as through a bounded FIFO channel. *)
ImplementsChannel == Channel!Spec

(* An unlimited transmission with an underrun frame to fill the gaps gets  *)
(* the whole input read once it has started, unless it crashes: a signal   *)
(* that finds the reader busy is made up for by the next frame's.          *)
InputIsConsumed ==
  underrun_data_frame =>
    <>is_eof \/ <>[](pc = "start_waiting") \/ <>(pc \in {"crashed", "failed"})

(* dvconnect.1: "file with the frame to send in case of underruns".  An    *)
(* underrun is answered with that frame.                                   *)
UnderrunAnswered == underrun_data_frame => pc # "crashed"
=============================================================================
