------------------------------ MODULE DvCapture ------------------------------
(***************************************************************************)
(* dvconnect in capture mode (encodedv/dvconnect.c): the main thread cuts  *)
(* the packet stream of the camera into frames (handle_packet), and        *)
(* write_out_thread appends the finished frames to the output file.  The   *)
(* threads share two lists of buffer blocks and one condition variable.    *)
(*                                                                         *)
(* Atomicity: push_back and pop_front run under queue_mutex and are one    *)
(* step each.  wakeup_mutex protects nothing but the calls on wakeup_cond, *)
(* so "lock, signal, unlock" is one step and so is "lock, start to wait";  *)
(* a woken writer is past its unlock.  Every other access to memory that   *)
(* both threads use (buf_queue.usage, cap_num_frames, the bytes of a       *)
(* block) belongs to a step of its own.                                    *)
(***************************************************************************)
EXTENDS BufLists

CONSTANTS
  PalPackets,       (* 480-byte packets in a PAL frame and in a block      *)
  NtscPackets,      (* 480-byte packets in an NTSC frame                   *)
  MaxBufferBlocks,  (* max_buffer_blocks, option --buffers                 *)
  MaxAlloc,         (* blocks there is memory for                          *)
  StartFrame,       (* start_frame: complete frames to skip                *)
  CapNumFrames,     (* end_frame - start_frame, or Unlimited               *)
  CamFrames,        (* bound: frame numbers the camera uses                *)
  Endless,          (* does the camera start over after the last number    *)
  MaxLost,          (* bound: packets the bus loses                        *)
  MaxCount,         (* bound: the counters of messages stay at this value  *)
  Spurious          (* may pthread_cond_wait return without a signal       *)

(* A frame count no capture reaches: the default, 0xfffffff. *)
Unlimited == -1

ASSUME CaptureAssumption ==
  /\ PalPackets \in Nat /\ NtscPackets \in Nat
  /\ 0 < NtscPackets /\ NtscPackets < PalPackets
  /\ MaxBufferBlocks \in Nat /\ MaxAlloc \in Nat
  /\ StartFrame \in Nat
  /\ CapNumFrames \in Nat \cup {Unlimited}
  /\ CamFrames \in Nat \ {0}
  /\ Endless \in BOOLEAN
  /\ MaxLost \in Nat
  /\ MaxCount \in Nat \ {0}
  /\ Spurious \in BOOLEAN

(* Blocks are numbered in the order malloc returns them. *)
Blocks == 1..MaxAlloc

FrameSize(pal) == IF pal THEN PalPackets ELSE NtscPackets

(* What the properties tell apart in a packet: the camera's frame it is    *)
(* from, its place in that frame, and the PAL bit every packet carries.    *)
Packet == [fr : 0..CamFrames, ix : 1..PalPackets, pal : BOOLEAN]

IsStartOfFrame(p) == p.ix = 1

VARIABLES
  buf_queue,          (* blocks ready to be written                        *)
  free_list,          (* blocks ready to be filled                         *)
  alloc,              (* number of blocks malloc has returned              *)
  data,               (* data[b]: the packets in block b                   *)
  usage,              (* usage[b]: how many of them belong to the frame    *)
  pc,                 (* where the main thread is                          *)
  f,                  (* the block handle_packet is filling, or NULL       *)
  pkt,                (* the start-of-frame packet being handled           *)
  frame_size,         (* packets put into f so far                         *)
  isPAL,              (* the PAL bit of the frame being filled             *)
  found_first_block,
  cap_start_frame,
  cap_num_frames,
  broken_frames,
  frames_captured,
  wpc,                (* where write_out_thread is                         *)
  wf,                 (* the block write_out_thread holds, or NULL         *)
  dst,                (* the frame written to dst_fp last                  *)
  cam,                (* the next packet the camera sends                  *)
  lost                (* packets lost on the bus                           *)

blockVars  == <<buf_queue, free_list, alloc, data, usage>>
frameVars  == <<f, pkt, frame_size, isPAL, found_first_block>>
countVars  == <<cap_start_frame, cap_num_frames, broken_frames, frames_captured>>
writerVars == <<wpc, wf, dst>>
camVars    == <<cam, lost>>
vars == <<blockVars, pc, frameVars, countVars, writerVars, camVars>>

Init ==
  /\ buf_queue = <<>> /\ free_list = <<>> /\ alloc = 0
  /\ data = [b \in Blocks |-> <<>>]
  /\ usage = [b \in Blocks |-> 0]
  /\ pc = "recv" /\ f = NULL /\ frame_size = 0
  /\ isPAL = FALSE /\ found_first_block = FALSE
  /\ cap_start_frame = StartFrame /\ cap_num_frames = CapNumFrames
  /\ broken_frames = 0 /\ frames_captured = 0
  /\ wpc = "check" /\ wf = NULL /\ dst = <<>>
  /\ cam \in {p \in Packet : p.fr = 0 /\ p.ix <= FrameSize(p.pal)}
  /\ pkt = cam
  /\ lost = 0

-----------------------------------------------------------------------------
(* The camera and the bus (outside the program).                           *)

CameraOn == cam.fr < CamFrames

(* The camera moves on to its next packet; each frame is PAL or NTSC. *)
NextPacket ==
  IF cam.ix < FrameSize(cam.pal)
  THEN cam' = [cam EXCEPT !.ix = @ + 1]
  ELSE \E pal \in BOOLEAN :
         cam' = [fr  |-> IF Endless /\ cam.fr = CamFrames - 1 THEN 0 ELSE cam.fr + 1,
                 ix  |-> 1,
                 pal |-> pal]

LosePacket ==
  /\ CameraOn /\ lost < MaxLost
  /\ NextPacket
  /\ lost' = lost + 1
  /\ UNCHANGED <<blockVars, pc, frameVars, countVars, writerVars>>

-----------------------------------------------------------------------------
(* The main thread: handle_packet, one action per path through it up to    *)
(* its next access to shared memory.                                       *)

Bump(n) == IF n < MaxCount THEN n + 1 ELSE n

CountDown(n) == IF n = Unlimited THEN n ELSE n - 1

(* A packet of interest arrives while frames are still wanted.  Once       *)
(* cap_num_frames is 0 the packets left in the kernel's buffer change      *)
(* nothing.                                                                *)
Receive(start) ==
  /\ pc = "recv" /\ cap_num_frames # 0
  /\ CameraOn /\ IsStartOfFrame(cam) = start
  /\ NextPacket
  /\ UNCHANGED lost

(* memcpy of one packet behind the n packets already in block b. *)
Store(b, n, p) ==
  /\ data' = [data EXCEPT ![b] = Append(SubSeq(@, 1, n), p)]
  /\ frame_size' = n + 1

FullOneLate == frame_size > PalPackets   (* mutant of BlockFull *)

BlockFull == frame_size >= PalPackets

StorePacket ==
  /\ Receive(FALSE)
  /\ found_first_block /\ f # NULL /\ ~BlockFull
  /\ Store(f, frame_size, cam)
  /\ UNCHANGED <<buf_queue, free_list, alloc, usage, pc, f, pkt, isPAL,
                 found_first_block, countVars, writerVars>>

(* More packets than a frame has: what was collected is thrown away, and   *)
(* so is the packet.                                                       *)
OverflowFrame ==
  /\ Receive(FALSE)
  /\ found_first_block /\ f # NULL /\ BlockFull
  /\ broken_frames' = Bump(broken_frames)
  /\ frame_size' = 0
  /\ UNCHANGED <<blockVars, pc, f, pkt, isPAL, found_first_block,
                 cap_start_frame, cap_num_frames, frames_captured, writerVars>>

IgnorePacket ==
  /\ Receive(FALSE)
  /\ ~found_first_block \/ f = NULL
  /\ UNCHANGED <<blockVars, pc, frameVars, countVars, writerVars>>

SkipFrame ==
  /\ Receive(TRUE)
  /\ ~found_first_block /\ cap_start_frame # 0
  /\ cap_start_frame' = cap_start_frame - 1
  /\ UNCHANGED <<blockVars, pc, frameVars, cap_num_frames, broken_frames,
                 frames_captured, writerVars>>

TooLong == frame_size > FrameSize(isPAL)   (* mutant of FrameBroken *)

FrameBroken == frame_size # 0 /\ frame_size # FrameSize(isPAL)

(* What every start of a wanted frame does before it looks at the block.   *)
BeginStart ==
  /\ Receive(TRUE)
  /\ found_first_block \/ cap_start_frame = 0
  /\ found_first_block' = TRUE
  /\ cap_num_frames' = CountDown(cap_num_frames)
  /\ broken_frames' = IF FrameBroken THEN Bump(broken_frames) ELSE broken_frames
  /\ frames_captured' = IF frame_size # 0 THEN Bump(frames_captured)
                                          ELSE frames_captured
  /\ isPAL' = cam.pal
  /\ pkt' = cam
  /\ UNCHANGED cap_start_frame

(* Mutant of OpenFrame: p_out is not set back to the start of the block.   *)
OpenBehindOldFrame(b, p, left) ==
  /\ f' = b
  /\ IF left # 0 THEN data' = [data EXCEPT ![b] = Append(@, p)] /\ frame_size' = 1
                 ELSE frame_size' = 0 /\ UNCHANGED data

(* The first packet p of the new frame goes into block b, unless this was  *)
(* the start that ends the capture (left is the new cap_num_frames).       *)
OpenFrame(b, p, left) ==
  /\ f' = b
  /\ IF left # 0 THEN Store(b, 0, p) ELSE frame_size' = 0 /\ UNCHANGED data

(* The frame in f is finished: it goes to the writer. *)
CompleteFrame ==
  /\ BeginStart
  /\ f # NULL /\ ~FrameBroken
  /\ usage' = [usage EXCEPT ![f] = frame_size]
  /\ pc' = "push"
  /\ UNCHANGED <<buf_queue, free_list, alloc, data, f, frame_size, writerVars>>

(* The frame in f has the wrong size: its block is filled again. *)
DiscardFrame ==
  /\ BeginStart
  /\ f # NULL /\ FrameBroken
  /\ OpenFrame(f, cam, cap_num_frames')
  /\ UNCHANGED <<buf_queue, free_list, alloc, usage, pc, writerVars>>

StartWithoutBlock ==
  /\ BeginStart
  /\ f = NULL
  /\ pc' = "get"
  /\ UNCHANGED <<blockVars, f, frame_size, writerVars>>

(* push_back(&buf_queue, f) *)
PushFrame ==
  /\ pc = "push"
  /\ buf_queue' = PushBack(buf_queue, f)
  /\ f' = NULL
  /\ pc' = "signal"
  /\ UNCHANGED <<free_list, alloc, data, usage, pkt, frame_size, isPAL,
                 found_first_block, countVars, writerVars, camVars>>

(* Mutant of SignalWriter: the writer is not told.                         *)
SilentSignal ==
  /\ pc = "signal" /\ pc' = "get"
  /\ UNCHANGED <<blockVars, frameVars, countVars, writerVars, camVars>>

(* pthread_cond_signal(&wakeup_cond): of no effect unless the writer waits. *)
SignalWriter ==
  /\ pc = "signal"
  /\ wpc' = IF wpc = "waiting" THEN "drain" ELSE wpc
  /\ pc' = "get"
  /\ UNCHANGED <<blockVars, frameVars, countVars, wf, dst, camVars>>

(* get_free_block, first half: pop_front(&free_list). *)
GetFromFreeList ==
  /\ pc = "get"
  /\ IF free_list # <<>>
     THEN /\ free_list' = Rest(free_list)
          /\ OpenFrame(Head(free_list), pkt, cap_num_frames)
          /\ pc' = "recv"
     ELSE /\ pc' = "malloc"
          /\ UNCHANGED <<free_list, data, f, frame_size>>
  /\ UNCHANGED <<buf_queue, alloc, usage, pkt, isPAL, found_first_block,
                 countVars, writerVars, camVars>>

(* get_free_block, second half: buf_queue.usage is read without the lock.  *)
GetFromMalloc ==
  /\ pc = "malloc"
  /\ Len(buf_queue) < MaxBufferBlocks /\ alloc < MaxAlloc
  /\ alloc' = alloc + 1
  /\ OpenFrame(alloc + 1, pkt, cap_num_frames)
  /\ pc' = "recv"
  /\ UNCHANGED <<buf_queue, free_list, usage, pkt, isPAL, found_first_block,
                 countVars, writerVars, camVars>>

(* "Buffer overrun: Frame discarded!", also when malloc returns NULL. *)
BufferOverrun ==
  /\ pc = "malloc"
  /\ Len(buf_queue) >= MaxBufferBlocks \/ alloc >= MaxAlloc
  /\ broken_frames' = Bump(broken_frames)
  /\ frame_size' = 0
  /\ pc' = "recv"
  /\ UNCHANGED <<blockVars, f, pkt, isPAL, found_first_block, cap_start_frame,
                 cap_num_frames, frames_captured, writerVars, camVars>>

(* The receive loop of capture_raw ends. *)
StopCapture ==
  /\ pc = "recv" /\ cap_num_frames = 0
  /\ pc' = "join"
  /\ UNCHANGED <<blockVars, frameVars, countVars, writerVars, camVars>>

(* pthread_join, then fclose(dst_fp). *)
JoinWriter ==
  /\ pc = "join" /\ wpc = "done"
  /\ pc' = "closed"
  /\ UNCHANGED <<blockVars, frameVars, countVars, writerVars, camVars>>

MainNext ==
  \/ StorePacket \/ OverflowFrame \/ IgnorePacket \/ SkipFrame
  \/ CompleteFrame \/ DiscardFrame \/ StartWithoutBlock
  \/ PushFrame \/ SignalWriter \/ GetFromFreeList \/ GetFromMalloc
  \/ BufferOverrun \/ StopCapture \/ JoinWriter

-----------------------------------------------------------------------------
(* write_out_thread                                                        *)

(* while (cap_num_frames != 0): the count is main's, read without a lock.  *)
CheckCount ==
  /\ wpc = "check"
  /\ wpc' = IF cap_num_frames # 0 THEN "wait" ELSE "done"
  /\ UNCHANGED <<blockVars, pc, frameVars, countVars, wf, dst, camVars>>

(* pthread_cond_wait, which tests no predicate before or after. *)
StartWaiting ==
  /\ wpc = "wait"
  /\ wpc' = "waiting"
  /\ UNCHANGED <<blockVars, pc, frameVars, countVars, wf, dst, camVars>>

(* POSIX lets pthread_cond_wait return without a signal. *)
WakeSpuriously ==
  /\ Spurious
  /\ wpc = "waiting"
  /\ wpc' = "drain"
  /\ UNCHANGED <<blockVars, pc, frameVars, countVars, wf, dst, camVars>>

(* pop_front(&buf_queue) *)
PopFrame ==
  /\ wpc = "drain"
  /\ IF buf_queue # <<>>
     THEN /\ wf' = Head(buf_queue)
          /\ buf_queue' = Rest(buf_queue)
          /\ wpc' = "fwrite"
     ELSE /\ wpc' = "check"
          /\ UNCHANGED <<wf, buf_queue>>
  /\ UNCHANGED <<free_list, alloc, data, usage, pc, frameVars, countVars, dst, camVars>>

Content(b) == SubSeq(data[b], 1, usage[b])

WriteFrame ==
  /\ wpc = "fwrite"
  /\ dst' = Content(wf)
  /\ wpc' = "release"
  /\ UNCHANGED <<blockVars, pc, frameVars, countVars, wf, camVars>>

(* push_back(&free_list, f) *)
ReleaseBlock ==
  /\ wpc = "release"
  /\ free_list' = PushBack(free_list, wf)
  /\ wf' = NULL
  /\ wpc' = "drain"
  /\ UNCHANGED <<buf_queue, alloc, data, usage, pc, frameVars, countVars, dst, camVars>>

WriterNext ==
  \/ CheckCount \/ StartWaiting \/ PopFrame \/ WriteFrame \/ ReleaseBlock

-----------------------------------------------------------------------------
Next == LosePacket \/ MainNext \/ WriterNext \/ WakeSpuriously

Spec == Init /\ [][Next]_vars

(* Both threads are scheduled and the camera keeps sending (a step of main *)
(* that is enabled takes the next packet).  Nothing promises that a packet *)
(* is lost or that a wait returns by itself.                               *)
Fairness == WF_vars(MainNext) /\ WF_vars(WriterNext)

FairSpec == Spec /\ Fairness

-----------------------------------------------------------------------------
(* Properties.                                                             *)

(* Type invariant of the two lists, the blocks, the statics of             *)
(* handle_packet, the two program counters and the camera.                 *)
TypeOK ==
  /\ buf_queue \in Seq(Blocks) /\ free_list \in Seq(Blocks)
  /\ alloc \in 0..MaxAlloc
  /\ data \in [Blocks -> Seq(Packet)]
  /\ usage \in [Blocks -> 0..PalPackets]
  /\ pc \in {"recv", "push", "signal", "get", "malloc", "join", "closed"}
  /\ f \in Blocks \cup {NULL}
  /\ pkt \in Packet
  /\ frame_size \in 0..PalPackets
  /\ isPAL \in BOOLEAN /\ found_first_block \in BOOLEAN
  /\ cap_start_frame \in Nat
  /\ cap_num_frames \in Nat \cup {Unlimited}
  /\ broken_frames \in 0..MaxCount /\ frames_captured \in 0..MaxCount
  /\ wpc \in {"check", "wait", "waiting", "drain", "fwrite", "release", "done"}
  /\ wf \in Blocks \cup {NULL}
  /\ dst \in Seq(Packet)
  /\ cam \in Packet
  /\ lost \in 0..MaxLost

(* Every block malloc returned has exactly one owner: the queue, the free  *)
(* list, the frame being assembled or the writer.  None is lost, none can  *)
(* be filled while it is being written.                                    *)
OneOwner ==
  /\ ExactlyOneOwner(buf_queue, free_list, f, wf, alloc)
  /\ AllAccounted(buf_queue, free_list, f, wf, alloc)

(* Blocks on their way to the file, and the frames in them. *)
InFlight == Listed(buf_queue) \cup Held(wf)

(* A frame exactly as the camera sent it. *)
Whole(s) ==
  /\ s # <<>> /\ Len(s) = FrameSize(s[1].pal)
  /\ \A i \in 1..Len(s) : s[i] = [fr |-> s[1].fr, ix |-> i, pal |-> s[1].pal]

Spliced(b) == usage[b] # 0 /\ ~Whole(Content(b))

(* If the bus loses nothing, whatever is queued for the file is a frame    *)
(* exactly as the camera sent it, however the threads interleave and       *)
(* however often the buffers run out.                                      *)
LosslessFramesWhole ==
  lost = 0 => \A b \in InFlight : Whole(Content(b))

(* handle_packet judges a frame by its size alone.  A frame that mixes     *)
(* packets of two frames can still pass, without any warning so far, but   *)
(* only after at least the packets of a whole frame have been lost.        *)
SilentSpliceNeedsLoss ==
  (broken_frames = 0 /\ \E b \in InFlight : Spliced(b)) => lost >= NtscPackets

(* The blocks between main's push and fwrite, oldest first, and the frames *)
(* in them.                                                                *)
InOrder == (IF wpc = "fwrite" THEN <<wf>> ELSE <<>>) \o buf_queue

Pending == [i \in 1..Len(InOrder) |-> Content(InOrder[i])]

Channel == INSTANCE FrameChannel WITH
             Capacity <- MaxAlloc, None <- <<>>, chan <- Pending, last <- dst

(* Frames handed to the writer reach the file once each, unaltered and in  *)
(* the order in which they were captured.                                  *)
ImplementsChannel == Channel!Spec

(* A signal is lost only between the writer's last look into the queue and *)
(* its wait.  A frame announced at any other time is written, together     *)
(* with every frame that an earlier, lost signal left in the queue.        *)
Listens == wpc \notin {"check", "wait", "done"}

AnnouncedFrameWritten ==
  \A b \in Blocks :
    (pc = "signal" /\ Listens /\ b \in Listed(buf_queue)) ~> b \notin Listed(buf_queue)

(* dvconnect.1: "end at count frame".  The capture of a finite number of   *)
(* frames comes to its end once the frames are counted down.               *)
CaptureEnds == (pc = "join") ~> (pc = "closed")
=============================================================================
