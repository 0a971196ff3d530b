--------------------------------- MODULE DvAvi ---------------------------------
(* dvavi: takes a DV AVI apart.  Pictures and sound come in chunks of their  *)
(* own (format 2); they wait in two queues of nodes until a picture and the  *)
(* sound of one frame are both there, and are then stored as a frame of DV.  *)
(* A chunk is its number in the file; sound is counted in bytes.  The file   *)
(* may end inside a chunk, which is then used with its whole length: what    *)
(* the file lacks is whatever its node held before.                          *)
EXTENDS Integers, Sequences, FiniteSets, SequencesExt

CONSTANTS AviHeaders,        \* stream headers a file may begin with
          AudioLengths,      \* bytes of a chunk of sound, as its head says
          Cuts,              \* bytes found of the chunk that the file ends in
          MaxBufferBlocks,   \* max_buffer_blocks, 25 in the code
          MaxChunks          \* bound on the chunks of a file
ASSUME AviAssumption ==
  /\ MaxBufferBlocks \in Nat \ {0} /\ MaxChunks \in Nat
  /\ AudioLengths \subseteq Nat /\ Cuts \subseteq Nat
  /\ \A h \in AviHeaders : \A k \in DOMAIN h.streams :
       /\ h.streams[k].channels \in Nat /\ h.streams[k].frequency \in Nat
       /\ h.streams[k].bytespersecond \in Nat

VARIABLES
  aviPc,
  audio_info,    \* channels, frequency, bytespersecond, bytesperframe
  bufNode,       \* the nodes allocated: number of the chunk, first byte, usage,
                 \* how much of that was read from the file, processed
  free_list, video_bufs, audio_bufs,
  lastPal,       \* isPAL: standard of the picture read last
  chunks,        \* chunks read: their length, and what was found of it
  aviOut,        \* frames stored
  rawOut         \* chunks of format 1, copied as they are
aviVars == <<aviPc, audio_info, bufNode, free_list, video_bufs, audio_bufs,
             lastPal, chunks, aviOut, rawOut>>
queues == <<bufNode, free_list, video_bufs, audio_bufs>>

NodeSize == 144000
Pal == 144000
Ntsc == 120000
TooLarge == 150000
AudioData == 1944 * 2 * 4    \* bytes of audio_info.data

AviInit ==
  /\ aviPc = "header"
  /\ audio_info = [channels |-> 0, frequency |-> 0, bytespersecond |-> 0, bytesperframe |-> 0]
  /\ bufNode = <<>> /\ free_list = <<>> /\ video_bufs = <<>> /\ audio_bufs = <<>>
  /\ lastPal = FALSE /\ chunks = <<>> /\ aviOut = <<>> /\ rawOut = <<>>

(* get_audio_header: the first stream of sound counts, if the header is in   *)
(* order so far and its format is plain samples; other streams are passed.   *)
Passed(h, k) == h.avih /\ \A j \in 1 .. k - 1 : h.streams[j].kind = "vids"
AudioStream(h) == {k \in DOMAIN h.streams :
                     Passed(h, k) /\ h.streams[k].kind = "auds" /\ h.streams[k].ft = 1}
ReadHeader ==
  /\ aviPc = "header"
  /\ \E h \in AviHeaders :
       audio_info' = IF AudioStream(h) = {} THEN audio_info
                     ELSE LET s == h.streams[CHOOSE k \in AudioStream(h) : TRUE]
                          IN [audio_info EXCEPT !.channels = s.channels,
                                                !.frequency = s.frequency,
                                                !.bytespersecond = s.bytespersecond]
  /\ aviPc' = "read"
  /\ UNCHANGED <<queues, lastPal, chunks, aviOut, rawOut>>

-----------------------------------------------------------------------------
(* get_free_block: a node of the free list, else a new one while neither     *)
(* queue is at its limit, else the end of it.                                *)
Limited == /\ free_list = <<>>
           /\ \/ Len(audio_bufs) >= MaxBufferBlocks
              \/ Len(video_bufs) >= MaxBufferBlocks
Block == IF free_list = <<>> THEN Len(bufNode) + 1 ELSE Head(free_list)
\* Mutants: a node used again keeps its mark; a node stays in the free list.
GetFreeBlockMarked(content) ==
  /\ free_list' = IF free_list = <<>> THEN <<>> ELSE Tail(free_list)
  /\ bufNode' = IF free_list = <<>> THEN Append(bufNode, content)
                ELSE [bufNode EXCEPT ![Head(free_list)] = [content EXCEPT !.processed = @ +
                        bufNode[Head(free_list)].processed]]
GetFreeBlockTwice(content) ==
  /\ UNCHANGED free_list
  /\ bufNode' = IF free_list = <<>> THEN Append(bufNode, content)
                ELSE [bufNode EXCEPT ![Head(free_list)] = content]
GetFreeBlock(content) ==
  /\ free_list' = IF free_list = <<>> THEN <<>> ELSE Tail(free_list)
  /\ bufNode' = IF free_list = <<>> THEN Append(bufNode, content)
                ELSE [bufNode EXCEPT ![Head(free_list)] = content]

(* Behind a chunk that the file ends in there is no other.                   *)
Uncut == chunks # <<>> => Last(chunks).got = Last(chunks).len
Reading == aviPc = "read" /\ Len(chunks) < MaxChunks /\ Uncut
AtLimit == /\ Limited /\ aviPc' = "flush"
           /\ UNCHANGED <<queues, audio_info, lastPal, chunks, aviOut, rawOut>>
Chunk(kind, len, got) == [kind |-> kind, len |-> len, got |-> got]

(* A chunk of sound goes behind the one before if both fit into a node, else *)
(* into a node of its own, which nothing says it fits.                       *)
SoundsRead == {k \in DOMAIN chunks : chunks[k].kind = "audio"}
Heard == MapThenSumSet(LAMBDA k : chunks[k].len, SoundsRead)
ReadAudio(len, got) ==
  LET fits == audio_bufs # <<>> /\ bufNode[Last(audio_bufs)].usage + len <= NodeSize
  IN \/ ~fits /\ AtLimit
     \/ /\ ~fits /\ ~Limited /\ got > NodeSize /\ aviPc' = "overrun"
        /\ UNCHANGED <<queues, audio_info, lastPal, chunks, aviOut, rawOut>>
     \/ /\ fits \/ ~Limited
        /\ got <= NodeSize
        /\ IF fits
           THEN /\ bufNode' = [bufNode EXCEPT ![Last(audio_bufs)].usage = @ + len,
                                             ![Last(audio_bufs)].read = @ + got]
                /\ UNCHANGED <<free_list, audio_bufs>>
           ELSE /\ GetFreeBlock([chunk |-> 0, from |-> Heard, usage |-> len, read |-> got,
                                 processed |-> 0])
                /\ audio_bufs' = Append(audio_bufs, Block)
        /\ chunks' = Append(chunks, Chunk("audio", len, got))
        /\ aviPc' = "queue"
        /\ UNCHANGED <<audio_info, video_bufs, lastPal, aviOut, rawOut>>

(* The size of a frame of sound follows the picture that was read last.      *)
Picture(len, got) == [chunk |-> Len(chunks) + 1, from |-> 0, usage |-> len, read |-> got,
                      processed |-> 0]
ReadTooLarge ==
  /\ ~Limited /\ GetFreeBlock(Picture(0, 0)) /\ aviPc' = "flush"
  /\ UNCHANGED <<video_bufs, audio_bufs, audio_info, lastPal, chunks, aviOut, rawOut>>
ReadVideo(len, got) ==
  \/ AtLimit
  \/ len > NodeSize /\ ReadTooLarge
  \/ /\ ~Limited /\ len <= NodeSize
     /\ GetFreeBlock(Picture(len, got))
     /\ video_bufs' = Append(video_bufs, Block)
     /\ lastPal' = (len = Pal)
     /\ audio_info' = [audio_info EXCEPT !.bytesperframe =
                         audio_info.bytespersecond \div (IF len = Pal THEN 25 ELSE 30)]
     /\ chunks' = Append(chunks, Chunk("video", len, got))
     /\ aviPc' = "queue"
     /\ UNCHANGED <<audio_bufs, aviOut, rawOut>>

(* Format 1: picture and sound are one frame of DV already.                  *)
ReadBoth(len, got) ==
  \/ AtLimit
  \/ len > NodeSize /\ ReadTooLarge
  \/ /\ ~Limited /\ len <= NodeSize
     /\ bufNode' = IF free_list = <<>> THEN Append(bufNode, Picture(len, got))
                   ELSE [bufNode EXCEPT ![Head(free_list)] = Picture(len, got)]
     /\ free_list' = IF free_list = <<>> THEN <<Block>> ELSE Append(Tail(free_list), Block)
     /\ chunks' = Append(chunks, Chunk("both", len, got))
     /\ rawOut' = Append(rawOut, Len(chunks) + 1)
     /\ aviPc' = "queue"
     /\ UNCHANGED <<audio_info, video_bufs, audio_bufs, lastPal, aviOut>>

Found(len) == {len} \cup {got \in Cuts : got < len}
ReadChunk == /\ Reading
             /\ \/ \E len \in AudioLengths : \E got \in Found(len) : ReadAudio(len, got)
                \/ \E len \in {Pal, Ntsc, TooLarge} : \E got \in Found(len) : ReadVideo(len, got)
                \/ \E len \in {Pal, TooLarge} : \E got \in Found(len) : ReadBoth(len, got)
(* Any read of a head that the file does not hold ends in the handler.       *)
EndOfFile == /\ aviPc \in {"header", "read"} /\ aviPc' = "flush"
             /\ UNCHANGED <<queues, audio_info, lastPal, chunks, aviOut, rawOut>>

-----------------------------------------------------------------------------
(* run_queue: as long as there are a picture and the sound of a frame.       *)
Left(id) == bufNode[id].usage - bufNode[id].processed
LeftIn(k) == MapThenSumSet(LAMBDA j : Left(audio_bufs[j]), 1 .. k)
Needed == audio_info.bytesperframe
Enough == /\ audio_bufs # <<>> /\ video_bufs # <<>>
          /\ LeftIn(Len(audio_bufs)) >= Needed
\* The nodes up to the one with the last byte needed.
LastNode == CHOOSE k \in DOMAIN audio_bufs :
              LeftIn(k) >= Needed /\ \A j \in 1 .. k - 1 : ~(LeftIn(j) >= Needed)
UsedUp == IF LeftIn(LastNode) = Needed THEN LastNode ELSE LastNode - 1
Pieces == [k \in 1 .. LastNode |->
             LET node == bufNode[audio_bufs[k]]
             IN <<node.from + node.processed,
                  IF k < LastNode THEN Left(audio_bufs[k]) ELSE Needed - LeftIn(k - 1)>>]

(* memcpy goes beyond the data of audio_info, or beyond a node that holds    *)
(* the head of a chunk larger than itself.                                   *)
CopyOverruns ==
  \/ Needed > AudioData
  \/ \E k \in 1 .. LastNode : bufNode[audio_bufs[k]].processed + Pieces[k][2] > NodeSize
(* _dv_raw_insert_audio knows three rates, at the lowest with two channels.  *)
StoreRefuses == \/ audio_info.frequency \notin {32000, 44100, 48000}
                \/ audio_info.frequency = 32000 /\ audio_info.channels # 2
(* Was all of the sound, and all of the picture, read from the file?         *)
SoundWhole == \A k \in 1 .. LastNode :
                bufNode[audio_bufs[k]].processed + Pieces[k][2] <= bufNode[audio_bufs[k]].read
PictureWhole == bufNode[Head(video_bufs)].read = bufNode[Head(video_bufs)].usage

TakeSound ==
  /\ bufNode' = IF UsedUp = LastNode THEN bufNode
                ELSE [bufNode EXCEPT ![audio_bufs[LastNode]].processed =
                        @ + Needed - LeftIn(LastNode - 1)]
  /\ audio_bufs' = SubSeq(audio_bufs, UsedUp + 1, Len(audio_bufs))
Used == SubSeq(audio_bufs, 1, UsedUp)

StoreFrame ==
  /\ ~StoreRefuses /\ TakeSound
  /\ aviOut' = Append(aviOut, [chunk |-> bufNode[Head(video_bufs)].chunk, pal |-> lastPal,
                               sound |-> Pieces, whole |-> SoundWhole /\ PictureWhole])
  /\ free_list' = free_list \o Used \o <<Head(video_bufs)>>
  /\ video_bufs' = Tail(video_bufs)
  /\ UNCHANGED aviPc
(* The error handler goes on with the queues; the node of the picture is in  *)
(* none of them any more.                                                    *)
StoreFails ==
  /\ StoreRefuses /\ TakeSound
  /\ free_list' = free_list \o Used
  /\ video_bufs' = Tail(video_bufs)
  /\ aviPc' = "flush" /\ UNCHANGED aviOut

RunQueue ==
  /\ aviPc \in {"queue", "flush"}
  /\ IF ~Enough
     THEN /\ aviPc' = (IF aviPc = "queue" THEN "read" ELSE "done")
          /\ UNCHANGED <<queues, aviOut>>
     ELSE IF CopyOverruns
     THEN aviPc' = "overrun" /\ UNCHANGED <<queues, aviOut>>
     ELSE IF audio_info.channels = 0      \* no header of sound: division by zero
     THEN aviPc' = "crashed" /\ UNCHANGED <<queues, aviOut>>
     ELSE StoreFrame \/ StoreFails
  /\ UNCHANGED <<audio_info, lastPal, chunks, rawOut>>

AviNext == ReadHeader \/ ReadChunk \/ EndOfFile \/ RunQueue

AviSpec == AviInit /\ [][AviNext]_aviVars

-----------------------------------------------------------------------------
(* The pictures of a file of one standard are stored in the order of the     *)
(* file, each with the sound of its own time, byte for byte, however the two *)
(* are interleaved and cut into chunks.  The chunk that the end of the file  *)
(* cuts off counts with its whole length; the frames that this leaves with   *)
(* bytes of what a node held before are those with its picture or with sound *)
(* behind the last byte read, and no others.  Of sound that store refuses no *)
(* frame comes out at all.                                                   *)
Numbers == {k \in DOMAIN chunks : chunks[k].kind = "video"}
OneStandard == \A j, k \in Numbers : chunks[j].len = chunks[k].len
SoundFound == MapThenSumSet(LAMBDA k : chunks[k].got, SoundsRead)
AviPairsInOrder ==
  /\ StoreRefuses => aviOut = <<>>
  /\ OneStandard =>
       \A n \in DOMAIN aviOut :
         LET out == aviOut[n]
         IN /\ out.chunk \in Numbers /\ Cardinality({k \in Numbers : k <= out.chunk}) = n
            /\ out.pal = (chunks[out.chunk].len = Pal)
            /\ out.sound[1][1] = (n - 1) * Needed
            /\ \A k \in 1 .. Len(out.sound) - 1 :
                 out.sound[k + 1][1] = out.sound[k][1] + out.sound[k][2]
            /\ Last(out.sound)[1] + Last(out.sound)[2] = n * Needed
            /\ out.whole <=> /\ n * Needed <= SoundFound
                             /\ chunks[out.chunk].got = chunks[out.chunk].len
(* As long as nothing was overrun, a node is in one list only, and there     *)
(* only once; the node of a picture that could not be stored is in none.     *)
NodesApart ==
  LET all == free_list \o video_bufs \o audio_bufs
  IN \A j, k \in DOMAIN all : all[j] = all[k] => j = k
=============================================================================
