# libdv in TLA+

TLA+ models of [libdv](../src/README), the software codec for DV video, and of
the programs that come with it, with TLC configurations and TLAPS proofs.
Modelled are

* **dvconnect**, the program that moves DV frames between a file and an IEEE
  1394 bus, capturing and sending: the only program here with two threads;
* the **video segment** of the library: how the encoder searches for quantisers,
  lays variable length codes into the fixed areas of blocks, and how the decoder
  finds them again;
* the **frame** around it: where macroblocks, samples of sound and packs of
  data go, and what the decoder makes of them;
* the library's **shared state**, for programs that use it from several threads;
* the other **programs**: encodedv, dubdv, dvavi, playdv.

## The system

| part | source | state it keeps | operations | what makes it correct |
|---|---|---|---|---|
| dvconnect, capture | `encodedv/dvconnect.c:119-461` | block lists `buf_queue` and `free_list`, counters, the frame being assembled (`f`, `p_out`, `frame_size`, `isPAL`, all static) | `handle_packet` for every packet (main thread); `write_out_thread` | a frame queued is a frame received whole, and is written once, in order; no block is in two hands |
| dvconnect, send | `encodedv/dvconnect.c:463-860` | the same lists, `max_buffer_blocks`, `is_eof`, `src_fp`, `start_frame`, packet timing | `send_raw`, `fill_buffer` (main); `read_in_thread`, `fill_buf_queue` | frames leave in order, none repeated or skipped; the transmission starts, goes on and ends |
| bit distribution (encoder) | `libdv/encode.c:89-790, 970-1245` | bits left in each block, list of codes of each block | `vlc_encode_block_pass_1/pass_n`, `vlc_make_fit`, search for a quantiser | what the decoder borrows back is what was lent |
| bitstream parser | `libdv/parse.c`, `bitstream.[ch]`, `vlc.c` | position and end of each block, marks of unfinished blocks | the three passes of `dv_parse_video_segment` | reads no block beyond its bits; inverse of the encoder |
| placement | `libdv/place.c`, a copy in `encode.c:119-200` | none | `dv_place_*` | every macroblock is placed once, by both copies alike |
| quantisation | `quant.c`, tables in `encode.c`, `parse.c` | tables of areas, shifts, order | `_dv_quant`, `_dv_quant_*_inverse`, `reorder_block` | a coefficient comes back where it was |
| weighting, DCT | `weighting.c dct.c idct_248.c`, assembler | tables | arithmetic | numerical |
| filling and painting | `enc_input.c rgb.c YUY2.c YV12.c` | colour tables | `*_fill_macroblock`, `dv_mb4*` in up to four versions | each byte is painted once, from its own sample |
| audio | `libdv/audio.c`, `enc_output.c` | shuffling tables, last error-corrected sample, `new_recording` history | insertion, unshuffling, correction, mixing, `dv_is_new_recording` | sound comes back complete and in place; corrections touch only what was lost; a recording is reported once |
| meta data | `headers.c`, `dv.c`, header part of `parse.c` | packs in subcode and vaux blocks, tables by pack id, static `block_count` | `_dv_write_meta_data`, `dv_encode_metadata`, `dv_encode_timecode`, `dv_parse_header`, `dv_parse_packs`, queries | what is read is what was written last |
| library API | `dv.c`, `encode.c:1515-1884` | `done`, tables changed in place, `vlc_encode_lookup`, two mutexes, buffers of an encoder | `dv_init`, `dv_cleanup`, `dv_*_new`, `dv_encode_full_frame`, `dv_decode_full_frame` | tables are ready before they are used; frames of threads do not mix |
| encodedv | `encodedv.c`, `dv_encoder_loop`, `enc_audio_input.c`, `enc_input.c` | frame number, `isPAL`, `skip_frame_count`, buffers, bytes of sound read | `main`, `dv_encoder_loop`, `wav_load`, `dsp_load` | the frame rate asked for; sound and picture in step |
| dubdv | `encodedv/insert_audio.c` | position in video and sound, `repeat_count` | `main`, `read_frame` | no picture lost or repeated when either input ends |
| dvavi | `encodedv/dvavi.c` | nodes in `free_list`, `video_bufs`, `audio_bufs` | `get_audio_header`, `read_avi`, `run_queue` | each picture gets the sound of its time |
| playdv | `playdv/` | offsets of the mapped or piped input, window | `mmap_unaligned`, main loop, `dv_display_*` | no frame skipped or read twice; the picture keeps its shape |

The parts meet as follows. A *source* (camera over the bus, file, pipe) gives
packets or frames; dvconnect, dubdv and playdv hold them in blocks; `parse.c`
reads the header, `dv_parse_video_segment` the coefficients, `place.c` says
where they go; `audio.c` takes the audio blocks out of the same frame, and the
queries of `dv.c` read its packs. The encoder does the reverse. Only dvconnect runs threads of its own; a program
that uses the library from several threads, as `enctest.c` does, meets the
statics of `dv.c`, `encode.c`, `parse.c` and `headers.c`.

The hard parts, one by one with their lines, are the `hazards` of
`PROJECT.json`: condition variables waited on without a predicate, unlocked
reads of `buf_queue.usage`, `cap_num_frames`, `max_buffer_blocks` and
`is_eof`, packets lost on the bus, pools at their limit, statics that outlive
a frame, off-by-one counts of frames; in the library the borrowing of bits
between blocks, searches that end early, tables kept twice by hand, versions of
one function that must agree, tables changed in place by `dv_init`; in the
programs sizes that depend on a standard not yet known, inputs that end at
different times, queues with recycled nodes.

## Modules

| module | what it is |
|---|---|
| `BufLists` | `push_back`, `pop_front`; ownership of blocks by two lists and two threads |
| `FrameChannel` | abstract specification: a bounded FIFO channel of frames |
| `DvCapture` | capture: main thread, writer, bus |
| `DvSend` | send: main thread, reader, input files |
| `VlcCodes` | the shape of a video segment and its prefix code |
| `VlcDecode` | the decoder: `dv_parse_video_segment`, `dv_parse_ac_coeffs`, `dv_find_spilled_vlc` |
| `VlcEncode` | the encoder: `vlc_make_fit`, `vlc_encode_block_pass_1`, `vlc_encode_block_pass_n` |
| `VlcRoundTrip` | the decoder reading what the encoder wrote |
| `DvQuant` | quantiser of both directions, tables of order, areas and shifts, lengths of the real codes |
| `VlcQuant` | the search for quantisers with one, two and three passes |
| `DvMacroblock` | one macroblock: its place, from where it is filled, how it is painted, in every version |
| `DvPicture` | a whole frame's picture, encoded and decoded segment by segment |
| `DvMetaData` | the packs: written, collected, queried |
| `DvAudio` | the sound of a frame: inserted, lost, corrected, mixed |
| `DvRecording` | `dv_is_new_recording` along a tape |
| `DvShared` | what threads share in the library: `dv_init`, mutexes, an encoder |
| `DvEncoderLoop` | encodedv |
| `DvDub`, `DvAvi` | dubdv, dvavi |
| `DvDisplay`, `DvPlayer` | playdv: window and sound card; reading and main loop |
| `MCDvCapture`, `MCDvSend`, `MCVlcDecode`, `MCVlcRoundTrip` | values that a `.cfg` cannot express |
| `MCDvFrame` | the parts of a frame and `VlcQuant`, one of them chosen at the start |
| `MCDvPrograms` | the programs, `DvShared` and `DvRecording`, one of them chosen at the start |
| `BufListsProofs`, `SumsProofs` | lemmas: what `BufLists` does to the ownership of blocks; sums by folds, least numbers |
| `DvCaptureProofs`, `DvSendProofs`, `VlcDecodeProofs` | theorems about the specification of that name |
| `DvEncoderLoopProofs` | theorems about the encoder: `DvEncoderLoop` and `VlcQuant` |
| `DvLibraryProofs` | theorems about `DvShared`, `DvRecording` and `DvMetaData` |
| `DvProgramsProofs` | theorems about `DvAvi`, `DvDub` and `DvPlayer` |

### DvCapture

The bus delivers packets numbered within frames (`cam`); packet 1 is the one
whose header has the DIF sequence 0 mark by which `handle_packet` recognises
the start of a frame. PAL or NTSC is the frame's property, and the frame sizes
(300 and 250 packets in the code) are constants. A block holds the packets
stored in it, not bytes. Main (`pc`) takes one packet at a time. A packet that
starts a frame ends the previous one: the cascade of `handle_packet` is split
at the points where the other thread can be seen: the push, the signal, the
two critical sections of `get_free_block`. Each of the branches is an action
(`CompleteFrame`, `DiscardFrame`, `StartWithoutBlock`, `BufferOverrun`,
`StorePacket`, `OverflowFrame`, `IgnorePacket`, `SkipFrame`). The writer
(`wpc`) tests `cap_num_frames`, waits, and drains the queue; its loop has a
step for each of them.

`LosePacket` is the bus dropping a packet. `broken_frames` and
`frames_captured` saturate at `MaxCount`; `broken_frames` keeps telling zero
from more than zero, which is all a property asks of it.

### DvSend

Frames are numbered through all inputs; an input is the number of whole frames
it has, or `Missing`. Main skips `start_frame` frames, starts the reader,
waits, and then serves kernel buffers: pop a frame, or in an underrun wait, or
send the underrun frame; transmit; put the block back; signal. The reader
takes a free block, reads, pushes and, from its second call on, signals. The
partial frame at the end of an input goes with the end of file: `read_frame`
fails, the next input is opened, or `is_eof` is set and the block goes back.

The variables `pc`, `rpc`, `f_node`, `rf` and `fire` are the two threads'
program counters and locals; everything else has the name it has in the
source. `bus` is the number of the last input frame sent, a history variable
by which order is stated.

### The video segment: VlcCodes, VlcDecode, VlcEncode, VlcRoundTrip

A block is a pair of macroblock and number in it; an area is the bits between
`dv_parse_bit_start` and `dv_parse_bit_end`, numbered from 1, so that offsets
count the bits used. `Decode` is what `dv_decode_vlc` computes from its tables
for the bits left: the codeword or error they begin with, or nothing
(`VLC_NOBITS`). A coefficient is its codeword; what its amplitude is does not
matter here, how many places it skips does (`Run`).

`VlcDecode` has one action for each way through the loops. Pass 0 (`pc =
"own"`): a code from the block's own area, its end, or too few bits. Passes 1
and 2: `"block"` chooses the next incomplete block, `"code"` reads from the
source (`src`, with `pre` the bits of a code begun elsewhere that
`bitstream_unget` has put before it), `"spill"` is the loop of
`dv_find_spilled_vlc`, one lender a step. `offset` may be negative, as in the
code, after a code has begun in an earlier block (`save_offset`). When a code is
found all blocks marked are used up; when none is, their bits stay theirs.
`dv_decode_full_frame` decodes segment after segment with the same structure;
`Idle` is its first state, and the blocks that are not parsed without colour
keep it.

Two ways lead to undefined behaviour, and the model stops there. In `"lost"`
an error code has been taken for a coefficient: the error entries of
`dv_vlc_lookup4` and `5` have run 0, and the loops look at the run first; the
stream is then flushed by a length of -2 as an unsigned number, after which
the bitstream shifts by more than its width. In `"overrun"` pass 0 has written
beyond the block, since it does not compare the scan position with its end.
The x86 assembler versions of pass 0 are not modelled, the C code is.

`VlcEncode` starts with the entries of `vlc_encode_block`: two for each
coefficient, of which the first has no bits unless an escape is needed, and
EOB. `Groups` are the calls of `vlc_make_fit`: one for each block, macroblock
or the segment. The code calls it only if the quantiser search has ended at 0
or was replaced by a static table; otherwise the codes should fit and the call
would return at once (`Fits`). `VlcQuant` is about that "should". A code is written whole (`Put`) or split where the
area ends (`Split`), the rest staying in place as a shorter entry. Pass 2 and 3
walk through a list of receivers and one of suppliers (`Gather`).

`VlcRoundTrip` runs the decoder on the encoder's areas: `bits` is defined from
them, with the zeroes of `memset(target, 0, ...)` where nothing was written.
`InOrderOfSending` and `RoundTrip` are where the two independent searches, of
lenders and of suppliers, have to agree.

`DvQuant` has the real tables, and the real lengths of the codes as run and
amplitude give them; `VlcQuant` chooses quantisers for the 30 blocks of a
segment, whose contents are taken from a few patterns. One action is one round
of a search: a block measured (`OnePass`), a quantiser tried by halving
(`Halve`), the largest macroblock made coarser (`Coarsen`). `fitted` collects
the calls of `vlc_make_fit`. `quant_1_pass` works with `qno_next_hit`, of which
`NextQno` is the meaning: the entry of the class behind the first one that is
not above the quantiser in force.

### The frame: DvMacroblock, DvPicture, DvMetaData, DvAudio, DvRecording

The frame has its real size: 10 or 12 DIF sequences of 150 blocks, 27 video
segments each, 720 x 480 or 720 x 576 pixels, 1580 to 1944 samples. Nothing in a
DIF block says where it belongs; encoder and decoder count.

`DvPicture` walks through the frame twice with a running block number (`dif`),
once for `dv_encode_full_frame`, once for `dv_decode_full_frame`. A macroblock
stands for the position it was taken from. `DvMacroblock` says for one
macroblock of each shape (32 x 8; 16 x 16 at the right edge of 4:1:1; 16 x 16 of
4:2:0) which picture samples each block sample is made of (`FillLuma`,
`FillChroma`, from planes and from PGM) and which byte is painted from which
sample (`Walk...`, `Mb...`), following the pointer steps of the loops of each
version. Values are left out: colour arithmetic and clamping.

`DvMetaData` keeps packs of five real bytes. The three writers may be called in
any order and overwrite each other; the reader collects by pack id, the last one
winning. `DvAudio` has samples that know where they come from, through the
shuffling of both systems; blocks may be lost before they are decoded.
`DvRecording` has one action for each frame of a tape; 0 stands for time
00:00:00.00, which the code takes for "none".

### DvShared

A thread makes an encoder or decoder, and so may run `dv_init`, and encodes or
decodes frames. The flag `done` is tested at the beginning and set at the end.
Two kinds of tables are followed: those changed in place (`x = (x - 1) * 2` for
`reorder_88` and `reorder_248`, `x = x * 2` for the second half of
`dv_reorder`), by the number of times that happened, and `vlc_encode_lookup`,
which is tested for NULL, allocated, and filled through the global pointer. A
read, change and write is two steps. The buffers `img_y`, `img_cr`, `img_cb`
and `frame_count` belong to the encoder, and threads may share one.
The other tables are overwritten by equal values and left out.

### The programs

Each is one thread and one loop; what is hard is the order of its early exits
and the state left from the round before. `DvEncoderLoop` keeps `isPAL` at -1
until a picture was read, the contents of the buffer that a cut picture leaves,
and the piece of sound loaded last; sound is counted in bytes, a piece is
`[from, size]`. `Main` checks the options as `main` does and in that order.
The code takes a few things for granted that it never checks; they are the
assumptions of the module (`EncAssumption`): the pictures of a series are of one
standard, the header of a sound file with two channels is right about the bytes
in a second, and 65536 times the frame rate is an int.
`DvDub` has pipes and a file read and written at once; only the last frame of a
file can be cut (`WholeKinds`, `CutKinds`), and frames are repeated in a pipe
only (`DubAssumption`). Its sound is refused either when it is opened
(`SoundRefused`) or, with four channels, by the first `Store` (`Fail`, from `Repeat`
or `Dub`). `DvAvi` has the nodes of the three lists: which chunk or which bytes of
the sound a node holds, how many (`usage`) and how many of them were read from the
file (`read`). `fread` is not looked at in the code: the chunk that the end of the
file falls into (`Found`) counts with its whole length, and `whole` tells of each
frame stored whether all of it came from the file. Memory overrun, by the sound of
a frame (`Overrun` in `DvDub`, `CopyOverruns` in `DvAvi`) or by a chunk (`ReadAudio`),
is the state `"overrun"`, behind which nothing is claimed. A store that fails
(`StoreFails`) leaves the picture's node out of all lists and goes on in the error
handler, `"flush"`. `DvPlayer` counts
data in units of 24000 bytes, the greatest common part of both frame sizes, so
that "moving the rest to the front" is a permutation of units; a frame without the
pack 0x61 has the format -1 (`FormatUnknown`) and counts as changed. `DvDisplay` is
the integer arithmetic of the window. `EncRateKept` and `AspectKept` allow what
integer arithmetic loses and no more: a step of the frame rate is rounded to
1/65536 of a picture, a side of the window to a whole number of points.

### Atomicity

One step is one critical section (`push_back`, `pop_front` lock their list)
or one unlocked access to what both threads use. So `get_free_block` is two
steps: the free list is found empty, and later `buf_queue.usage` and the limit
are looked at. A condition variable's wait set is a program counter value
(`"waiting"`, ...); a signal moves a waiting thread on and is otherwise lost,
which is the heart of most hazards here, because no wait in dvconnect.c tests
a predicate. POSIX allows a wait to return by itself: `WakeSpuriously`. It is
on (`Spurious = TRUE`) where a property has to survive it and off in the runs
that show a defect, so that none of them needs it.

In the library and the other programs one thread is at work, except in
`DvShared`; the steps are iterations of the loops, and only their order
matters. In `DvShared` a step is one access to shared state, or the work on one
video segment.

Deadlock checking is off in all runs: the program ends (`"closed"`,
`"done"`), and the places where it hangs are the subject of properties.

## Runs

Properties that hold:

| run | properties | what it shows |
|---|---|---|
| `capture_shared` | `TypeOK`, `OneOwner`, `LosslessFramesWhole`, `SilentSpliceNeedsLoss`, `ImplementsChannel` | A frame is put together from the packets of one frame, unless at least a frame's worth of packets has been lost; what is queued reaches the file once and in order; blocks are never shared or lost |
| `capture_live` | `AnnouncedFrameWritten` | In an endless capture a frame is written if it is announced while the writer waits or works through the queue, and with it the frames whose own signal was lost; only a signal between the last look into the queue and the wait is lost |
| `send_shared` | `TypeOK`, `OneOwner`, `SentInOrder`, `ImplementsChannel`, `InputIsConsumed` | Frames of several inputs leave in order, with and without an underrun frame; blocks are never shared or lost; with an underrun frame the reader is never left waiting for ever, the whole input gets read |
| `vlc_roundtrip` | `TypeOK`, `InOrderOfSending`, `RoundTrip` | Whatever the codes, the decoder reads them back block by block in order, and completely if they fit, for one, two and three encoder passes |
| `vlc_decode` | `TypeOK`, `BitsConserved`, `MarksAreCleared`, `Terminates` | On every content of the areas, valid or not, each bit used belongs to one code, no mark is left for the next segment, and the decoding ends |
| `frame` | `TypeOK`, `NothingMissing`, `VersionsAgree`, `PixelsComeBack`, `CellsPaintedOnce`, `StampsComeBack`, `SoundIsBack`, `ErrorsHidden`, `Mixed4`, `QuantFits`, `CoefficientsComeBack` | In all three systems every DIF block and every cell of the picture is used exactly once, and each byte painted comes from the sample at its place, in all formats and versions; time, date and format are read back after any order of writes; sound comes back complete, lost blocks are hidden; after each search for a quantiser with two or three passes the codes fit, or `vlc_make_fit` is called; encoder and decoder agree on order and steps of the coefficients |
| `programs` | `EncRateKept`, `SoundInStep`, `SamplesKept`, `DubKeepsPictures`, `AviPairsInOrder`, `NodesApart`, `PlayerReadsFrames`, `AspectKept`, `TablesReady`, `FramesUnmixed`, `RecordingsAreFound` | encodedv keeps frame rate and sound in step, whatever it drops, and converts samples rightly; dubdv loses no picture, and writes nothing of sound it cannot store; dvavi gives each picture its sound, through recycled nodes, and only the chunk cut off by the end of the file leaves foreign bytes; playdv shows each frame of mixed streams once, from pipe and file, and in a window of the aspect asked for as 4:3 or 16:9 as it was recorded; threads that start after `dv_init` find complete tables, and frames of threads that share an encoder do not mix; recordings are found once along a tape |

Properties taken from the documentation that the code violates; the finding in
`PROJECT.json` quotes the line:

| run | property | what happens |
|---|---|---|
| `capture_ends` | `CaptureEnds` | the signal for the last frame comes before the writer waits; `pthread_join` never returns |
| `send_crash` | `UnderrunAnswered` | the underrun frame finds no block: NULL is dereferenced |
| `vlc_errors` | `ErrorsAreSeen` | an error code passes the test `run >= 0` and is used as a coefficient of length -2 |
| `vlc_overflow` | `OverflowOnlyDrops` | the EOB that `vlc_make_fit` puts in the place of a shorter entry is not counted; bits that do not fit any more stay unwritten, and the decoder takes zero bits of other blocks for them |
| `quant_overflow` | `OverflowOnlyAtZero` | with one pass, a block that fits with quantiser 13 is encoded with the 12 that a later block needs, and is longer then: its last codes are left out at a quantiser that is not 0 |

## Known deviations

Disagreements and weaknesses that no run shows, with the line where they bite.
The properties above are stated so that they hold beside them, and say so.

dvconnect (`encodedv/dvconnect.c`):

* As many packets as a frame has can be lost across two frames; the halves make a
  frame of the right size, and the warning of line 243 is not given.
* Without an underrun frame main can wait in an underrun while the queue is full
  and the reader waits for main (line 607).
* After `--start-frame` the count restarts at 0, so frames beyond `--end-frame`
  are sent (line 740).
* `--end-frame=N` counts starts of frames, and the start of the N-th ends the
  capture: N-1 frames are captured (line 240).
* With the queue full, the writer waiting and main without a block, an overrun
  never passes (line 272).
* The reader's first signal can precede main's wait for it (line 797): the
  transmission does not start.
* The writer can leave its loop (line 311) before the last frame is queued,
  which then is never written.
* The limit of `--buffers` looks at the queue only (line 192), so more blocks
  than it says can exist.
* `is_eof` is read after the pop that found the queue empty (line 590), so the
  last frames can be dropped, and at `--end-frame` main joins (line 853) a
  reader that waits for a signal nobody sends.

Video segment:

* Without colour pass 0 leaves blocks 4 and 5 alone, and the later passes read
  them all the same (`parse.c:363`).
* Three passes with `--static-qno`: for a macroblock without AC codes the search
  in the table reads beyond it (`encode.c:1170`; `VlcQuant` ends in `"overrun"`).
  The manual page suggests `-q` together with `-p 3`.
* A three-pass search that arrives at quantiser 0 cuts codes too, which
  README.encoder says of one and two passes.
* The C version of `reorder_block` (`encode.c:517`) subtracts 1 from tables that
  `dv_init` has made byte offsets from 0 on every processor: where neither x86
  version is compiled it writes outside its array and mixes up the coefficients.
  The commented-out line above it is the one that fits. `DvQuant` has the x86
  meaning.

The frame:

* `dv_enc_rgb_to_ycb` stores chroma at even pixels from the pixel before and its
  own. PGM pictures: the chroma loops of the right edge (4:1:1) write past the
  block. `PixelsComeBack` excepts that edge and allows that pixel.
* `clamp_chroma` covers half of the chroma samples (`encode.c:1833`).
* Years outside 1925..2024 come back a hundred years off (`dv.c:855`).
* The source pack of the second half is looked for where NTSC frames do not have
  it, so four channels are never found there (`audio.c:452`; the comment at
  audio.c:432 has it right), and NTSC end marks are not seen. An end mark at time
  zero is never reported; a frame without time code compares an uninitialised
  stamp.
* Silence correction clears k bytes, not k samples (`audio.c:741`).
* `--frequency=3` is documented as 48 kHz and gives 44.1 (`audio.c:392`).
* `dv_encode_full_audio` before `dv_encode_full_frame` is wiped with the frame;
  four channels fail after the headers of sequence 0 are written.

Shared state:

* Without `dv_init` two threads can both find `done` FALSE, and the tables that
  are changed in place are spoilt. `enctest.c` starts its threads that way; the
  ChangeLog (2003-11-10) asks for `dv_init` first, as `TablesReady` does.
* `dv_cleanup` leaves `done` TRUE: later encoders use a NULL table.
* `dv_encode_metadata` shares the static `block_count` without the mutex, and
  `dv_encode_full_audio` writes `isPAL` of the encoder.

Programs:

* encodedv: sound of the first frames has PAL's size until the first picture is
  read, so it runs ahead in NTSC; a short read of the sound repeats the last
  piece to the end; at 32 kHz an NTSC frame of sound is no whole number of
  samples; the exit code is always 0, and a sound file that cannot be opened
  ends in `fclose(NULL)`.
* dubdv: `--repeat` puts sound into the repeated frame, which the manual page
  denies (`insert_audio.c:296`); in file mode the rest is copied to stdout. Four
  channels at 32 kHz are taken when the file is opened (`enc_audio_input.c:199`) and
  refused at the first frame (`enc_output.c:286`); they fill the buffer of `wav_load`,
  made for two, beyond its end before that (line 261; encodedv loads the same way).
* dvavi: the standard of the newest picture is used for all queued ones
  (`AviPairsInOrder` is about files of one standard); without a sound header the
  division for the size of a frame is by zero. A chunk of sound longer than a node
  is read over its end (`dvavi.c:428`), a frame of sound larger than the buffer in
  `audio_info` is copied over it (line 344). What the file lacks of its last chunk is
  whatever the node held (lines 428, 434, 445), and is stored. After a store that
  failed each further frame is tried, with one node less each time.
* playdv: a file that begins with PAL loses a last NTSC frame; a frame cut at the
  end of a file faults; a pipe never loops. Without `-aspect` the picture does not
  follow the window. While a frame of unknown format is shown (`dv.c:736`), a new size
  of the window leaves the picture at its old place (`display.c:319`). In a window
  that does not have the aspect asked for the picture is stretched with it, as the
  manual page says (`playdv.1:77`).

## Bounds

* Frame sizes 3 (PAL) and 2 (NTSC) packets: the smallest for which a frame has
  a first, a middle and a last packet, and for which one standard's frame is a
  broken one of the other. The theorems hold for every size.
* `MaxLost` 3: one more than an NTSC and as many as a PAL frame, so that both
  kinds of splice occur and one packet less can be told from them.
* 4 to 5 camera frames, one of them skipped and two or three captured: a frame
  in assembly, one queued and one being written at the same time.
* `MaxBufferBlocks` 1 or 2 and `MaxAlloc` 3 to 6: queue full with the free list
  empty, and with it refilled; in `send_shared` also memory exhausted.
* Inputs `<<1, 2, 0, 2, Missing, 1>>`: an end of input in the middle, an empty
  input, one that cannot be opened with another behind it. `<<4>>` for the
  runs in which the number of inputs does not matter.
* `capture_live` has no end: the camera's frames are numbered modulo
  `CamFrames`.
* Video segments of two macroblocks of two blocks: a block can borrow within
  its macroblock, from the other one, from both, and a code can begin in one
  area, go through a second and end in a third (areas of 3 bits in
  `vlc_decode`, 5 and 6 in `vlc_roundtrip`, codewords of 2 to 4). All contents
  of the areas in `vlc_decode`; all sequences of up to two coefficients for
  each block in `vlc_roundtrip`, from no code to more than twice the space.
  The prefix codes keep what matters of the real one: EOB longer than the
  shortest codeword, that one being what unwritten bits look like, an escape,
  errors.
* `frame`: the frame itself is not bounded. Two writes of meta data (each writer
  before and after each other), with clock values on both sides of a new year, a
  century and the pivot year; frame numbers on both sides of each rule for the
  number of samples; losses of one sequence, one block, and every second
  sequence (one head), in a camera's frames and those of the estimated size;
  mixing levels at, within and beyond the limits.
* Tapes of four frames with three time stamps, which can repeat, go on and come back.
* Quantisers: seven patterns of blocks, from empty to full with large
  amplitudes, among them one that grows when its quantiser is lowered, in
  72 segments; with static tables 0, 1 and 2 and each number of passes.
  `CoefficientsComeBack` compares the tables at all 63 places for all quantisers
  and classes, with amplitudes small, large and negative.
* `programs`: command lines with each option that changes the flow, and up to 27
  pictures, more than one second, so that the frame rates go round; sound of two and four channels for `dubdv`, of each outcome of
  `SoundTaken` and `Unsupported`; `dvavi` with
  3 nodes instead of 25 and files of 6 chunks, which reach the limit, recycle
  nodes and need several nodes for one frame, headers with a rate and with channels that
  are not stored, chunks of sound longer than a node, and an end of the file 3000 bytes
  into any chunk (one place, since only its order with the ends of frames matters); of
  the two ways to overrun in `run_queue` only the sound of a frame larger than its
  buffer occurs, as using up a node that is fuller than it can be takes more
  pictures than the chunks of such a file; chunks of format 1 have the size of PAL or are too large. Streams
  of four frames with every mixture of standards for `playdv`, of two frames with every
  mixture of formats, known and unknown, and windows of 4:3, of 16:9, each with a
  remainder, and of neither.
* `DvShared`: two threads, one or two frames each, of two segments: enough for
  every pair of conflicting accesses and for a thread that comes after another
  has finished.

## Fairness

For `Terminates`, weak fairness of the decoder's next step: sequential code
that has not returned goes on. In dvconnect, weak fairness of the main thread and of the other thread: both are scheduled
by the operating system, a mutex is held for a few instructions only, and the
kernel keeps delivering packets (capture) and taking buffers (send). There is no
fairness of `WakeSpuriously` or of the bus losing packets. Fairness of a
thread does not get it out of a wait: a waiting thread has no step.

## Proofs

All theorems hold for every value of the constants that satisfies the named
assumption of the module: `CaptureAssumption`, `SendAssumption`, `PrefixCode`,
`SegmentShape` and `NBlocksInShape` (decoder), `QuantAssumption`, `SharedAssumption`,
`RecordingAssumption`, `ClockAssumption`, `AviAssumption`, `DubAssumption`,
`PlayAssumption`, `EncAssumption`. They ask for ranges, for a code in which no word
begins another, and for what the section on the modules says of the programs. No
theorem has a further hypothesis (`LastStampIsRead` is about each of the two systems).

| theorem | of | what |
|---|---|---|
| `TypeCorrect` | capture, send | `Spec => []TypeOK`; for capture it includes that no frame outgrows its block |
| `BlocksHaveOneOwner` | capture, send | `Spec => []OneOwner` |
| `CaptureImplementsChannel` | capture | `Spec => ImplementsChannel` |
| `FramesStayWhole` | capture | `Spec => []LosslessFramesWhole` |
| `SplicesNeedLosses` | capture | `Spec => []SilentSpliceNeedsLoss` |
| `FramesSentInOrder` | send | `Spec => SentInOrder` |
| `SendImplementsChannel` | send | `Spec => ImplementsChannel` |
| `NoMarkSurvives` | decoder | `Spec => []MarksAreCleared` |
| `AreasStayInBounds` | decoder | `Spec => []TypeOK` |
| `BitsAreConserved` | decoder | `Spec => []BitsConserved` |
| `TablesAreReady` | library | `SharedSpec => []TablesReady` |
| `FramesNeverMix` | library | `SharedSpec => []FramesUnmixed` |
| `RecordingsAreAllFound` | library | `RecSpec => []RecordingsAreFound` |
| `LastStampIsRead` | packs | `MetaSpec(system) => []StampsComeBack` |
| `RateIsKept` | encodedv | `EncSpec => []EncRateKept` |
| `SoundKeepsInStep` | encodedv | `EncSpec => []SoundInStep` |
| `SearchEndsFitting` | quantisers | `QuantSpec => []QuantFits` |
| `SamplesAreKept` | encodedv | `EncSpec => []SamplesKept` |
| `DubLosesNothing` | dubdv | `DubSpec => []DubKeepsPictures` |
| `NodesStayApart` | dvavi | `AviSpec => []NodesApart` |
| `PicturesMeetTheirSound` | dvavi | `AviSpec => []AviPairsInOrder` |
| `PictureKeepsAspect` | playdv | `PlaySpec => []AspectKept` |
| `FramesAreRead` | playdv | `PlaySpec => []PlayerReadsFrames` |

### dvconnect

`OneOwner` alone is not inductive. A push needs that the pushing thread has a
block in hand, and which one: `Flow` ties `f`, `wf`, `f_node` and `rf` to the
program counters. Given it, each list operation is one lemma of
`BufListsProofs` (`OwnerPush`, `OwnerPop`, `OwnerMalloc` and the same by
number), and the symmetry of the two lists and the two threads saves half the
cases. `TypeOK` of the capture needs `Sized` (the frame in assembly is inside
its block, and a block queued has as many packets as its `usage` says).

*Capture implements the channel.* The channel holds the contents of the block
being written and of those queued. A step other than the push and the write
leaves it alone, because main writes only to the block in its own hand, which
by `OneOwner` is neither queued nor the writer's (`InFlightFrozen`).

*Frames stay whole, splices need losses* (`LossInv`). Both properties are about
frames queued; the reason lies in the frame in assembly, long before. `Begun`
says of it, when it has k packets, where the camera can be: at packet k + 1 of
the same frame with nothing missing (`Exact`), further on in the same frame, so
that the size will be short (`Behind`), or in a later frame, and then at least a
frame's packets have been lost (`Beyond`). `Opening` says the same while a frame
is handed over and its successor has one packet, `Pushed` and `Queued` carry the
result to the writer. All of it holds only as long as nothing is lost or no
broken frame was counted (`Unharmed`), which is what the two properties ask.

*Send implements the channel.* `Numbered` says where in the numbering each
frame is: the block in transmission holds `bus + 1`, the queue the numbers
behind it, the reader's block the last frame read. It is preserved because the
underrun frame and the reader's frame are written to blocks that nobody else
holds. Then the channel's content is the function `i |-> bus + i`, and what is
left to show is that a push makes it longer by one, a transmission of a frame
shorter by one at the front, and everything else leaves `bus` and the number
of frames in transit alone (`FrameSteps`). There is room for a push because
every frame has a block of its own (`RoomForOne`, from `AllAccounted`).

### The video segment

*No mark survives a search.* Each search clears either the marks of the
macroblock at work (pass 1) or all of them (pass 2). `Trail` says that in pass 1
no other marks exist; for that, `Control` keeps the source of the bits inside
the macroblock, and `LenderIsNear` the lender, which is the first of a set and
therefore in it (`FirstIsMember`, from the well-foundedness of `<`).

*Areas stay in bounds* (`UsedInv`). `offset` may be negative, so "not beyond the
end" does not hold by itself: `InPlace` says that only the source of a code that
began elsewhere is below zero, by no more than the bits collected for it, so
that the code, once found, ends inside the area. That a code found is longer
than what had been collected is `Beginning`: the bits collected are never a
codeword by themselves, and no codeword begins another (`PrefixCode`).
`Incomplete` says that a block at work has not met its EOB, which `Counted`, the
agreement of `eob_count` with the flags, needs.

*Bits are conserved* (`AccountsInv`). The bits used, summed over the areas, are
those of the words read, summed over the blocks (`Balanced`). During a search the
two sides differ from step to step by the bits of the marked blocks, whose sum is
the length of `pre` (`Collected`); the steps that find a code or give up turn
them into bits used or give them back. The sums are folds, which `SumsProofs`
opens: a fold over a set is the value of a map on its subsets at that set, and
induction over a set of subsets (`SubsetInduction`) gives what a change at one place
does to the sum. No operator is a parameter of these lemmas, so that the provers
can use them.

*The search ends fitting* (`QuantInv`). `QuantFits` speaks of the end of the
search. With two passes (`TwoInv`) it is made true macroblock by macroblock: one
behind the search fits or was made to fit, the latter only at quantiser 0 or
with a static table. The halving returns `halving.ok` and not the quantiser it
measured last, so the invariant has that what is remembered fits (`HalfFits`), and
which pairs of quantiser and step there are (`HalvingAt`), so that all that is
tried, and remembered, is a quantiser. With three passes (`ThreeInv`)
`bits_used` is at every step what the quantisers make of the coefficients
(`Counted`), although only the macroblock just coarsened is counted again; that
the sum compared with 2560 bits is the bits of the segment is `OverflowOfAll`, from
`TotalOfParts` (a sum over pairs is a sum of sums). A static table stands for
quantiser 15 only while the bits are at most 512 (`EntriesInRange`). That bits are
numbers at all is shown from the tables of shifts and of code lengths (`ShiftInRange`,
`CodeLength`, `BlockLength`).

### The library

*Tables are ready* (`TablesInv`). The property is about a thread at work; the
reason is the one who fills the tables. `TablesAt` gives their state for each of
its steps; it is the main thread's if the program calls `dv_init` first
(`MainFirst`: no other thread begins before it has finished, and those that come
later find `done` and leave the tables alone), otherwise that of the only thread
that has begun (`OneFirst`).

*Frames do not mix* (`FrameInv`). `HolderMatches`: the mutex is held by the
thread between lock and unlock. Two threads with one encoder have one mutex,
hence the picture in its buffers is the holder's (`PictureInPlace`), and each
segment made from them is (`OwnSegments`); and as `frame_count` changes under the
mutex only, it is the number of frames of that encoder and beyond all their
numbers (`ResultsInv`).

*Recordings are found* (`RecInv`). The flag `new_recording_on_next_frame` is up
exactly as long as the last run of equal stamps has an end mark (`FlagFollows`); a
stamp remembered while it is down lies before the last change of stamp
(`StampIsPast`), and as stamps do not come back (`Ordered`), no later frame can be
mistaken for it.

*The last stamp is read* (`MetaInv`). After each write all slots hold the packs of
the stamp, with the date of the writer of all packs and the time code of
`dv_encode_timecode` if that wrote after it (`MetaStamped`): `WritersStamp` for the two
that write everything, `CodeStamps` for the one that replaces the time codes only. A
reader keeps the last pack of each identifier (`CollectsLast`), which decides which slots
count (`PacksRead`). Then the values have to fit their digits: `DigitsComeBack` holds
for as many tens as the field has bits for, and `CountIsTime` shows that a count of frames
is a time within them. `ClockAssumption` therefore asks for counts below 40 hours at 25
frames; a longer count loses its tens of hours in the pack. Of the year two digits are
written; the century comes back between 1925 and 2024, which `StampsComeBack` says.

### The programs

*encodedv* (`EncInv`). `EncPlace` says which picture the loop is at.
`EncRate` is the exact account behind the inequality of `EncRateKept`: 65536
times the pictures encoded is what the steps of all frames add up to, plus what
`skip_frame_count` still has; the first step counts as PAL if the standard was
not known. `skip_frame_count` is below one picture, which gives the upper bound,
and the step is the rate asked for less a rounding error, which gives the lower.
`EncSound` has two phases: as long as the file has enough, what was read is the
sum of the pieces so far (`FileInStep`), and once a piece was short the last
one stays (`FileOver`). That a piece then stands at the time of its picture
within one frame is the arithmetic of `PieceInTime`; that of the rate is `RateIsRight`.

*dubdv* (`DubInv`): the frame in the buffer is the next one of the input, or it
is empty and none is left (`FrameInHand`); `DubPhases` says what each of the three
loops finds, and `SoundRead` that the sound of the frames stored is what was read. That a refused
sound leaves nothing behind is an invariant beside it (`DubFails`): with `Unsupported`
sound no store succeeds, so the failing one is the first.

*dvavi* (`AviInv`): a node number in a list was allocated, and is in no other
list and in none twice. The step to show is the run of `run_queue`, which takes
several nodes of sound for one picture and moves those used up, and the
picture's, to the free list; the lemmas about appending and cutting a sequence without
repetitions are those of `BufListsProofs`.
`AviPairsInOrder` needs more (`PairsInv`). The queue of sound has no gap: each
node ends at the byte the next one begins with, the last one where reading stands,
and the first one, less what is used of it, where the frames stored end
(`SoundInOrder`); the queue of pictures holds the last pictures read, each with
its number (`PicturesInOrder`, a count over the chunks); and for a file of one
standard the newest picture's standard is that of all (`StandardKept`). What was
found of the chunks is all of them but for the last (`CutAtEnd`), and each node of
the queue was filled as far as the bytes found reach (`Filled`); so the frames with
bytes that are not in the file are the ones behind the last byte found. Sound that
the store refuses gives no frame at all, and what follows a refusal need not be in
order: `AviFile` says one or the other. The step to show is again `run_queue`, which cuts a frame of sound out of as many nodes
as it takes (`ChainIsCut`, `PiecesFollow`). Sums over the chunks and the nodes are
those of `SumsProofs`.

*playdv* (`PlayInv`): after each change of window or format the four sizes of the
display fit each other (`Placed`), which means computed from the format that
`picFormat` remembers, and that is the format of the picture shown last; what the
rounded quotients then do to the shape is the arithmetic of `PictureIsRight`, for
each of the formats that are known.
`PlayerReadsFrames` has an invariant of its own, for the first time through the
stream (`ShowInv`). `PlayAssumption` says of a stream that it has a frame at least
and ends within or behind the last one; that every frame then begins where the one
before it ends, and which unit is where, is `StreamIs`, by induction over the frames.
`PipeHeld` says what the buffer of a pipe holds: the units from `last_offset` on,
`last_length` of them, and after a frame of PAL was mapped again as one of NTSC one
more that was put aside. `PipeIsRead` shows it kept by every read the loop makes: the
same offset while nothing is put aside, or the offset behind what was mapped. On that
rest the parts of `ShowInv`, one for each place of the loop: the next frame begins at
the offset (`AtMap`), its size is known (`AtFrame`), its units are there (`AtShow`), and
at the end of a pipe none is left (`EndsAfterAll`). `FramesOfFile` is the count for a file,
whose last offset is reckoned with the size of the first frame.

### Only model-checked

* Liveness (`AnnouncedFrameWritten`, `InputIsConsumed`, `Terminates`): out of the
  provers' reach.
* `VlcRoundTrip` (`TypeOK`, `InOrderOfSending`, `RoundTrip`): that the two searches
  agree is a statement about all suppliers and lenders, and that all codes come
  back is one by induction over the codes.
* `DvPicture` (`TypeOK`, `NothingMissing`, `VersionsAgree`, `PixelsComeBack`,
  `CellsPaintedOnce`), `Mixed4`, `CoefficientsComeBack`: properties of finite tables
  in their real size, where TLC's check is complete already.
* `SoundIsBack`, `ErrorsHidden`: samples at their places in a frame of real size,
  after the losses listed under Bounds.

## Not modelled

* dvconnect: the command line, device set-up and `mmap` of the kernel's ring,
  messages, the timing counters of the CIP headers in `fill_buffer` (they decide
  which packets are empty, not which frame is sent), and the signal handlers,
  which the source has commented out.
* Parser: the DC-only and monochrome qualities, the refilling of the bitstream's
  words. Encoder: the choice between the two transforms by motion (`need_dct_248_*`),
  the bit patterns of the codes. Their lengths are in `DvQuant`, their structure in
  `VlcCodes`.
* Numerical code without control flow: DCT, weighting, colour conversion,
  expansion of 12-bit samples, deemphasis.
* The assembler versions (machine-level doubles of the C code), except where the
  MMX versions are written in C with intrinsics-like macros (`YUY2.c`).
* Devices: V4L and X11, Gtk, SDL, OSS calls; options parsed by popt; allocation
  failures.
* `encodedv/encode.c`, an old copy of the encoder that is not built; the header
  tools, filters of one loop without state; the test programs except `enctest.c`.

## Plan

What is left is a proof about `VlcRoundTrip`: type correctness, and the order in which
blocks are read.
