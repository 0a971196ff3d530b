-------------------------------- MODULE DvPlayer --------------------------------
(* playdv: reads frames from a pipe or maps them from a file, follows a      *)
(* change of the standard in the stream, plays the sound and shows the       *)
(* picture.  Data is counted in units of 24000 bytes, two DIF sequences: 5   *)
(* to a frame of NTSC, 6 to one of PAL.  Each unit begins with a header.     *)
EXTENDS DvDisplay, Sequences, SequencesExt

CONSTANTS PlayJobs,       \* command lines, with the file they name
          WindowSizes     \* sizes the user may give the window

Size(system) == IF system = "pal" THEN 6 ELSE 5
(* What dv_format_wide and dv_frame_changed say of a frame: without the pack *)
(* 0x61 the format is unknown, and the picture counts as changed.            *)
Formats == {FormatUnknown, FormatNormal, FormatWide}
PlayFrame == [system : {"pal", "ntsc"}, format : Formats, changed : BOOLEAN, sounds : BOOLEAN,
              channels : Nat, rate : Nat]
FrameChanged(frame) == frame.changed \/ frame.format = FormatUnknown
(* The units of a series of frames, each by its frame and place there.       *)
Stream(frames) ==
  FlattenSeq([f \in DOMAIN frames |-> [k \in 1 .. Size(frames[f].system) |-> <<f, k>>]])

(* A file ends within the last frame named, or behind it.                    *)
ASSUME PlayAssumption ==
  /\ WindowSizes \subseteq (Nat \X Nat)
  /\ \A j \in PlayJobs :
       /\ j.frames \in Seq(PlayFrame) /\ j.frames # <<>> /\ j.loops \in Int
       /\ j.size \in 1 .. Len(Stream(j.frames)) /\ Stream(j.frames)[j.size][1] = Len(j.frames)

VARIABLES
  play,           \* the job: frames and units of the file, options
  playPc,
  region,         \* the units in the buffer, or in the mapping
  lastMap,        \* last_offset, last_length
  overrun,        \* overrun_size, overrun_offset
  filePos,        \* units read from the pipe
  playAt,         \* offset of the frame
  eof,            \* last offset at which a frame is played
  playSystem,     \* decoder: standard of the frame
  display,
  sounding,       \* sound is played
  frameCount, loopCount, prevDecoded,
  pixels,         \* frame in the picture buffer
  shown, heardFrames   \* frames shown and played
playVars == <<play, playPc, region, lastMap, overrun, filePos, playAt, eof, playSystem,
              display, sounding, frameCount, loopCount, prevDecoded, pixels, shown, heardFrames>>
mapVars == <<region, lastMap, overrun, filePos>>
constVars == <<play, eof, sounding, loopCount>>

UnitsOf(f) == [k \in 1 .. Size(play.frames[f].system) |-> <<f, k>>]
Units == SubSeq(Stream(play.frames), 1, play.size)
FrameAt(r) == play.frames[r[1][1]]
Junk == <<0, 0>>

-----------------------------------------------------------------------------
(* mmap_unaligned on a pipe.  The same offset with a greater length reads    *)
(* the rest, with a smaller one puts the surplus aside; a new offset begins  *)
(* with what was put aside.                                                  *)
Again(offset) == lastMap.offset = offset
Surplus(offset, length) == Again(offset) /\ lastMap.length > length
ToRead(offset, length) == IF Again(offset) THEN length - lastMap.length ELSE length
\* A mutant: what was put aside is not counted.
FromPipeAll(toRead) == toRead
FromPipe(toRead) == IF toRead > overrun.size THEN toRead - overrun.size ELSE 0
Moved == [i \in 1 .. 6 |-> IF i <= overrun.size THEN region[overrun.offset + i] ELSE region[i]]
Kept(offset, length) == Again(offset) /\ lastMap.length = length
PipeEnds(offset, length) ==
  /\ ~Surplus(offset, length) /\ ~Kept(offset, length)
  /\ filePos + FromPipe(ToRead(offset, length)) > play.size
\* exit(0) at the end of a frame, "Short read!" within one.
PipeExit(offset, length) ==
  IF filePos = play.size /\ FromPipe(ToRead(offset, length)) = length
  THEN "exit 0" ELSE "short read"
Read(offset, length) ==
  LET toRead == ToRead(offset, length)
      n      == FromPipe(toRead)
  IN \/ Kept(offset, length) /\ UNCHANGED mapVars
     \/ /\ Surplus(offset, length)
        /\ overrun' = [size |-> lastMap.length - length, offset |-> length]
        /\ lastMap' = [lastMap EXCEPT !.length = length]
        /\ UNCHANGED <<region, filePos>>
     \/ /\ ~Kept(offset, length) /\ ~Surplus(offset, length)
        /\ lastMap' = [offset |-> offset, length |-> length]
        /\ overrun' = IF toRead > overrun.size THEN [overrun EXCEPT !.size = 0]
                      ELSE [size |-> overrun.size - toRead, offset |-> overrun.offset + toRead]
        /\ region' = [i \in 1 .. 6 |-> IF i \in length - n + 1 .. length
                                       THEN Units[filePos + i - (length - n)] ELSE Moved[i]]
        /\ filePos' = filePos + n
(* On a file the units from the offset on are there, behind its end nothing. *)
View(offset, length) ==
  [i \in 1 .. 6 |-> IF i <= length /\ offset + i <= play.size THEN Units[offset + i] ELSE Junk]
MapRegion(offset, length) ==
  IF play.pipe THEN Read(offset, length)
  ELSE region' = View(offset, length) /\ UNCHANGED <<lastMap, overrun, filePos>>
Ends(offset, length) == play.pipe /\ PipeEnds(offset, length)
(* Reading a mapping behind the end of the file.                             *)
Faults(r, length) == \E i \in 1 .. length : r[i] = Junk

-----------------------------------------------------------------------------
PlayInit ==
  /\ play \in PlayJobs /\ playPc = "open" /\ region = [i \in 1 .. 6 |-> Junk]
  /\ lastMap = [offset |-> 0, length |-> 0] /\ overrun = [size |-> 0, offset |-> 0]
  /\ filePos = 0 /\ playAt = 0 /\ eof = 0 /\ playSystem = "none" /\ display = <<>>
  /\ sounding = FALSE /\ frameCount = 0 /\ loopCount = play.loops
  /\ prevDecoded = FALSE /\ pixels = 0 /\ shown = <<>> /\ heardFrames = <<>>

Stop(how) == /\ playPc' = how
             /\ UNCHANGED <<constVars, mapVars, playAt, playSystem, display, frameCount,
                            prevDecoded, pixels, shown, heardFrames>>

(* The header of the first frame tells how big frames are; then the window   *)
(* and the sound card are opened.                                            *)
OpenHeader ==
  /\ playPc = "open"
  /\ IF ~DisplayAccepted(play) \/ (play.sound.to = "both" /\ ~play.mute) THEN Stop("usage")
     ELSE IF Ends(0, 5) THEN Stop(PipeExit(0, 5))
     ELSE /\ MapRegion(0, 5)
          /\ playSystem' = FrameAt(region').system
          /\ LET lib == DisplayMethod(play.display, play.there)
                 rows == IF playSystem' = "pal" THEN 576 ELSE 480
             IN /\ display' = IF lib = "Xv" THEN XvInit(720, rows, play)
                              ELSE OtherInit(lib, 720, rows)
                /\ playPc' = IF lib = "none" THEN "no display" ELSE "map"
          /\ eof' = play.size - Size(playSystem')
          /\ sounding' = (~play.mute /\ OssInit(play.sound, FrameAt(region')))
          /\ UNCHANGED <<play, loopCount, playAt, frameCount, prevDecoded, pixels,
                         shown, heardFrames>>

(* A frame; if its header tells another standard it is mapped once more.     *)
Map ==
  /\ playPc = "map" /\ (playAt <= eof \/ play.pipe)
  /\ IF Ends(playAt, Size(playSystem)) THEN Stop(PipeExit(playAt, Size(playSystem)))
     ELSE /\ MapRegion(playAt, Size(playSystem))
          /\ playSystem' = FrameAt(region').system
          /\ playPc' = IF playSystem' # playSystem THEN "remap" ELSE "show"
          /\ UNCHANGED <<constVars, playAt, display, frameCount, prevDecoded, pixels,
                         shown, heardFrames>>
Remap ==
  /\ playPc = "remap"
  /\ IF Ends(playAt, Size(playSystem)) THEN Stop(PipeExit(playAt, Size(playSystem)))
     ELSE /\ MapRegion(playAt, Size(playSystem))
          /\ display' = SetNorm(display, playSystem)
          /\ playPc' = "show"
          /\ UNCHANGED <<constVars, playAt, playSystem, frameCount, prevDecoded, pixels,
                         shown, heardFrames>>

(* Sound first, then the picture, which is decoded if the frame says that it *)
(* has changed; the window may have got a new size meanwhile.                *)
WholeFrame == [i \in 1 .. Size(playSystem) |-> region[i]]
Show ==
  /\ playPc = "show"
  /\ IF Faults(region, Size(playSystem)) THEN Stop("crashed")
     ELSE LET frame   == FrameAt(region)
              decodes == ~prevDecoded \/ FrameChanged(frame)
          IN /\ heardFrames' = IF sounding /\ frame.sounds THEN Append(heardFrames, WholeFrame)
                               ELSE heardFrames
             /\ pixels' = IF decodes THEN region[1][1] ELSE pixels
             /\ prevDecoded' = TRUE
             /\ shown' = Append(shown, [units |-> WholeFrame, picture |-> pixels',
                                        system |-> playSystem, format |-> frame.format])
             /\ display' = CheckFormat(display, frame.format)
             /\ frameCount' = frameCount + 1
             /\ playPc' = "event"
             /\ UNCHANGED <<constVars, mapVars, playAt, playSystem>>
ShowEvents ==
  /\ playPc = "event"
  /\ \/ UNCHANGED display
     \/ \E s \in WindowSizes : display.lib = "Xv" /\ display' = Resize(display, s[1], s[2])
  /\ playPc' = IF play.numFrames > 0 /\ frameCount >= play.numFrames THEN "end" ELSE "map"
  /\ playAt' = IF playPc' = "end" THEN playAt ELSE playAt + Size(playSystem)
  /\ UNCHANGED <<constVars, mapVars, playSystem, frameCount, prevDecoded, pixels,
                 shown, heardFrames>>

(* Once more from the beginning, --loop-count times.                         *)
Loop ==
  /\ playPc = "end" \/ (playPc = "map" /\ playAt > eof /\ ~play.pipe)
  /\ loopCount' = loopCount - 1
  /\ IF loopCount' # 0
     THEN /\ playPc' = "map" /\ playAt' = 0 /\ prevDecoded' = FALSE
          /\ filePos' \in {0, filePos}     \* a true pipe cannot be set back
     ELSE /\ playPc' = "done" /\ UNCHANGED <<filePos, playAt, prevDecoded>>
  /\ UNCHANGED <<play, eof, sounding, region, lastMap, overrun, playSystem, display,
                 frameCount, pixels, shown, heardFrames>>

PlayNext == OpenHeader \/ Map \/ Remap \/ Show \/ ShowEvents \/ Loop
PlaySpec == PlayInit /\ [][PlayNext]_playVars

-----------------------------------------------------------------------------

CutShort == play.size < Len(Stream(play.frames))
(* Until the player begins again from the start: the frames of the stream    *)
(* are shown one after the other, each of its own units and in its own       *)
(* standard, wherever the standard changes; a frame said to be unchanged     *)
(* shows the picture before.  Of a whole file the last frame alone is not    *)
(* shown, if it is one of NTSC and the first is the bigger one of PAL.       *)
PlayerReadsFrames ==
  loopCount = play.loops =>
    /\ \A n \in DOMAIN shown :
         /\ shown[n].units = UnitsOf(n)
         /\ shown[n].system = play.frames[n].system
         /\ shown[n].picture = IF n = 1 \/ FrameChanged(play.frames[n]) THEN n
                               ELSE shown[n - 1].picture
    /\ (playPc = "map" /\ ~play.pipe /\ playAt > eof /\ ~CutShort) =>
         Len(shown) = Len(play.frames) -
           (IF play.frames[1].system = "pal" /\ Last(play.frames).system = "ntsc" THEN 1 ELSE 0)
    /\ playPc = "exit 0" => Len(shown) = Len(play.frames)

(* With an aspect given, a picture whose format is known fills the window    *)
(* in one direction and is in the middle in the other, whatever the window,  *)
(* the format and the standard have been before.  In a window of the aspect  *)
(* that was asked for, as it is opened and as window managers keep it that   *)
(* can, the picture has the shape it was recorded in: 4:3 or 16:9.  In any   *)
(* other window it is distorted as that window is, and while the format is   *)
(* unknown the picture stays where the one before it was.                    *)
Near(a, b, by) == a - b \in - by .. by
Normal(width, height, by) == Near(3 * width, 4 * height, by)
Wide(width, height, by) == Near(9 * width, 16 * height, by)
WindowAsAsked(d) == IF d.flags = "wide" THEN Wide(d.dwidth, d.dheight, 16)
                    ELSE Normal(d.dwidth, d.dheight, 4)
AsRecorded(d, format) == /\ format = FormatWide => Wide(d.lwidth, d.lheight, 24)
                         /\ format = FormatNormal => Normal(d.lwidth, d.lheight, 8)
InTheMiddle(d) ==
  /\ Near(2 * d.lxoff + d.lwidth, d.dwidth, 2)
  /\ Near(2 * d.lyoff + d.lheight, d.dheight, 2)
  /\ d.lwidth = d.dwidth \/ d.lheight = d.dheight
AspectKept ==
  (playPc = "map" /\ shown # <<>> /\ play.aspect # "asis" /\ display.lib = "Xv") =>
    /\ display.sheight = IF playSystem = "pal" THEN 576 ELSE 480
    /\ Last(shown).format # FormatUnknown =>
         /\ InTheMiddle(display)
         /\ WindowAsAsked(display) => AsRecorded(display, Last(shown).format)
=============================================================================
