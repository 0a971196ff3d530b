----------------------------- MODULE MCDvPrograms -----------------------------
(* The programs around the library for TLC, one with two threads that only   *)
(* calls the library, and one that looks for recordings along a tape: one of *)
(* them, chosen at the start, is run.  They share no state.                  *)
EXTENDS DvEncoderLoop, DvDub, DvAvi, DvPlayer, DvShared, DvRecording

(* Command lines of encodedv: all rates, both standards, files and stdin, a  *)
(* start that is not zero, sources of each kind, a truncated picture, and    *)
(* each way to be refused.                                                   *)
MCJob == [input |-> "ppm", audio |-> "none", source |-> [named |-> TRUE], qno |-> 0,
          forceDct |-> -1, start |-> 0, end |-> 28, fps |-> 0, stdin |-> FALSE,
          pictures |-> [k \in 1 .. 27 |-> "pal"]]
MCWav(rate, seconds25) ==
  [named |-> TRUE, there |-> TRUE, bits |-> 16, rate |-> rate, channels |-> 2,
   bytespersecond |-> 4 * rate, length |-> (4 * rate * seconds25) \div 25]
MCDsp(formats, rates) == [named |-> TRUE, formats |-> formats, rates |-> rates, channels |-> 2]
MCPictures == {[k \in 1 .. 27 |-> "pal"], [k \in 1 .. 27 |-> "ntsc"]}
MCEncJobs ==
  {MCJob} \cup
  {[MCJob EXCEPT !.audio = "wav", !.source = MCWav(rate, 20), !.fps = fps,
                 !.stdin = stdin, !.start = start, !.pictures = p] :
     rate \in {32000, 44100, 48000}, fps \in {0, 1, 10, 24, 25, 30, 50},
     stdin \in BOOLEAN, start \in {0, 3}, p \in MCPictures}
  \cup {[MCJob EXCEPT !.pictures = <<"pal", "cut pal", "bad">>, !.input = i] :
         i \in {"ppm", "pgm", "video2"}}
  \cup {[MCJob EXCEPT !.audio = "dsp", !.source = MCDsp(f, {44100, 32000}), !.end = 2] :
         f \in SUBSET {"s16be", "s16le", "u16be", "u16le", "u8"}}
  \cup {[MCJob EXCEPT !.audio = "dsp", !.source = MCDsp({"s16le"}, {22050})],
        [MCJob EXCEPT !.audio = "wav", !.source = [MCWav(48000, 9) EXCEPT !.there = FALSE]],
        [MCJob EXCEPT !.audio = "wav", !.source = [MCWav(32000, 9) EXCEPT !.channels = 4]],
        [MCJob EXCEPT !.audio = "mp3"], [MCJob EXCEPT !.qno = 3],
        [MCJob EXCEPT !.forceDct = 84]}
MCStaleBytes == {0, 7680}

(* Inputs of dubdv: standards that change, a last frame that is cut, more    *)
(* sound than pictures and less; four channels, refused at the first frame   *)
(* dubbed or repeated, or never needed; sound that wav_init refuses; and a   *)
(* frame's sound that is larger than the buffer, when there is so much.      *)
MCDub == [frames |-> <<"pal", "pal">>, bytespersecond |-> 192000, length |-> 20000,
          rate |-> 48000, channels |-> 2, bits |-> 16,
          pipes |-> TRUE, truncate |-> FALSE, repeat |-> 0]
MCDubJobs ==
  {MCDub} \cup
  {[MCDub EXCEPT !.frames = f, !.length = l, !.truncate = t, !.pipes = p, !.repeat = r] :
     f \in {<<>>, <<"cut">>, <<"pal", "pal", "cut">>, <<"ntsc", "ntsc", "ntsc">>,
            <<"pal", "ntsc", "pal", "cut pal">>},
     l \in {0, 7000, 15360, 40000}, t \in BOOLEAN, p \in {TRUE}, r \in {0, 2}}
  \cup {[MCDub EXCEPT !.pipes = FALSE, !.frames = f, !.truncate = t] :
         f \in {<<"pal">>, <<"pal", "pal", "pal", "pal">>}, t \in BOOLEAN}
  \cup {[MCDub EXCEPT !.rate = 32000, !.channels = 4, !.bytespersecond = b, !.length = l,
                      !.repeat = r] :
         b \in {128000, 256000}, l \in {4000, 20000}, r \in {0, 2}}
  \cup {[MCDub EXCEPT !.bits = 8], [MCDub EXCEPT !.channels = 4]}

(* Headers of AVI files: sound after the picture, before it, in a format     *)
(* that is not plain samples, of a rate and of channels that are not stored, *)
(* and more of it in a frame than there is room for; chunks of one frame of  *)
(* sound and of other sizes, up to more than half a node and beyond a node,  *)
(* and one that is cut.                                                      *)
MCAviHeaders ==
  LET vids == [kind |-> "vids", ft |-> 0, channels |-> 0, frequency |-> 0, bytespersecond |-> 0]
      auds == [kind |-> "auds", ft |-> 1, channels |-> 2, frequency |-> 48000,
               bytespersecond |-> 192000]
  IN [avih : {TRUE},
      streams : {<<vids, auds>>, <<[auds EXCEPT !.ft = 85]>>,
                 <<[auds EXCEPT !.frequency = 22050]>>,
                 <<[auds EXCEPT !.frequency = 32000, !.channels = 4]>>,
                 <<[auds EXCEPT !.bytespersecond = 480000]>>}]
MCAudioLengths == {5000, 7680, 75000, 144001}
MCCuts == {3000}

(* Streams for playdv: three frames of all mixtures of standards and shapes, *)
(* some frames unchanged, from a pipe and from a file, whole and cut; all    *)
(* ways to show them; window sizes that leave remainders.                    *)
MCFrame == [system |-> "pal", format |-> FormatNormal, changed |-> TRUE, sounds |-> TRUE,
            channels |-> 2, rate |-> 48000]
MCUnits(fs) == FoldLeft(LAMBDA sum, f : sum + Size(f.system), 0, fs)
MCSound(to) == [to |-> to, channels |-> {1, 2}, rates |-> {48000}]
MCPlayOf(fs, cut) ==
  [frames |-> fs, size |-> MCUnits(fs) - cut, pipe |-> TRUE, loops |-> 1, numFrames |-> 0,
   display |-> 0, aspect |-> "normal", scale |-> 0, there |-> {"Xv", "SDL"},
   mute |-> FALSE, sound |-> MCSound("device")]
MCPlay == MCPlayOf(<<MCFrame>>, 0)
MCStreams(n) == [1 .. n -> {[MCFrame EXCEPT !.system = s] : s \in {"pal", "ntsc"}}]
MCShapes(n) == [1 .. n -> {[MCFrame EXCEPT !.format = w, !.changed = c, !.system = s] :
                             w \in Formats, c \in BOOLEAN, s \in {"pal", "ntsc"}}]
MCPlayJobs ==
  {MCPlay}
  \cup {[MCPlayOf(fs, cut) EXCEPT !.pipe = p, !.loops = l, !.numFrames = n, !.display = 3] :
          fs \in MCStreams(4), cut \in {0, 2}, p \in BOOLEAN, l \in {1, 2}, n \in {0, 2}}
  \cup {[MCPlayOf(fs, 0) EXCEPT !.aspect = a, !.scale = z] :
          fs \in MCShapes(2), a \in {"asis", "normal", "wide"}, z \in {0, 33}}
  \cup {[MCPlay EXCEPT !.display = d, !.there = t, !.mute = m, !.sound = MCSound(to)] :
          d \in 0 .. 4, t \in {{}, {"gtk"}, {"SDL", "gtk"}, {"Xv"}}, m \in BOOLEAN,
          to \in {"device", "file", "both"}}
MCWindowSizes == {<<641, 481>>, <<1023, 575>>, <<300, 555>>}

(* Every mixture of calls, with an encoder for each thread and with one.     *)
MCThreads == {"t1", "t2"}
MCShare == [calls |-> [t \in MCThreads |-> "encode"], common |-> FALSE, init |-> TRUE,
            frames |-> 1]
MCShareJobs == {j \in JobType : j.common => j.init}

VARIABLE program
mcVars == <<program, encVars, dubVars, aviVars, playVars, sharedVars, recVars>>

(* The jobs of the programs that do not run are all the same.                *)
MCInit ==
  /\ \/ program = "encodedv" /\ dub = MCDub /\ play = MCPlay /\ share = MCShare
     \/ program = "dubdv" /\ job = MCJob /\ play = MCPlay /\ share = MCShare
     \/ program = "dvavi" /\ job = MCJob /\ dub = MCDub /\ play = MCPlay /\ share = MCShare
     \/ program = "playdv" /\ job = MCJob /\ dub = MCDub /\ share = MCShare
     \/ program = "threads" /\ job = MCJob /\ dub = MCDub /\ play = MCPlay
     \/ program = "tape" /\ job = MCJob /\ dub = MCDub /\ play = MCPlay /\ share = MCShare
  /\ EncInit /\ DubInit /\ AviInit /\ PlayInit /\ SharedInit /\ RecInit
MCNext ==
  \/ /\ program = "encodedv" /\ EncNext
     /\ UNCHANGED <<program, dubVars, aviVars, playVars, sharedVars, recVars>>
  \/ /\ program = "dubdv" /\ DubNext
     /\ UNCHANGED <<program, encVars, aviVars, playVars, sharedVars, recVars>>
  \/ /\ program = "dvavi" /\ AviNext
     /\ UNCHANGED <<program, encVars, dubVars, playVars, sharedVars, recVars>>
  \/ /\ program = "playdv" /\ PlayNext
     /\ UNCHANGED <<program, encVars, dubVars, aviVars, sharedVars, recVars>>
  \/ /\ program = "threads" /\ SharedNext
     /\ UNCHANGED <<program, encVars, dubVars, aviVars, playVars, recVars>>
  \/ /\ program = "tape" /\ IsNewRecording
     /\ UNCHANGED <<program, encVars, dubVars, aviVars, playVars, sharedVars>>
MCSpec == MCInit /\ [][MCNext]_mcVars
=============================================================================
