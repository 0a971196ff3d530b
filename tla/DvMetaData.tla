----------------------------- MODULE DvMetaData -----------------------------
(* The packs of a DV frame that are neither picture nor sound: headers.c     *)
(* writes them, dv_parse_header and dv_parse_packs collect them in tables by *)
(* pack id, and the query functions of dv.c read them from there.            *)
(*                                                                           *)
(* A pack is <<id, b1, b2, b3, b4>>; a byte position is a tuple: <<ds, b, j>>*)
(* is slot j of subcode or vaux block b of DIF sequence ds.                  *)
EXTENDS DvMacroblock

CONSTANTS Clock,     \* second -> what localtime makes of it: [year, mon, mday, hour, min, sec]
          Counts,    \* frame numbers the writers are called with
          MaxWrites  \* calls of the writers for one frame

(* Dates as localtime makes them; counts of less than 40 hours, as a time    *)
(* code has two bits for the tens of hours.                                  *)
Moment == [year : Nat, mon : 0 .. 11, mday : 1 .. 31, hour : 0 .. 23, min : 0 .. 59,
           sec : 0 .. 60]
ASSUME ClockAssumption ==
  /\ DOMAIN Clock \subseteq Nat /\ \A t \in DOMAIN Clock : Clock[t] \in Moment
  /\ Counts \subseteq Nat /\ \A c \in Counts : c < 40 * 3600 * 25

VARIABLES
  head,    \* DIF sequence -> [dsf, apt] of its header block
  ssyb,    \* <<ds, b, j>> -> pack in the subcode blocks
  vaux,    \* <<ds, b, j>> -> pack in the vaux blocks
  block_count, \* the static counter of subcode blocks
  dec,     \* the decoder: [changed, system, std, ssyb, vaux]
  stamp,   \* what was written last: [time, count, code, wide], for the properties
  writes   \* calls of the writers so far
metaVars == <<head, ssyb, vaux, block_count, dec, stamp, writes>>

NoPack == <<255, 255, 255, 255, 255>>
Fps(system) == IF system = "ntsc" THEN 30 ELSE 25
Sequences(system) == 0 .. DifSeqs(system) - 1
SubcodeSlots(system) == Sequences(system) \X (0 .. 1) \X (0 .. 5)
VauxSlots(system) == Sequences(system) \X (0 .. 2) \X (0 .. 14)

NoDecoder == [changed |-> 0, system |-> "none", std |-> "none",
              ssyb |-> [i \in {} |-> NoPack], vaux |-> [i \in {} |-> NoPack]]

MetaInit(system) ==
  /\ head = [ds \in Sequences(system) |-> [dsf |-> 0, apt |-> 0]]
  /\ ssyb = [s \in SubcodeSlots(system) |-> NoPack]
  /\ vaux = [s \in VauxSlots(system) |-> NoPack]
  /\ block_count = 0
  /\ dec = NoDecoder
  /\ stamp = [time |-> -1, count |-> -1, code |-> -1, wide |-> FALSE]
  /\ writes = 0

-----------------------------------------------------------------------------
(* Writing.                                                                  *)
Bcd(val) == 16 * (val \div 10) + (val % 10)

Timecode13(now, frame, system) ==
  <<19, Bcd(frame % Fps(system)), Bcd(now.sec), Bcd(now.min), Bcd(now.hour)>>
Timecode60(system) == <<96, 255, 255, IF system = "ntsc" THEN 0 ELSE 32, 255>>
Timecode61(wide) == <<97, 51, IF wide THEN 207 ELSE 200, 253, 255>>
Timecode62(now) == <<98, 255, Bcd(now.mday), Bcd(now.mon + 1), Bcd(now.year % 100)>>
Timecode63(now) == <<99, 255, Bcd(now.sec), Bcd(now.min), Bcd(now.hour)>>

\* Mutants: the date only once per block, and in the wrong sequences.
SubcodeEarly(s, now, frame, system) ==
  IF s[1] >= 5 THEN NoPack
  ELSE <<Timecode13(now, frame, system), Timecode62(now), Timecode63(now)>>[(s[3] % 3) + 1]

(* Only sequences 6 and up carry packs, the same ones in both blocks.        *)
SubcodePack(s, now, frame, system) ==
  IF s[1] < 6 THEN NoPack
  ELSE <<Timecode13(now, frame, system), Timecode62(now), Timecode63(now)>>[(s[3] % 3) + 1]

VauxPack(s, now, system, wide) ==
  LET four == <<Timecode60(system), Timecode61(wide), Timecode62(now), Timecode63(now)>>
      lead == <<<<112, 197, 65, 32, 255>>, <<113, 255, 127, 255, 255>>,
                <<127, 255, 255, 56, 129>>>>
  IN IF s[2] = 2 /\ s[3] \in 9 .. 12 THEN four[s[3] - 8]
     ELSE IF s[2] = 0 /\ s[1] % 2 = 1 /\ s[3] < 4 THEN four[s[3] + 1]
     ELSE IF s[2] = 0 /\ s[1] = 0 /\ s[3] < 3 THEN lead[s[3] + 1]
     ELSE NoPack

(* The blocks are numbered on through the sequences and frames.              *)
WriteSubcodeAndVaux(system, now, frame, wide) ==
  /\ ssyb' = [s \in SubcodeSlots(system) |-> SubcodePack(s, now, frame, system)]
  /\ vaux' = [s \in VauxSlots(system) |-> VauxPack(s, now, system, wide)]
  /\ block_count' = (block_count + 32 * DifSeqs(system)) % 4096

(* The clock handed in is set forward at the first frame of each second.     *)
Second(t, frame, system) == IF frame % Fps(system) = 0 THEN t + 1 ELSE t

(* _dv_write_meta_data, of the encoder; the apt of its header is always 0.   *)
WriteMetaData(system, t, frame, wide) ==
  LET second == Second(t, frame, system) IN
  /\ writes < MaxWrites /\ second \in DOMAIN Clock
  /\ head' = [ds \in Sequences(system) |->
                [dsf |-> IF system = "ntsc" THEN 0 ELSE 1, apt |-> 0]]
  /\ WriteSubcodeAndVaux(system, Clock[second], frame, wide)
  /\ stamp' = [time |-> second, count |-> frame, code |-> -1, wide |-> wide]
  /\ writes' = writes + 1
  /\ UNCHANGED dec

(* dv_encode_metadata, for applications: the header blocks stay.             *)
EncodeMetadata(system, t, frame, wide) ==
  LET second == Second(t, frame, system) IN
  /\ 0 < writes /\ writes < MaxWrites /\ second \in DOMAIN Clock
  /\ WriteSubcodeAndVaux(system, Clock[second], frame, wide)
  /\ stamp' = [time |-> second, count |-> frame, code |-> -1, wide |-> wide]
  /\ writes' = writes + 1
  /\ UNCHANGED <<head, dec>>

\* A mutant: minutes are not taken off before the seconds are.
TimeOfHours(frame, fps) ==
  [hour |-> frame \div (fps * 3600), min |-> (frame \div (fps * 60)) % 60,
   sec |-> frame \div fps]

(* hh:mm:ss of a frame count.                                                *)
TimeOfCount(frame, fps) ==
  LET hour == frame \div (fps * 3600)
      cur  == frame - hour * fps * 3600
      min  == cur \div (fps * 60)
  IN [hour |-> hour, min |-> min, sec |-> (cur - min * fps * 60) \div fps]

(* dv_encode_timecode: the time code in slots 0 and 3, nothing else.         *)
EncodeTimecode(system, frame) ==
  /\ 0 < writes /\ writes < MaxWrites
  /\ ssyb' = [s \in DOMAIN ssyb |->
                IF s[1] >= 6 /\ s[3] \in {0, 3}
                THEN Timecode13(TimeOfCount(frame, Fps(system)), frame, system)
                ELSE ssyb[s]]
  /\ stamp' = [stamp EXCEPT !.code = frame]
  /\ writes' = writes + 1
  /\ UNCHANGED <<head, vaux, block_count, dec>>

-----------------------------------------------------------------------------
(* Reading.  The packs of a list of slots go to a table by id; of two packs  *)
(* with the same id the later one counts.                                    *)
Collect(list) ==
  [id \in {p[1] : p \in {list[i] : i \in DOMAIN list}} \ {255} |->
     list[CHOOSE i \in DOMAIN list :
            list[i][1] = id /\ \A k \in i + 1 .. Len(list) : list[k][1] # id]]

(* dv_parse_vaux reads the three blocks of sequence 0, dv_parse_ssyb the two *)
(* of sequence 0 and the two of sequence 6.                                  *)
ParseVaux == Collect([n \in 1 .. 45 |-> vaux[<<0, (n - 1) \div 15, (n - 1) % 15>>]])
ParseSsyb == Collect([n \in 1 .. 24 |->
               ssyb[<<6 * ((n - 1) \div 12), ((n - 1) \div 6) % 2, (n - 1) % 6>>]])

SystemFiftyFields(table) == 96 \in DOMAIN table /\ (table[96][4] \div 32) % 2 = 1

(* dv_parse_header, system detected automatically: the header or the vaux    *)
(* data may announce 625/50; a change of the system is reported.             *)
ParseHeader ==
  LET system == IF head[0].dsf = 1 \/ SystemFiftyFields(ParseVaux)
                THEN "625_50" ELSE "525_60"
  IN /\ 0 < writes
     /\ dec' = [dec EXCEPT
                  !.changed = IF dec.system = system THEN 0
                              ELSE IF system = "625_50" THEN 1 ELSE 2,
                  !.system = system,
                  !.std = IF head[0].apt # 0 THEN "smpte_314m" ELSE "iec_61834",
                  !.vaux = ParseVaux]
     /\ UNCHANGED <<head, ssyb, vaux, block_count, stamp, writes>>

(* dv_parse_packs, a call of its own.                                        *)
ParsePacks ==
  /\ 0 < writes /\ dec.system # "none"
  /\ dec' = [dec EXCEPT !.ssyb = ParseSsyb]
  /\ UNCHANGED <<head, ssyb, vaux, block_count, stamp, writes>>

UnBcd(byte, tens) == ((byte \div 16) % tens) * 10 + (byte % 16)

\* dv_get_timestamp_int: hours, minutes, seconds, frames.
Timestamp ==
  LET p == dec.ssyb[19]
  IN <<UnBcd(p[5], 4), UnBcd(p[4], 8), UnBcd(p[3], 8), UnBcd(p[2], 4)>>

\* A mutant: the 21st century starts in 1950.
CenturyOf(yy) == IF yy < 50 THEN 1900 + yy ELSE 2000 + yy
Century(yy) == IF yy < 25 THEN 2000 + yy ELSE 1900 + yy

(* dv_get_recording_datetime: from the subcode, or else from the vaux data.  *)
RecordingDatetime ==
  LET both  == {98, 99}
      table == IF both \subseteq DOMAIN dec.ssyb THEN dec.ssyb ELSE dec.vaux
      d == table[98]  t == table[99]
  IN [year |-> Century(UnBcd(d[5], 16)), mon |-> UnBcd(d[4], 2) - 1,
      mday |-> UnBcd(d[3], 4), hour |-> UnBcd(t[5], 4),
      min |-> UnBcd(t[4], 8), sec |-> UnBcd(t[3], 8)]

FormatWide ==
  LET aspect == dec.vaux[97][3] % 8
  IN aspect = 2 \/ (dec.std # "smpte_314m" /\ aspect = 7)
FormatLetterbox == dec.vaux[97][3] % 8 = 3
FrameChanged == (dec.vaux[97][4] \div 32) % 2 = 1
IsProgressive == (dec.vaux[97][4] \div 8) % 2 = 0
FrameIsColor == dec.vaux[96][3] >= 128

-----------------------------------------------------------------------------
MetaNext(system) ==
  \/ \E t \in DOMAIN Clock, frame \in Counts, wide \in BOOLEAN :
       \/ WriteMetaData(system, t, frame, wide)
       \/ EncodeMetadata(system, t, frame, wide)
  \/ \E frame \in Counts : EncodeTimecode(system, frame)
  \/ ParseHeader
  \/ ParsePacks

MetaSpec(system) == MetaInit(system) /\ [][MetaNext(system)]_metaVars

(* A decoder that has read the frame after the last write.                   *)
UpToDate == dec.system # "none" /\ dec.ssyb = ParseSsyb /\ dec.vaux = ParseVaux

(* What an application reads is what was written last, in both systems and   *)
(* whatever the order of the three writers: time code, date and time of the  *)
(* recording, system, aspect ratio, plain interlaced colour picture.  The century  *)
(* is guessed: years outside 1925..2024 come back a hundred years off.       *)
StampsComeBack ==
  UpToDate =>
    LET now  == Clock[stamp.time]
        fps  == IF dec.system = "525_60" THEN 30 ELSE 25
        code == TimeOfCount(stamp.code, fps)
        read == RecordingDatetime
    IN /\ dec.system = IF Cardinality(DOMAIN head) = 12 THEN "625_50" ELSE "525_60"
       /\ [read EXCEPT !.year = now.year] = now
       /\ read.year % 100 = now.year % 100
       /\ now.year \in 1925 .. 2024 => read.year = now.year
       /\ Timestamp = IF stamp.code < 0
                      THEN <<now.hour, now.min, now.sec, stamp.count % fps>>
                      ELSE <<code.hour, code.min, code.sec, stamp.code % fps>>
       /\ FormatWide = stamp.wide /\ ~FormatLetterbox
       /\ FrameChanged /\ ~IsProgressive /\ FrameIsColor
=============================================================================
