---------------------------- MODULE DvLibraryProofs ----------------------------
(* Theorems about state that libdv keeps between calls: DvShared, for any    *)
(* set of threads, any mixture of calls and frames of any number of          *)
(* segments; DvRecording, for tapes of any length with any time codes; and   *)
(* DvMetaData, for any dates and counts and any order of the writers.        *)
EXTENDS DvShared, DvRecording, DvMetaData, FiniteSetTheorems, SequenceTheorems, TLAPS

(***************************************************************************)
(* The tables of the library and the results of several threads.           *)
(***************************************************************************)
Filling == {"new", "load dec", "store dec", "test lookup", "allocate", "fill first",
            "fill second", "load enc", "store enc", "set done"}
Working == {"started", "locked", "segments", "ended"}
Halves == {"first", "second"}
Pictures == (Threads \X Nat) \cup {None}
Segment == [of : Pictures, good : BOOLEAN]
Frame == [thread : Threads, encoder : Users, picture : Pictures, number : Nat,
          segments : Seq(Segment)]

SharedType ==
  /\ share \in ShareJobs
  /\ at \in [Users -> Filling \cup Working \cup {"waiting"}]
  /\ done \in BOOLEAN /\ isNull \in [Users -> BOOLEAN] /\ cleaned \in BOOLEAN
  /\ prepared \in [Kinds -> Nat] /\ loaded \in [Users -> Nat]
  /\ lookup \in [there : BOOLEAN, filled : SUBSET Halves]
  /\ mutex \in [Kinds -> Threads \cup {None}]
  /\ image \in [Users -> Pictures] /\ counted \in [Users -> Nat]
  /\ buffer \in [Threads -> Seq(Segment)]
  /\ results \in SUBSET Frame /\ IsFiniteSet(results)

(***************************************************************************)
(* The invariants.                                                           *)
(***************************************************************************)
(* How far the tables are, when only u has ever filled them.                 *)
Tables(ofDec, ofEnc, there, filled) ==
  /\ prepared["dec"] = ofDec /\ prepared["enc"] = ofEnc
  /\ lookup = [there |-> there, filled |-> filled]
TablesAt(u) ==
  /\ at[u] \in {"waiting", "new", "load dec", "store dec"} => Tables(0, 0, FALSE, {})
  /\ at[u] \in {"test lookup", "allocate"} => Tables(1, 0, FALSE, {})
  /\ at[u] = "fill first" => Tables(1, 0, TRUE, {})
  /\ at[u] = "fill second" => Tables(1, 0, TRUE, {"first"})
  /\ at[u] \in {"load enc", "store enc"} => Tables(1, 0, TRUE, Halves)
  /\ at[u] = "set done" \/ at[u] \in Working => Tables(1, 1, TRUE, Halves)
  /\ at[u] \in {"store dec", "store enc"} => loaded[u] = 0
  /\ at[u] = "allocate" => isNull[u]
  /\ done <=> at[u] \in Working

(* Either the main thread fills the tables before the others begin, or, as   *)
(* long as no second thread has begun, the first one.                        *)
MainFirst ==
  /\ TablesAt(MainThread)
  /\ at[MainThread] \in Filling \cup {"started"}
  /\ \A t \in Threads : at[t] \in {"waiting", "new"} \cup Working
  /\ at[MainThread] # "started" => \A t \in Threads : at[t] = "waiting"
Alone(t) == \A v \in Threads \ {t} : at[v] = "waiting"
OneFirst ==
  /\ at[MainThread] = "started"
  /\ \A t \in Threads : Alone(t) => TablesAt(t)
WellMade(t) == \A i \in DOMAIN buffer[t] : buffer[t][i].good = TRUE
TablesInv ==
  ~cleaned =>
    /\ share.init => MainFirst
    /\ ~share.init => OneFirst
    /\ \A t \in Threads : share.init \/ Alone(t) => WellMade(t)
    /\ \A t \in Threads : at[t] = "waiting" => buffer[t] = <<>>

(* A mutex belongs to the thread between Lock and Unlock or Refuse; it       *)
(* covers the way of the picture through the buffers of the encoder and the  *)
(* number of the frame.                                                      *)
Holding(t) == at[t] \in {"locked", "segments"}
Encodes(t) == share.calls[t] = "encode"
HolderMatches == \A t \in Threads, k \in Kinds : mutex[k] = t <=> Holding(t) /\ k = Mutex(t)
PictureInPlace ==
  \A t \in Threads : at[t] = "segments" => Encodes(t) /\ image[Encoder(t)] = OwnPicture(t)
NothingYet ==
  \A t \in Threads : at[t] = "locked" /\ share.calls[t] # "decode" => buffer[t] = <<>>
OwnSegments ==
  \A t \in Threads : Holding(t) => \A i \in DOMAIN buffer[t] : buffer[t][i].of = OwnPicture(t)
MutexInv == HolderMatches /\ PictureInPlace /\ NothingYet /\ OwnSegments

EncodedBy(e) == {f \in results : f.encoder = e /\ Encodes(f.thread)}
Whole(f) == Len(f.segments) = SegmentsPerFrame
              /\ \A i \in 1 .. SegmentsPerFrame : f.segments[i].of = f.picture
ResultsInv ==
  /\ \A f \in results : /\ Whole(f) /\ f.encoder = Encoder(f.thread)
                         /\ share.calls[f.thread] \in {"encode", "decode"}
  /\ \A e \in Users :
       /\ Cardinality(EncodedBy(e)) = counted[e]
       /\ \A f \in EncodedBy(e) : f.number < counted[e]
       /\ \A f, g \in EncodedBy(e) : f # g => f.number # g.number

FrameInv == MutexInv /\ ResultsInv

USE SharedAssumption

(* What the job says.                                                        *)
LEMMA JobFacts ==
  ASSUME SharedType
  PROVE  /\ \A t \in Threads : share.calls[t] \in {"encode", "decode", "bad space"}
         /\ share.common \in BOOLEAN /\ share.init \in BOOLEAN
         /\ share.common => share.init
         /\ \A t \in Threads : Encoder(t) \in Users /\ Mutex(t) \in Kinds
         /\ MainThread \in Users /\ Threads \subseteq Users
<1>1. share \in {j \in JobType : j.common => j.init}
  BY DEF SharedType
<1>2. share \in JobType /\ (share.common => share.init)
  BY <1>1
<1>3. /\ share.calls \in [Threads -> {"encode", "decode", "bad space"}]
      /\ share.common \in BOOLEAN /\ share.init \in BOOLEAN
  BY <1>2 DEF JobType
<1>4. MainThread \in Users /\ Threads \subseteq Users
  BY DEF Users
<1>5. ASSUME NEW t \in Threads PROVE Encoder(t) \in Users /\ Mutex(t) \in Kinds
  BY <1>4 DEF Encoder, Mutex, Kinds
<1> QED BY <1>2, <1>3, <1>4, <1>5

LEMMA OwnPictureType ==
  ASSUME SharedType, NEW t \in Threads
  PROVE  OwnPicture(t) \in Pictures
<1>1. IsFiniteSet({f \in results : f.thread = t})
  BY FS_Subset DEF SharedType
<1> QED BY <1>1, FS_CardinalityType DEF OwnPicture, Pictures

LEMMA InitType == SharedInit => SharedType
<1> SUFFICES ASSUME SharedInit PROVE SharedType
  OBVIOUS
<1>1. IsFiniteSet({})
  BY FS_EmptySet
<1>2. \A t \in Threads : buffer[t] \in Seq(Segment)
  BY DEF SharedInit
<1> QED BY <1>1, <1>2 DEF SharedInit, SharedType, Filling, Working, Pictures, Kinds, Users

LEMMA StepType == SharedType /\ [SharedNext]_sharedVars => SharedType'
<1> SUFFICES ASSUME SharedType, [SharedNext]_sharedVars PROVE SharedType'
  OBVIOUS
<1> USE DEF Goes, Filling, Working
<1>1. ASSUME NEW u \in Users, CallInit(u) PROVE SharedType'
  BY <1>1 DEF CallInit, SharedType
<1>2. ASSUME NEW u \in Users, NEW kind \in Kinds, LoadEntry(u, kind) PROVE SharedType'
  BY <1>2 DEF LoadEntry, SharedType, StoreAt
<1>3. ASSUME NEW u \in Users, NEW kind \in Kinds, StoreEntry(u, kind) PROVE SharedType'
  <2>1. /\ at' \in [Users -> Filling \cup Working \cup {"waiting"}]
        /\ prepared' \in [Kinds -> Nat]
    <3>1. loaded[u] \in Nat
      BY DEF SharedType
    <3>2. loaded[u] + 1 \in Nat
      BY <3>1
    <3> QED BY <1>3, <3>2 DEF StoreEntry, SharedType
  <2> QED BY <1>3, <2>1 DEF StoreEntry, SharedType
<1>4. ASSUME NEW u \in Users, TestLookup(u) PROVE SharedType'
  <2>1. lookup.there \in BOOLEAN
    BY DEF SharedType
  <2>2. isNull' \in [Users -> BOOLEAN]
    BY <1>4, <2>1, Zenon DEF TestLookup, SharedType
  <2> QED BY <1>4, <2>2 DEF TestLookup, SharedType
<1>5. ASSUME NEW u \in Users, Allocate(u) PROVE SharedType'
  BY <1>5 DEF Allocate, SharedType
<1>6. ASSUME NEW u \in Users, NEW half \in Halves, FillHalf(u, half) PROVE SharedType'
  BY <1>6 DEF FillHalf, SharedType, Halves, FillAt
<1>7. ASSUME NEW u \in Users, SetDone(u) PROVE SharedType'
  BY <1>7 DEF SetDone, SharedType
<1>8. ASSUME NEW t \in Threads, StartThread(t) PROVE SharedType'
  BY <1>8, JobFacts DEF StartThread, SharedType
<1>9. ASSUME NEW t \in Threads, Lock(t) PROVE SharedType'
  <2>1. buffer' \in [Threads -> Seq(Segment)]
    BY <1>9, EmptySeq DEF Lock, SharedType
  <2>2. mutex' \in [Kinds -> Threads \cup {None}]
    BY <1>9 DEF Lock, SharedType
  <2> QED BY <1>9, <2>1, <2>2, JobFacts DEF Lock, SharedType
<1>10. ASSUME NEW t \in Threads, ConvertPicture(t) PROVE SharedType'
  BY <1>10, JobFacts, OwnPictureType DEF ConvertPicture, SharedType
<1>11. ASSUME NEW t \in Threads, Refuse(t) PROVE SharedType'
  BY <1>11, JobFacts DEF Refuse, SharedType
<1>12. ASSUME NEW t \in Threads, EncodeOne(t) PROVE SharedType'
  <2>1. Good("enc") \in BOOLEAN
    BY DEF Good
  <2>2. [of |-> image[Encoder(t)], good |-> Good("enc")] \in Segment
    BY <2>1, JobFacts DEF SharedType, Segment
  <2>3. buffer' \in [Threads -> Seq(Segment)]
    BY <1>12, <2>2, AppendProperties DEF EncodeOne, SharedType
  <2> QED BY <1>12, <2>3 DEF EncodeOne, SharedType
<1>13. ASSUME NEW t \in Threads, DecodeOne(t) PROVE SharedType'
  <2>1. Good("dec") \in BOOLEAN
    BY DEF Good
  <2>2. [of |-> OwnPicture(t), good |-> Good("dec")] \in Segment
    BY <2>1, OwnPictureType DEF Segment
  <2>3. buffer' \in [Threads -> Seq(Segment)]
    BY <1>13, <2>2, AppendProperties DEF DecodeOne, SharedType
  <2> QED BY <1>13, <2>3 DEF DecodeOne, SharedType
<1>14. ASSUME NEW t \in Threads, Unlock(t) PROVE SharedType'
  <2> DEFINE new == [thread |-> t, encoder |-> Encoder(t), picture |-> OwnPicture(t),
                     number |-> counted[Encoder(t)], segments |-> buffer[t]]
  <2>1. new \in Frame
    BY JobFacts, OwnPictureType DEF SharedType, Frame
  <2>2. results' = results \cup {new}
    BY <1>14 DEF Unlock
  <2>3. results' \in SUBSET Frame /\ IsFiniteSet(results')
    BY <2>1, <2>2, FS_AddElement, ZenonT(60) DEF SharedType
  <2>4. buffer' \in [Threads -> Seq(Segment)]
    BY <1>14, EmptySeq DEF Unlock, SharedType
  <2>5. counted' \in [Users -> Nat]
    <3>1. PICK n \in {0, 1} : counted' = [counted EXCEPT ![Encoder(t)] = counted[Encoder(t)] + n]
      BY <1>14, Zenon DEF Unlock
    <3>2. counted[Encoder(t)] \in Nat
      BY JobFacts DEF SharedType
    <3>3. counted[Encoder(t)] + n \in Nat
      BY <3>2
    <3> QED BY <3>1, <3>3 DEF SharedType
  <2>6. /\ at' \in [Users -> Filling \cup Working \cup {"waiting"}]
        /\ mutex' \in [Kinds -> Threads \cup {None}]
    <3>1. /\ at' = [at EXCEPT ![t] = "started"]
          /\ mutex' = [mutex EXCEPT ![Mutex(t)] = None]
      BY <1>14 DEF Unlock
    <3> QED BY <3>1, JobFacts DEF SharedType
  <2> QED BY <1>14, <2>3, <2>4, <2>5, <2>6 DEF Unlock, SharedType
<1>15. CASE Cleanup
  BY <1>15 DEF Cleanup, SharedType
<1>16. CASE UNCHANGED sharedVars
  BY <1>16 DEF sharedVars, SharedType
<1> QED BY <1>1, <1>2, <1>3, <1>4, <1>5, <1>6, <1>7, <1>8, <1>9, <1>10, <1>11, <1>12,
          <1>13, <1>14, <1>15, <1>16 DEF SharedNext, Halves

(***************************************************************************)
(* The tables.                                                               *)
(***************************************************************************)
FillStep(u) ==
  \/ CallInit(u) \/ TestLookup(u) \/ Allocate(u) \/ SetDone(u)
  \/ \E kind \in Kinds : LoadEntry(u, kind) \/ StoreEntry(u, kind)
  \/ \E half \in Halves : FillHalf(u, half)
UserStep(t) ==
  StartThread(t) \/ Lock(t) \/ ConvertPicture(t) \/ Refuse(t) \/ EncodeOne(t)
    \/ DecodeOne(t) \/ Unlock(t)

LEMMA Steps ==
  ASSUME [SharedNext]_sharedVars
  PROVE  \/ \E u \in Users : FillStep(u)
         \/ \E t \in Threads : UserStep(t)
         \/ Cleanup
         \/ UNCHANGED sharedVars
BY DEF SharedNext, FillStep, UserStep, Halves

(* What a step of dv_init leaves alone.                                      *)
LEMMA FillStepFrame ==
  ASSUME SharedType, NEW u \in Users, FillStep(u)
  PROVE  /\ at[u] \in Filling /\ at'[u] \in Filling \cup {"started"}
         /\ \A v \in Users \ {u} : at'[v] = at[v]
         /\ UNCHANGED <<share, mutex, image, counted, buffer, results, cleaned>>
<1> USE DEF Goes, Filling
<1>1. ASSUME CallInit(u) \/ TestLookup(u) \/ Allocate(u) \/ SetDone(u)
      PROVE  /\ at[u] \in Filling /\ at'[u] \in Filling \cup {"started"}
             /\ \A v \in Users \ {u} : at'[v] = at[v]
             /\ UNCHANGED <<share, mutex, image, counted, buffer, results, cleaned>>
  BY <1>1 DEF CallInit, TestLookup, Allocate, SetDone, SharedType
<1>2. ASSUME NEW kind \in Kinds, LoadEntry(u, kind) \/ StoreEntry(u, kind)
      PROVE  /\ at[u] \in Filling /\ at'[u] \in Filling \cup {"started"}
             /\ \A v \in Users \ {u} : at'[v] = at[v]
             /\ UNCHANGED <<share, mutex, image, counted, buffer, results, cleaned>>
  BY <1>2 DEF LoadEntry, StoreEntry, LoadAt, StoreAt, SharedType
<1>3. ASSUME NEW half \in Halves, FillHalf(u, half)
      PROVE  /\ at[u] \in Filling /\ at'[u] \in Filling \cup {"started"}
             /\ \A v \in Users \ {u} : at'[v] = at[v]
             /\ UNCHANGED <<share, mutex, image, counted, buffer, results, cleaned>>
  BY <1>3 DEF FillHalf, FillAt, SharedType
<1> QED BY <1>1, <1>2, <1>3 DEF FillStep

(* A table never changed before has been changed once then.                  *)
LEMMA FirstChange == 0 + 1 = 1
OBVIOUS

(* dv_init, called by one thread only, fills the tables step by step.        *)
LEMMA FillStepTables ==
  ASSUME SharedType, NEW u \in Users, FillStep(u), TablesAt(u)
  PROVE  TablesAt(u)'
<1> USE DEF Goes, TablesAt, Tables, Working
<1>1. CASE CallInit(u)
  BY <1>1 DEF CallInit, SharedType, NotDone
<1>2. ASSUME NEW kind \in Kinds, LoadEntry(u, kind) PROVE TablesAt(u)'
  <2>1. CASE kind = "dec"
    BY <1>2, <2>1 DEF LoadEntry, SharedType, LoadAt, StoreAt
  <2>2. CASE kind = "enc"
    BY <1>2, <2>2 DEF LoadEntry, SharedType, LoadAt, StoreAt
  <2> QED BY <2>1, <2>2 DEF Kinds
<1>3. ASSUME NEW kind \in Kinds, StoreEntry(u, kind) PROVE TablesAt(u)'
  <2>1. CASE kind = "dec"
    <3>1. at[u] = "store dec" /\ at' = [at EXCEPT ![u] = "test lookup"]
      BY <1>3, <2>1 DEF StoreEntry, StoreAt
    <3>2. loaded[u] + 1 = 1
      <4>1. loaded[u] = 0
        BY <3>1
      <4> QED BY <4>1, FirstChange, Zenon
    <3>3. prepared' = [prepared EXCEPT !["dec"] = 1]
      BY <3>2, <1>3, <2>1, <3>1 DEF StoreEntry
    <3> QED BY <1>3, <3>1, <3>3, ZenonT(60) DEF StoreEntry, SharedType, Kinds
  <2>2. CASE kind = "enc"
    <3>1. at[u] = "store enc" /\ at' = [at EXCEPT ![u] = "set done"]
      BY <1>3, <2>2 DEF StoreEntry, StoreAt
    <3>2. loaded[u] + 1 = 1
      <4>1. loaded[u] = 0
        BY <3>1
      <4> QED BY <4>1, FirstChange, Zenon
    <3>3. prepared' = [prepared EXCEPT !["enc"] = 1]
      BY <3>2, <1>3, <2>2, <3>1 DEF StoreEntry
    <3> QED BY <1>3, <3>1, <3>3, ZenonT(60) DEF StoreEntry, SharedType, Kinds
  <2> QED BY <2>1, <2>2 DEF Kinds
<1>4. CASE TestLookup(u)
  <2>1. at[u] = "test lookup" /\ at' = [at EXCEPT ![u] = "allocate"] /\ lookup' = lookup
    BY <1>4 DEF TestLookup
  <2>2. ~lookup.there
    <3>1. lookup = [there |-> FALSE, filled |-> {}]
      BY <2>1
    <3> QED BY <3>1
  <2>3. isNull'[u]
    BY <1>4, <2>2, Zenon DEF TestLookup, SharedType
  <2> QED BY <1>4, <2>1, <2>3 DEF TestLookup, SharedType
<1>5. CASE Allocate(u)
  <2>1. isNull[u] /\ at[u] = "allocate" /\ at' = [at EXCEPT ![u] = "fill first"]
    BY <1>5 DEF Allocate
  <2>2. lookup' = [there |-> TRUE, filled |-> {}]
    BY <1>5, <2>1, Zenon DEF Allocate
  <2> QED BY <1>5, <2>1, <2>2 DEF Allocate, SharedType
<1>6. ASSUME NEW half \in Halves, FillHalf(u, half) PROVE TablesAt(u)'
  <2>1. CASE half = "first"
    <3>1. at[u] = "fill first" /\ at' = [at EXCEPT ![u] = "fill second"]
      BY <1>6, <2>1 DEF FillHalf, FillAt
    <3>2. lookup = [there |-> TRUE, filled |-> {}]
      BY <3>1
    <3>3. lookup' = [there |-> TRUE, filled |-> {"first"}]
      BY <1>6, <2>1, <3>2 DEF FillHalf
    <3> QED BY <1>6, <3>1, <3>3 DEF FillHalf, SharedType
  <2>2. CASE half = "second"
    <3>1. at[u] = "fill second" /\ at' = [at EXCEPT ![u] = "load enc"]
      BY <1>6, <2>2 DEF FillHalf, FillAt
    <3>2. lookup = [there |-> TRUE, filled |-> {"first"}]
      BY <3>1
    <3>3. lookup' = [there |-> TRUE, filled |-> Halves]
      BY <1>6, <2>2, <3>2 DEF FillHalf, Halves
    <3> QED BY <1>6, <3>1, <3>3 DEF FillHalf, SharedType
  <2> QED BY <2>1, <2>2 DEF Halves
<1>7. CASE SetDone(u)
  BY <1>7 DEF SetDone, SharedType
<1> QED BY <1>1, <1>2, <1>3, <1>4, <1>5, <1>6, <1>7 DEF FillStep

(* What the steps of a thread leave alone.                                   *)
LEMMA UserStepFrame ==
  ASSUME SharedType, NEW t \in Threads, UserStep(t)
  PROVE  /\ \/ at[t] = "waiting" /\ at'[t] = "new" /\ at[MainThread] = "started"
               /\ buffer' = buffer
            \/ at[t] \in Working /\ at'[t] \in Working
         /\ \A v \in Users \ {t} : at'[v] = at[v]
         /\ \A v \in Threads \ {t} : buffer'[v] = buffer[v]
         /\ UNCHANGED <<share, done, prepared, loaded, lookup, isNull, cleaned>>
<1> USE DEF Goes, Working
<1>0. t \in Users
  BY DEF Users
<1>1. CASE StartThread(t)
  BY <1>0, <1>1 DEF StartThread, SharedType
<1>2. CASE Lock(t)
  BY <1>0, <1>2 DEF Lock, SharedType
<1>3. CASE ConvertPicture(t)
  BY <1>0, <1>3 DEF ConvertPicture, SharedType
<1>4. CASE Refuse(t)
  BY <1>0, <1>4 DEF Refuse, SharedType
<1>5. CASE EncodeOne(t)
  BY <1>0, <1>5 DEF EncodeOne, SharedType
<1>6. CASE DecodeOne(t)
  BY <1>0, <1>6 DEF DecodeOne, SharedType
<1>7. CASE Unlock(t)
  BY <1>0, <1>7 DEF Unlock, SharedType
<1> QED BY <1>1, <1>2, <1>3, <1>4, <1>5, <1>6, <1>7 DEF UserStep

(* A thread that has got through dv_init leaves the tables as they are.      *)
LEMMA TablesStay ==
  ASSUME SharedType, NEW u \in Users, TablesAt(u),
         UNCHANGED <<done, prepared, loaded, lookup, isNull>>,
         \/ at'[u] = at[u]
         \/ at[u] \in Working /\ at'[u] \in Working
         \/ at[u] = "waiting" /\ at'[u] = "new"
  PROVE  TablesAt(u)'
BY DEF TablesAt, Tables, Working

LEMMA FillStepInv ==
  ASSUME SharedType, TablesInv, NEW u \in Users, FillStep(u)
  PROVE  TablesInv'
<1> SUFFICES ASSUME ~cleaned'
             PROVE  /\ share.init => MainFirst'
                    /\ ~share.init => OneFirst'
                    /\ \A t \in Threads : share.init \/ Alone(t)' => WellMade(t)'
                    /\ \A t \in Threads : at'[t] = "waiting" => buffer'[t] = <<>>
  BY FillStepFrame DEF TablesInv
<1>1. /\ at[u] \in Filling /\ at'[u] \in Filling \cup {"started"} /\ ~cleaned
      /\ \A v \in Users \ {u} : at'[v] = at[v]
      /\ share' = share /\ buffer' = buffer
  BY FillStepFrame
<1>2. /\ MainThread \in Users /\ Threads \subseteq Users /\ Users = Threads \cup {MainThread}
      /\ "waiting" \notin Filling \cup {"started"} /\ "started" \notin Filling
  BY DEF Users, Filling
<1>3. \A t \in Threads : Alone(t)' => Alone(t)
  BY <1>1, <1>2 DEF Alone
<1>4. \A t \in Threads : share.init \/ Alone(t)' => WellMade(t)'
  BY <1>1, <1>3 DEF TablesInv, WellMade
<1>5. \A t \in Threads : at'[t] = "waiting" => buffer'[t] = <<>>
  BY <1>1, <1>2 DEF TablesInv
<1>6. ASSUME share.init PROVE MainFirst'
  <2>1. MainFirst
    BY <1>1, <1>6 DEF TablesInv
  <2>2. CASE u = MainThread
    <3>1. TablesAt(MainThread)'
      BY <2>1, <2>2, FillStepTables DEF MainFirst
    <3>2. \A t \in Threads : at'[t] = "waiting"
      BY <1>1, <1>2, <2>1, <2>2 DEF MainFirst
    <3> QED BY <1>1, <2>2, <3>1, <3>2 DEF MainFirst
  <2>3. CASE u \in Threads
    <3>1. at[MainThread] = "started" /\ u # MainThread
      BY <1>1, <1>2, <2>1, <2>3 DEF MainFirst
    <3>2. at[u] = "new"
      BY <1>1, <2>1, <2>3 DEF MainFirst, Filling, Working
    <3>3. done
      BY <2>1, <3>1 DEF MainFirst, TablesAt, Working
    <3>4. CallInit(u)
      BY <3>2 DEF FillStep, TestLookup, Allocate, SetDone, LoadEntry, StoreEntry, FillHalf,
                  Goes, LoadAt, StoreAt, FillAt
    <3>5. at' = [at EXCEPT ![u] = "started"] /\ UNCHANGED <<done, prepared, loaded, lookup, isNull>>
      BY <3>3, <3>4 DEF CallInit, Goes, NotDone
    <3>6. at'[u] = "started" /\ at'[MainThread] = at[MainThread]
      BY <1>1, <1>2, <3>1, <3>5 DEF SharedType
    <3>7. TablesAt(MainThread)'
      BY <1>2, <2>1, <3>5, <3>6, TablesStay DEF MainFirst
    <3> QED BY <1>1, <1>2, <2>1, <3>1, <3>6, <3>7 DEF MainFirst, Working
  <2> QED BY <1>2, <2>2, <2>3
<1>7. ASSUME ~share.init PROVE OneFirst'
  <2>1. OneFirst
    BY <1>1, <1>7 DEF TablesInv
  <2>2. u \in Threads
    BY <1>1, <1>2, <2>1 DEF OneFirst
  <2>3. at'[MainThread] = "started"
    BY <1>1, <1>2, <2>1, <2>2 DEF OneFirst
  <2>4. ASSUME NEW t \in Threads, Alone(t)' PROVE TablesAt(t)'
    <3>1. t = u
      BY <1>1, <1>2, <2>2, <2>4 DEF Alone
    <3> QED BY <1>2, <1>3, <2>1, <2>4, <3>1, FillStepTables DEF OneFirst
  <2> QED BY <2>3, <2>4 DEF OneFirst
<1> QED BY <1>4, <1>5, <1>6, <1>7

(* A segment is made with the tables as they are.                            *)
LEMMA MadeWell ==
  ASSUME SharedType, NEW t \in Threads, UserStep(t), WellMade(t),
         at[t] \in Working => Tables(1, 1, TRUE, Halves)
  PROVE  WellMade(t)'
<1> DEFINE Enc == [of |-> image[Encoder(t)], good |-> Good("enc")]
           Dec == [of |-> OwnPicture(t), good |-> Good("dec")]
<1>1. buffer[t] \in Seq(Segment)
  BY DEF SharedType
<1>2. ASSUME NEW new, new.good = TRUE, buffer' = [buffer EXCEPT ![t] = Append(@, new)]
      PROVE  WellMade(t)'
  <2>1. buffer'[t] = Append(buffer[t], new)
    BY <1>2 DEF SharedType
  <2> QED BY <1>1, <1>2, <2>1, AppendProperties DEF WellMade
<1>3. ASSUME at[t] \in Working PROVE Good("enc") /\ Good("dec")
  <2>1. lookup.filled = {"first", "second"} /\ prepared["enc"] = 1 /\ prepared["dec"] = 1
    BY <1>3 DEF Tables, Halves
  <2> QED BY <2>1 DEF Good
<1>4. CASE EncodeOne(t)
  <2>1. Good("enc") = TRUE
    BY <1>3, <1>4, Zenon DEF EncodeOne, Working
  <2>2. Enc.good = TRUE
    BY <2>1
  <2> QED BY <1>2, <1>4, <2>2 DEF EncodeOne
<1>5. CASE DecodeOne(t)
  <2>1. Good("dec") = TRUE
    BY <1>3, <1>5, Zenon DEF DecodeOne, Working
  <2>2. Dec.good = TRUE
    BY <2>1
  <2> QED BY <1>2, <1>5, <2>2 DEF DecodeOne
<1>6. CASE Lock(t) \/ Unlock(t)
  <2>1. buffer'[t] = <<>>
    BY <1>6 DEF Lock, Unlock, SharedType
  <2> QED BY <2>1 DEF WellMade
<1>7. CASE StartThread(t) \/ ConvertPicture(t) \/ Refuse(t)
  BY <1>7 DEF StartThread, ConvertPicture, Refuse, WellMade
<1> QED BY <1>4, <1>5, <1>6, <1>7 DEF UserStep

LEMMA UserStepInv ==
  ASSUME SharedType, TablesInv, NEW t \in Threads, UserStep(t)
  PROVE  TablesInv'
<1> SUFFICES ASSUME ~cleaned'
             PROVE  /\ share.init => MainFirst'
                    /\ ~share.init => OneFirst'
                    /\ \A v \in Threads : share.init \/ Alone(v)' => WellMade(v)'
                    /\ \A v \in Threads : at'[v] = "waiting" => buffer'[v] = <<>>
  BY UserStepFrame DEF TablesInv
<1>1. /\ \/ at[t] = "waiting" /\ at'[t] = "new" /\ at[MainThread] = "started" /\ buffer' = buffer
         \/ at[t] \in Working /\ at'[t] \in Working
      /\ \A v \in Users \ {t} : at'[v] = at[v]
      /\ \A v \in Threads \ {t} : buffer'[v] = buffer[v]
      /\ UNCHANGED <<share, done, prepared, loaded, lookup, isNull>> /\ ~cleaned
  BY UserStepFrame
<1>2. /\ MainThread \in Users /\ Threads \subseteq Users /\ Users = Threads \cup {MainThread}
      /\ "waiting" \notin Working /\ t # MainThread
  BY DEF Users, Working
<1>3. \A v \in Threads : Alone(v)' => Alone(v)
  BY <1>1, <1>2 DEF Alone
<1>4. \A v \in Threads : TablesAt(v) => TablesAt(v)'
  BY <1>1, <1>2, TablesStay
<1>5. TablesAt(MainThread) => TablesAt(MainThread)'
  BY <1>1, <1>2, TablesStay
<1>6. ASSUME NEW v \in Threads, share.init \/ Alone(v)' PROVE WellMade(v)'
  <2>1. WellMade(v)
    BY <1>1, <1>3, <1>6 DEF TablesInv
  <2>2. CASE v # t
    BY <1>1, <2>1, <2>2 DEF WellMade
  <2>3. CASE v = t
    <3>1. ASSUME at[t] \in Working PROVE Tables(1, 1, TRUE, Halves)
      <4>1. CASE share.init
        <5>1. MainFirst
          BY <1>1, <4>1 DEF TablesInv
        <5>2. at[MainThread] = "started" /\ TablesAt(MainThread)
          BY <1>2, <3>1, <5>1 DEF MainFirst
        <5> QED BY <5>2 DEF TablesAt, Working
      <4>2. CASE ~share.init
        BY <1>1, <1>3, <1>6, <2>3, <3>1, <4>2 DEF TablesInv, OneFirst, TablesAt
      <4> QED BY <4>1, <4>2
    <3> QED BY <2>1, <2>3, <3>1, MadeWell
  <2> QED BY <2>2, <2>3
<1>7. \A v \in Threads : at'[v] = "waiting" => buffer'[v] = <<>>
  BY <1>1, <1>2 DEF TablesInv
<1>8. share.init => MainFirst'
  BY <1>1, <1>2, <1>5 DEF TablesInv, MainFirst
<1>9. ~share.init => OneFirst'
  BY <1>1, <1>2, <1>3, <1>4 DEF TablesInv, OneFirst
<1> QED BY <1>6, <1>7, <1>8, <1>9

LEMMA StepTables == SharedType /\ TablesInv /\ [SharedNext]_sharedVars => TablesInv'
<1> SUFFICES ASSUME SharedType, TablesInv, [SharedNext]_sharedVars PROVE TablesInv'
  OBVIOUS
<1>1. CASE Cleanup
  BY <1>1 DEF Cleanup, TablesInv
<1>2. CASE UNCHANGED sharedVars
  BY <1>2, ZenonT(60) DEF sharedVars, TablesInv, MainFirst, OneFirst, TablesAt, Tables, WellMade, Alone
<1> QED BY <1>1, <1>2, Steps, FillStepInv, UserStepInv

LEMMA InitTables == SharedInit => TablesInv
<1> SUFFICES ASSUME SharedInit PROVE TablesInv
  OBVIOUS
<1>1. /\ MainThread \in Users /\ Threads \subseteq Users /\ MainThread \notin Threads
  BY DEF Users
<1>2. \A t \in Threads : at[t] = "waiting" /\ buffer[t] = <<>>
  BY <1>1 DEF SharedInit
<1>3. ASSUME NEW u \in Users, at[u] \in {"waiting", "new"} PROVE TablesAt(u)
  BY <1>3 DEF SharedInit, TablesAt, Tables, Working, Kinds
<1>4. share.init => at[MainThread] = "new"
  BY <1>1 DEF SharedInit
<1>5. ~share.init => at[MainThread] = "started"
  BY <1>1 DEF SharedInit
<1>6. share.init => MainFirst
  BY <1>1, <1>2, <1>3, <1>4 DEF MainFirst, Filling
<1>7. ~share.init => OneFirst
  BY <1>1, <1>2, <1>3, <1>5 DEF OneFirst
<1> QED BY <1>2, <1>6, <1>7 DEF TablesInv, WellMade

(***************************************************************************)
(* The tables are right for every frame of every thread, if the process      *)
(* calls dv_init first or if only one of its threads has begun, however the  *)
(* steps of dv_init and of the frames interleave (dv.c:168-197).             *)
(***************************************************************************)
THEOREM TablesAreReady == SharedSpec => []TablesReady
<1>1. SharedType /\ TablesInv => TablesReady
  <2> SUFFICES ASSUME SharedType, TablesInv, ~cleaned,
                      share.init \/ Cardinality(Threads \ {t \in Threads : at[t] = "waiting"}) = 1,
                      NEW t \in Threads
               PROVE  \A i \in DOMAIN buffer[t] : buffer[t][i].good
    BY DEF TablesReady
  <2> DEFINE Begun == Threads \ {v \in Threads : at[v] = "waiting"}
  <2>1. CASE share.init
    BY <2>1 DEF TablesInv, WellMade
  <2>2. CASE Cardinality(Begun) = 1
    <3>1. IsFiniteSet(Begun)
      BY FS_Subset
    <3>2. PICK one : Begun = {one}
      <4> HIDE DEF Begun
      <4> QED BY <2>2, <3>1, FS_Singleton
    <3>3. CASE t = one
      <4>1. Alone(t)
        BY <3>2, <3>3 DEF Alone
      <4> QED BY <4>1 DEF TablesInv, WellMade
    <3>4. CASE t # one
      <4>1. at[t] = "waiting"
        BY <3>2, <3>4
      <4> QED BY <4>1 DEF TablesInv
    <3> QED BY <3>3, <3>4
  <2> QED BY <2>1, <2>2
<1> QED BY <1>1, InitType, StepType, InitTables, StepTables, PTL DEF SharedSpec

(***************************************************************************)
(* The frames.                                                               *)
(***************************************************************************)
LEMMA InitFrames == SharedInit => FrameInv
<1> SUFFICES ASSUME SharedInit PROVE FrameInv
  OBVIOUS
<1>1. \A t \in Threads : t \in Users /\ t # MainThread /\ t # None /\ at[t] = "waiting"
  BY DEF SharedInit, Users
<1>2. MutexInv
  BY <1>1 DEF SharedInit, MutexInv, HolderMatches, PictureInPlace, NothingYet, OwnSegments,
                Holding
<1>3. results = {} /\ \A e \in Users : EncodedBy(e) = {} /\ counted[e] = 0
  BY DEF SharedInit, EncodedBy
<1>4. Cardinality({}) = 0
  BY FS_EmptySet
<1>5. ResultsInv
  BY <1>3, <1>4, Zenon DEF ResultsInv
<1> QED BY <1>2, <1>5 DEF FrameInv

LEMMA ResultsStay ==
  ASSUME ResultsInv, UNCHANGED <<share, results, counted>>
  PROVE  ResultsInv'
<1>1. \A e \in Users : EncodedBy(e)' = EncodedBy(e)
  BY DEF EncodedBy, Encodes
<1>2. \A f \in results : (Whole(f)' <=> Whole(f)) /\ Encoder(f.thread)' = Encoder(f.thread)
  BY DEF Whole, Encoder
<1>3. \A f \in results' : /\ Whole(f)' /\ f.encoder = Encoder(f.thread)'
                          /\ share'.calls[f.thread] \in {"encode", "decode"}
  BY <1>2 DEF ResultsInv
<1>4. ASSUME NEW e \in Users
      PROVE  /\ Cardinality(EncodedBy(e)') = counted'[e]
             /\ \A f \in EncodedBy(e)' : f.number < counted'[e]
             /\ \A f, g \in EncodedBy(e)' : f # g => f.number # g.number
  BY <1>1 DEF ResultsInv
<1> QED BY <1>3, <1>4 DEF ResultsInv

LEMMA SameJob ==
  ASSUME UNCHANGED <<share, results>>
  PROVE  \A t \in Threads : /\ Mutex(t)' = Mutex(t) /\ Encoder(t)' = Encoder(t)
                            /\ OwnPicture(t)' = OwnPicture(t) /\ Encodes(t)' = Encodes(t)
BY DEF Mutex, Encoder, OwnPicture, Encodes

LEMMA FillStepFrames ==
  ASSUME SharedType, FrameInv, NEW u \in Users, FillStep(u)
  PROVE  FrameInv'
<1>1. /\ at[u] \in Filling /\ at'[u] \in Filling \cup {"started"}
      /\ \A v \in Users \ {u} : at'[v] = at[v]
      /\ UNCHANGED <<share, mutex, image, counted, buffer, results>>
  BY FillStepFrame
<1>2. \A v \in Threads : /\ at'[v] = "locked" <=> at[v] = "locked"
                         /\ at'[v] = "segments" <=> at[v] = "segments"
                         /\ Holding(v)' <=> Holding(v)
  BY <1>1 DEF Filling, Users, Holding
<1>3. MutexInv'
  BY <1>1, <1>2, SameJob DEF FrameInv, MutexInv, HolderMatches, PictureInPlace, NothingYet,
                             OwnSegments
<1> QED BY <1>1, <1>3, ResultsStay DEF FrameInv

LEMMA StartKeepsMutex ==
  ASSUME SharedType, MutexInv, NEW t \in Threads, StartThread(t)
  PROVE  MutexInv'
<1>1. /\ at[t] = "waiting" /\ at'[t] = "new" /\ \A v \in Threads \ {t} : at'[v] = at[v]
      /\ UNCHANGED <<share, mutex, image, buffer, results>>
  BY DEF StartThread, Goes, SharedType, Users
<1>2. \A v \in Threads : /\ at'[v] = "locked" <=> at[v] = "locked"
                         /\ at'[v] = "segments" <=> at[v] = "segments"
                         /\ Holding(v)' <=> Holding(v)
  BY <1>1 DEF Holding
<1> QED BY <1>1, <1>2, SameJob DEF MutexInv, HolderMatches, PictureInPlace, NothingYet,
                                  OwnSegments

LEMMA LockKeepsMutex ==
  ASSUME SharedType, MutexInv, NEW t \in Threads, Lock(t)
  PROVE  MutexInv'
<1>1. at[t] = "started" /\ at'[t] = "locked" /\ \A v \in Threads \ {t} : at'[v] = at[v]
  BY DEF Lock, Goes, SharedType, Users
<1>2. /\ mutex[Mutex(t)] = None /\ mutex'[Mutex(t)] = t
      /\ \A k \in Kinds \ {Mutex(t)} : mutex'[k] = mutex[k]
  BY JobFacts DEF Lock, SharedType, MutexFree
<1>3. buffer'[t] = <<>> /\ \A v \in Threads \ {t} : buffer'[v] = buffer[v]
  BY DEF Lock, SharedType
<1>4. UNCHANGED <<share, image, results>>
  BY DEF Lock
<1>5. HolderMatches'
  <2> SUFFICES ASSUME NEW v \in Threads, NEW k \in Kinds
               PROVE  mutex'[k] = v <=> Holding(v)' /\ k = Mutex(v)'
    BY DEF HolderMatches
  <2>1. Mutex(v)' = Mutex(v) /\ v # None
    BY <1>4, SameJob
  <2>2. mutex[k] = v <=> Holding(v) /\ k = Mutex(v)
    BY DEF MutexInv, HolderMatches
  <2>3. CASE v = t
    BY <1>1, <1>2, <2>1, <2>2, <2>3 DEF Holding
  <2>4. CASE v # t
    BY <1>1, <1>2, <2>1, <2>2, <2>4 DEF Holding
  <2> QED BY <2>3, <2>4
<1>6. PictureInPlace'
  BY <1>1, <1>4, SameJob DEF MutexInv, PictureInPlace
<1>7. NothingYet'
  BY <1>1, <1>3, <1>4 DEF MutexInv, NothingYet
<1>8. OwnSegments'
  BY <1>1, <1>3, <1>4, SameJob DEF MutexInv, OwnSegments, Holding
<1> QED BY <1>5, <1>6, <1>7, <1>8 DEF MutexInv

LEMMA ConvertKeepsMutex ==
  ASSUME SharedType, MutexInv, NEW t \in Threads, ConvertPicture(t)
  PROVE  MutexInv'
<1>1. at[t] = "locked" /\ at'[t] = "segments" /\ \A v \in Threads \ {t} : at'[v] = at[v]
  BY DEF ConvertPicture, Goes, SharedType, Users
<1>2. /\ image'[Encoder(t)] = OwnPicture(t) /\ Encodes(t)
      /\ UNCHANGED <<share, mutex, buffer, results>>
  BY JobFacts DEF ConvertPicture, SharedType, Encodes
<1>3. \A v \in Threads : Holding(v)' <=> Holding(v)
  BY <1>1 DEF Holding
<1>4. \A v \in Threads : at[v] = "segments" => v = t
  <2> SUFFICES ASSUME NEW v \in Threads, at[v] = "segments" PROVE v = t
    OBVIOUS
  <2>1. Encodes(v)
    BY DEF MutexInv, PictureInPlace
  <2>2. Mutex(t) = "enc" /\ Mutex(v) = "enc"
    BY <1>2, <2>1 DEF Mutex, Encodes
  <2>3. mutex["enc"] = t /\ mutex["enc"] = v
    BY <1>1, <2>2 DEF MutexInv, HolderMatches, Holding, Kinds
  <2> QED BY <2>3
<1>5. PictureInPlace'
  BY <1>1, <1>2, <1>4, SameJob DEF PictureInPlace
<1>6. HolderMatches' /\ OwnSegments'
  BY <1>2, <1>3, SameJob DEF MutexInv, HolderMatches, OwnSegments
<1>7. NothingYet'
  BY <1>1, <1>2 DEF MutexInv, NothingYet
<1> QED BY <1>5, <1>6, <1>7 DEF MutexInv

LEMMA RefuseKeepsMutex ==
  ASSUME SharedType, MutexInv, NEW t \in Threads, Refuse(t)
  PROVE  MutexInv'
<1>1. at[t] = "locked" /\ at'[t] = "ended" /\ \A v \in Threads \ {t} : at'[v] = at[v]
  BY DEF Refuse, Goes, SharedType, Users
<1>2. /\ mutex'["enc"] = None /\ \A k \in Kinds \ {"enc"} : mutex'[k] = mutex[k]
      /\ Mutex(t) = "enc"
  BY DEF Refuse, SharedType, Mutex, Kinds
<1>3. UNCHANGED <<share, image, buffer, results>>
  BY DEF Refuse
<1>4. HolderMatches'
  <2> SUFFICES ASSUME NEW v \in Threads, NEW k \in Kinds
               PROVE  mutex'[k] = v <=> Holding(v)' /\ k = Mutex(v)'
    BY DEF HolderMatches
  <2>1. Mutex(v)' = Mutex(v) /\ v # None
    BY <1>3, SameJob
  <2>2. mutex[k] = v <=> Holding(v) /\ k = Mutex(v)
    BY DEF MutexInv, HolderMatches
  <2>3. mutex["enc"] = t
    BY <1>1, <1>2 DEF MutexInv, HolderMatches, Holding, Kinds
  <2>4. CASE v = t
    BY <1>1, <1>2, <2>1, <2>2, <2>4 DEF Holding
  <2>5. CASE v # t
    BY <1>1, <1>2, <2>1, <2>2, <2>3, <2>5 DEF Holding
  <2> QED BY <2>4, <2>5
<1>5. PictureInPlace'
  BY <1>1, <1>3, SameJob DEF MutexInv, PictureInPlace
<1>6. NothingYet'
  BY <1>1, <1>3 DEF MutexInv, NothingYet
<1>7. OwnSegments'
  BY <1>1, <1>3, SameJob DEF MutexInv, OwnSegments, Holding
<1> QED BY <1>4, <1>5, <1>6, <1>7 DEF MutexInv

(* A segment is appended to the frame of thread t.                           *)
LEMMA SegmentKeepsMutex ==
  ASSUME SharedType, MutexInv, NEW t \in Threads, EncodeOne(t) \/ DecodeOne(t)
  PROVE  MutexInv'
<1>1. UNCHANGED <<share, at, mutex, image, results>>
  BY DEF EncodeOne, DecodeOne
<1>2. PICK new : new.of = OwnPicture(t) /\ buffer' = [buffer EXCEPT ![t] = Append(@, new)]
  <2>1. CASE EncodeOne(t)
    <3> DEFINE Enc == [of |-> image[Encoder(t)], good |-> Good("enc")]
    <3>1. image[Encoder(t)] = OwnPicture(t)
      BY <2>1 DEF EncodeOne, MutexInv, PictureInPlace
    <3>2. buffer' = [buffer EXCEPT ![t] = Append(@, Enc)]
      BY <2>1 DEF EncodeOne
    <3> QED BY <3>1, <3>2
  <2>2. CASE DecodeOne(t)
    <3> DEFINE Dec == [of |-> OwnPicture(t), good |-> Good("dec")]
    <3>1. Dec.of = OwnPicture(t)
      OBVIOUS
    <3>2. buffer' = [buffer EXCEPT ![t] = Append(@, Dec)]
      BY <2>2 DEF DecodeOne
    <3> QED BY <3>1, <3>2
  <2> QED BY <2>1, <2>2
<1>3. buffer[t] \in Seq(Segment) /\ buffer'[t] = Append(buffer[t], new)
  BY <1>2 DEF SharedType
<1>4. \A v \in Threads \ {t} : buffer'[v] = buffer[v]
  BY <1>2 DEF SharedType
<1>5. Holding(t) => \A i \in DOMAIN buffer'[t] : buffer'[t][i].of = OwnPicture(t)
  BY <1>2, <1>3, AppendProperties DEF MutexInv, OwnSegments
<1>6. ~(at[t] = "locked" /\ share.calls[t] # "decode")
  BY DEF EncodeOne, DecodeOne
<1>7. HolderMatches' /\ PictureInPlace'
  BY <1>1, SameJob DEF MutexInv, HolderMatches, PictureInPlace, Holding
<1>8. NothingYet'
  BY <1>1, <1>4, <1>6 DEF MutexInv, NothingYet
<1>9. OwnSegments'
  BY <1>1, <1>4, <1>5, SameJob DEF MutexInv, OwnSegments, Holding
<1> QED BY <1>7, <1>8, <1>9 DEF MutexInv

LEMMA UnlockKeepsMutex ==
  ASSUME SharedType, MutexInv, NEW t \in Threads, Unlock(t)
  PROVE  MutexInv'
<1>1. Holding(t) /\ at'[t] = "started" /\ \A v \in Threads \ {t} : at'[v] = at[v]
  BY DEF Unlock, SharedType, Users, Holding
<1>2. mutex'[Mutex(t)] = None /\ \A k \in Kinds \ {Mutex(t)} : mutex'[k] = mutex[k]
  BY JobFacts DEF Unlock, SharedType
<1>3. UNCHANGED <<share, image>> /\ \A v \in Threads \ {t} : buffer'[v] = buffer[v]
  BY DEF Unlock, SharedType
<1>4. PICK new : new.thread = t /\ results' = results \cup {new}
  <2> DEFINE Done == [thread |-> t, encoder |-> Encoder(t), picture |-> OwnPicture(t),
                      number |-> counted[Encoder(t)], segments |-> buffer[t]]
  <2>1. Done.thread = t
    OBVIOUS
  <2>2. results' = results \cup {Done}
    BY DEF Unlock
  <2> QED BY <2>1, <2>2
<1>5. \A v \in Threads : Mutex(v)' = Mutex(v) /\ Encoder(v)' = Encoder(v) /\ Encodes(v)' = Encodes(v)
  BY <1>3 DEF Mutex, Encoder, Encodes
<1>6. \A v \in Threads \ {t} : OwnPicture(v)' = OwnPicture(v)
  <2> SUFFICES ASSUME NEW v \in Threads \ {t}
               PROVE  {f \in results' : f.thread = v} = {f \in results : f.thread = v}
    BY DEF OwnPicture
  <2> QED BY <1>4
<1>7. HolderMatches'
  <2> SUFFICES ASSUME NEW v \in Threads, NEW k \in Kinds
               PROVE  mutex'[k] = v <=> Holding(v)' /\ k = Mutex(v)'
    BY DEF HolderMatches
  <2>1. Mutex(v)' = Mutex(v) /\ v # None
    BY <1>5
  <2>2. mutex[k] = v <=> Holding(v) /\ k = Mutex(v)
    BY DEF MutexInv, HolderMatches
  <2>3. mutex[Mutex(t)] = t
    BY <1>1, JobFacts DEF MutexInv, HolderMatches
  <2>4. CASE v = t
    BY <1>1, <1>2, <2>1, <2>2, <2>4 DEF Holding
  <2>5. CASE v # t
    BY <1>1, <1>2, <2>1, <2>2, <2>3, <2>5 DEF Holding
  <2> QED BY <2>4, <2>5
<1>8. PictureInPlace'
  BY <1>1, <1>3, <1>5, <1>6 DEF MutexInv, PictureInPlace
<1>9. NothingYet'
  BY <1>1, <1>3 DEF MutexInv, NothingYet
<1>10. OwnSegments'
  BY <1>1, <1>3, <1>6 DEF MutexInv, OwnSegments, Holding
<1> QED BY <1>7, <1>8, <1>9, <1>10 DEF MutexInv

(* The frame that is finished holds one picture, and has the next number of  *)
(* its encoder.                                                              *)
LEMMA UnlockKeepsResults ==
  ASSUME SharedType, FrameInv, NEW t \in Threads, Unlock(t)
  PROVE  ResultsInv'
<1> DEFINE e0 == Encoder(t)
           new == [thread |-> t, encoder |-> e0, picture |-> OwnPicture(t),
                   number |-> counted[e0], segments |-> buffer[t]]
<1>1. /\ results' = results \cup {new} /\ share' = share
      /\ Len(buffer[t]) = SegmentsPerFrame /\ at[t] \in {"segments", "locked"}
  BY DEF Unlock
<1>2. /\ new.thread = t /\ new.encoder = e0 /\ new.picture = OwnPicture(t)
      /\ new.number = counted[e0] /\ new.segments = buffer[t]
  OBVIOUS
<1> HIDE DEF new
<1>3. share.calls[t] \in {"encode", "decode"}
  <2>1. buffer[t] # <<>>
    BY <1>1
  <2> QED BY <1>1, <2>1 DEF FrameInv, MutexInv, PictureInPlace, NothingYet, Encodes
<1>4. Whole(new)
  <2>1. buffer[t] \in Seq(Segment) /\ DOMAIN buffer[t] = 1 .. SegmentsPerFrame
    BY <1>1, LenProperties DEF SharedType
  <2> QED BY <1>1, <1>2, <2>1 DEF Whole, FrameInv, MutexInv, OwnSegments, Holding
<1>5. \A v \in Threads : Encoder(v)' = Encoder(v) /\ (Encodes(v)' <=> Encodes(v))
  BY <1>1 DEF Encoder, Encodes
<1>6. \A f \in results : f.thread \in Threads
  BY DEF SharedType, Frame
<1>7. \A f \in results' : /\ Whole(f)' /\ f.encoder = Encoder(f.thread)'
                          /\ share'.calls[f.thread] \in {"encode", "decode"}
  BY <1>1, <1>2, <1>3, <1>4, <1>5, <1>6 DEF FrameInv, ResultsInv, Whole
<1>8. ASSUME NEW e \in Users
      PROVE  /\ Cardinality(EncodedBy(e)') = counted'[e]
             /\ \A f \in EncodedBy(e)' : f.number < counted'[e]
             /\ \A f, g \in EncodedBy(e)' : f # g => f.number # g.number
  <2>1. /\ Cardinality(EncodedBy(e)) = counted[e]
        /\ \A f \in EncodedBy(e) : f.number < counted[e]
        /\ \A f, g \in EncodedBy(e) : f # g => f.number # g.number
    BY DEF FrameInv, ResultsInv
  <2>2. CASE e = e0 /\ Encodes(t)
    <3>1. EncodedBy(e)' = EncodedBy(e) \cup {new}
      BY <1>1, <1>2, <1>5, <1>6, <2>2 DEF EncodedBy
    <3>2. counted[e] \in Nat /\ \A f \in EncodedBy(e) : f.number \in Nat
      BY DEF SharedType, EncodedBy, Frame
    <3>3. counted'[e] = counted[e] + 1
      BY <2>2, JobFacts DEF Unlock, SharedType, Encodes
    <3>4. new.number = counted[e]
      BY <1>2, <2>2
    <3>5. new \notin EncodedBy(e)
      BY <2>1, <3>2, <3>4
    <3>6. IsFiniteSet(EncodedBy(e))
      BY FS_Subset DEF SharedType, EncodedBy
    <3>7. Cardinality(EncodedBy(e)') = Cardinality(EncodedBy(e)) + 1
      BY <3>1, <3>5, <3>6, FS_AddElement
    <3>8. \A f \in EncodedBy(e)' : f.number < counted'[e]
      BY <2>1, <3>1, <3>2, <3>3, <3>4
    <3>9. \A f, g \in EncodedBy(e)' : f # g => f.number # g.number
      BY <2>1, <3>1, <3>2, <3>4
    <3> QED BY <2>1, <3>3, <3>7, <3>8, <3>9
  <2>3. CASE ~(e = e0 /\ Encodes(t))
    <3>1. EncodedBy(e)' = EncodedBy(e)
      BY <1>1, <1>2, <1>5, <1>6, <2>3 DEF EncodedBy
    <3>2. counted[e] \in Nat
      BY DEF SharedType
    <3>3. counted'[e] = counted[e]
      <4>1. counted \in [Users -> Nat] /\ e0 \in Users /\ counted[e0] \in Nat
        BY JobFacts DEF SharedType
      <4>2. CASE e # e0
        BY <4>1, <4>2 DEF Unlock
      <4>3. CASE e = e0
        <5>1. ~Encodes(t)
          BY <2>3, <4>3
        <5>2. counted' = [counted EXCEPT ![e0] = @ + 0]
          BY <5>1 DEF Unlock, Encodes
        <5> QED BY <4>1, <4>3, <5>2
      <4> QED BY <4>2, <4>3
    <3> QED BY <2>1, <3>1, <3>3
  <2> QED BY <2>2, <2>3
<1> QED BY <1>7, <1>8 DEF ResultsInv

LEMMA StepFrames == SharedType /\ FrameInv /\ [SharedNext]_sharedVars => FrameInv'
<1> SUFFICES ASSUME SharedType, FrameInv, [SharedNext]_sharedVars PROVE FrameInv'
  OBVIOUS
<1>1. ASSUME NEW t \in Threads, UserStep(t) PROVE FrameInv'
  <2>1. MutexInv'
    BY <1>1, StartKeepsMutex, LockKeepsMutex, ConvertKeepsMutex, RefuseKeepsMutex,
       SegmentKeepsMutex, UnlockKeepsMutex DEF UserStep, FrameInv
  <2>2. ResultsInv'
    <3>1. CASE Unlock(t)
      BY <3>1, UnlockKeepsResults
    <3>2. CASE ~Unlock(t)
      BY <1>1, <3>2, ResultsStay DEF FrameInv, UserStep, StartThread, Lock, ConvertPicture,
                                     Refuse, EncodeOne, DecodeOne
    <3> QED BY <3>1, <3>2
  <2> QED BY <2>1, <2>2 DEF FrameInv
<1>2. CASE Cleanup \/ UNCHANGED sharedVars
  <2>1. UNCHANGED <<share, at, mutex, image, counted, buffer, results>>
    BY <1>2 DEF Cleanup, sharedVars
  <2>2. MutexInv'
    BY <2>1, SameJob DEF FrameInv, MutexInv, HolderMatches, PictureInPlace, NothingYet,
                         OwnSegments, Holding
  <2> QED BY <2>1, <2>2, ResultsStay DEF FrameInv
<1> QED BY <1>1, <1>2, Steps, FillStepFrames

(***************************************************************************)
(* However the threads interleave, and whether they share an encoder or not, *)
(* a frame holds the segments of its own picture only, and the encoded       *)
(* frames of an encoder are numbered without a gap or a double               *)
(* (the mutex of dv_encode_full_frame, encode.c:1780-1884).                  *)
(***************************************************************************)
THEOREM FramesNeverMix == SharedSpec => []FramesUnmixed
<1>1. SharedType /\ FrameInv => FramesUnmixed
  <2> SUFFICES ASSUME SharedType, FrameInv PROVE FramesUnmixed
    OBVIOUS
  <2>1. \A f \in results : \A i \in 1 .. SegmentsPerFrame : f.segments[i].of = f.picture
    BY DEF FrameInv, ResultsInv, Whole
  <2>2. \A f \in results : f.encoder \in Users
    BY DEF SharedType, Frame
  <2>3. ASSUME NEW f \in results, NEW g \in results, f # g, f.encoder = g.encoder,
               "decode" \notin {share.calls[f.thread], share.calls[g.thread]}
        PROVE  f.number # g.number
    <3>1. Encodes(f.thread) /\ Encodes(g.thread)
      BY <2>3 DEF FrameInv, ResultsInv, Encodes
    <3>2. f \in EncodedBy(f.encoder) /\ g \in EncodedBy(f.encoder)
      BY <2>3, <3>1 DEF EncodedBy
    <3> QED BY <2>2, <2>3, <3>2 DEF FrameInv, ResultsInv
  <2>4. \A e \in Users :
          Cardinality({f \in results : f.encoder = e /\ share.calls[f.thread] = "encode"})
            = counted[e]
    BY DEF FrameInv, ResultsInv, EncodedBy, Encodes
  <2> QED BY <2>1, <2>3, <2>4 DEF FramesUnmixed
<1> QED BY <1>1, InitType, StepType, InitFrames, StepFrames, PTL DEF SharedSpec

(***************************************************************************)
(* The start of a recording on a tape.                                     *)
(***************************************************************************)
TapeFrame == [stamp : Stamps, end : BOOLEAN, start : BOOLEAN, new : BOOLEAN]
RecType == /\ recTape \in Seq(TapeFrame) /\ on_next_frame \in BOOLEAN
           /\ current_stamp \in Stamps /\ unstamped \in BOOLEAN

(* The frames from i on all carry the time code of frame i, an end mark.     *)
EndsRun(i) == recTape[i].end /\ \A k \in i .. Len(recTape) : recTape[k].stamp = recTape[i].stamp

(* The flag is set as long as the time code of an end mark goes on; a stamp  *)
(* kept without it belongs to frames that are past.                          *)
FlagFollows ==
  /\ on_next_frame =>
       \E i \in 1 .. Len(recTape) : EndsRun(i) /\ current_stamp = recTape[i].stamp
  /\ ~on_next_frame => \A i \in 1 .. Len(recTape) : ~EndsRun(i)
StampIsPast ==
  ~on_next_frame /\ current_stamp # 0 =>
    \E i \in 1 .. Len(recTape) : /\ recTape[i].stamp = current_stamp
                              /\ \E k \in i .. Len(recTape) : recTape[k].stamp # current_stamp
Ordered == ~unstamped /\ StampsGoOn
RecInv == RecType /\ (Ordered => FlagFollows /\ StampIsPast /\ RecordingsAreFound)

(* A frame whose time code is temp is the last of recTape'.                     *)
LEMMA TapeGrows ==
  ASSUME RecType, NEW temp \in Stamps, NEW start \in BOOLEAN, NEW end \in BOOLEAN,
         TwelveBit(temp, start, end)
  PROVE  /\ Len(recTape) \in Nat /\ Len(recTape') = Len(recTape) + 1
         /\ recTape \in Seq(TapeFrame) /\ recTape' \in Seq(TapeFrame)
         /\ DOMAIN recTape = 1 .. Len(recTape) /\ DOMAIN recTape' = 1 .. Len(recTape')
         /\ \A i \in 1 .. Len(recTape) : recTape'[i] = recTape[i] /\ recTape[i] \in TapeFrame
         /\ recTape'[Len(recTape')].stamp = temp /\ recTape'[Len(recTape')].end = end
         /\ recTape'[Len(recTape')].start = start /\ recTape'[Len(recTape')].new \in BOOLEAN
         /\ recTape'[Len(recTape')].new <=>
              start \/ (ResetStamp(temp) # 0 /\ ~(on_next_frame /\ ResetStamp(temp) = temp))
<1> DEFINE n == start \/ (ResetStamp(temp) # 0 /\ ~(on_next_frame /\ ResetStamp(temp) = temp))
           last == [stamp |-> temp, end |-> end, start |-> start, new |-> n]
<1>1. recTape' = Append(recTape, last)
  BY DEF TwelveBit
<1>2. n \in BOOLEAN
  OBVIOUS
<1> HIDE DEF n
<1>3. last \in TapeFrame
  BY <1>2 DEF TapeFrame
<1>4. last.stamp = temp /\ last.end = end /\ last.start = start /\ last.new = n
  OBVIOUS
<1> HIDE DEF last
<1>5. recTape \in Seq(TapeFrame) /\ Len(recTape) \in Nat
  BY LenProperties DEF RecType
<1>6. /\ recTape' \in Seq(TapeFrame) /\ Len(recTape') = Len(recTape) + 1
      /\ \A i \in 1 .. Len(recTape) : recTape'[i] = recTape[i]
      /\ recTape'[Len(recTape) + 1] = last
  BY <1>1, <1>3, <1>5, AppendProperties
<1>7. DOMAIN recTape = 1 .. Len(recTape) /\ DOMAIN recTape' = 1 .. Len(recTape')
  BY <1>5, <1>6, LenProperties
<1>8. \A i \in 1 .. Len(recTape) : recTape[i] \in TapeFrame
  BY <1>5, ElementOfSeq
<1>9. recTape'[Len(recTape')] = last
  BY <1>6
<1> QED BY <1>2, <1>4, <1>5, <1>6, <1>7, <1>8, <1>9 DEF n

LEMMA TypeKept ==
  ASSUME RecType, [IsNewRecording]_recVars
  PROVE  RecType'
<1>1. CASE UNCHANGED <<on_next_frame, current_stamp, recTape>> /\ unstamped' \in BOOLEAN
  BY <1>1 DEF RecType, Stamps, TapeFrame
<1>2. ASSUME NEW temp \in Stamps, NEW start \in BOOLEAN, NEW end \in BOOLEAN,
             TwelveBit(temp, start, end), unstamped' \in BOOLEAN
      PROVE  RecType'
  <2>1. recTape' \in Seq(TapeFrame)
    BY <1>2, TapeGrows
  <2>2. 0 \in Stamps
    BY RecordingAssumption DEF Stamps
  <2>3. current_stamp' \in Stamps /\ on_next_frame' \in BOOLEAN
    BY <1>2, <2>2 DEF TwelveBit, ResetStamp, RecType
  <2> QED BY <1>2, <2>1, <2>3 DEF RecType, TapeFrame, Stamps
<1>3. CASE IsNewRecording
  <2>1. ASSUME NEW start \in BOOLEAN, Plain(start) PROVE RecType'
    BY <1>1, <2>1 DEF Plain, RecType
  <2>2. ASSUME NEW start \in BOOLEAN, NEW end \in BOOLEAN, NEW code \in Stamps,
               TwelveBit(code, start, end) /\ UNCHANGED unstamped
        PROVE  RecType'
    BY <1>2, <2>2 DEF RecType
  <2>3. ASSUME NEW start \in BOOLEAN, NEW end \in BOOLEAN, Unstamped(start, end) PROVE RecType'
    BY <1>2, <2>3 DEF Unstamped
  <2> QED BY <1>3, <2>1, <2>2, <2>3 DEF IsNewRecording
<1>4. CASE UNCHANGED recVars
  BY <1>1, <1>4 DEF recVars, RecType
<1> QED BY <1>3, <1>4

(* What the order of the tape says of the new frame.                         *)
LEMMA OrderBefore ==
  ASSUME RecType, NEW temp \in Stamps, NEW start \in BOOLEAN, NEW end \in BOOLEAN,
         TwelveBit(temp, start, end), StampsGoOn'
  PROVE  /\ StampsGoOn
         /\ \A i \in 1 .. Len(recTape) : recTape[i].stamp = temp =>
              \A k \in i .. Len(recTape) : recTape[k].stamp = temp
<1>1. /\ Len(recTape) \in Nat /\ Len(recTape') = Len(recTape) + 1
      /\ DOMAIN recTape = 1 .. Len(recTape) /\ DOMAIN recTape' = 1 .. Len(recTape')
      /\ \A i \in 1 .. Len(recTape) : recTape'[i] = recTape[i]
      /\ recTape'[Len(recTape')].stamp = temp
  BY TapeGrows
<1>2. StampsGoOn
  <2> SUFFICES ASSUME NEW i \in 1 .. Len(recTape), NEW j \in 1 .. Len(recTape), i < j,
                      recTape[i].stamp = recTape[j].stamp, NEW k \in i .. j
               PROVE  recTape[k].stamp = recTape[i].stamp
    BY <1>1 DEF StampsGoOn
  <2>1. i \in DOMAIN recTape' /\ j \in DOMAIN recTape' /\ k \in 1 .. Len(recTape)
    BY <1>1
  <2>2. recTape'[k].stamp = recTape'[i].stamp
    BY <1>1, <2>1 DEF StampsGoOn
  <2> QED BY <1>1, <2>1, <2>2
<1>3. ASSUME NEW i \in 1 .. Len(recTape), recTape[i].stamp = temp, NEW k \in i .. Len(recTape)
      PROVE  recTape[k].stamp = temp
  <2>1. i \in DOMAIN recTape' /\ Len(recTape') \in DOMAIN recTape' /\ i < Len(recTape')
        /\ k \in i .. Len(recTape') /\ k \in 1 .. Len(recTape)
    BY <1>1
  <2>2. recTape'[i].stamp = recTape'[Len(recTape')].stamp
    BY <1>1, <1>3
  <2>3. recTape'[k].stamp = recTape'[i].stamp
    BY <2>1, <2>2 DEF StampsGoOn
  <2> QED BY <1>1, <1>3, <2>1, <2>3
<1> QED BY <1>2, <1>3

(* The answer is right, and the flag and the stamp are what the next call    *)
(* needs.                                                                    *)
LEMMA AnswerRight ==
  ASSUME RecInv, NEW temp \in Stamps, NEW start \in BOOLEAN, NEW end \in BOOLEAN,
         TwelveBit(temp, start, end), ~unstamped, StampsGoOn'
  PROVE  FlagFollows' /\ StampIsPast' /\ RecordingsAreFound'
<1>t. RecType
  BY DEF RecInv
<1>n. PICK n \in Nat : n = Len(recTape)
  BY <1>t, TapeGrows
<1>1. /\ n \in Nat /\ Len(recTape') = n + 1
      /\ DOMAIN recTape = 1 .. n /\ DOMAIN recTape' = 1 .. n + 1
      /\ \A i \in 1 .. n : recTape'[i] = recTape[i] /\ recTape[i] \in TapeFrame
      /\ recTape'[n + 1].stamp = temp /\ recTape'[n + 1].end = end
      /\ recTape'[n + 1].start = start
      /\ recTape'[n + 1].new <=>
           start \/ (ResetStamp(temp) # 0 /\ ~(on_next_frame /\ ResetStamp(temp) = temp))
  BY <1>n, <1>t, TapeGrows
<1>2. /\ StampsGoOn
      /\ \A i \in 1 .. n : recTape[i].stamp = temp => \A k \in i .. n : recTape[k].stamp = temp
  BY <1>n, <1>t, OrderBefore
<1>3. FlagFollows /\ StampIsPast /\ RecordingsAreFound
  BY <1>2 DEF RecInv, Ordered
<1>4. \A i \in 1 .. n : \/ EndsRun(i) <=> /\ recTape[i].end
                                          /\ \A k \in i .. n : recTape[k].stamp = recTape[i].stamp
  BY <1>n DEF EndsRun
<1>5. \A i \in 1 .. n : i <= n /\ n \in i .. n /\ \A k \in i .. n : k \in 1 .. n
  BY <1>1
\* Whether an end mark waits for a frame with another time code.
<1>6. ASSUME on_next_frame
      PROVE  \E i \in 1 .. n : /\ EndsRun(i) /\ current_stamp = recTape[i].stamp
                               /\ current_stamp = recTape[n].stamp
  BY <1>n, <1>3, <1>4, <1>5, <1>6 DEF FlagFollows
<1>7. ASSUME ~on_next_frame
      PROVE  /\ \A i \in 1 .. n : ~EndsRun(i)
             /\ ResetStamp(temp) = 0
  <2>1. CASE current_stamp # temp
    BY <1>n, <1>3, <1>7, <2>1 DEF FlagFollows, ResetStamp
  <2>2. CASE current_stamp = temp /\ temp # 0
    <3>1. PICK i \in 1 .. n : /\ recTape[i].stamp = temp
                              /\ \E k \in i .. n : recTape[k].stamp # temp
      BY <1>n, <1>3, <1>7, <2>2 DEF StampIsPast
    <3> QED BY <1>2, <3>1
  <2>3. CASE current_stamp = temp /\ temp = 0
    BY <1>n, <1>3, <1>7, <2>3 DEF FlagFollows, ResetStamp
  <2> QED BY <2>1, <2>2, <2>3
<1>8. on_next_frame => ResetStamp(temp) = current_stamp
  BY DEF ResetStamp
<1>9. /\ current_stamp' = IF end THEN temp ELSE ResetStamp(temp)
      /\ on_next_frame' <=> end \/ (on_next_frame /\ ResetStamp(temp) = temp)
  BY DEF TwelveBit
<1>10. RecordingsAreFound'
  <2> SUFFICES ASSUME NEW j \in 1 .. n + 1
               PROVE  recTape'[j].new <=>
                        \/ recTape'[j].start
                        \/ \E i \in 1 .. j - 1 :
                             /\ recTape'[i].end /\ recTape'[i].stamp \notin {0, recTape'[j].stamp}
                             /\ \A k \in i .. j - 1 : recTape'[k].stamp = recTape'[i].stamp
    BY <1>1 DEF RecordingsAreFound
  <2>1. CASE j \in 1 .. n
    <3>1. recTape[j].new <=>
            \/ recTape[j].start
            \/ \E i \in 1 .. j - 1 :
                 /\ recTape[i].end /\ recTape[i].stamp \notin {0, recTape[j].stamp}
                 /\ \A k \in i .. j - 1 : recTape[k].stamp = recTape[i].stamp
      <4>1. ~unstamped /\ StampsGoOn /\ j \in DOMAIN recTape
        BY <1>1, <1>2, <2>1
      <4> QED BY <1>3, <4>1 DEF RecordingsAreFound
    <3>2. recTape'[j] = recTape[j]
      BY <1>1, <2>1
    <3>3. \A i \in 1 .. j - 1 : /\ recTape'[i] = recTape[i]
                                /\ \A k \in i .. j - 1 : recTape'[k] = recTape[k]
      BY <1>1, <2>1
    <3> QED BY <3>1, <3>2, <3>3
  <2>2. CASE j = n + 1
    <3> DEFINE Due == \E i \in 1 .. n : /\ recTape[i].end /\ recTape[i].stamp \notin {0, temp}
                                        /\ \A k \in i .. n : recTape[k].stamp = recTape[i].stamp
    <3>1. Due <=> ResetStamp(temp) # 0 /\ ~(on_next_frame /\ ResetStamp(temp) = temp)
      <4>1. CASE on_next_frame
        <5>1. PICK i \in 1 .. n : /\ EndsRun(i) /\ current_stamp = recTape[i].stamp
                                  /\ current_stamp = recTape[n].stamp
          BY <1>6, <4>1
        <5>2. current_stamp \notin {0, temp} => Due
          BY <1>4, <5>1
        <5>3. Due => current_stamp \notin {0, temp}
          BY <1>5, <5>1
        <5> QED BY <1>8, <4>1, <5>2, <5>3
      <4>2. CASE ~on_next_frame
        BY <1>4, <1>7, <4>2
      <4> QED BY <4>1, <4>2 DEF RecInv, RecType
    <3>2. j - 1 = n
      BY <1>1, <2>2
    <3>3. (\E i \in 1 .. j - 1 :
             /\ recTape'[i].end /\ recTape'[i].stamp \notin {0, recTape'[j].stamp}
             /\ \A k \in i .. j - 1 : recTape'[k].stamp = recTape'[i].stamp) <=> Due
      BY <1>1, <1>5, <2>2, <3>2
    <3> HIDE DEF Due
    <3> QED BY <1>1, <2>2, <3>1, <3>3
  <2> QED BY <1>1, <2>1, <2>2
<1>11. n + 1 \in 1 .. n + 1 /\ \A k \in n + 1 .. n + 1 : k = n + 1
  BY <1>1
<1>12. \A i \in 1 .. n : /\ i \in 1 .. n + 1 /\ i # n + 1
                         /\ \A k \in i .. n + 1 : k \in i .. n \/ k = n + 1
                         /\ n + 1 \in i .. n + 1 /\ \A k \in i .. n : k \in i .. n + 1
  BY <1>1
<1>13. \A i \in 1 .. n + 1 : i \in 1 .. n \/ i = n + 1
  BY <1>1
<1>14. EndsRun(n + 1)' <=> end
  BY <1>1, <1>11 DEF EndsRun
<1>15. \A i \in 1 .. n : EndsRun(i)' <=> EndsRun(i) /\ recTape[i].stamp = temp
  <2> SUFFICES ASSUME NEW i \in 1 .. n
               PROVE  EndsRun(i)' <=> EndsRun(i) /\ recTape[i].stamp = temp
    OBVIOUS
  <2>1. EndsRun(i)' <=> recTape'[i].end /\ \A k \in i .. n + 1 : recTape'[k].stamp = recTape'[i].stamp
    BY <1>1 DEF EndsRun
  <2> QED BY <1>1, <1>4, <1>5, <1>12, <2>1
<1>16. FlagFollows'
  <2>1. CASE end
    <3>1. EndsRun(n + 1)' /\ current_stamp' = recTape'[n + 1].stamp /\ on_next_frame'
      BY <1>1, <1>9, <1>14, <2>1
    <3> QED BY <1>1, <1>11, <3>1 DEF FlagFollows
  <2>2. CASE ~end /\ on_next_frame /\ current_stamp = temp
    <3>1. PICK i \in 1 .. n : EndsRun(i) /\ current_stamp = recTape[i].stamp
      BY <1>6, <2>2
    <3>2. EndsRun(i)' /\ current_stamp' = recTape'[i].stamp /\ on_next_frame'
      BY <1>1, <1>8, <1>9, <1>15, <2>2, <3>1
    <3> QED BY <1>1, <1>12, <3>1, <3>2 DEF FlagFollows
  <2>3. CASE ~end /\ ~(on_next_frame /\ current_stamp = temp)
    <3>1. ~on_next_frame'
      BY <1>8, <1>9, <2>3
    <3>2. \A i \in 1 .. n : ~EndsRun(i)'
      <4> SUFFICES ASSUME NEW i \in 1 .. n, EndsRun(i), recTape[i].stamp = temp PROVE FALSE
        BY <1>15
      <4>1. on_next_frame
        BY <1>7, <1>t DEF RecType
      <4>2. recTape[n].stamp = temp
        BY <1>4, <1>5
      <4> QED BY <1>6, <2>3, <4>1, <4>2
    <3>3. \A i \in 1 .. n + 1 : ~EndsRun(i)'
      BY <1>13, <1>14, <2>3, <3>2
    <3> QED BY <1>1, <3>1, <3>3 DEF FlagFollows
  <2> QED BY <2>1, <2>2, <2>3
<1>17. StampIsPast'
  <2> SUFFICES ASSUME ~on_next_frame', current_stamp' # 0
               PROVE  \E i \in 1 .. n + 1 :
                        /\ recTape'[i].stamp = current_stamp'
                        /\ \E k \in i .. n + 1 : recTape'[k].stamp # current_stamp'
    BY <1>1 DEF StampIsPast
  <2>1. ~end /\ current_stamp' = ResetStamp(temp) /\ on_next_frame /\ ResetStamp(temp) # temp
    BY <1>7, <1>9
  <2>2. PICK i \in 1 .. n : current_stamp = recTape[i].stamp
    BY <1>6, <2>1
  <2>3. recTape'[i].stamp = current_stamp' /\ recTape'[n + 1].stamp # current_stamp'
    BY <1>1, <1>8, <2>1, <2>2
  <2> QED BY <1>12, <2>2, <2>3
<1> QED BY <1>10, <1>16, <1>17

LEMMA RecStep == RecInv /\ [IsNewRecording]_recVars => RecInv'
<1> SUFFICES ASSUME RecInv, [IsNewRecording]_recVars PROVE RecInv'
  OBVIOUS
<1>1. RecType'
  BY TypeKept DEF RecInv
<1>2. CASE UNCHANGED <<on_next_frame, current_stamp, recTape, unstamped>>
  BY <1>1, <1>2 DEF RecInv, Ordered, StampsGoOn, FlagFollows, EndsRun, StampIsPast,
                    RecordingsAreFound
<1>3. CASE unstamped' = TRUE
  BY <1>1, <1>3 DEF RecInv, Ordered
<1>4. ASSUME NEW start \in BOOLEAN, NEW end \in BOOLEAN, NEW code \in Stamps,
             TwelveBit(code, start, end), UNCHANGED unstamped
      PROVE  RecInv'
  BY <1>1, <1>4, AnswerRight DEF RecInv, Ordered
<1> QED BY <1>2, <1>3, <1>4 DEF IsNewRecording, Plain, Unstamped, recVars

LEMMA RecInitInv == RecInit => RecInv
<1> SUFFICES ASSUME RecInit PROVE RecInv
  OBVIOUS
<1>1. Len(<<>>) = 0 /\ 1 .. 0 = {} /\ <<>> \in Seq(TapeFrame) /\ DOMAIN <<>> = {}
  <2>1. <<>> \in Seq(TapeFrame) /\ Len(<<>>) = 0
    BY EmptySeq
  <2>2. DOMAIN <<>> = 1 .. 0
    BY <2>1, LenProperties
  <2> QED BY <2>1, <2>2
<1>2. 0 \in Stamps
  BY RecordingAssumption DEF Stamps
<1> QED BY <1>1, <1>2 DEF RecInit, RecInv, RecType, FlagFollows, StampIsPast, RecordingsAreFound

(* dv_is_new_recording, called for every frame of a tape whose time codes do *)
(* not come back, reports each recording once and at the right frame: its    *)
(* one flag and one time stamp are enough for any tape.                      *)
THEOREM RecordingsAreAllFound == RecSpec => []RecordingsAreFound
<1>1. RecInv => RecordingsAreFound
  BY DEF RecInv, Ordered, RecordingsAreFound
<1> QED BY RecInitInv, RecStep, <1>1, PTL DEF RecSpec

(***************************************************************************)
(* The packs: what a reader finds is what was written last.                 *)
(***************************************************************************)
(* The names of the systems for a writer and for the parser.                 *)
Standards == {"ntsc", "pal"}
Standard(system) == IF system = "pal" THEN "625_50" ELSE "525_60"

(* The date last written, and the time code: of the writer of all packs, or  *)
(* of dv_encode_timecode when that wrote after it.                           *)
Now == Clock[stamp.time]
CodePack(system) ==
  IF stamp.code < 0 THEN Timecode13(Now, stamp.count, system)
  ELSE Timecode13(TimeOfCount(stamp.code, Fps(system)), stamp.code, system)
(* After the last write every slot holds the pack of what was stamped.       *)
MetaStamped(system) ==
  /\ stamp.time \in DOMAIN Clock /\ stamp.count \in Counts
  /\ stamp.code \in Counts \cup {-1} /\ stamp.wide \in BOOLEAN
  /\ stamp = [time |-> stamp.time, count |-> stamp.count, code |-> stamp.code, wide |-> stamp.wide]
  /\ head = [ds \in Sequences(system) |->
               [dsf |-> IF system = "ntsc" THEN 0 ELSE 1, apt |-> 0]]
  /\ vaux = [s \in VauxSlots(system) |-> VauxPack(s, Now, system, stamp.wide)]
  /\ ssyb = [s \in SubcodeSlots(system) |->
               IF s[1] < 6 THEN NoPack
               ELSE <<CodePack(system), Timecode62(Now), Timecode63(Now)>>[(s[3] % 3) + 1]]
(* The inductive invariant: whatever wrote, the slots follow the stamp, and  *)
(* a parsed header can only tell the system they were written in.            *)
MetaInv(system) ==
  /\ writes \in Nat
  /\ {"changed", "system", "std", "ssyb", "vaux"} \subseteq DOMAIN dec
  /\ dec.system # "none" =>
       writes > 0 /\ dec.system = Standard(system) /\ dec.std = "iec_61834"
  /\ writes > 0 => MetaStamped(system)

(***************************************************************************)
(* What a reader makes of the slots.                                        *)
(***************************************************************************)
(* Of the packs with the same identifier the last one is kept.               *)
LEMMA CollectsLast ==
  ASSUME NEW list, Len(list) \in Nat, DOMAIN list = 1 .. Len(list),
         NEW i \in DOMAIN list, NEW id, list[i][1] = id, id # 255,
         \A k \in DOMAIN list : k > i => list[k][1] # id
  PROVE  id \in DOMAIN Collect(list) /\ Collect(list)[id] = list[i]
<1> DEFINE IsLast(j) == list[j][1] = id /\ \A k \in j + 1 .. Len(list) : list[k][1] # id
<1>1. IsLast(i)
  OBVIOUS
<1>2. \A j \in DOMAIN list : IsLast(j) => j = i
  OBVIOUS
<1>3. (CHOOSE j \in DOMAIN list : IsLast(j)) = i
  BY <1>1, <1>2
<1>4. id \in {p[1] : p \in {list[j] : j \in DOMAIN list}} \ {255}
  OBVIOUS
<1> QED BY <1>3, <1>4 DEF Collect

(* The same, for all packs of a list at once.                                *)
LEMMA LastOfList ==
  ASSUME NEW list, Len(list) \in Nat, DOMAIN list = 1 .. Len(list)
  PROVE  \A i \in DOMAIN list : \A id :
           list[i][1] = id /\ id # 255 /\ (\A k \in DOMAIN list : k > i => list[k][1] # id)
             => id \in DOMAIN Collect(list) /\ Collect(list)[id] = list[i]
BY CollectsLast

(* The last packs in the slots that are read.                                *)
LEMMA PacksRead ==
  ASSUME NEW system \in Standards, MetaStamped(system)
  PROVE  /\ {19, 98, 99} \subseteq DOMAIN ParseSsyb
         /\ ParseSsyb[19] = CodePack(system)
         /\ ParseSsyb[98] = Timecode62(Now) /\ ParseSsyb[99] = Timecode63(Now)
         /\ {96, 97, 98, 99} \subseteq DOMAIN ParseVaux
         /\ ParseVaux[96] = Timecode60(system) /\ ParseVaux[97] = Timecode61(stamp.wide)
         /\ ParseVaux[98] = Timecode62(Now) /\ ParseVaux[99] = Timecode63(Now)
<1> DEFINE subcode == [n \in 1 .. 24 |->
               ssyb[<<6 * ((n - 1) \div 12), ((n - 1) \div 6) % 2, (n - 1) % 6>>]]
           video == [n \in 1 .. 45 |-> vaux[<<0, (n - 1) \div 15, (n - 1) % 15>>]]
<1>a. Len(subcode) \in Nat /\ DOMAIN subcode = 1 .. Len(subcode)
  OBVIOUS
<1>b. Len(video) \in Nat /\ DOMAIN video = 1 .. Len(video)
  OBVIOUS
<1>2. 0 \in Sequences(system) /\ 6 \in Sequences(system)
  BY DEF Standards, Sequences, DifSeqs
<1>3. subcode[22] = CodePack(system) /\ subcode[23] = Timecode62(Now)
      /\ subcode[24] = Timecode63(Now)
  <2>1. /\ subcode[22] = ssyb[<<6, 1, 3>>] /\ subcode[23] = ssyb[<<6, 1, 4>>]
        /\ subcode[24] = ssyb[<<6, 1, 5>>]
    OBVIOUS
  <2>2. \A j \in 0 .. 5 : <<6, 1, j>> \in SubcodeSlots(system)
    BY <1>2 DEF SubcodeSlots
  <2>3. \A s \in SubcodeSlots(system) : ssyb[s] =
          IF s[1] < 6 THEN NoPack
          ELSE <<CodePack(system), Timecode62(Now), Timecode63(Now)>>[(s[3] % 3) + 1]
    BY DEF MetaStamped
  <2>4. /\ <<6, 1, 3>> \in SubcodeSlots(system) /\ <<6, 1, 4>> \in SubcodeSlots(system)
        /\ <<6, 1, 5>> \in SubcodeSlots(system)
    BY <2>2
  <2>5. \A s \in SubcodeSlots(system) : s[1] = 6 =>
          /\ s[3] % 3 = 0 => ssyb[s] = CodePack(system)
          /\ s[3] % 3 = 1 => ssyb[s] = Timecode62(Now)
          /\ s[3] % 3 = 2 => ssyb[s] = Timecode63(Now)
    BY <2>3
  <2>6. ssyb[<<6, 1, 3>>] = CodePack(system)
    BY <2>4, <2>5
  <2>7. ssyb[<<6, 1, 4>>] = Timecode62(Now)
    BY <2>4, <2>5
  <2>8. ssyb[<<6, 1, 5>>] = Timecode63(Now)
    BY <2>4, <2>5
  <2> QED BY <2>1, <2>6, <2>7, <2>8
<1>4. /\ \A n \in 1 .. 45 : video[n] = VauxPack(<<0, (n - 1) \div 15, (n - 1) % 15>>, Now, system, stamp.wide)
  <2>1. ASSUME NEW n \in 1 .. 45
        PROVE  <<0, (n - 1) \div 15, (n - 1) % 15>> \in VauxSlots(system)
    <3>1. (n - 1) \div 15 \in 0 .. 2 /\ (n - 1) % 15 \in 0 .. 14
      OBVIOUS
    <3> QED BY <1>2, <3>1 DEF VauxSlots
  <2> QED BY <2>1 DEF MetaStamped
<1>5. /\ video[40] = Timecode60(system) /\ video[41] = Timecode61(stamp.wide)
      /\ video[42] = Timecode62(Now) /\ video[43] = Timecode63(Now)
      /\ video[44] = NoPack /\ video[45] = NoPack
  BY <1>4 DEF VauxPack
<1>6. /\ CodePack(system)[1] = 19
      /\ Timecode60(system)[1] = 96 /\ Timecode61(stamp.wide)[1] = 97
      /\ Timecode62(Now)[1] = 98 /\ Timecode63(Now)[1] = 99 /\ NoPack[1] = 255
  BY DEF CodePack, Timecode13, Timecode60, Timecode61, Timecode62, Timecode63, NoPack
<1>7. /\ subcode[22][1] = 19 /\ subcode[23][1] = 98 /\ subcode[24][1] = 99
      /\ video[40][1] = 96 /\ video[41][1] = 97 /\ video[42][1] = 98 /\ video[43][1] = 99
      /\ video[44][1] = 255 /\ video[45][1] = 255
  BY <1>3, <1>5, <1>6
<1> HIDE DEF subcode, video
<1>c. /\ 22 \in DOMAIN subcode /\ \A k \in DOMAIN subcode : k > 22 => subcode[k][1] # 19
      /\ 23 \in DOMAIN subcode /\ \A k \in DOMAIN subcode : k > 23 => subcode[k][1] # 98
      /\ 24 \in DOMAIN subcode /\ \A k \in DOMAIN subcode : k > 24 => subcode[k][1] # 99
  <2>1. \A k \in DOMAIN subcode : k \in 1 .. 24
    BY DEF subcode
  <2>2. ASSUME NEW k \in DOMAIN subcode, k > 22
        PROVE  (k = 23 /\ subcode[k][1] = 98) \/ (k = 24 /\ subcode[k][1] = 99)
    <3>1. k = 23 \/ k = 24
      BY <2>1, <2>2
    <3> QED BY <1>7, <3>1
  <2>3. 22 \in DOMAIN subcode /\ 23 \in DOMAIN subcode /\ 24 \in DOMAIN subcode
    BY DEF subcode
  <2> QED BY <2>1, <2>2, <2>3
<1>d. /\ 40 \in DOMAIN video /\ \A k \in DOMAIN video : k > 40 => video[k][1] # 96
      /\ 41 \in DOMAIN video /\ \A k \in DOMAIN video : k > 41 => video[k][1] # 97
      /\ 42 \in DOMAIN video /\ \A k \in DOMAIN video : k > 42 => video[k][1] # 98
      /\ 43 \in DOMAIN video /\ \A k \in DOMAIN video : k > 43 => video[k][1] # 99
  <2>1. \A k \in DOMAIN video : k \in 1 .. 45
    BY DEF video
  <2>2. ASSUME NEW k \in DOMAIN video, k > 40
        PROVE  \/ k = 41 /\ video[k][1] = 97
               \/ k = 42 /\ video[k][1] = 98
               \/ k = 43 /\ video[k][1] = 99
               \/ k \in {44, 45} /\ video[k][1] = 255
    <3>1. k = 41 \/ k = 42 \/ k = 43 \/ k = 44 \/ k = 45
      BY <2>1, <2>2
    <3> QED BY <1>7, <3>1
  <2>3. 40 \in DOMAIN video /\ 41 \in DOMAIN video /\ 42 \in DOMAIN video /\ 43 \in DOMAIN video
    BY DEF video
  <2> QED BY <2>1, <2>2, <2>3
<1>8. ParseSsyb = Collect(subcode) /\ ParseVaux = Collect(video)
  BY DEF ParseSsyb, ParseVaux, subcode, video
<1>9. /\ 19 \in DOMAIN Collect(subcode) /\ Collect(subcode)[19] = subcode[22]
      /\ 98 \in DOMAIN Collect(subcode) /\ Collect(subcode)[98] = subcode[23]
      /\ 99 \in DOMAIN Collect(subcode) /\ Collect(subcode)[99] = subcode[24]
  <2>0. \A i \in DOMAIN subcode : \A id :
          subcode[i][1] = id /\ id # 255 /\ (\A k \in DOMAIN subcode : k > i => subcode[k][1] # id)
            => id \in DOMAIN Collect(subcode) /\ Collect(subcode)[id] = subcode[i]
    BY <1>a, LastOfList, Zenon
  <2>1. 19 \in DOMAIN Collect(subcode) /\ Collect(subcode)[19] = subcode[22]
    BY <1>7, <1>c, <2>0
  <2>2. 98 \in DOMAIN Collect(subcode) /\ Collect(subcode)[98] = subcode[23]
    BY <1>7, <1>c, <2>0
  <2>3. 99 \in DOMAIN Collect(subcode) /\ Collect(subcode)[99] = subcode[24]
    BY <1>7, <1>c, <2>0
  <2> QED BY <2>1, <2>2, <2>3
<1>10. /\ 96 \in DOMAIN Collect(video) /\ Collect(video)[96] = video[40]
       /\ 97 \in DOMAIN Collect(video) /\ Collect(video)[97] = video[41]
       /\ 98 \in DOMAIN Collect(video) /\ Collect(video)[98] = video[42]
       /\ 99 \in DOMAIN Collect(video) /\ Collect(video)[99] = video[43]
  <2>0. \A i \in DOMAIN video : \A id :
          video[i][1] = id /\ id # 255 /\ (\A k \in DOMAIN video : k > i => video[k][1] # id)
            => id \in DOMAIN Collect(video) /\ Collect(video)[id] = video[i]
    BY <1>b, LastOfList, Zenon
  <2>1. 96 \in DOMAIN Collect(video) /\ Collect(video)[96] = video[40]
    BY <1>7, <1>d, <2>0
  <2>2. 97 \in DOMAIN Collect(video) /\ Collect(video)[97] = video[41]
    BY <1>7, <1>d, <2>0
  <2>3. 98 \in DOMAIN Collect(video) /\ Collect(video)[98] = video[42]
    BY <1>7, <1>d, <2>0
  <2>4. 99 \in DOMAIN Collect(video) /\ Collect(video)[99] = video[43]
    BY <1>7, <1>d, <2>0
  <2> QED BY <2>1, <2>2, <2>3, <2>4
<1> QED BY <1>3, <1>5, <1>8, <1>9, <1>10

(* Two decimal digits, with as many bits for the tens as the field has.      *)
LEMMA DigitsComeBack ==
  ASSUME NEW tens \in {2, 4, 8, 16}, NEW v \in 0 .. 99, v < 10 * tens
  PROVE  UnBcd(Bcd(v), tens) = v
<1>1. PICK t \in 0 .. 9, u \in 0 .. 9 : v = 10 * t + u
  <2>1. v \div 10 \in 0 .. 9 /\ v % 10 \in 0 .. 9
    OBVIOUS
  <2>2. \A n \in Int : n \div 10 \in Int /\ n % 10 \in Int /\ n = 10 * (n \div 10) + (n % 10)
    OBVIOUS
  <2> QED BY <2>1, <2>2
<1>2. Bcd(v) = 16 * t + u
  BY <1>1 DEF Bcd
<1>3. (16 * t + u) \div 16 = t /\ (16 * t + u) % 16 = u
  OBVIOUS
<1>4. t % tens = t
  <2>1. t < tens
    BY <1>1
  <2>2. CASE tens = 2
    BY <2>1, <2>2
  <2>3. CASE tens = 4
    BY <2>1, <2>3
  <2>4. CASE tens = 8
    BY <2>1, <2>4
  <2>5. CASE tens = 16
    BY <2>1, <2>5
  <2> QED BY <2>2, <2>3, <2>4, <2>5
<1> QED BY <1>1, <1>2, <1>3, <1>4 DEF UnBcd

(* A count of frames as hours, minutes and seconds.                          *)
LEMMA CountIsTime ==
  ASSUME NEW frame \in Counts, NEW fps \in {25, 30}
  PROVE  /\ TimeOfCount(frame, fps) = [hour |-> TimeOfCount(frame, fps).hour,
                                       min |-> TimeOfCount(frame, fps).min,
                                       sec |-> TimeOfCount(frame, fps).sec]
         /\ TimeOfCount(frame, fps).hour \in 0 .. 39
         /\ TimeOfCount(frame, fps).min \in 0 .. 59
         /\ TimeOfCount(frame, fps).sec \in 0 .. 59
<1>1. frame \in Nat /\ frame < 3600000
  BY ClockAssumption, SMT
<1>2. CASE fps = 25
  <2> DEFINE hour == frame \div (25 * 3600)
             cur == frame - hour * 25 * 3600
             min == cur \div (25 * 60)
             rest == cur - min * 25 * 60
             sec == rest \div 25
  <2>1. hour \in 0 .. 39 /\ cur \in Nat /\ cur < 90000
    BY <1>1, SMT
  <2> HIDE DEF hour, cur
  <2>2. min \in 0 .. 59 /\ rest \in Nat /\ rest < 1500
    BY <2>1, SMT
  <2> HIDE DEF min, rest
  <2>3. sec \in 0 .. 59
    BY <2>2, SMT
  <2>5. TimeOfCount(frame, 25) = [hour |-> hour, min |-> min, sec |-> sec]
    BY SMT DEF TimeOfCount, hour, cur, min, rest
  <2> QED BY <1>2, <2>1, <2>2, <2>3, <2>5, SMT
<1>3. CASE fps = 30
  <2> DEFINE hour == frame \div (30 * 3600)
             cur == frame - hour * 30 * 3600
             min == cur \div (30 * 60)
             rest == cur - min * 30 * 60
             sec == rest \div 30
  <2>1. hour \in 0 .. 39 /\ cur \in Nat /\ cur < 108000
    BY <1>1, SMT
  <2> HIDE DEF hour, cur
  <2>2. min \in 0 .. 59 /\ rest \in Nat /\ rest < 1800
    BY <2>1, SMT
  <2> HIDE DEF min, rest
  <2>3. sec \in 0 .. 59
    BY <2>2, SMT
  <2>5. TimeOfCount(frame, 30) = [hour |-> hour, min |-> min, sec |-> sec]
    BY SMT DEF TimeOfCount, hour, cur, min, rest
  <2> QED BY <1>3, <2>1, <2>2, <2>3, <2>5, SMT
<1> QED BY <1>2, <1>3, SMT

(* Writer and reader count the same number of frames to the second.          *)
LEMMA FpsIs ==
  ASSUME NEW system \in Standards
  PROVE  /\ Fps(system) = IF Standard(system) = "525_60" THEN 30 ELSE 25
         /\ Fps(system) \in {25, 30}
BY DEF Fps, Standard, Standards

(* The frame's number within its second.                                     *)
LEMMA FrameOfSecond ==
  ASSUME NEW frame \in Counts, NEW system \in Standards
  PROVE  frame % Fps(system) \in 0 .. 29
<1>1. frame \in Nat
  BY ClockAssumption
<1>2. frame % 30 \in 0 .. 29 /\ frame % 25 \in 0 .. 29
  BY <1>1
<1> QED BY <1>2 DEF Fps

(* The parts of a date and their ranges.                                     *)
LEMMA MomentIs ==
  ASSUME NEW t \in DOMAIN Clock
  PROVE  /\ Clock[t] = [year |-> Clock[t].year, mon |-> Clock[t].mon, mday |-> Clock[t].mday,
                        hour |-> Clock[t].hour, min |-> Clock[t].min, sec |-> Clock[t].sec]
         /\ Clock[t].year \in Nat /\ Clock[t].mon \in 0 .. 11 /\ Clock[t].mday \in 1 .. 31
         /\ Clock[t].hour \in 0 .. 23 /\ Clock[t].min \in 0 .. 59 /\ Clock[t].sec \in 0 .. 60
<1>1. Clock[t] \in Moment
  BY ClockAssumption
<1> QED BY <1>1 DEF Moment

(* The date of the recording, as read from its pack.                         *)
LEMMA DateIsRead ==
  ASSUME NEW now, now.year \in Nat, now.mon \in 0 .. 11, now.mday \in 1 .. 31,
         NEW d, d = Timecode62(now)
  PROVE  /\ UnBcd(d[3], 4) = now.mday /\ UnBcd(d[4], 2) - 1 = now.mon
         /\ Century(UnBcd(d[5], 16)) % 100 = now.year % 100
         /\ now.year \in 1925 .. 2024 => Century(UnBcd(d[5], 16)) = now.year
<1>1. d[3] = Bcd(now.mday) /\ d[4] = Bcd(now.mon + 1) /\ d[5] = Bcd(now.year % 100)
  BY DEF Timecode62
<1> DEFINE yy == now.year % 100
<1>2. yy \in 0 .. 99
  OBVIOUS
<1>3. UnBcd(Bcd(now.mday), 4) = now.mday
  <2>1. now.mday \in 0 .. 99 /\ now.mday < 10 * 4
    OBVIOUS
  <2> QED BY <2>1, DigitsComeBack
<1>4. UnBcd(Bcd(now.mon + 1), 2) = now.mon + 1
  <2>1. now.mon + 1 \in 0 .. 99 /\ now.mon + 1 < 10 * 2
    OBVIOUS
  <2> QED BY <2>1, DigitsComeBack
<1>5. UnBcd(Bcd(yy), 16) = yy
  <2>1. yy < 10 * 16
    BY <1>2
  <2> HIDE DEF yy
  <2> QED BY <1>2, <2>1, DigitsComeBack
<1>6. Century(yy) % 100 = yy
  <2> HIDE DEF yy
  <2>1. \A y \in 0 .. 99 : (1900 + y) % 100 = y /\ (2000 + y) % 100 = y
    OBVIOUS
  <2> QED BY <1>2, <2>1 DEF Century
<1>7. now.year \in 1925 .. 2024 => Century(yy) = now.year
  BY DEF Century
<1> QED BY <1>1, <1>3, <1>4, <1>5, <1>6, <1>7

(* Hours, minutes and seconds, of the recording or of the time code.         *)
LEMMA TimeIsRead ==
  ASSUME NEW now, now.hour \in 0 .. 39, now.min \in 0 .. 59, now.sec \in 0 .. 60
  PROVE  /\ UnBcd(Bcd(now.hour), 4) = now.hour /\ UnBcd(Bcd(now.min), 8) = now.min
         /\ UnBcd(Bcd(now.sec), 8) = now.sec
<1>1. /\ now.hour \in 0 .. 99 /\ now.hour < 10 * 4
      /\ now.min \in 0 .. 99 /\ now.min < 10 * 8
      /\ now.sec \in 0 .. 99 /\ now.sec < 10 * 8
  OBVIOUS
<1> QED BY <1>1, DigitsComeBack

(***************************************************************************)
(* The invariant of the packs.                                              *)
(***************************************************************************)
(* A new frame and a new decoder know nothing.                               *)
LEMMA MetaInitInv ==
  ASSUME NEW system \in Standards, MetaInit(system)
  PROVE  MetaInv(system)
BY DEF MetaInit, MetaInv, NoDecoder

(* Both writers of all the packs leave the slots of a stamp of their own.    *)
LEMMA WritersStamp ==
  ASSUME NEW system \in Standards, NEW t \in DOMAIN Clock, NEW frame \in Counts, NEW wide \in BOOLEAN,
         head' = [ds \in Sequences(system) |->
                    [dsf |-> IF system = "ntsc" THEN 0 ELSE 1, apt |-> 0]],
         WriteSubcodeAndVaux(system, Clock[t], frame, wide),
         stamp' = [time |-> t, count |-> frame, code |-> -1, wide |-> wide]
  PROVE  MetaStamped(system)'
<1>1. /\ stamp'.time = t /\ stamp'.count = frame /\ stamp'.code = -1 /\ stamp'.wide = wide
      /\ Now' = Clock[t]
  BY DEF Now
<1>2. CodePack(system)' = Timecode13(Clock[t], frame, system)
  BY <1>1 DEF CodePack
<1>3. vaux' = [s \in VauxSlots(system) |-> VauxPack(s, Now', system, stamp'.wide)]
  BY <1>1 DEF WriteSubcodeAndVaux
<1>4. ssyb' = [s \in SubcodeSlots(system) |->
                 IF s[1] < 6 THEN NoPack
                 ELSE <<CodePack(system)', Timecode62(Now'), Timecode63(Now')>>[(s[3] % 3) + 1]]
  BY <1>1, <1>2 DEF WriteSubcodeAndVaux, SubcodePack
<1>5. stamp'.code \in Counts \cup {-1}
  BY <1>1
<1>6. stamp' = [time |-> stamp'.time, count |-> stamp'.count, code |-> stamp'.code, wide |-> stamp'.wide]
  BY <1>1
<1> QED BY <1>1, <1>3, <1>4, <1>5, <1>6 DEF MetaStamped

(* dv_encode_timecode replaces the time codes and leaves the other packs.    *)
LEMMA CodeStamps ==
  ASSUME NEW system \in Standards, NEW frame \in Counts, MetaStamped(system),
         EncodeTimecode(system, frame)
  PROVE  MetaStamped(system)'
<1>1. /\ stamp'.time = stamp.time /\ stamp'.count = stamp.count /\ stamp'.code = frame
      /\ stamp'.wide = stamp.wide
      /\ stamp' = [time |-> stamp'.time, count |-> stamp'.count, code |-> stamp'.code, wide |-> stamp'.wide]
  BY DEF EncodeTimecode, MetaStamped
<1>2. Now' = Now /\ UNCHANGED <<head, vaux>>
  BY <1>1 DEF Now, EncodeTimecode
<1> DEFINE pack == Timecode13(TimeOfCount(frame, Fps(system)), frame, system)
<1>3. CodePack(system)' = pack
  BY <1>1, ClockAssumption DEF CodePack
<1>4. /\ DOMAIN ssyb = SubcodeSlots(system)
      /\ \A s \in SubcodeSlots(system) : ssyb[s] =
               IF s[1] < 6 THEN NoPack
               ELSE <<CodePack(system), Timecode62(Now), Timecode63(Now)>>[(s[3] % 3) + 1]
  BY DEF MetaStamped
<1>5. ssyb' = [s \in SubcodeSlots(system) |-> IF s[1] >= 6 /\ s[3] \in {0, 3} THEN pack ELSE ssyb[s]]
  BY <1>4 DEF EncodeTimecode
<1> HIDE DEF pack
<1>6. ASSUME NEW s \in SubcodeSlots(system)
      PROVE  (IF s[1] >= 6 /\ s[3] \in {0, 3} THEN pack ELSE ssyb[s]) =
               IF s[1] < 6 THEN NoPack
               ELSE <<pack, Timecode62(Now), Timecode63(Now)>>[(s[3] % 3) + 1]
  <2>1. s[1] \in Int /\ s[3] \in 0 .. 5
    BY DEF SubcodeSlots, Sequences, DifSeqs
  <2>2. CASE s[1] < 6
    BY <1>4, <2>1, <2>2
  <2>3. CASE s[1] >= 6 /\ s[3] \in {0, 3}
    <3>1. s[3] % 3 = 0
      BY <2>3
    <3> QED BY <2>1, <2>3, <3>1
  <2>4. CASE s[1] >= 6 /\ s[3] \notin {0, 3}
    <3>1. s[3] % 3 = 1 \/ s[3] % 3 = 2
      BY <2>1, <2>4
    <3>2. ssyb[s] = <<CodePack(system), Timecode62(Now), Timecode63(Now)>>[(s[3] % 3) + 1]
      BY <1>4, <2>1, <2>4
    <3> QED BY <2>1, <2>4, <3>1, <3>2
  <2> QED BY <2>1, <2>2, <2>3, <2>4
<1>7. ssyb' = [s \in SubcodeSlots(system) |->
                 IF s[1] < 6 THEN NoPack
                 ELSE <<CodePack(system)', Timecode62(Now'), Timecode63(Now')>>[(s[3] % 3) + 1]]
  BY <1>2, <1>3, <1>5, <1>6
<1> QED BY <1>1, <1>2, <1>7 DEF MetaStamped

(* Every write and every parse keeps the invariant.                          *)
LEMMA MetaStep ==
  ASSUME NEW system \in Standards, MetaInv(system), [MetaNext(system)]_metaVars
  PROVE  MetaInv(system)'
<1>1. ASSUME NEW t \in DOMAIN Clock, NEW frame \in Counts, NEW wide \in BOOLEAN,
             WriteMetaData(system, t, frame, wide)
      PROVE  MetaInv(system)'
  <2>1. MetaStamped(system)'
    BY <1>1, WritersStamp DEF WriteMetaData
  <2> QED BY <1>1, <2>1 DEF WriteMetaData, MetaInv
<1>2. ASSUME NEW t \in DOMAIN Clock, NEW frame \in Counts, NEW wide \in BOOLEAN,
             EncodeMetadata(system, t, frame, wide)
      PROVE  MetaInv(system)'
  <2>1. MetaStamped(system)
    BY <1>2 DEF EncodeMetadata, MetaInv
  <2>2. MetaStamped(system)'
    BY <1>2, <2>1, WritersStamp DEF EncodeMetadata, MetaStamped
  <2> QED BY <1>2, <2>2 DEF EncodeMetadata, MetaInv
<1>3. ASSUME NEW frame \in Counts, EncodeTimecode(system, frame)
      PROVE  MetaInv(system)'
  <2>1. MetaStamped(system)
    BY <1>3 DEF EncodeTimecode, MetaInv
  <2>2. MetaStamped(system)'
    BY <1>3, <2>1, CodeStamps
  <2> QED BY <1>3, <2>2 DEF EncodeTimecode, MetaInv
<1>4. CASE ParseHeader
  <2>1. MetaStamped(system) /\ MetaStamped(system)'
    BY <1>4 DEF ParseHeader, MetaInv, MetaStamped, CodePack, Now
  <2>2. head[0].apt = 0 /\ head[0].dsf = IF system = "ntsc" THEN 0 ELSE 1
    BY <2>1 DEF MetaStamped, Sequences, DifSeqs
  <2>3. SystemFiftyFields(ParseVaux) <=> system # "ntsc"
    <3>1. ParseVaux[96] = Timecode60(system) /\ 96 \in DOMAIN ParseVaux
      BY <2>1, PacksRead
    <3>2. Timecode60(system)[4] = IF system = "ntsc" THEN 0 ELSE 32
      BY DEF Timecode60
    <3>3. (0 \div 32) % 2 = 0 /\ (32 \div 32) % 2 = 1
      OBVIOUS
    <3> QED BY <3>1, <3>2, <3>3 DEF SystemFiftyFields
  <2>4. dec'.system = Standard(system) /\ dec'.std = "iec_61834" /\ DOMAIN dec' = DOMAIN dec
    BY <1>4, <2>2, <2>3 DEF ParseHeader, MetaInv, Standard, Standards
  <2> QED BY <1>4, <2>1, <2>4 DEF ParseHeader, MetaInv
<1>5. CASE ParsePacks
  <2>1. MetaStamped(system) /\ MetaStamped(system)'
    BY <1>5 DEF ParsePacks, MetaInv, MetaStamped, CodePack, Now
  <2>2. dec'.system = dec.system /\ dec'.std = dec.std /\ DOMAIN dec' = DOMAIN dec
    BY <1>5 DEF ParsePacks, MetaInv
  <2> QED BY <1>5, <2>1, <2>2 DEF ParsePacks, MetaInv
<1>6. CASE UNCHANGED metaVars
  BY <1>6 DEF metaVars, MetaInv, MetaStamped, CodePack, Now
<1> QED BY <1>1, <1>2, <1>3, <1>4, <1>5, <1>6 DEF MetaNext

(* What is read of slots that follow the stamp is the stamp.                 *)
LEMMA StampsFollow ==
  ASSUME NEW system \in Standards, MetaInv(system)
  PROVE  StampsComeBack
<1> SUFFICES ASSUME UpToDate PROVE StampsComeBack
  BY DEF StampsComeBack
<1> DEFINE now  == Clock[stamp.time]
           fps  == IF dec.system = "525_60" THEN 30 ELSE 25
           code == TimeOfCount(stamp.code, fps)
           read == RecordingDatetime
<1>1. /\ MetaStamped(system) /\ dec.system = Standard(system) /\ dec.std = "iec_61834"
      /\ dec.ssyb = ParseSsyb /\ dec.vaux = ParseVaux
  BY DEF UpToDate, MetaInv
<1>2. now = Now /\ fps = Fps(system) /\ fps \in {25, 30} /\ stamp.time \in DOMAIN Clock
  BY <1>1, FpsIs DEF Now, MetaStamped
<1>3. /\ {19, 98, 99} \subseteq DOMAIN dec.ssyb
      /\ dec.ssyb[19] = CodePack(system)
      /\ dec.ssyb[98] = Timecode62(now) /\ dec.ssyb[99] = Timecode63(now)
      /\ dec.vaux[96] = Timecode60(system) /\ dec.vaux[97] = Timecode61(stamp.wide)
  BY <1>1, <1>2, PacksRead
<1>4. /\ now = [year |-> now.year, mon |-> now.mon, mday |-> now.mday,
                hour |-> now.hour, min |-> now.min, sec |-> now.sec]
      /\ now.year \in Nat /\ now.mon \in 0 .. 11 /\ now.mday \in 1 .. 31
      /\ now.hour \in 0 .. 23 /\ now.min \in 0 .. 59 /\ now.sec \in 0 .. 60
  BY <1>2, MomentIs
<1>5. /\ UnBcd(Bcd(now.hour), 4) = now.hour /\ UnBcd(Bcd(now.min), 8) = now.min
      /\ UnBcd(Bcd(now.sec), 8) = now.sec
  <2>1. now.hour \in 0 .. 39
    BY <1>4
  <2> QED BY <1>4, <2>1, TimeIsRead
<1> HIDE DEF now, fps
<1>6. dec.system = IF Cardinality(DOMAIN head) = 12 THEN "625_50" ELSE "525_60"
  <2> DEFINE n == DifSeqs(system) - 1
  <2>1. DOMAIN head = 0 .. n
    BY <1>1 DEF MetaStamped, Sequences
  <2>2. n \in Nat /\ (n + 1 = 12 <=> Standard(system) = "625_50")
    BY DEF DifSeqs, Standard, Standards
  <2> HIDE DEF n
  <2>3. Cardinality(0 .. n) = n + 1
    BY <2>2, FS_Interval
  <2> QED BY <1>1, <2>1, <2>2, <2>3 DEF Standard
<1>7. /\ [read EXCEPT !.year = now.year] = now
      /\ read.year % 100 = now.year % 100
      /\ now.year \in 1925 .. 2024 => read.year = now.year
  <2> DEFINE d == Timecode62(now)
             t == Timecode63(now)
  <2>1. read = [year |-> Century(UnBcd(d[5], 16)), mon |-> UnBcd(d[4], 2) - 1,
                mday |-> UnBcd(d[3], 4), hour |-> UnBcd(t[5], 4),
                min |-> UnBcd(t[4], 8), sec |-> UnBcd(t[3], 8)]
    BY <1>3 DEF RecordingDatetime
  <2>2. t[3] = Bcd(now.sec) /\ t[4] = Bcd(now.min) /\ t[5] = Bcd(now.hour)
    BY DEF Timecode63
  <2>3. /\ UnBcd(d[3], 4) = now.mday /\ UnBcd(d[4], 2) - 1 = now.mon
        /\ Century(UnBcd(d[5], 16)) % 100 = now.year % 100
        /\ now.year \in 1925 .. 2024 => Century(UnBcd(d[5], 16)) = now.year
    BY <1>4, DateIsRead
  <2> HIDE DEF d, t
  <2>4. read = [year |-> Century(UnBcd(d[5], 16)), mon |-> now.mon, mday |-> now.mday,
                hour |-> now.hour, min |-> now.min, sec |-> now.sec]
    BY <1>5, <2>1, <2>2, <2>3
  <2> HIDE DEF read
  <2>5. [read EXCEPT !.year = now.year] =
          [year |-> now.year, mon |-> now.mon, mday |-> now.mday,
           hour |-> now.hour, min |-> now.min, sec |-> now.sec]
    BY <2>4
  <2> QED BY <1>4, <2>3, <2>4, <2>5
<1>8. Timestamp = IF stamp.code < 0
                  THEN <<now.hour, now.min, now.sec, stamp.count % fps>>
                  ELSE <<code.hour, code.min, code.sec, stamp.code % fps>>
  <2>1. ASSUME NEW time, NEW frame \in Counts, dec.ssyb[19] = Timecode13(time, frame, system),
               time.hour \in 0 .. 39, time.min \in 0 .. 59, time.sec \in 0 .. 60
        PROVE  Timestamp = <<time.hour, time.min, time.sec, frame % fps>>
    <3>1. /\ UnBcd(Bcd(time.hour), 4) = time.hour /\ UnBcd(Bcd(time.min), 8) = time.min
          /\ UnBcd(Bcd(time.sec), 8) = time.sec
      BY <2>1, TimeIsRead
    <3>2. UnBcd(Bcd(frame % fps), 4) = frame % fps
      <4>1. frame % fps \in 0 .. 29
        BY <1>2, FrameOfSecond
      <4> DEFINE f == frame % fps
      <4>2. f \in 0 .. 99 /\ f < 10 * 4
        BY <4>1
      <4> HIDE DEF f
      <4>3. UnBcd(Bcd(f), 4) = f
        BY <4>2, DigitsComeBack
      <4> QED BY <4>3 DEF f
    <3>3. dec.ssyb[19] = <<19, Bcd(frame % fps), Bcd(time.sec), Bcd(time.min), Bcd(time.hour)>>
      BY <1>2, <2>1 DEF Timecode13
    <3> QED BY <3>1, <3>2, <3>3 DEF Timestamp
  <2>2. CASE stamp.code < 0
    <3>1. dec.ssyb[19] = Timecode13(now, stamp.count, system) /\ stamp.count \in Counts
      BY <1>1, <1>2, <1>3, <2>2 DEF CodePack, MetaStamped
    <3>2. now.hour \in 0 .. 39
      BY <1>4
    <3> QED BY <1>4, <2>1, <2>2, <3>1, <3>2
  <2>3. CASE ~(stamp.code < 0)
    <3>1. stamp.code \in Counts
      BY <1>1, <2>3 DEF MetaStamped
    <3>2. dec.ssyb[19] = Timecode13(code, stamp.code, system)
      BY <1>2, <1>3, <2>3 DEF CodePack
    <3>3. code.hour \in 0 .. 39 /\ code.min \in 0 .. 59 /\ code.sec \in 0 .. 60
      BY <1>2, <3>1, CountIsTime
    <3> HIDE DEF code
    <3> QED BY <2>1, <2>3, <3>1, <3>2, <3>3
  <2> QED BY <2>2, <2>3
<1>9. /\ FormatWide = stamp.wide /\ ~FormatLetterbox
      /\ FrameChanged /\ ~IsProgressive /\ FrameIsColor
  <2>1. /\ dec.vaux[97][3] = (IF stamp.wide THEN 207 ELSE 200) /\ dec.vaux[97][4] = 253
        /\ dec.vaux[96][3] = 255
    BY <1>3 DEF Timecode60, Timecode61
  <2>2. /\ 207 % 8 = 7 /\ 200 % 8 = 0 /\ (253 \div 32) % 2 = 1 /\ (253 \div 8) % 2 = 1
    OBVIOUS
  <2>3. stamp.wide \in BOOLEAN
    BY <1>1 DEF MetaStamped
  <2>4. ~FormatLetterbox /\ FrameChanged /\ ~IsProgressive /\ FrameIsColor
    BY <2>1, <2>2 DEF FormatLetterbox, FrameChanged, IsProgressive, FrameIsColor
  <2>5. CASE stamp.wide = TRUE
    <3>1. FormatWide = TRUE
      BY <1>1, <2>1, <2>2, <2>5 DEF FormatWide
    <3> QED BY <2>4, <2>5, <3>1
  <2>6. CASE stamp.wide = FALSE
    <3>1. FormatWide = FALSE
      BY <1>1, <2>1, <2>2, <2>6 DEF FormatWide
    <3> QED BY <2>4, <2>6, <3>1
  <2> QED BY <2>3, <2>5, <2>6
<1> QED BY <1>6, <1>7, <1>8, <1>9 DEF StampsComeBack, now, fps, code, read

(* What an application reads of a frame parsed after the last write (the     *)
(* time code, date and time, the system, wide or not) is what was written    *)
(* last, whichever of the three writers wrote and in whatever order          *)
(* (dv_parse_packs and the queries of dv.c after encode.c's writers).        *)
THEOREM LastStampIsRead ==
  ASSUME NEW system \in Standards
  PROVE  MetaSpec(system) => []StampsComeBack
<1>1. MetaInit(system) => MetaInv(system)
  BY MetaInitInv
<1>2. MetaInv(system) /\ [MetaNext(system)]_metaVars => MetaInv(system)'
  BY MetaStep
<1>3. MetaInv(system) => StampsComeBack
  BY StampsFollow
<1> QED BY <1>1, <1>2, <1>3, PTL DEF MetaSpec
=============================================================================
