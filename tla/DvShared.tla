------------------------------- MODULE DvShared -------------------------------
(* What the threads of a process share in libdv: the tables that dv_init     *)
(* fills, its flag done, the mutexes of dv_encode_full_frame and             *)
(* dv_decode_full_frame, and an encoder where several threads use one.       *)
(*                                                                           *)
(* Most tables get the same values however often they are filled.  Two do    *)
(* not, because they are changed in place: reorder_88 and reorder_248 of the *)
(* encoder ("enc") and the second half of the decoder's dv_reorder ("dec").  *)
(* The third table here is vlc_encode_lookup, which is allocated and freed.  *)
EXTENDS Integers, Sequences, FiniteSets

CONSTANTS Threads,
          ShareJobs,   \* how the process uses the library, see JobType
          SegmentsPerFrame    \* bound: video segments of a frame, 270 or 324 in the code
JobType ==
  [calls  : [Threads -> {"encode", "decode", "bad space"}],  \* "bad space": -1 is returned
   common : BOOLEAN,   \* the threads share one encoder, made by the main thread
   init   : BOOLEAN,   \* the process calls dv_init before it starts the threads
   frames : 1 .. 2]    \* frames of each thread
MainThread == "main"
None == "none"
ASSUME SharedAssumption ==
  /\ IsFiniteSet(Threads) /\ MainThread \notin Threads /\ None \notin Threads
  /\ ShareJobs \subseteq {j \in JobType : j.common => j.init}
  /\ SegmentsPerFrame \in Nat \ {0}

Users == Threads \cup {MainThread}
Kinds == {"enc", "dec"}

VARIABLES
  share,      \* the job
  at,         \* thread -> what it does next
  done,       \* the flag of dv_init
  prepared,   \* table -> how often its entries were changed in place
  loaded,     \* thread -> value on its way from a table entry to the same entry
  lookup,     \* vlc_encode_lookup: [there, filled]
  isNull,     \* thread -> it found vlc_encode_lookup NULL
  mutex,      \* kind -> thread that holds it, or none
  image,      \* encoder -> picture in img_y, img_cr and img_cb
  counted,    \* encoder -> frame_count
  buffer,     \* thread -> segments of its frame: [of: picture, good: tables were right]
  results,    \* frames finished: [thread, encoder, picture, number, segments]
  cleaned     \* dv_cleanup was called
sharedVars == <<share, at, done, prepared, loaded, lookup, isNull, mutex, image,
                counted, buffer, results, cleaned>>

Encoder(t) == IF share.common THEN MainThread ELSE t
OwnPicture(t) == <<t, Cardinality({f \in results : f.thread = t})>>
Mutex(t) == IF share.calls[t] = "decode" THEN "dec" ELSE "enc"

SharedInit ==
  /\ share \in ShareJobs
  /\ at = [u \in Users |-> IF u # MainThread THEN "waiting"
                           ELSE IF share.init THEN "new" ELSE "started"]
  /\ done = FALSE /\ prepared = [k \in Kinds |-> 0] /\ loaded = [u \in Users |-> 0]
  /\ lookup = [there |-> FALSE, filled |-> {}] /\ isNull = [u \in Users |-> FALSE]
  /\ mutex = [k \in Kinds |-> None]
  /\ image = [u \in Users |-> None] /\ counted = [u \in Users |-> 0]
  /\ buffer = [t \in Threads |-> <<>>] /\ results = {} /\ cleaned = FALSE

Goes(u, from, to) == at[u] = from /\ at' = [at EXCEPT ![u] = to]
(* Points in the filling of the tables.                                      *)
LoadAt(kind)  == IF kind = "dec" THEN "load dec" ELSE "load enc"
StoreAt(kind) == IF kind = "dec" THEN "store dec" ELSE "store enc"
FillAt(half)  == IF half = "first" THEN "fill first" ELSE "fill second"

(***************************************************************************)
(* dv_init, called by dv_encoder_new and dv_decoder_new too.                 *)
(***************************************************************************)
\* A mutant: the tables are filled on every call.
NotDoneIgnored == TRUE
NotDone == ~done

CallInit(u) ==
  /\ Goes(u, "new", IF NotDone THEN "load dec" ELSE "started")
  /\ UNCHANGED <<share, done, prepared, loaded, lookup, isNull, mutex, image, counted,
                 buffer, results, cleaned>>

(* An entry of a table is read, changed and written back.                    *)
LoadEntry(u, kind) ==
  /\ Goes(u, LoadAt(kind), StoreAt(kind))
  /\ loaded' = [loaded EXCEPT ![u] = prepared[kind]]
  /\ UNCHANGED <<share, done, prepared, lookup, isNull, mutex, image, counted, buffer,
                 results, cleaned>>
StoreEntry(u, kind) ==
  /\ Goes(u, StoreAt(kind), IF kind = "dec" THEN "test lookup" ELSE "set done")
  /\ prepared' = [prepared EXCEPT ![kind] = loaded[u] + 1]
  /\ UNCHANGED <<share, done, loaded, lookup, isNull, mutex, image, counted, buffer,
                 results, cleaned>>

(* _dv_init_vlc_encode_lookup fills what the pointer points to at the time.  *)
TestLookup(u) ==
  /\ Goes(u, "test lookup", "allocate")
  /\ isNull' = [isNull EXCEPT ![u] = ~lookup.there]
  /\ UNCHANGED <<share, done, prepared, loaded, lookup, mutex, image, counted, buffer,
                 results, cleaned>>
Allocate(u) ==
  /\ Goes(u, "allocate", "fill first")
  /\ lookup' = IF isNull[u] THEN [there |-> TRUE, filled |-> {}] ELSE lookup
  /\ UNCHANGED <<share, done, prepared, loaded, isNull, mutex, image, counted, buffer,
                 results, cleaned>>
FillHalf(u, half) ==
  /\ Goes(u, FillAt(half), IF half = "first" THEN "fill second" ELSE "load enc")
  /\ lookup' = [lookup EXCEPT !.filled = @ \cup {half}]
  /\ UNCHANGED <<share, done, prepared, loaded, isNull, mutex, image, counted, buffer,
                 results, cleaned>>
SetDone(u) ==
  /\ Goes(u, "set done", "started") /\ done' = TRUE
  /\ UNCHANGED <<share, prepared, loaded, lookup, isNull, mutex, image, counted, buffer,
                 results, cleaned>>

(* The process starts its threads when its own call of dv_init is back.      *)
StartThread(t) ==
  /\ at[MainThread] = "started" /\ Goes(t, "waiting", "new")
  /\ UNCHANGED <<share, done, prepared, loaded, lookup, isNull, mutex, image, counted,
                 buffer, results, cleaned>>

(***************************************************************************)
(* dv_encode_full_frame and dv_decode_full_frame.                            *)
(***************************************************************************)
\* A mutant: no mutex.
MutexIgnored(kind) == TRUE
MutexFree(kind) == mutex[kind] = None

Lock(t) ==
  /\ t \in Threads /\ MutexFree(Mutex(t))
  /\ Cardinality({f \in results : f.thread = t}) < share.frames
  /\ Goes(t, "started", "locked")
  /\ mutex' = [mutex EXCEPT ![Mutex(t)] = t]
  /\ buffer' = [buffer EXCEPT ![t] = <<>>]
  /\ UNCHANGED <<share, done, prepared, loaded, lookup, isNull, image, counted, results, cleaned>>

(* The picture goes to the buffers of the encoder.                           *)
ConvertPicture(t) ==
  /\ share.calls[t] = "encode" /\ Goes(t, "locked", "segments")
  /\ image' = [image EXCEPT ![Encoder(t)] = OwnPicture(t)]
  /\ UNCHANGED <<share, done, prepared, loaded, lookup, isNull, mutex, counted, buffer,
                 results, cleaned>>

(* An invalid colour space: the mutex is given back, nothing is encoded.     *)
Refuse(t) ==
  /\ share.calls[t] = "bad space" /\ Goes(t, "locked", "ended")
  /\ mutex' = [mutex EXCEPT !["enc"] = None]
  /\ UNCHANGED <<share, done, prepared, loaded, lookup, isNull, image, counted, buffer,
                 results, cleaned>>

Good(kind) == prepared[kind] = 1 /\ (kind = "enc" => lookup.filled = {"first", "second"})

EncodeOne(t) ==
  /\ share.calls[t] = "encode" /\ at[t] = "segments" /\ Len(buffer[t]) < SegmentsPerFrame
  /\ buffer' = [buffer EXCEPT ![t] = Append(@, [of |-> image[Encoder(t)], good |-> Good("enc")])]
  /\ UNCHANGED <<share, at, done, prepared, loaded, lookup, isNull, mutex, image, counted,
                 results, cleaned>>

(* The segment being decoded is a local variable, the frame is the caller's. *)
DecodeOne(t) ==
  /\ share.calls[t] = "decode" /\ at[t] = "locked" /\ Len(buffer[t]) < SegmentsPerFrame
  /\ buffer' = [buffer EXCEPT ![t] = Append(@, [of |-> OwnPicture(t), good |-> Good("dec")])]
  /\ UNCHANGED <<share, at, done, prepared, loaded, lookup, isNull, mutex, image, counted,
                 results, cleaned>>

(* The meta data get the number of the frame, and the mutex is given back.   *)
Unlock(t) ==
  /\ Len(buffer[t]) = SegmentsPerFrame
  /\ at[t] \in {"segments", "locked"} /\ at' = [at EXCEPT ![t] = "started"]
  /\ results' = results \cup {[thread |-> t, encoder |-> Encoder(t), picture |-> OwnPicture(t),
                               number |-> counted[Encoder(t)], segments |-> buffer[t]]}
  /\ counted' = [counted EXCEPT ![Encoder(t)] = @ + (IF share.calls[t] = "encode" THEN 1 ELSE 0)]
  /\ buffer' = [buffer EXCEPT ![t] = <<>>]
  /\ mutex' = [mutex EXCEPT ![Mutex(t)] = None]
  /\ UNCHANGED <<share, done, prepared, loaded, lookup, isNull, image, cleaned>>

(* dv_cleanup does not reset done: an encoder made later uses a NULL table.  *)
Cleanup ==
  /\ ~cleaned /\ at[MainThread] = "started"
  /\ \A t \in Threads : at[t] \in {"waiting", "started", "ended"}
  /\ lookup' = [there |-> FALSE, filled |-> {}] /\ cleaned' = TRUE
  /\ UNCHANGED <<share, at, done, prepared, loaded, isNull, mutex, image, counted, buffer,
                 results>>

SharedNext ==
  \/ \E u \in Users :
       \/ CallInit(u) \/ TestLookup(u) \/ Allocate(u) \/ SetDone(u)
       \/ \E kind \in Kinds : LoadEntry(u, kind) \/ StoreEntry(u, kind)
       \/ \E half \in {"first", "second"} : FillHalf(u, half)
  \/ \E t \in Threads :
       StartThread(t) \/ Lock(t) \/ ConvertPicture(t) \/ Refuse(t) \/ EncodeOne(t)
         \/ DecodeOne(t) \/ Unlock(t)
  \/ Cleanup

SharedSpec == SharedInit /\ [][SharedNext]_sharedVars

(***************************************************************************)
(* Properties.                                                               *)
(***************************************************************************)
(* dv_init called first, as the ChangeLog asks of threaded programs, makes   *)
(* the tables right for every later frame of any thread: they are changed    *)
(* in place once only, and nobody uses them while they are filled.  The same *)
(* holds if a single thread makes encoders or decoders.  (Without dv_init    *)
(* two threads can both find done FALSE; after dv_cleanup there is no table.)*)
TablesReady ==
  (share.init \/ Cardinality(Threads \ {t \in Threads : at[t] = "waiting"}) = 1) /\ ~cleaned =>
    \A t \in Threads : \A i \in DOMAIN buffer[t] : buffer[t][i].good

(* Threads may share an encoder: each frame holds the segments of its own    *)
(* picture only, although all pictures go through the same buffers, and the  *)
(* frames of an encoder are numbered one by one.                             *)
FramesUnmixed ==
  /\ \A f \in results : \A i \in 1 .. SegmentsPerFrame : f.segments[i].of = f.picture
  /\ \A f, g \in results : f # g /\ f.encoder = g.encoder
         /\ "decode" \notin {share.calls[f.thread], share.calls[g.thread]} => f.number # g.number
  /\ \A e \in Users : Cardinality({f \in results : f.encoder = e /\ share.calls[f.thread] = "encode"})
                        = counted[e]
=============================================================================
