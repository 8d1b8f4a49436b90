----------------------------- MODULE NetStream ------------------------------
(***************************************************************************)
(* A stream of frames from another veejay: the reader thread of            *)
(* libstream/vj-net.c, and the playback thread, which starts and stops the *)
(* reader (net_thread_start, net_thread_stop), converts the frames         *)
(* (net_thread_get_frame) and does all that through the stream functions   *)
(* of vj-tag.c (vj_tag_enable, vj_tag_disable, vj_tag_set_active,          *)
(* vj_tag_del).                                                            *)
(*                                                                         *)
(* net_thread_stop does not wait for the reader, so a stream may have      *)
(* several readers at a time; crowded remembers that it had.  The remote   *)
(* answers every request or closes the connection.  Its frames may grow    *)
(* (another veejay may answer after a reconnection), and realloc may then  *)
(* move the buffer; the first conversion caches where the buffer is.       *)
(***************************************************************************)
EXTENDS Naturals, FiniteSets

CONSTANTS
  Readers,     \* reader threads; bound: those alive at a time
  Performer,   \* the playback thread
  None,
  MaxSize,     \* bound: sizes of a frame
  MaxFails     \* bound: connections that fail or break

ASSUME ReadersAssumption ==
  /\ Performer \notin Readers /\ None \notin Readers /\ None # Performer
ASSUME FailsAssumption == MaxFails \in Nat /\ MaxSize \in Nat

VARIABLES
  pc,      \* pc[r]: where the reader is
  packed,  \* packed[r]: the frame being read is compressed
  remote,  \* remote[r]: the request on the reader's connection
  ppc,     \* where the playback thread is in this stream's functions
  deleting,\* it is in vj_tag_del
  tag,     \* active of the tag; whether it is played; whether it was freed
  t,       \* the threaded_t: state, have_frame, bufsize, whether buf is allocated,
           \* and whether the planes of the template a are in buf
  mutex,   \* owner, and whether it is initialised
  crowded, \* two readers were alive at once (history)
  grown,   \* realloc was called for a larger buffer since a was set (history)
  fails    \* failures so far

vars == <<pc, packed, remote, ppc, deleting, tag, t, mutex, crowded, grown, fails>>
reader == <<pc, packed, remote, fails>>
player == <<ppc, deleting, tag, crowded>>

TypeOK ==
  /\ pc \in [Readers -> {"off", "connect", "connected", "loop", "poll", "header", "lock",
       "alloc", "recv", "unpack", "copy", "publish", "end", "retry", "exit"}]
  /\ packed \in [Readers -> BOOLEAN]
  /\ remote \in [Readers -> {"idle", "asked", "answered", "broken"}]
  /\ ppc \in {"idle", "get", "convert", "stop"} /\ deleting \in BOOLEAN
  /\ tag \in [active: BOOLEAN, playing: BOOLEAN, freed: BOOLEAN]
  /\ t \in [state: {0, 1}, have: {0, 1}, buf: BOOLEAN,
            bufsize: 0 .. MaxSize, a: {"none", "here", "elsewhere"}]
  /\ mutex \in [owner: Readers \cup {Performer, None}, valid: BOOLEAN]
  /\ crowded \in BOOLEAN /\ grown \in BOOLEAN
  /\ fails \in 0 .. MaxFails

Init ==
  /\ pc = [r \in Readers |-> "off"]
  /\ packed = [r \in Readers |-> FALSE]
  /\ remote = [r \in Readers |-> "idle"]
  /\ ppc = "idle" /\ deleting = FALSE
  /\ tag = [active |-> FALSE, playing |-> FALSE, freed |-> FALSE]
  /\ t = [state |-> 0, have |-> 0, buf |-> FALSE, bufsize |-> 0, a |-> "none"]
  /\ mutex = [owner |-> None, valid |-> TRUE]
  /\ crowded = FALSE /\ grown = FALSE
  /\ fails = 0
-----------------------------------------------------------------------------
(* The mutex is normal: nothing checks who unlocks it.  One that was       *)
(* destroyed refuses to be locked (EINVAL, which nobody looks at).         *)
Lock(x) ==
  /\ mutex.valid => mutex.owner = None
  /\ mutex' = IF mutex.valid THEN [mutex EXCEPT !.owner = x] ELSE mutex

Released == IF mutex.valid THEN [mutex EXCEPT !.owner = None] ELSE mutex

Goto(r, l) == pc' = [pc EXCEPT ![r] = l]
(* What a reader does with a threaded_t that was freed is not modelled.    *)
At(r, l) == pc[r] = l /\ ~tag.freed
Fail == fails < MaxFails /\ fails' = fails + 1
Alive(r) == pc[r] # "off"
Writes(r) == pc[r] = "copy" \/ (pc[r] = "recv" /\ ~packed[r])
-----------------------------------------------------------------------------
(* The reader thread.                                                      *)
Connect(r) ==
  /\ At(r, "connect")
  /\ \/ Goto(r, "connected") /\ UNCHANGED fails
     \/ Goto(r, "exit") /\ Fail
  /\ UNCHANGED <<packed, remote, player, t, mutex, grown>>

SetRunning(r) ==
  /\ At(r, "connected")
  /\ mutex.valid => mutex.owner = None
  /\ t' = [t EXCEPT !.state = 1]
  /\ Goto(r, "loop")
  /\ UNCHANGED <<packed, remote, player, mutex, grown, fails>>

(* The top of the loop.  While the last frame was not taken the reader     *)
(* spins, and looks at state.                                              *)
SendRequest(r) ==
  /\ At(r, "loop")
  /\ \/ /\ Goto(r, "poll") /\ remote' = [remote EXCEPT ![r] = "asked"]
        /\ UNCHANGED fails
     \/ Goto(r, "retry") /\ Fail /\ UNCHANGED remote
  /\ UNCHANGED <<packed, player, t, mutex, grown>>

(* Wrong: the frame that waits is not looked at.                           *)
RequestAnyway(r) == SendRequest(r)
Request(r) == t.have = 0 /\ SendRequest(r)

SpinTo(r, l) ==
  /\ At(r, "loop") /\ t.have = 1 /\ t.state = 0
  /\ Goto(r, l)
  /\ UNCHANGED <<packed, remote, player, t, mutex, grown, fails>>

(* Wrong: the reader spins without looking at state.                       *)
SpinBlindly(r) == SpinTo(r, "loop")
Spin(r) == SpinTo(r, "exit")

(* While there is nothing to read the reader sleeps 10 ms, goes on at the  *)
(* top of the loop and comes back here, without looking at state.          *)
PollReadable(r) ==
  /\ At(r, "poll") /\ remote[r] \in {"answered", "broken"}
  /\ Goto(r, "header")
  /\ UNCHANGED <<packed, remote, player, t, mutex, grown, fails>>

ReadHeader(r) ==
  /\ At(r, "header")
  /\ \/ /\ remote[r] = "answered"
        /\ \E c \in BOOLEAN : packed' = [packed EXCEPT ![r] = c] /\ Goto(r, IF c THEN "alloc" ELSE "lock")
     \/ remote[r] = "broken" /\ Goto(r, "retry") /\ UNCHANGED packed
  /\ UNCHANGED <<remote, player, t, mutex, grown, fails>>

(* Wrong: the mutex is not taken.                                          *)
LockNothing(r) ==
  /\ At(r, "lock")
  /\ Goto(r, "alloc")
  /\ UNCHANGED <<packed, remote, player, t, mutex, grown, fails>>

LockBuffer(r) ==
  /\ At(r, "lock")
  /\ Lock(r)
  /\ Goto(r, "alloc")
  /\ UNCHANGED <<packed, remote, player, t, grown, fails>>

(* realloc, under the mutex only when the frame is not compressed: a       *)
(* larger buffer may be in another place, a new one is.                    *)
Elsewhere == IF t.a = "none" THEN "none" ELSE "elsewhere"
Allocate(r) ==
  /\ At(r, "alloc")
  /\ \E size \in 1 .. MaxSize :
       IF t.bufsize < size \/ ~t.buf
         THEN /\ \E place \in {Elsewhere} \cup (IF t.buf THEN {t.a} ELSE {}) :
                   t' = [t EXCEPT !.buf = TRUE, !.bufsize = size, !.a = place]
              /\ grown' = (t.a # "none" /\ (grown \/ t.buf))
         ELSE UNCHANGED <<t, grown>>
  /\ Goto(r, "recv")
  /\ UNCHANGED <<packed, remote, player, mutex, fails>>

(* A compressed frame is received into the client's own space, another one *)
(* into the buffer, while the mutex is held.                               *)
ReceiveInto(r, onError) ==
  /\ At(r, "recv")
  /\ \/ /\ Goto(r, IF packed[r] THEN "unpack" ELSE "publish")
        /\ remote' = [remote EXCEPT ![r] = "idle"] /\ UNCHANGED fails
        /\ mutex' = IF packed[r] THEN mutex ELSE Released
        /\ UNCHANGED packed
     \/ /\ Goto(r, "retry") /\ Fail /\ UNCHANGED remote
        /\ mutex' = IF packed[r] THEN mutex ELSE onError
        /\ packed' = [packed EXCEPT ![r] = FALSE]
  /\ UNCHANGED <<player, t, grown>>

(* Wrong: an error leaves the mutex locked.                                *)
ReceiveKeepLock(r) == ReceiveInto(r, mutex)
Receive(r) == ReceiveInto(r, Released)

LockToUnpack(r) ==
  /\ At(r, "unpack")
  /\ Lock(r)
  /\ Goto(r, "copy")
  /\ UNCHANGED <<packed, remote, player, t, grown, fails>>

Decompress(r) ==
  /\ At(r, "copy")
  /\ mutex' = Released
  /\ packed' = [packed EXCEPT ![r] = FALSE]
  /\ Goto(r, "publish")
  /\ UNCHANGED <<remote, player, t, grown, fails>>

Publish(r) ==
  /\ At(r, "publish")
  /\ IF t.buf THEN t' = [t EXCEPT !.have = 1] /\ Goto(r, "end")
              ELSE UNCHANGED t /\ Goto(r, "retry")
  /\ UNCHANGED <<packed, remote, player, mutex, grown, fails>>

(* The end of the loop.                                                    *)
LoopEnd(r) ==
  /\ At(r, "end")
  /\ Goto(r, IF t.state = 0 THEN "exit" ELSE "loop")
  /\ UNCHANGED <<packed, remote, player, t, mutex, grown, fails>>

(* Close, sleep and connect again; then state is looked at, then whether   *)
(* the connection was made.                                                *)
RetryTo(r, ok, failed) ==
  /\ At(r, "retry")
  /\ remote' = [remote EXCEPT ![r] = "idle"]
  /\ \/ Goto(r, IF t.state = 0 THEN "exit" ELSE ok) /\ UNCHANGED fails
     \/ Goto(r, IF t.state = 0 THEN "exit" ELSE failed) /\ Fail
  /\ UNCHANGED <<packed, player, t, mutex, grown>>

(* Wrong: the reader gives up; it waits for a frame it did not ask for.    *)
RetryOnce(r) == RetryTo(r, "end", "exit")
RetryStillWaiting(r) == RetryTo(r, "poll", "retry")
Retry(r) == RetryTo(r, "end", "retry")

(* NETTHREADEXIT: the buffer is freed without the mutex.                   *)
Exit(r) ==
  /\ At(r, "exit")
  /\ t' = [t EXCEPT !.buf = FALSE, !.a = Elsewhere]
  /\ Goto(r, "off")
  /\ remote' = [remote EXCEPT ![r] = "idle"]
  /\ UNCHANGED <<packed, player, mutex, grown, fails>>

(* The remote sends the frame it was asked for, or closes the connection.  *)
Answer(r) ==
  /\ remote[r] = "asked" /\ ~tag.freed
  /\ \/ remote' = [remote EXCEPT ![r] = "answered"] /\ UNCHANGED fails
     \/ remote' = [remote EXCEPT ![r] = "broken"] /\ Fail
  /\ UNCHANGED <<pc, packed, player, t, mutex, grown>>
-----------------------------------------------------------------------------
(* The playback thread.                                                    *)
Idle == ppc = "idle" /\ ~tag.freed

(* The mutex is initialised anew, whoever holds it; state is not touched.  *)
NetStart ==
  /\ \E r \in Readers : pc[r] = "off" /\ Goto(r, "connect")
  /\ crowded' = IF \E q \in Readers : Alive(q) THEN TRUE ELSE crowded
  /\ t' = [t EXCEPT !.have = 0]
  /\ mutex' = [owner |-> None, valid |-> TRUE]
  /\ UNCHANGED <<packed, remote, grown, fails, ppc, deleting>>

(* veejay_start_playing_stream enables a stream that may be active.        *)
Play ==
  /\ Idle /\ ~tag.playing
  /\ NetStart
  /\ tag' = [tag EXCEPT !.active = TRUE, !.playing = TRUE]

(* vj_perform_tag_fill_buffer of the playing stream, a stream that is      *)
(* mixed by an effect, and the event that toggles the playing one.         *)
Activate ==
  /\ Idle /\ ~tag.active
  /\ NetStart
  /\ tag' = [tag EXCEPT !.active = TRUE]

GetFrame ==
  /\ Idle /\ tag.active
  /\ ppc' = "get"
  /\ UNCHANGED <<reader, deleting, tag, crowded, t, mutex, grown>>

(* vj_tag_disable: by the toggle, by the removal of an effect that mixes   *)
(* the stream, and when another sample or stream is played instead.        *)
Disable ==
  /\ Idle /\ tag.active
  /\ ppc' = "stop"
  /\ \E stays \in BOOLEAN : tag' = [tag EXCEPT !.playing = stays /\ tag.playing]
  /\ UNCHANGED <<reader, deleting, crowded, t, mutex, grown>>

LeaveInactive ==
  /\ Idle /\ tag.playing /\ ~tag.active
  /\ tag' = [tag EXCEPT !.playing = FALSE]
  /\ UNCHANGED <<reader, ppc, deleting, crowded, t, mutex, grown>>

Delete ==
  /\ Idle /\ ~tag.playing
  /\ ppc' = "stop" /\ deleting' = TRUE
  /\ UNCHANGED <<reader, tag, crowded, t, mutex, grown>>

(* The planes to convert from are found once, and stay where they were.    *)
LockFrame ==
  /\ ppc = "get"
  /\ mutex.valid => mutex.owner = None
  /\ IF t.state = 0 \/ t.bufsize = 0 \/ ~t.buf
     THEN ppc' = "idle" /\ UNCHANGED <<mutex, t, grown>>
     ELSE /\ ppc' = "convert" /\ Lock(Performer)
          /\ IF t.a = "none" THEN t' = [t EXCEPT !.a = "here"] /\ grown' = FALSE
                             ELSE UNCHANGED <<t, grown>>
  /\ UNCHANGED <<reader, deleting, tag, crowded>>

(* The frame is converted whether or not it was there before.              *)
Convert ==
  /\ ppc = "convert"
  /\ t' = [t EXCEPT !.have = 0]
  /\ mutex' = Released
  /\ ppc' = "idle"
  /\ UNCHANGED <<reader, deleting, tag, crowded, grown>>

(* net_thread_stop: refused when state is 0, as it is until the reader has *)
(* connected; net_thread_free forgets the planes; then the caller clears   *)
(* active, or frees the stream.                                            *)
NetStop ==
  /\ ppc = "stop"
  /\ mutex.valid => mutex.owner = None
  /\ t' = [t EXCEPT !.state = 0, !.a = IF t.state = 0 THEN @ ELSE "none"]
  /\ grown' = (grown /\ t.state = 0)
  /\ mutex' = [mutex EXCEPT !.valid = mutex.valid /\ t.state = 0]
  /\ tag' = [tag EXCEPT !.active = FALSE, !.freed = deleting]
  /\ ppc' = "idle" /\ deleting' = FALSE
  /\ UNCHANGED <<reader, crowded>>
-----------------------------------------------------------------------------
ReaderStep(r) ==
  \/ Connect(r) \/ SetRunning(r) \/ Request(r) \/ Spin(r)
  \/ PollReadable(r) \/ ReadHeader(r) \/ LockBuffer(r) \/ Allocate(r)
  \/ Receive(r) \/ LockToUnpack(r) \/ Decompress(r) \/ Publish(r)
  \/ LoopEnd(r) \/ Retry(r) \/ Exit(r)

Call == LockFrame \/ Convert \/ NetStop

Next ==
  \/ \E r \in Readers : ReaderStep(r) \/ Answer(r)
  \/ Play \/ Activate \/ GetFrame \/ Disable \/ LeaveInactive \/ Delete \/ Call

Spec == Init /\ [][Next]_vars

(* Both threads run, and both get the mutex in the end when it comes free  *)
(* again and again: the playback thread holds it once per frame.           *)
Fairness ==
  /\ \A r \in Readers : SF_vars(ReaderStep(r)) /\ WF_vars(Answer(r))
  /\ SF_vars(Call)

FairSpec == Spec /\ Fairness
-----------------------------------------------------------------------------
(* Why ConvertAlone and BufferStays hold, of a stream that has had one     *)
(* reader at a time: who holds the mutex, when state is 0 and when a frame *)
(* is waiting, by the places where the threads are.                        *)
Reading == {"poll", "header", "lock", "alloc", "recv", "unpack", "copy", "publish"}

StreamInv ==
  /\ tag.active /\ ~tag.freed => mutex.valid
  /\ ppc \in {"get", "convert"} => tag.active /\ ~tag.freed
  /\ ~crowded =>
       /\ \A r, q \in Readers : Alive(r) /\ Alive(q) => r = q
       /\ (\A r \in Readers : ~Alive(r)) => t.state = 0
       /\ \A r \in Readers :
            /\ pc[r] \in {"connect", "connected", "exit"} => t.state = 0
            /\ pc[r] \in Reading => t.have = 0
            /\ (Writes(r) \/ (pc[r] = "alloc" /\ ~packed[r])) /\ mutex.valid => mutex.owner = r
       /\ ppc = "convert" => mutex.owner = Performer /\ t.state = 1 /\ t.buf
       /\ ppc = "convert" => t.a # "none"
       /\ t.state = 0 => t.a = "none"
       /\ t.a # "none" => t.buf /\ (t.a = "here" \/ grown)

(* While a stream has had one reader at a time, the playback thread never  *)
(* converts a frame that the reader is writing: the mutex keeps them       *)
(* apart, also across its destruction and the start of a new reader.       *)
ConvertAlone ==
  ~crowded /\ ~tag.freed /\ ppc = "convert" => \A r \in Readers : ~Writes(r)

(* While a stream has had one reader at a time, the buffer that is being   *)
(* converted is there: the reader frees it on its way out without the      *)
(* mutex, and relies on the playback thread having given up.  It is where  *)
(* the planes were found, unless a larger frame came since: realloc may    *)
(* move the buffer, even during a conversion when that frame is packed,    *)
(* and the planes are not found again.                                     *)
BufferStays ==
  ~crowded /\ ppc = "convert" => t.buf /\ (t.a = "here" \/ grown)

(* A frame that was received and not taken is never overwritten, while the *)
(* stream has had one reader at a time: the next one is not even requested *)
(* before, through reconnections and errors.                               *)
NoFrameLost ==
  [][\A r \in Readers : ~crowded /\ Writes(r)' /\ ~Writes(r) => t.have = 0]_vars

(* A reader that is told to stop ends, whatever it is doing: waiting for   *)
(* an answer, or for a connection (unless the stream is started again,     *)
(* which takes the order back, or deleted).                                *)
StopEnds ==
  \A r \in Readers :
    (Alive(r) /\ t.state = 0) ~> (~Alive(r) \/ t.state = 1 \/ tag.freed)

(* Frames keep coming: a reader that runs has a frame to show, in the end, *)
(* through broken connections, unless the stream is stopped.               *)
FramesResume == (t.state = 1) ~> (t.have = 1 \/ t.state = 0 \/ tag.freed)

(* The playback thread always returns: it may wait for the network, behind *)
(* a reader that receives under the mutex, but not forever.                *)
CallReturns == (ppc # "idle") ~> (ppc = "idle")

(* "stop streaming in first" (vj_tag_del, before the stream is freed): no  *)
(* reader of the stream is left then.                                      *)
StoppedBeforeFreed == tag.freed => \A r \in Readers : ~Alive(r)
=============================================================================
