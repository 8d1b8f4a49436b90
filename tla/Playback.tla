------------------------------ MODULE Playback ------------------------------
(***************************************************************************)
(* The playback engine of veejay/liblavplayvj.c and the main loop of       *)
(* veejay/veejay.c.  Three threads share the struct video_playback_setup:  *)
(*                                                                         *)
(*   P  veejay_playback_thread: handles events, renders, queues a frame;   *)
(*   S  veejay_mjpeg_playback_thread: shows the frame that was queued;     *)
(*   M  main: takes the signals, polls the state, waits for P, frees all.  *)
(*                                                                         *)
(* The queue has one entry (QUEUE_LEN 1): valid[0] says whether it holds a *)
(* frame to be shown, and is all that keeps P from rendering into the      *)
(* primary frame while S reads it.  valid is written under valid_mutex,    *)
(* settings->state is read and written by all threads without it.          *)
(***************************************************************************)
EXTENDS Integers

CONSTANTS
  Events,       \* VIMS events that occur: subset of EventKinds
  Corrections,  \* audio/video corrections that occur: {"repeat", "skip"}
  MaxSkips,     \* bound: skipped frames in one cycle
  MaxSignals,   \* bound: signals that main takes
  ScreenFails,  \* whether veejay_screen_update may fail and stop veejay
  SharedOutput, \* whether showing a frame uses the worker pool (vj_shm_write)
  PauseRender,  \* info->pause_render, from VEEJAY_PAUSE_EVERYTHING
  LastFrame,    \* the last frame of the video
  Continuous    \* info->continuous: the video loops, or veejay ends with it

EventKinds == {"quit", "suspend", "speed", "slow", "goto"}

ASSUME EventsAssumption == Events \subseteq EventKinds
ASSUME CorrectionsAssumption == Corrections \subseteq {"repeat", "skip"}
ASSUME BoundsAssumption ==
  MaxSkips \in Nat /\ MaxSignals \in Nat /\ LastFrame \in Nat
ASSUME FlagsAssumption ==
  /\ ScreenFails \in BOOLEAN /\ SharedOutput \in BOOLEAN
  /\ PauseRender \in BOOLEAN /\ Continuous \in BOOLEAN

VARIABLES
  state,       \* settings->state
  mutex,       \* who holds valid_mutex across steps: only S does, or nobody
  valid,       \* settings->valid[0]
  entry,       \* settings->buffer_entry[0]
  processed,   \* settings->currently_processed_entry
  ppc, spc, mpc,  \* control states of the three threads
  mret,        \* where main goes on after its signal handler
  signals,     \* signals taken so far
  queue_mutex, \* who holds the mutex of the worker pool: S or nobody
  speed,       \* settings->current_playback_speed, 0 or 1
  cycleSpeed,  \* current_speed, read at the top of P's cycle
  sfd,         \* info->sfd is not 0: frames are shown several times
  frame,       \* settings->current_frame_num
  skips,       \* corrections in this cycle
  picture,     \* history: the frame number that was rendered last, or -1
  fresh,       \* history: whether the output has what was rendered
  odd          \* history: the entry may be one that S marked for another frame

shared == <<state, mutex, valid, entry, processed>>
history == <<picture, fresh, odd>>
video == <<speed, cycleSpeed, sfd, frame, skips, history>>
main == <<mpc, mret, signals>>
vars == <<shared, ppc, spc, main, queue_mutex, video>>

States == {"stop", "paused", "playing"}
Frames == 0 .. LastFrame
PStates == {"render", "queue", "check", "sync", "wait", "events", "fill",
            "finish", "join", "free", "exited"}
SStates == {"top", "lock", "test", "wait", "relock", "woken", "decide",
            "display", "pool", "mark", "sleep", "clear", "exit", "dead"}

TypeOK ==
  /\ state \in States
  /\ mutex \in {"free", "S"}
  /\ valid \in {0, 1}
  /\ entry \in Nat
  /\ processed \in Nat \cup {-1}
  /\ ppc \in PStates
  /\ spc \in SStates
  /\ mpc \in {"poll", "handler", "join", "free", "done"}
  /\ mret \in {"poll", "join"}
  /\ signals \in 0 .. MaxSignals
  /\ queue_mutex \in {"free", "S"}
  /\ speed \in {0, 1}
  /\ cycleSpeed \in {0, 1}
  /\ frame \in Frames
  /\ skips \in 0 .. MaxSkips
  /\ sfd \in BOOLEAN
  /\ picture \in Frames \cup {-1}
  /\ fresh \in {"no", "new", "failed"}
  /\ odd \in BOOLEAN

(* veejay_malloc, veejay_open and the start of veejay_playback_cycle.      *)
Init ==
  /\ state = "playing"
  /\ mutex = "free"
  /\ valid = 0
  /\ entry = 0
  /\ processed = -1
  /\ ppc = "render"
  /\ spc = "top"
  /\ mpc = "poll"
  /\ mret = "poll"
  /\ signals = 0
  /\ queue_mutex = "free"
  /\ speed = 1
  /\ cycleSpeed = 1
  /\ frame = 0
  /\ skips = 0
  /\ sfd = FALSE
  /\ picture = -1
  /\ fresh = "no"
  /\ odd = FALSE

MutexFree == mutex = "free"
-----------------------------------------------------------------------------
(* vj_perform_queue_frame in plain mode: with info->sfd the same frame may  *)
(* come again (simple_frame_dup is left out); the frame number wraps       *)
(* around, or the end of the video ends the session.                       *)
MoveFrame ==
  \E f \in {frame + speed} \cup (IF sfd THEN {frame} ELSE {}) :
    /\ frame' = IF f > LastFrame THEN 0 ELSE f
    /\ state' = IF f > LastFrame /\ ~Continuous THEN "stop" ELSE state

(* The entry number that tells S whether there is something new to show:   *)
(* a bit that is turned or, when nothing moves, the number of the frame.   *)
ByNumber == PauseRender /\ speed = 0 /\ ~sfd

(* Wrong: the frame number, though it may be the same again.               *)
EntryOfFrame == frame

NextEntry == IF ByNumber THEN frame ELSE (entry + 1) % 2

(* History: the new entry may be one that S marked for something else.     *)
(*   - a skip has turned the bit once more in this round;                  *)
(*   - a frame number is 0 or 1, as the bit is, or stands for a round in   *)
(*     which that frame was not rendered, or still is such a number;       *)
(* and what S did not take up is not taken up in the next round either.    *)
NextOdd(renders) ==
  \/ skips > 0
  \/ ByNumber /\ (frame < 2 \/ ~renders \/ (odd /\ frame = entry))
  \/ odd /\ fresh = "new"

(* vj_perform_queue_video_frame and vj_perform_queue_frame.  The picture   *)
(* of a frame that does not move is not a new one when it is rendered      *)
(* again: with pause_render it is not meant to be shown again.             *)
Render ==
  /\ ppc = "render"
  /\ fresh' = IF ByNumber /\ picture = frame THEN fresh ELSE "new"
  /\ picture' = frame
  /\ MoveFrame
  /\ ppc' = "queue"
  /\ UNCHANGED <<mutex, valid, entry, processed, spc, main, queue_mutex, speed,
                 cycleSpeed, sfd, skips, odd>>

(* Wrong: the frame is handed over and S not woken.                        *)
QueueSilently ==
  /\ ppc = "queue"
  /\ MutexFree
  /\ valid' = 1
  /\ ppc' = "check"
  /\ skips' = 0
  /\ UNCHANGED <<state, mutex, entry, processed, spc, main, queue_mutex, speed,
                 cycleSpeed, sfd, frame, history>>

(* veejay_mjpeg_queue_buf: hand the frame over, wake S.                    *)
QueueBuf ==
  /\ ppc = "queue"
  /\ MutexFree
  /\ valid' = 1
  /\ spc' = IF spc = "wait" THEN "relock" ELSE spc
  /\ ppc' = "check"
  /\ skips' = 0
  /\ UNCHANGED <<state, mutex, entry, processed, main, queue_mutex, speed,
                 cycleSpeed, sfd, frame, history>>

(* Wrong: the state is not tested before P waits for S.                    *)
CheckNothing ==
  /\ ppc = "check"
  /\ ppc' = "sync"
  /\ cycleSpeed' = speed
  /\ UNCHANGED <<shared, spc, main, queue_mutex, speed, sfd, frame, skips,
                 history>>

(* The two tests of the state at the top of veejay_playback_cycle's loop.  *)
CheckState ==
  /\ ppc = "check"
  /\ ppc' = IF state = "stop" THEN "finish" ELSE "sync"
  /\ cycleSpeed' = speed
  /\ UNCHANGED <<shared, spc, main, queue_mutex, speed, sfd, frame, skips,
                 history>>

(* veejay_mjpeg_sync_buf: wait until S has done with the buffer.           *)
SyncBuf ==
  /\ ppc = "sync"
  /\ MutexFree
  /\ ppc' = IF valid # 0 THEN "wait" ELSE "events"
  /\ UNCHANGED <<shared, spc, main, queue_mutex, video>>

(* Wrong: an if in place of the while around pthread_cond_wait.            *)
WokenOnce ==
  /\ ppc = "wait"
  /\ ppc' = "events"
  /\ UNCHANGED <<shared, spc, main, queue_mutex, video>>

(* pthread_cond_wait may return unsignalled; valid[0] is tested again.     *)
SpuriousP ==
  /\ ppc = "wait"
  /\ ppc' = "sync"
  /\ UNCHANGED <<shared, spc, main, queue_mutex, video>>

(* veejay_event_handle: any number of VIMS messages, keys and the like.    *)
(* veejay_quit takes the mutex, vj_event_suspend does not.                 *)
Quit ==
  /\ ppc = "events"
  /\ "quit" \in Events
  /\ MutexFree
  /\ state' = "stop"
  /\ UNCHANGED <<mutex, valid, entry, processed, ppc, spc, main, queue_mutex,
                 video>>

Suspend ==
  /\ ppc = "events"
  /\ "suspend" \in Events
  /\ state' = IF state = "paused" THEN "playing" ELSE "paused"
  /\ UNCHANGED <<mutex, valid, entry, processed, ppc, spc, main, queue_mutex,
                 video>>

SetSpeed ==
  /\ ppc = "events"
  /\ "speed" \in Events
  /\ speed' = 1 - speed
  /\ UNCHANGED <<shared, ppc, spc, main, queue_mutex, cycleSpeed, sfd, frame,
                 skips, history>>

SetFramedup ==
  /\ ppc = "events"
  /\ "slow" \in Events
  /\ sfd' \in BOOLEAN
  /\ UNCHANGED <<shared, ppc, spc, main, queue_mutex, speed, cycleSpeed, frame,
                 skips, history>>

SetFrame ==
  /\ ppc = "events"
  /\ "goto" \in Events
  /\ frame' \in Frames
  /\ UNCHANGED <<shared, ppc, spc, main, queue_mutex, speed, cycleSpeed, sfd,
                 skips, history>>

EventsDone ==
  /\ ppc = "events"
  /\ ppc' = "fill"
  /\ UNCHANGED <<shared, spc, main, queue_mutex, video>>

(* The filling loop without a correction: a suspended engine renders       *)
(* nothing and queues the buffer all the same.                             *)
Fill ==
  /\ ppc = "fill"
  /\ entry' = NextEntry
  /\ odd' = NextOdd(state # "paused")
  /\ ppc' = IF state = "paused" THEN "queue" ELSE "render"
  /\ UNCHANGED <<state, mutex, valid, processed, spc, main, queue_mutex, speed,
                 cycleSpeed, sfd, frame, skips, picture, fresh>>

(* Audio is behind video: skipa and skipi, nothing new is rendered.        *)
FillRepeat ==
  /\ ppc = "fill"
  /\ "repeat" \in Corrections
  /\ cycleSpeed # 0
  /\ entry' = NextEntry
  /\ odd' = NextOdd(FALSE)
  /\ ppc' = "queue"
  /\ UNCHANGED <<state, mutex, valid, processed, spc, main, queue_mutex, speed,
                 cycleSpeed, sfd, frame, skips, picture, fresh>>

(* Video is behind audio: skipv, nothing is queued and the loop goes on.   *)
FillSkip ==
  /\ ppc = "fill"
  /\ "skip" \in Corrections
  /\ skips < MaxSkips
  /\ skips' = skips + 1
  /\ entry' = NextEntry
  /\ IF state # "paused" /\ cycleSpeed = 0 THEN MoveFrame
                                           ELSE UNCHANGED <<frame, state>>
  /\ UNCHANGED <<mutex, valid, processed, ppc, spc, main, queue_mutex, speed,
                 cycleSpeed, sfd, history>>

(* veejay_close: pthread_cancel of S ...                                   *)
Cancel ==
  /\ ppc = "finish"
  /\ ppc' = "join"
  /\ UNCHANGED <<shared, spc, main, queue_mutex, video>>

(* ... and pthread_join.                                                   *)
JoinScreen ==
  /\ ppc = "join"
  /\ spc \in {"exit", "dead"}
  /\ ppc' = "free"
  /\ UNCHANGED <<shared, spc, main, queue_mutex, video>>

(* The rest of veejay_playback_thread: outputs and frame buffers go.       *)
FreeOutputs ==
  /\ ppc = "free"
  /\ ppc' = "exited"
  /\ UNCHANGED <<shared, spc, main, queue_mutex, video>>
-----------------------------------------------------------------------------
(* The head of the loop of veejay_mjpeg_playback_thread.                   *)
Top ==
  /\ spc = "top"
  /\ spc' = IF state = "stop" THEN "exit" ELSE "lock"
  /\ UNCHANGED <<shared, ppc, main, queue_mutex, video>>

Lock ==
  /\ spc = "lock"
  /\ MutexFree
  /\ mutex' = "S"
  /\ spc' = "test"
  /\ UNCHANGED <<state, valid, entry, processed, ppc, main, queue_mutex, video>>

(* Wrong: the mutex is not unlocked when there is something to show.       *)
TestNoUnlock ==
  /\ spc = "test"
  /\ mutex' = IF valid = 0 THEN "free" ELSE mutex
  /\ spc' = IF valid = 0 THEN "wait" ELSE "decide"
  /\ UNCHANGED <<state, valid, entry, processed, ppc, main, queue_mutex, video>>

(* valid[] tested with the mutex held: leave the section, or wait.         *)
Test ==
  /\ spc = "test"
  /\ mutex' = "free"
  /\ spc' = IF valid = 0 THEN "wait" ELSE "decide"
  /\ UNCHANGED <<state, valid, entry, processed, ppc, main, queue_mutex, video>>

SpuriousS ==
  /\ spc = "wait"
  /\ spc' = "relock"
  /\ UNCHANGED <<shared, ppc, main, queue_mutex, video>>

Relock ==
  /\ spc = "relock"
  /\ MutexFree
  /\ mutex' = "S"
  /\ spc' = "woken"
  /\ UNCHANGED <<state, valid, entry, processed, ppc, main, queue_mutex, video>>

(* Woken up: exit when veejay was told to stop, whatever valid[] says.     *)
Woken ==
  /\ spc = "woken"
  /\ IF state = "stop" THEN spc' = "exit" /\ mutex' = "free"
                       ELSE spc' = "test" /\ UNCHANGED mutex
  /\ UNCHANGED <<state, valid, entry, processed, ppc, main, queue_mutex, video>>

(* Show the buffer unless suspended, or unless its entry was shown before. *)
Decide ==
  /\ spc = "decide"
  /\ spc' = IF state # "paused" /\ processed # entry THEN "display" ELSE "mark"
  /\ UNCHANGED <<shared, ppc, main, queue_mutex, video>>

(* veejay_screen_update, to a display ...                                  *)
Display ==
  /\ spc = "display"
  /\ ~SharedOutput
  /\ fresh' = "no"
  /\ spc' = "mark"
  /\ UNCHANGED <<shared, ppc, main, queue_mutex, speed, cycleSpeed, sfd, frame,
                 skips, picture, odd>>

(* ... or with vj_shm_write, whose vj_frame_copy calls the worker pool.    *)
DisplayShared ==
  /\ spc = "display"
  /\ SharedOutput
  /\ queue_mutex = "free"
  /\ queue_mutex' = "S"
  /\ spc' = "pool"
  /\ UNCHANGED <<shared, ppc, main, video>>

SharedDone ==
  /\ spc = "pool"
  /\ queue_mutex' = "free"
  /\ fresh' = "no"
  /\ spc' = "mark"
  /\ UNCHANGED <<shared, ppc, main, speed, cycleSpeed, sfd, frame, skips, picture,
                 odd>>

(* The frame is not shown: the surface cannot be locked or updated ("I     *)
(* won't give up yet!"), or the output, served last, fails and veejay is   *)
(* stopped.                                                                *)
DisplayFails ==
  /\ ScreenFails
  /\ \/ spc \in {"display", "pool"} /\ UNCHANGED state
     \/ /\ spc = IF SharedOutput THEN "pool" ELSE "display"
        /\ state' = "stop"
  /\ queue_mutex' = "free"
  /\ fresh' = "failed"
  /\ spc' = "mark"
  /\ UNCHANGED <<mutex, valid, entry, processed, ppc, main, speed, cycleSpeed,
                 sfd, frame, skips, picture, odd>>

(* currently_processed_entry, then veejay_mjpeg_software_frame_sync.       *)
Mark ==
  /\ spc = "mark"
  /\ processed' = entry
  /\ spc' = "sleep"
  /\ UNCHANGED <<state, mutex, valid, entry, ppc, main, queue_mutex, video>>

ClearLock ==
  /\ spc = "sleep"
  /\ MutexFree
  /\ mutex' = "S"
  /\ spc' = "clear"
  /\ UNCHANGED <<state, valid, entry, processed, ppc, main, queue_mutex, video>>

(* Wrong: P is not woken.                                                  *)
ClearSilently ==
  /\ spc = "clear"
  /\ valid' = 0
  /\ mutex' = "free"
  /\ spc' = "top"
  /\ UNCHANGED <<state, entry, processed, ppc, main, queue_mutex, video>>

(* The buffer is given back, and P woken.                                  *)
Clear ==
  /\ spc = "clear"
  /\ valid' = 0
  /\ mutex' = "free"
  /\ ppc' = IF ppc = "wait" THEN "sync" ELSE ppc
  /\ spc' = "top"
  /\ UNCHANGED <<state, entry, processed, main, queue_mutex, video>>

(* The cancellation is asynchronous: S dies where it is, with the locks it *)
(* has.  In pthread_cond_wait it first takes the mutex back.               *)
Die ==
  /\ ppc = "join"
  /\ spc \notin {"exit", "dead"}
  /\ IF spc \in {"wait", "relock"} THEN MutexFree /\ mutex' = "S"
                                   ELSE UNCHANGED mutex
  /\ spc' = "dead"
  /\ UNCHANGED <<state, valid, entry, processed, ppc, main, queue_mutex, video>>
-----------------------------------------------------------------------------
(* A signal is delivered to main.                                          *)
Signal ==
  /\ mpc \in {"poll", "join"}
  /\ signals < MaxSignals
  /\ signals' = signals + 1
  /\ mret' = mpc
  /\ mpc' = "handler"
  /\ UNCHANGED <<shared, ppc, spc, queue_mutex, video>>

(* donothing: under the mutex, SIGINT and SIGQUIT stop, SIGTERM does not.  *)
Handler ==
  /\ mpc = "handler"
  /\ MutexFree
  /\ state' \in {"stop", state}
  /\ mpc' = mret
  /\ UNCHANGED <<mutex, valid, entry, processed, ppc, spc, mret, signals,
                 queue_mutex, video>>

(* The loop of main, then veejay_busy and veejay_free with its task_stop.  *)
Poll ==
  /\ mpc = "poll"
  /\ state = "stop"
  /\ mpc' = "join"
  /\ UNCHANGED <<shared, ppc, spc, mret, signals, queue_mutex, video>>

Busy ==
  /\ mpc = "join"
  /\ ppc = "exited"
  /\ mpc' = "free"
  /\ UNCHANGED <<shared, ppc, spc, mret, signals, queue_mutex, video>>

Free ==
  /\ mpc = "free"
  /\ queue_mutex = "free"
  /\ mpc' = "done"
  /\ UNCHANGED <<shared, ppc, spc, mret, signals, queue_mutex, video>>

Filling == Fill \/ FillRepeat \/ FillSkip
EventStep == Quit \/ Suspend \/ SetSpeed \/ SetFramedup \/ SetFrame
PStep == Render \/ QueueBuf \/ CheckState \/ SyncBuf \/ EventsDone \/ Filling
         \/ Cancel \/ JoinScreen \/ FreeOutputs
SStep == Top \/ Lock \/ Test \/ Relock \/ Woken \/ Decide \/ Display
         \/ DisplayShared \/ SharedDone \/ Mark \/ ClearLock \/ Clear
MStep == Handler \/ Poll \/ Busy \/ Free

Next == PStep \/ EventStep \/ SStep \/ MStep
        \/ SpuriousP \/ SpuriousS \/ DisplayFails \/ Die \/ Signal

Spec == Init /\ [][Next]_vars

(***************************************************************************)
(* Every thread that is not blocked goes on, and a cancellation is         *)
(* delivered.  A thread that asks for valid_mutex again and again is not   *)
(* passed over forever, hence strong fairness where it is taken.           *)
(***************************************************************************)
FairSpec ==
  /\ Spec
  /\ WF_vars(PStep) /\ SF_vars(QueueBuf) /\ SF_vars(SyncBuf)
  /\ WF_vars(SStep) /\ SF_vars(Lock) /\ SF_vars(Relock) /\ SF_vars(ClearLock)
  /\ WF_vars(MStep) /\ SF_vars(Handler)
  /\ SF_vars(Die)
-----------------------------------------------------------------------------
Showing == spc \in {"decide", "display", "pool", "mark"}

(* The handshake on valid[0]: while S looks at the queued buffer, P is     *)
(* neither rendering, nor handling events, nor changing the entry, and the *)
(* frame buffers and outputs are not freed.                                *)
ExclusiveBuffer ==
  Showing => /\ valid = 1
             /\ ppc \in {"check", "sync", "wait", "finish", "join"}

(* "Wait until this buffer has been played": when veejay_mjpeg_sync_buf    *)
(* returns, the output has shown what was rendered, or failed to, but for  *)
(* the rounds in which the entry number may be that of another frame.      *)
SyncMeansPlayed == ppc = "events" => fresh # "new" \/ odd

(* P waits on buffer_done only while there is a buffer to be shown, S on   *)
(* buffer_filled only while there is none: they never wait for each other, *)
(* and neither waits on a condition that was signalled before it waited.   *)
NotBothWaiting ==
  /\ ppc = "wait" => valid = 1
  /\ spc = "wait" => valid = 0

(***************************************************************************)
(* The inductive invariant of the handshake.                               *)
(***************************************************************************)
(* valid_mutex is held where the code holds it, or by a thread that died.  *)
MutexInv ==
  /\ spc \in {"test", "woken", "clear"} => mutex = "S"
  /\ mutex = "S" => spc \in {"test", "woken", "clear", "dead"}

(* valid[0] belongs to S from the moment it saw it set until it clears it, *)
(* and P does not go on before.                                            *)
ValidInv ==
  /\ spc \in {"decide", "display", "pool", "mark", "sleep", "clear"} => valid = 1
  /\ valid = 1 => ppc \notin {"render", "queue", "events", "fill"}

(* Nothing is freed before the death of S.                                 *)
JoinInv == ppc \in {"free", "exited"} => spc \in {"exit", "dead"}

IInv == TypeOK /\ MutexInv /\ ValidInv /\ JoinInv /\ NotBothWaiting

(* Frames keep flowing until veejay is stopped.                            *)
FramesFlow == []<>(ppc = "events" \/ state = "stop" \/ ppc = "exited")

(* "Wait until playback is finished": veejay ends once it is stopped, or   *)
(* vj_event_suspend takes the stop back.                                   *)
ShutdownCompletes == state = "stop" ~> (mpc = "done" \/ state # "stop")

(* The handler that main runs for a signal returns, unless S died with     *)
(* valid_mutex held: nobody gives it back, and main is stuck.              *)
DiedWithMutex == spc = "dead" /\ mutex = "S"
HandlerReturns == mpc = "handler" ~> (mpc # "handler" \/ DiedWithMutex)
=============================================================================
