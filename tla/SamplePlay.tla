----------------------------- MODULE SamplePlay -----------------------------
(***************************************************************************)
(* The playing of samples: vj_perform_increase_sample_frame, which moves   *)
(* the frame on once per rendered frame, the functions of liblavplayvj.c   *)
(* and sampleadm.c that it calls, the sequencer, and the VIMS events that  *)
(* change a sample while it may be playing.                                *)
(*                                                                         *)
(* veejay is in sample mode (the plain mode is in module Playback).  All   *)
(* steps are taken by the playback thread; what makes them hard is that    *)
(* the in and out points, the markers, the speed and the loop type change  *)
(* in any order between two frames, and that the speed is kept twice.      *)
(***************************************************************************)
EXTENDS Integers, FiniteSetsExt

CONSTANTS
  Samples,    \* identifiers of samples; 0 stands for an empty slot
  Total,      \* number of the last frame in the edit list of each sample
  MaxSpeed,   \* MAX_SPEED
  Slots,      \* slots of the sequencer, 0 .. MAX_SEQUENCES - 1
  Loops, Speeds, \* loop types and speeds of the samples when veejay starts
  Programs,   \* contents of the sequencer when veejay starts
  Numbers,    \* frame numbers, speeds and repeats that events carry
  MaxEvents   \* bound: events that are handled

ASSUME SamplesAssumption == Samples \subseteq Nat \ {0}
ASSUME TotalAssumption == Total \in [Samples -> Nat \ {0}]
ASSUME NumbersAssumption ==
  /\ MaxSpeed \in Nat \ {0} /\ MaxEvents \in Nat
  /\ Numbers \subseteq Int /\ Slots \subseteq Nat
  /\ Programs \subseteq [Slots -> Samples \cup {0}]
  /\ Loops \subseteq 0 .. 3 /\ Speeds \subseteq -MaxSpeed .. MaxSpeed

VARIABLES
  player,  \* the playing sample, frame and speed, and the sample bank
  seq,     \* info->seq
  restart, \* settings->sample_restart
  events,  \* number of events so far
  tick     \* settings->cycle_count, modulo 2

vars == <<player, seq, restart, events, tick>>

Once == 0  Normal == 1  PingPong == 2  Random == 3  \* loop types

(* loop_dec only matters as zero or not.                                   *)
Sample == [exists: BOOLEAN, first: Nat, last: Nat \ {0}, mstart: Int, mend: Int,
           speed: -MaxSpeed .. MaxSpeed, loop: 0 .. 3, dup: Nat, dups: Nat,
           resume: Int, loop_dec: {0, 1}]

Player == [id: Samples, frame: Int, speed: -MaxSpeed .. MaxSpeed,
           bank: [Samples -> Sample]]
(* size only matters as zero or not: deleting from a slot leaves it.       *)
Sequencer == [active: BOOLEAN, used: BOOLEAN, current: Nat,
              slot: [Slots -> Samples \cup {0}]]

TypeOK ==
  /\ player \in Player /\ player.frame \in Nat
  /\ seq \in Sequencer
  /\ restart \in BOOLEAN
  /\ events \in 0 .. MaxEvents
  /\ tick \in {0, 1}

(* sample_skeleton_new; sample_load reads the loop type and speed.         *)
NewSample(i, l, v) ==
  [exists |-> TRUE, first |-> 0, last |-> Total[i], mstart |-> 0, mend |-> 0,
   speed |-> v, loop |-> l, dup |-> 0, dups |-> 0, resume |-> 0, loop_dec |-> 0]

(* A sample list was loaded, and one of its samples is played; the         *)
(* sequencer may have been turned on.                                      *)
Init ==
  /\ \E i \in Samples, l \in [Samples -> Loops], v \in [Samples -> Speeds] :
       player = [id |-> i, frame |-> 0, speed |-> v[i],
                 bank |-> [j \in Samples |-> NewSample(j, l[j], v[j])]]
  /\ \E q \in Programs, b \in BOOLEAN :
       seq = [active |-> b, used |-> b \/ \E k \in Slots : q[k] # 0,
              current |-> 0, slot |-> q]
  /\ restart = TRUE
  /\ events = 0
  /\ tick = 0
-----------------------------------------------------------------------------
(* sample_get_short_info: the markers when set, else in and out points.    *)
Marked(s) == s.mstart >= 0 /\ s.mend > 0
In(s) == IF Marked(s) THEN s.mstart ELSE s.first
Out(s) == IF Marked(s) THEN s.mend ELSE s.last

(* sample_get_startFrame, whose test differs, and sample_get_endFrame.     *)
StartFrame(s) == IF s.mstart >= 0 \/ s.mend > 0 THEN s.mstart ELSE s.first
EndFrame(s) == Out(s)

(* Raised to the lower limit, then lowered to the upper one.               *)
Clip(n, lo, hi) == LET m == IF n < lo THEN lo ELSE n
                   IN IF m > hi THEN hi ELSE m

Playing(p) == p.bank[p.id]
WithSample(p, i, s) == [p EXCEPT !.bank[i] = s]

(* Wrong: clipped to the video only.                                       *)
SetFrameOfVideo(p, n) == [p EXCEPT !.frame = Clip(n, 0, Total[p.id])]

(* veejay_set_frame: clipped to the video, then to the in and out points.  *)
SetFrame(p, n) ==
  LET s == Playing(p)
      m == Clip(Clip(n, 0, Total[p.id]), In(s), Out(s))
  IN [WithSample(p, p.id, IF m \in {In(s), Out(s)} THEN [s EXCEPT !.dups = 0] ELSE s)
        EXCEPT !.frame = m]

(* sample_set_speed and veejay_set_speed refuse what is longer than the    *)
(* sample, measured in two ways.                                           *)
FitsSample(s, v) == v <= s.last - s.first /\ -v <= s.last - s.first
FitsMarkers(s, v) == LET len == EndFrame(s) - StartFrame(s)
                     IN IF v < 0 THEN -len <= v ELSE v <= len

SetSpeed(p, n) ==
  LET v == Clip(n, -MaxSpeed, MaxSpeed)
      s == Playing(p)
  IN IF FitsMarkers(s, v) /\ FitsSample(s, v)
     THEN [WithSample(p, p.id, [s EXCEPT !.speed = v]) EXCEPT !.speed = v]
     ELSE p

(* sample_get_resume.                                                      *)
Resume(s) == LET r == Clip(s.resume, s.first, s.last)
             IN IF Marked(s) THEN Clip(r, s.mstart, s.mend) ELSE r

ResumeAt(p) ==
  LET s == Playing(p)
  IN IF restart THEN SetFrame(p, StartFrame(s))
     ELSE SetFrame(WithSample(p, p.id, [s EXCEPT !.resume = Resume(s)]), Resume(s))

(* veejay_start_playing_sample and veejay_stop_playing_sample.             *)
Start(p, i) == SetSpeed(ResumeAt([p EXCEPT !.id = i]), p.bank[i].speed)
WithResume(p) == WithSample(p, p.id, [Playing(p) EXCEPT !.resume = p.frame])
Stop(p) ==
  WithSample(p, p.id, [Playing(p) EXCEPT !.dups = 0, !.resume = p.frame])

(* veejay_change_playback_mode to sample i, veejay_set_sample, and         *)
(* veejay_set_sample_f as the sequencer calls it, with an empty chain.     *)
ChangeTo(p, i) ==
  IF ~p.bank[i].exists THEN p
  ELSE IF i # p.id THEN Start(Stop(p), i)
  ELSE IF restart THEN SetFrame(p, StartFrame(Playing(p))) ELSE p
SetSample(p, i) == IF i = p.id THEN ResumeAt(p) ELSE Start(p, i)
SetSampleF(p, i) ==
  IF i = p.id THEN SetFrame(p, StartFrame(Playing(p))) ELSE ChangeTo(p, i)
-----------------------------------------------------------------------------
(* vj_perform_valid_sequence: the next filled slot, around the end, or     *)
(* none: then the sequencer is turned off.                                 *)
Filled(q) == {k \in Slots : q.slot[k] # 0}

(* Wrong: the search does not go around, and stays with the last slot.     *)
NextSlotNoWrap(q) ==
  LET after == {k \in Filled(q) : k > q.current}
  IN IF after # {} THEN CHOOSE k \in after : \A j \in after : k <= j
                   ELSE CHOOSE k \in Filled(q) : \A j \in Filled(q) : j <= k

NextSlot(q) ==
  LET after == {k \in Filled(q) : k > q.current}
      from == IF after # {} THEN after ELSE Filled(q)
  IN CHOOSE k \in from : \A j \in from : k <= j

SeqPlay(p, q) == [player |-> SetSampleF(p, q.slot[NextSlot(q)]),
                  seq |-> [q EXCEPT !.current = NextSlot(q)]]
Off(q) == [q EXCEPT !.active = FALSE]
Plays(p, q) == [player |-> p, seq |-> q]

(* Wrong: the direction is not reversed.                                   *)
TurnNowhere(p, v, n) == SetFrame(p, n)

(* At the end of a ping-pong: sample_apply_loop_dec, back the other way.   *)
Turn(p, v, n) ==
  SetSpeed(SetFrame(WithSample(p, p.id, [Playing(p) EXCEPT !.loop_dec = 1]), n), -v)

Halt(p, n) == SetSpeed(SetFrame(p, n), 0)

(* A frame beyond the points: "to" is the end that is played up to, "from" *)
(* the one that is jumped back to.  The sequencer goes on to its next      *)
(* sample after each round of a normal loop, every other of a ping-pong.   *)
AtBoundary(p, q, from, to) ==
  LET s == Playing(p) IN
  CASE s.loop = PingPong ->
         IF ~q.active \/ s.loop_dec = 0 THEN Plays(Turn(p, s.speed, to), q)
         ELSE IF Filled(q) = {} THEN Plays(Turn(p, s.speed, to), Off(q))
         ELSE SeqPlay(WithSample(p, p.id, [s EXCEPT !.loop_dec = 0]), q)
    [] s.loop = Normal ->
         IF ~q.active THEN Plays(SetFrame(p, from), q)
         ELSE IF Filled(q) = {} THEN Plays(SetFrame(p, from), Off(q))
         ELSE SeqPlay(p, q)
    [] s.loop = Random -> Plays(SetFrame(p, from), q)
    [] s.loop = Once -> Plays(Halt(p, to), q)

(* Where the frame goes before it is tested: on by the speed that was set  *)
(* last, or anywhere between the points.                                   *)
NextFrames(p, num) ==
  LET s == Playing(p) IN
  IF s.loop = Random THEN (In(s) .. Out(s)) \cup (Out(s) .. In(s))
                     ELSE {p.frame + num}

Beyond(s, f) ==
  \/ f < In(s)
  \/ IF s.speed >= 0 THEN f > Out(s) ELSE f >= Out(s)

(* Wrong: the points are not exchanged when the sample plays in reverse.   *)
AdvancedOneWay(p, q) ==
  LET s == Playing(p) IN
  IF Beyond(s, p.frame) THEN AtBoundary(p, q, In(s), Out(s)) ELSE Plays(p, q)

Advanced(p, q) ==
  LET s == Playing(p) IN
  IF ~Beyond(s, p.frame) THEN Plays(p, q)
  ELSE IF s.speed >= 0 THEN AtBoundary(p, q, In(s), Out(s))
  ELSE AtBoundary(p, q, Out(s), In(s))

(* Frames repeated so far, 0 when the next one is due.                     *)
Repeated(s, num) == LET d == IF num # 0 THEN s.dups + 1 ELSE s.dups
                    IN IF s.dup <= 0 \/ d >= s.dup THEN 0 ELSE d

(* vj_perform_increase_sample_frame.                                       *)
Outcomes(player0, q) ==
  LET s == Playing(player0)
      num == player0.speed
      t == IF s.dup > 0 THEN [s EXCEPT !.dups = Repeated(s, num)] ELSE s
      p == [WithSample(player0, player0.id, t) EXCEPT !.speed = s.speed]
  IN IF num = 0 \/ Repeated(s, num) # 0 THEN {Plays(p, q)}
     ELSE {LET r == Advanced([p EXCEPT !.frame = f], q)
           IN Plays(WithResume(r.player), r.seq) : f \in NextFrames(p, num)}

Advance ==
  /\ \E r \in Outcomes(player, seq) : player' = r.player /\ seq' = r.seq
  /\ tick' = 1 - tick
  /\ UNCHANGED <<restart, events>>
-----------------------------------------------------------------------------
Event == events < MaxEvents /\ events' = events + 1 /\ UNCHANGED tick

Plain(p) == player' = p /\ UNCHANGED <<seq, restart>>
Update(i, s) == Plain(WithSample(player, i, s))
Existing == {i \in Samples : player.bank[i].exists}

(* vj_event_play_speed, and play_stop, play_forward and play_reverse.      *)
PlaySpeed(n) == Event /\ Plain(SetSpeed(player, n))

(* vj_event_set_frame, and the events that skip frames.                    *)
GotoFrame(n) ==
  Event /\ Plain(SetFrame(player, IF n = -1 THEN Total[player.id] ELSE n))

(* vj_event_sample_set_speed: not settings->current_playback_speed.        *)
SampleSpeed(i, n) ==
  /\ Event
  /\ n \in -MaxSpeed .. MaxSpeed /\ FitsSample(player.bank[i], n)
  /\ Update(i, [player.bank[i] EXCEPT !.speed = n])

SampleLoop(i, l) == Event /\ Update(i, [player.bank[i] EXCEPT !.loop = l])

(* vj_event_sample_set_dup.                                                *)
SampleDup(i, n) ==
  /\ Event
  /\ Update(i, [player.bank[i] EXCEPT
                  !.dup = IF n <= 0 THEN 1 ELSE n,
                  !.dups = IF i = player.id THEN 0 ELSE @])

(* vj_event_sample_set_start, sample_set_startframe.                       *)
SampleStart(i, n) ==
  LET s == player.bank[i]
      m == IF n > Total[i] THEN Total[i] ELSE n
  IN /\ Event
     /\ 0 <= n /\ n < EndFrame(s)
     /\ Update(i, [s EXCEPT !.first = IF m >= s.last THEN s.last - 1 ELSE m,
                            !.resume = IF @ < m THEN m ELSE @])

(* vj_event_sample_set_end, sample_set_endframe: compared with the start   *)
(* of the playing sample, whichever is changed.                            *)
SampleEnd(i, n) ==
  LET a == IF n = -1 THEN Total[i] ELSE n
      m == IF a > Total[i] THEN Total[i] ELSE a
  IN /\ Event
     /\ a > 0 /\ a >= StartFrame(Playing(player))
     /\ Update(i, [player.bank[i] EXCEPT !.last = m,
                                         !.resume = IF @ > m THEN m ELSE @])

(* vj_event_sample_set_marker.                                             *)
Marker(i, a, b) ==
  LET s == player.bank[i] IN
  /\ Event
  /\ {a, b} \subseteq s.first .. s.last
  /\ Update(i, [s EXCEPT !.mstart = a, !.mend = b])

(* vj_event_sample_set_marker_start and ..._end: exchanged when the sample *)
(* plays in reverse; the end counts back from the out point.               *)
MarkerStart(i, n) ==
  LET s == player.bank[i] IN
  /\ Event
  /\ Update(i, IF s.speed < 0 THEN [s EXCEPT !.mend = n, !.mstart = s.mend]
                              ELSE [s EXCEPT !.mstart = n])
MarkerEnd(i, n) ==
  LET s == player.bank[i]
      m == s.last - n
  IN /\ Event
     /\ Update(i, IF s.speed < 0 THEN [s EXCEPT !.mstart = m, !.mend = s.mstart]
                                 ELSE [s EXCEPT !.mend = m])
MarkerClear(i) ==
  Event /\ Update(i, [player.bank[i] EXCEPT !.mstart = 0, !.mend = 0])

(* vj_event_sample_select.                                                 *)
Select(i) == Event /\ Plain(ChangeTo(player, i))

(* vj_event_sample_next: with the sequencer on, two samples are selected.  *)
SampleNext ==
  LET dir == IF player.speed < 0 THEN -1 ELSE 1
      k == IF seq.current + dir < 0 THEN 0 ELSE seq.current + dir
      n == IF seq.active /\ k \in Slots THEN seq.slot[k] ELSE 0
      p == IF n \in Existing THEN SetSample(player, n) ELSE player
      d == IF p.speed < 0 THEN -1 ELSE 1
      i == IF p.id + d \in Existing THEN p.id + d ELSE p.id
  IN Event /\ Plain(SetSample(p, i))

(* Wrong: the sequencer keeps the sample.                                  *)
DeleteFromBank(i) ==
  /\ Event
  /\ i # player.id
  /\ Update(i, [player.bank[i] EXCEPT !.exists = FALSE])

(* vj_event_sample_del, and vj_event_sample_new with the whole edit list.  *)
Delete(i) ==
  /\ Event
  /\ i # player.id
  /\ player' = WithSample(player, i, [player.bank[i] EXCEPT !.exists = FALSE])
  /\ seq' = [seq EXCEPT !.slot = [k \in Slots |-> IF @[k] = i THEN 0 ELSE @[k]]]
  /\ UNCHANGED restart
Create(i) ==
  /\ Event
  /\ i \notin Existing
  /\ Update(i, NewSample(i, Normal, 1))

(* The events of the sequencer and of continuous mode.                     *)
SeqAdd(k, i) ==
  /\ Event
  /\ seq' = [seq EXCEPT !.slot[k] = i, !.used = TRUE]
  /\ UNCHANGED <<player, restart>>
SeqDel(k) ==
  Event /\ seq' = [seq EXCEPT !.slot[k] = 0] /\ UNCHANGED <<player, restart>>
SeqActive(b) ==
  /\ Event
  /\ seq.used
  /\ seq' = [seq EXCEPT !.active = b, !.current = IF b THEN @ ELSE 0]
  /\ UNCHANGED <<player, restart>>
PlayNoRestart(b) == Event /\ restart' = b /\ UNCHANGED <<player, seq>>

SampleEvent(i) ==
  \/ \E n \in Numbers : SampleSpeed(i, n) \/ SampleDup(i, n) \/ SampleStart(i, n)
                        \/ SampleEnd(i, n) \/ MarkerStart(i, n) \/ MarkerEnd(i, n)
  \/ \E l \in 0 .. 3 : SampleLoop(i, l)
  \/ \E a, b \in Numbers : Marker(i, a, b)
  \/ MarkerClear(i)
  \/ Delete(i)
  \/ Select(i)
  \/ \E k \in Slots : SeqAdd(k, i)
PlayerEvent ==
  \/ \E n \in Numbers : PlaySpeed(n) \/ GotoFrame(n)
  \/ SampleNext
  \/ \E k \in Slots : SeqDel(k)
  \/ \E b \in BOOLEAN : SeqActive(b) \/ PlayNoRestart(b)

Next == Advance \/ PlayerEvent \/ (\E i \in Existing : SampleEvent(i))
        \/ (\E i \in Samples : Create(i))

Spec == Init /\ [][Next]_vars

(* The playback thread renders frame after frame: what module Playback     *)
(* shows of the engine (FramesFlow).                                       *)
FairSpec == Spec /\ []<><<tick' # tick>>_tick
-----------------------------------------------------------------------------
(* What the sequencer and the engine will play next is in the bank: no     *)
(* order of deleting, adding, selecting and sequencing leaves them with a  *)
(* sample that is gone.                                                    *)
SamplesExist ==
  /\ player.id \in Existing
  /\ \A k \in Filled(seq) : seq.slot[k] \in Existing

Sound(i, s) == 0 <= In(s) /\ In(s) <= Out(s) /\ Out(s) <= Total[i]

(* However the points, the markers, the speeds and the sequencer were      *)
(* changed before, a frame that is moved by playing lands between the      *)
(* points of the sample that is then played.                               *)
StaysInside ==
  [][tick' # tick /\ player'.frame # player.frame
       => LET s == player'.bank[player'.id]
          IN Sound(player'.id, s) => player'.frame \in In(s) .. Out(s)]_vars

Now == Playing(player)
Alone(l) == ~seq.active /\ Now.loop = l /\ Sound(player.id, Now)
AtIn == player.frame = In(Now)
AtOut == player.frame = Out(Now)

(* "1 = normal loop": a looping sample that is not paused comes back to    *)
(* the point it starts from, again and again, in either direction.         *)
NormalLoops ==
  /\ <>[](Alone(Normal) /\ Now.speed > 0) => []<>AtIn
  /\ <>[](Alone(Normal) /\ Now.speed < 0) => []<>AtOut

(* The speed can be reversed at either point.                              *)
CanTurn(s) ==
  /\ s.speed # 0
  /\ \A v \in {s.speed, -s.speed} : FitsMarkers(s, v) /\ FitsSample(s, v)

(* "2 = pingpong (bounce) loop": it gets to both points again and again.   *)
PingPongBounces ==
  <>[](Alone(PingPong) /\ CanTurn(Now)) => []<>AtIn /\ []<>AtOut

(* The sequencer, left alone with samples that move and end, plays the     *)
(* sample of every slot again and again.                                   *)
Moving(i) == LET s == player.bank[i] IN
  /\ s.speed # 0 /\ s.loop \in {Normal, PingPong} /\ Sound(i, s)
  /\ s.loop = PingPong => CanTurn(s)
SequenceGoesOn == \A i \in Samples :
  <>[](/\ seq.active
       /\ \A j \in Existing : Moving(j)
       /\ \E k \in Slots : seq.slot[k] = i) => []<>(player.id = i)
=============================================================================
