-------------------------- MODULE SamplePlayProofs --------------------------
(***************************************************************************)
(* Proofs about the playing of samples, for any number of samples, slots   *)
(* and events, and videos of any length.                                   *)
(*                                                                         *)
(* The functions of the code that change the player are treated one by     *)
(* one: each keeps the type of the player and the points and markers of    *)
(* all samples (SamePoints), and those that set the frame leave it inside  *)
(* the points of the sample that plays (Inside).                           *)
(***************************************************************************)
EXTENDS SamplePlay, WellFoundedInduction, TLAPS

SamePoints(p, q) == \A i \in Samples :
  /\ q.bank[i].exists = p.bank[i].exists
  /\ q.bank[i].first = p.bank[i].first /\ q.bank[i].last = p.bank[i].last
  /\ q.bank[i].mstart = p.bank[i].mstart /\ q.bank[i].mend = p.bank[i].mend

Inside(p) ==
  /\ p.frame \in Nat
  /\ Sound(p.id, Playing(p)) => p.frame \in In(Playing(p)) .. Out(Playing(p))

(* What every function of the code does to the player.                     *)
Keeps(p, q) == q \in Player /\ SamePoints(p, q)

(* Clip returns one of its arguments, and respects limits that are ordered. *)
LEMMA ClipFact ==
  ASSUME NEW n \in Int, NEW lo \in Int, NEW hi \in Int
  PROVE  /\ Clip(n, lo, hi) \in Int
         /\ lo <= hi => Clip(n, lo, hi) \in lo .. hi
         /\ lo >= 0 /\ hi >= 0 => Clip(n, lo, hi) >= 0
  BY DEF Clip

(* The points that count are numbers of frames whatever the markers are.   *)
LEMMA PointsFact ==
  ASSUME NEW s \in Sample
  PROVE  In(s) \in Nat /\ Out(s) \in Nat /\ StartFrame(s) \in Int
  BY DEF Sample, In, Out, Marked, StartFrame

(* The points are the same for samples that agree on them.                 *)
LEMMA SameInOut ==
  ASSUME NEW p, NEW q, SamePoints(p, q), NEW i \in Samples
  PROVE  /\ In(q.bank[i]) = In(p.bank[i]) /\ Out(q.bank[i]) = Out(p.bank[i])
         /\ Sound(i, q.bank[i]) = Sound(i, p.bank[i])
  BY DEF SamePoints, In, Out, Marked, Sound

(* Points that are kept by each of two steps are kept by both.             *)
LEMMA SameTransitive ==
  ASSUME NEW p, NEW q, NEW r, SamePoints(p, q), SamePoints(q, r)
  PROVE  SamePoints(p, r)
  BY DEF SamePoints

(* Replacing a sample by one with the same points.                         *)
LEMMA WithSampleFact ==
  ASSUME NEW p \in Player, NEW i \in Samples, NEW s \in Sample
  PROVE  /\ WithSample(p, i, s) \in Player
         /\ WithSample(p, i, s).id = p.id /\ WithSample(p, i, s).frame = p.frame
         /\ WithSample(p, i, s).speed = p.speed
         /\ WithSample(p, i, s).bank = [p.bank EXCEPT ![i] = s]
  BY DEF Player, WithSample

(* veejay_set_frame leaves the frame inside, and nothing else changes.     *)
LEMMA SetFrameFact ==
  ASSUME NEW p \in Player, NEW n \in Int
  PROVE  /\ Keeps(p, SetFrame(p, n))
         /\ SetFrame(p, n).id = p.id
         /\ Inside(SetFrame(p, n))
<1> DEFINE s == Playing(p)
           m == Clip(Clip(n, 0, Total[p.id]), In(s), Out(s))
           t == IF m \in {In(s), Out(s)} THEN [s EXCEPT !.dups = 0] ELSE s
           w == WithSample(p, p.id, t)
<1>1. s \in Sample /\ p.id \in Samples
  BY DEF Player, Playing
<1>2. In(s) \in Nat /\ Out(s) \in Nat
  BY <1>1, PointsFact
<1>3. Clip(n, 0, Total[p.id]) \in Int
  <2>1. Total[p.id] \in Int
    BY <1>1, TotalAssumption
  <2> QED BY <2>1 DEF Clip
<1>4. m \in Nat /\ (In(s) <= Out(s) => m \in In(s) .. Out(s))
  <2> HIDE DEF s
  <2> DEFINE c == Clip(n, 0, Total[p.id])
  <2>1. c \in Int
    BY <1>3
  <2> HIDE DEF c
  <2>2. LET k == Clip(c, In(s), Out(s))
        IN k \in Nat /\ (In(s) <= Out(s) => k \in In(s) .. Out(s))
    BY <1>2, <2>1 DEF Clip
  <2> QED BY <2>2 DEF c
<1>5. t \in Sample /\ t.first = s.first /\ t.last = s.last /\ t.exists = s.exists
      /\ t.mstart = s.mstart /\ t.mend = s.mend
  BY <1>1 DEF Sample
<1>6. w \in Player /\ w.id = p.id /\ w.bank = [p.bank EXCEPT ![p.id] = t]
  BY <1>1, <1>5, WithSampleFact
<1>7. SetFrame(p, n) = [w EXCEPT !.frame = m]
  BY DEF SetFrame
<1> HIDE DEF m, t, w
<1>8. SetFrame(p, n) \in Player /\ SetFrame(p, n).id = p.id
      /\ SetFrame(p, n).bank = w.bank /\ SetFrame(p, n).frame = m
  BY <1>4, <1>6, <1>7 DEF Player
<1>9. SamePoints(p, SetFrame(p, n))
  BY <1>1, <1>5, <1>6, <1>8 DEF SamePoints, Player, Playing
<1>10. Inside(SetFrame(p, n))
  <2>1. In(Playing(SetFrame(p, n))) = In(s) /\ Out(Playing(SetFrame(p, n))) = Out(s)
    BY <1>1, <1>8, <1>9, SameInOut DEF Playing
  <2> QED BY <1>4, <1>8, <2>1 DEF Inside, Sound
<1> QED BY <1>8, <1>9, <1>10 DEF Keeps

(* veejay_set_speed moves no frame.                                        *)
LEMMA SetSpeedFact ==
  ASSUME NEW p \in Player, NEW n \in Int
  PROVE  /\ Keeps(p, SetSpeed(p, n))
         /\ SetSpeed(p, n).id = p.id /\ SetSpeed(p, n).frame = p.frame
<1> DEFINE v == Clip(n, -MaxSpeed, MaxSpeed)
           s == Playing(p)
           t == [s EXCEPT !.speed = v]
           w == WithSample(p, p.id, t)
<1>1. s \in Sample /\ p.id \in Samples
  BY DEF Player, Playing
<1>2. v \in -MaxSpeed .. MaxSpeed
  BY ClipFact, NumbersAssumption
<1>3. t \in Sample /\ t.first = s.first /\ t.last = s.last /\ t.exists = s.exists
      /\ t.mstart = s.mstart /\ t.mend = s.mend
  BY <1>1, <1>2 DEF Sample
<1>4. w \in Player /\ w.id = p.id /\ w.frame = p.frame
      /\ w.bank = [p.bank EXCEPT ![p.id] = t]
  BY <1>1, <1>3, WithSampleFact
<1>5. SetSpeed(p, n) \in {[w EXCEPT !.speed = v], p}
  BY DEF SetSpeed
<1> HIDE DEF v, t, w
<1>6. CASE SetSpeed(p, n) = p
  BY <1>6 DEF Keeps, SamePoints
<1>7. CASE SetSpeed(p, n) = [w EXCEPT !.speed = v]
  <2>1. SetSpeed(p, n) \in Player /\ SetSpeed(p, n).id = p.id
        /\ SetSpeed(p, n).frame = p.frame /\ SetSpeed(p, n).bank = w.bank
    BY <1>2, <1>4, <1>7 DEF Player
  <2>2. SamePoints(p, SetSpeed(p, n))
    BY <1>1, <1>3, <1>4, <2>1 DEF SamePoints, Player, Playing
  <2> QED BY <2>1, <2>2 DEF Keeps
<1> QED BY <1>5, <1>6, <1>7

(* So it leaves a frame that is inside where it is.                        *)
LEMMA InsideKept ==
  ASSUME NEW p \in Player, NEW q \in Player, SamePoints(p, q),
         q.id = p.id, q.frame = p.frame, Inside(p)
  PROVE  Inside(q)
<1>1. p.id \in Samples
  BY DEF Player
<1>2. /\ In(q.bank[p.id]) = In(p.bank[p.id]) /\ Out(q.bank[p.id]) = Out(p.bank[p.id])
      /\ Sound(p.id, q.bank[p.id]) = Sound(p.id, p.bank[p.id])
  BY <1>1, SameInOut
<1> QED BY <1>2 DEF Inside, Playing

(* A change of anything but the points and the existence of one sample.    *)
LEMMA UpdateFact ==
  ASSUME NEW p \in Player, NEW i \in Samples, NEW s \in Sample,
         s.exists = p.bank[i].exists, s.first = p.bank[i].first,
         s.last = p.bank[i].last, s.mstart = p.bank[i].mstart,
         s.mend = p.bank[i].mend
  PROVE  Keeps(p, WithSample(p, i, s))
<1>1. WithSample(p, i, s) \in Player
      /\ WithSample(p, i, s).bank = [p.bank EXCEPT ![i] = s]
  BY WithSampleFact
<1>2. SamePoints(p, WithSample(p, i, s))
  BY <1>1 DEF SamePoints, Player
<1> QED BY <1>1, <1>2 DEF Keeps

(* veejay_sample_resume_at sets a frame, in either mode.                   *)
LEMMA ResumeAtFact ==
  ASSUME NEW p \in Player
  PROVE  /\ Keeps(p, ResumeAt(p))
         /\ ResumeAt(p).id = p.id
         /\ Inside(ResumeAt(p))
<1> DEFINE s == Playing(p)
           t == [s EXCEPT !.resume = Resume(s)]
           w == WithSample(p, p.id, t)
<1>1. s \in Sample /\ p.id \in Samples
  BY DEF Player, Playing
<1>2. CASE restart
  <2>1. StartFrame(s) \in Int
    BY <1>1, PointsFact
  <2>2. ResumeAt(p) = SetFrame(p, StartFrame(s))
    BY <1>2 DEF ResumeAt
  <2> QED BY <2>1, <2>2, SetFrameFact
<1>3. CASE ~restart
  <2>1. Resume(s) \in Int
    BY <1>1 DEF Sample, Resume, Clip, Marked
  <2>2. t \in Sample /\ t.first = s.first /\ t.last = s.last /\ t.exists = s.exists
        /\ t.mstart = s.mstart /\ t.mend = s.mend
    BY <1>1, <2>1 DEF Sample
  <2>3. w \in Player /\ w.id = p.id /\ Keeps(p, w)
    BY <1>1, <2>2, WithSampleFact, UpdateFact DEF Playing, Keeps
  <2>4. ResumeAt(p) = SetFrame(w, Resume(s))
    BY <1>3 DEF ResumeAt
  <2> HIDE DEF w
  <2>5. Keeps(w, ResumeAt(p)) /\ ResumeAt(p).id = p.id /\ Inside(ResumeAt(p))
    BY <2>1, <2>3, <2>4, SetFrameFact
  <2> QED BY <2>3, <2>5, SameTransitive DEF Keeps
<1> QED BY <1>2, <1>3

(* veejay_start_playing_sample plays the sample, inside its points.        *)
LEMMA StartFact ==
  ASSUME NEW p \in Player, NEW i \in Samples
  PROVE  Keeps(p, Start(p, i)) /\ Start(p, i).id = i /\ Inside(Start(p, i))
<1> DEFINE o == [p EXCEPT !.id = i]
           r == ResumeAt(o)
<1>1. o \in Player /\ o.id = i /\ Keeps(p, o)
  BY DEF Player, Keeps, SamePoints
<1>2. p.bank[i].speed \in Int
  BY NumbersAssumption DEF Player, Sample
<1> HIDE DEF o
<1>3. Keeps(o, r) /\ r.id = i /\ Inside(r)
  BY <1>1, ResumeAtFact
<1>4. Start(p, i) = SetSpeed(r, p.bank[i].speed)
  BY DEF Start, o
<1> HIDE DEF r
<1>5. Keeps(r, Start(p, i)) /\ Start(p, i).id = i /\ Start(p, i).frame = r.frame
  BY <1>2, <1>3, <1>4, SetSpeedFact DEF Keeps
<1>6. Inside(Start(p, i))
  BY <1>3, <1>5, InsideKept DEF Keeps
<1> QED BY <1>1, <1>3, <1>5, <1>6, SameTransitive DEF Keeps

(* veejay_stop_playing_sample notes the frame and moves nothing.           *)
LEMMA StopFact ==
  ASSUME NEW p \in Player
  PROVE  Keeps(p, Stop(p)) /\ Stop(p).id = p.id
<1> DEFINE s == [Playing(p) EXCEPT !.dups = 0, !.resume = p.frame]
<1>1. p.id \in Samples /\ Playing(p) \in Sample /\ Playing(p) = p.bank[p.id]
      /\ p.frame \in Int
  BY DEF Player, Playing
<1>2. s \in Sample /\ s.first = p.bank[p.id].first /\ s.last = p.bank[p.id].last
      /\ s.exists = p.bank[p.id].exists /\ s.mstart = p.bank[p.id].mstart
      /\ s.mend = p.bank[p.id].mend
  BY <1>1 DEF Sample
<1>3. Stop(p) = WithSample(p, p.id, s)
  BY DEF Stop
<1> HIDE DEF s
<1>4. Keeps(p, WithSample(p, p.id, s))
  BY <1>1, <1>2, UpdateFact
<1>5. WithSample(p, p.id, s).id = p.id
  BY <1>1, <1>2, WithSampleFact
<1> QED BY <1>3, <1>4, <1>5

(* What plays after a change of sample exists if it did before.            *)
LEMMA ChangeToFact ==
  ASSUME NEW p \in Player, NEW i \in Samples
  PROVE  /\ Keeps(p, ChangeTo(p, i))
         /\ ChangeTo(p, i).id \in {p.id} \cup {j \in {i} : p.bank[j].exists}
         /\ p.bank[i].exists /\ i # p.id => Inside(ChangeTo(p, i))
         /\ Inside(ChangeTo(p, i)) \/ ChangeTo(p, i) = p
<1>1. CASE ~p.bank[i].exists
  BY <1>1 DEF ChangeTo, Keeps, SamePoints
<1>2. CASE p.bank[i].exists /\ i # p.id
  <2>1. Stop(p) \in Player /\ Keeps(p, Stop(p))
    BY StopFact DEF Keeps
  <2>2. ChangeTo(p, i) = Start(Stop(p), i)
    BY <1>2 DEF ChangeTo
  <2>3. Keeps(Stop(p), ChangeTo(p, i)) /\ ChangeTo(p, i).id = i
        /\ Inside(ChangeTo(p, i))
    BY <2>1, <2>2, StartFact
  <2> QED BY <1>2, <2>1, <2>3, SameTransitive DEF Keeps
<1>3. CASE p.bank[i].exists /\ i = p.id
  <2>1. StartFrame(Playing(p)) \in Int
    BY PointsFact DEF Player, Playing
  <2>2. ChangeTo(p, i) \in {SetFrame(p, StartFrame(Playing(p))), p}
    BY <1>3 DEF ChangeTo
  <2>3. Keeps(p, p)
    BY DEF Keeps, SamePoints
  <2> QED BY <1>3, <2>1, <2>2, <2>3, SetFrameFact
<1> QED BY <1>1, <1>2, <1>3

(* veejay_set_sample always sets a frame of the sample it is given.        *)
LEMMA SetSampleFact ==
  ASSUME NEW p \in Player, NEW i \in Samples
  PROVE  /\ Keeps(p, SetSample(p, i)) /\ SetSample(p, i).id = i
         /\ Inside(SetSample(p, i))
  BY ResumeAtFact, StartFact DEF SetSample

(* And veejay_set_sample_f does for a sample that exists.                  *)
LEMMA SetSampleFFact ==
  ASSUME NEW p \in Player, NEW i \in Samples, p.bank[i].exists
  PROVE  /\ Keeps(p, SetSampleF(p, i))
         /\ SetSampleF(p, i).id \in {p.id, i}
         /\ Inside(SetSampleF(p, i))
<1>1. CASE i = p.id
  <2>1. StartFrame(Playing(p)) \in Int
    BY PointsFact DEF Player, Playing
  <2> QED BY <1>1, <2>1, SetFrameFact DEF SetSampleF
<1>2. CASE i # p.id
  BY <1>2, ChangeToFact DEF SetSampleF
<1> QED BY <1>1, <1>2

(* The sequencer's search ends at a filled slot when there is one.         *)
LEMMA NextSlotFact ==
  ASSUME NEW q \in Sequencer, Filled(q) # {}
  PROVE  NextSlot(q) \in Filled(q)
<1> DEFINE after == {k \in Filled(q) : k > q.current}
           from == IF after # {} THEN after ELSE Filled(q)
<1>1. from # {} /\ from \subseteq Filled(q) /\ from \subseteq Nat
  BY NumbersAssumption DEF Filled
<1> HIDE DEF from
<1>2. PICK k \in from : \A j \in from : ~ (<<j, k>> \in OpToRel(<, Nat))
  BY <1>1, NatLessThanWellFounded, WFMin
<1>3. \A j \in from : k <= j
  <2> SUFFICES ASSUME NEW j \in from, j < k
               PROVE  FALSE
    BY <1>1
  <2>1. <<j, k>> \in {ss \in Nat \X Nat : ss[1] < ss[2]}
    BY <1>1
  <2> QED BY <1>2, <2>1 DEF OpToRel
<1>4. (CHOOSE i \in from : \A j \in from : i <= j) \in from
  BY <1>3
<1>5. NextSlot(q) = CHOOSE i \in from : \A j \in from : i <= j
  BY DEF NextSlot, from
<1> QED BY <1>1, <1>4, <1>5

SlotsExist(p, q) == \A k \in Filled(q) : p.bank[q.slot[k]].exists

(* What a boundary leaves: the types and points as they were, the slots as *)
(* they were, a sample that exists, and the frame inside its points.       *)
Lands(p, q, r) ==
  /\ Keeps(p, r.player) /\ Inside(r.player)
  /\ r.seq \in Sequencer /\ r.seq.slot = q.slot
  /\ r.player.id = p.id \/ p.bank[r.player.id].exists

(* The sequencer's step lands in the sample of the next filled slot.       *)
LEMMA SeqPlayFact ==
  ASSUME NEW p \in Player, NEW q \in Sequencer, Filled(q) # {}, SlotsExist(p, q)
  PROVE  Lands(p, q, SeqPlay(p, q))
<1> DEFINE k == NextSlot(q)
           i == q.slot[k]
<1>1. k \in Filled(q)
  BY NextSlotFact
<1>2. k \in Slots /\ k \in Nat /\ i \in Samples /\ p.bank[i].exists
  BY <1>1, NumbersAssumption DEF Filled, SlotsExist, Sequencer
<1>3. SeqPlay(p, q) = [player |-> SetSampleF(p, i), seq |-> [q EXCEPT !.current = k]]
  BY DEF SeqPlay
<1> HIDE DEF k, i
<1>4. Keeps(p, SetSampleF(p, i)) /\ SetSampleF(p, i).id \in {p.id, i}
      /\ Inside(SetSampleF(p, i))
  BY <1>2, SetSampleFFact
<1>5. [q EXCEPT !.current = k] \in Sequencer /\ [q EXCEPT !.current = k].slot = q.slot
  BY <1>2 DEF Sequencer
<1>6. SeqPlay(p, q).player = SetSampleF(p, i)
      /\ SeqPlay(p, q).seq = [q EXCEPT !.current = k]
  BY <1>3
<1> QED BY <1>2, <1>4, <1>5, <1>6 DEF Lands

(* The ends of a ping-pong and of a sample that is played once.            *)
LEMMA TurnFact ==
  ASSUME NEW p \in Player, NEW v \in Int, NEW n \in Int
  PROVE  /\ Keeps(p, Turn(p, v, n)) /\ Turn(p, v, n).id = p.id
         /\ Inside(Turn(p, v, n))
<1> DEFINE s == [Playing(p) EXCEPT !.loop_dec = 1]
           w == WithSample(p, p.id, s)
           f == SetFrame(w, n)
<1>1. p.id \in Samples /\ Playing(p) \in Sample /\ Playing(p) = p.bank[p.id]
  BY DEF Player, Playing
<1>2. s \in Sample /\ s.first = p.bank[p.id].first /\ s.last = p.bank[p.id].last
      /\ s.exists = p.bank[p.id].exists /\ s.mstart = p.bank[p.id].mstart
      /\ s.mend = p.bank[p.id].mend
  BY <1>1 DEF Sample
<1>3. Turn(p, v, n) = SetSpeed(f, -v)
  BY DEF Turn
<1> HIDE DEF s
<1>4. Keeps(p, w) /\ w.id = p.id
  BY <1>1, <1>2, UpdateFact, WithSampleFact
<1> HIDE DEF w
<1>5. Keeps(w, f) /\ f.id = p.id /\ Inside(f)
  BY <1>4, SetFrameFact DEF Keeps
<1> HIDE DEF f
<1>6. Keeps(f, Turn(p, v, n)) /\ Turn(p, v, n).id = p.id
      /\ Turn(p, v, n).frame = f.frame
  BY <1>3, <1>5, SetSpeedFact DEF Keeps
<1>7. Inside(Turn(p, v, n))
  BY <1>5, <1>6, InsideKept DEF Keeps
<1> QED BY <1>4, <1>5, <1>6, <1>7, SameTransitive DEF Keeps

(* Paused at the end of a sample that is played once.                      *)
LEMMA HaltFact ==
  ASSUME NEW p \in Player, NEW n \in Int
  PROVE  Keeps(p, Halt(p, n)) /\ Halt(p, n).id = p.id /\ Inside(Halt(p, n))
<1> DEFINE f == SetFrame(p, n)
<1>1. Keeps(p, f) /\ f.id = p.id /\ Inside(f)
  BY SetFrameFact
<1>2. Halt(p, n) = SetSpeed(f, 0)
  BY DEF Halt
<1> HIDE DEF f
<1>3. Keeps(f, Halt(p, n)) /\ Halt(p, n).id = p.id /\ Halt(p, n).frame = f.frame
  BY <1>1, <1>2, SetSpeedFact DEF Keeps
<1>4. Inside(Halt(p, n))
  BY <1>1, <1>3, InsideKept DEF Keeps
<1> QED BY <1>1, <1>3, <1>4, SameTransitive DEF Keeps

(* What happens beyond the points, by the loop type of the sample.         *)
LEMMA AtBoundaryFact ==
  ASSUME NEW p \in Player, NEW q \in Sequencer, SlotsExist(p, q),
         NEW from \in Int, NEW to \in Int
  PROVE  Lands(p, q, AtBoundary(p, q, from, to))
<1> DEFINE s == Playing(p)
           w == WithSample(p, p.id, [s EXCEPT !.loop_dec = 0])
           b == AtBoundary(p, q, from, to)
<1>1. s \in Sample /\ p.id \in Samples /\ s = p.bank[p.id] /\ s.speed \in Int
  BY NumbersAssumption DEF Player, Playing, Sample
<1>2. Off(q) \in Sequencer /\ Off(q).slot = q.slot
  BY DEF Sequencer, Off
<1>3. ASSUME NEW r \in Player, Keeps(p, r), r.id = p.id, Inside(r)
      PROVE  Lands(p, q, Plays(r, q)) /\ Lands(p, q, Plays(r, Off(q)))
  BY <1>2, <1>3 DEF Lands, Plays
<1>4. CASE s.loop = PingPong
  <2>1. Keeps(p, Turn(p, s.speed, to)) /\ Turn(p, s.speed, to).id = p.id
        /\ Inside(Turn(p, s.speed, to))
    BY <1>1, TurnFact
  <2>2. CASE ~q.active \/ s.loop_dec = 0 \/ Filled(q) = {}
    <3>1. b \in {Plays(Turn(p, s.speed, to), q), Plays(Turn(p, s.speed, to), Off(q))}
      BY <1>4, <2>2 DEF AtBoundary, PingPong, Normal, Random, Once
    <3> QED BY <1>3, <2>1, <3>1 DEF Keeps
  <2>3. CASE ~(~q.active \/ s.loop_dec = 0 \/ Filled(q) = {})
    <3>1. b = SeqPlay(w, q)
      BY <1>4, <2>3 DEF AtBoundary, PingPong, Normal, Random, Once
    <3>2. [s EXCEPT !.loop_dec = 0] \in Sample
      BY <1>1 DEF Sample
    <3>3. Keeps(p, w)
      BY <1>1, <3>2, UpdateFact DEF Sample
    <3>4. w.id = p.id
      BY <1>1, <3>2, WithSampleFact
    <3> HIDE DEF w
    <3>5. SlotsExist(w, q)
      BY <3>3 DEF Keeps, SamePoints, SlotsExist, Filled, Sequencer
    <3>6. Lands(w, q, b)
      BY <2>3, <3>1, <3>3, <3>5, SeqPlayFact DEF Keeps
    <3>7. b.player.id \in Samples
      BY <3>6 DEF Lands, Keeps, Player
    <3> QED
      BY <3>3, <3>4, <3>6, <3>7, SameTransitive DEF Lands, Keeps, SamePoints
  <2> QED BY <2>2, <2>3
<1>5. CASE s.loop \in {Normal, Random}
  <2>1. Keeps(p, SetFrame(p, from)) /\ SetFrame(p, from).id = p.id
        /\ Inside(SetFrame(p, from))
    BY SetFrameFact
  <2>2. b \in {Plays(SetFrame(p, from), q), Plays(SetFrame(p, from), Off(q))}
        \/ (b = SeqPlay(p, q) /\ Filled(q) # {})
    BY <1>5 DEF AtBoundary, PingPong, Normal, Random, Once
  <2> QED BY <1>3, <2>1, <2>2, SeqPlayFact DEF Keeps
<1>6. CASE s.loop = Once
  <2>1. b = Plays(Halt(p, to), q)
    BY <1>6 DEF AtBoundary, PingPong, Normal, Random, Once
  <2> QED BY <1>3, <2>1, HaltFact DEF Keeps
<1> QED BY <1>1, <1>4, <1>5, <1>6 DEF Sample, PingPong, Normal, Random, Once

(* A frame within the points stays, and lies inside.                       *)
LEMMA AdvancedFact ==
  ASSUME NEW p \in Player, NEW q \in Sequencer, SlotsExist(p, q)
  PROVE  Lands(p, q, Advanced(p, q))
<1> DEFINE s == Playing(p)
<1>1. s \in Sample /\ In(s) \in Nat /\ Out(s) \in Nat /\ p.frame \in Int
      /\ s.speed \in Int
  BY PointsFact, NumbersAssumption DEF Player, Playing, Sample
<1>2. CASE Beyond(s, p.frame)
  <2>1. Advanced(p, q) \in {AtBoundary(p, q, In(s), Out(s)),
                            AtBoundary(p, q, Out(s), In(s))}
    BY <1>2 DEF Advanced
  <2> QED BY <1>1, <2>1, AtBoundaryFact
<1>3. CASE ~Beyond(s, p.frame)
  <2>1. Advanced(p, q) = Plays(p, q)
    BY <1>3 DEF Advanced
  <2>2. p.frame \in In(s) .. Out(s)
    BY <1>1, <1>3 DEF Beyond
  <2>3. Inside(p)
    BY <1>1, <2>2 DEF Inside
  <2> QED BY <2>1, <2>3 DEF Lands, Plays, Keeps, SamePoints
<1> QED BY <1>2, <1>3

(* Where the sample resumes is noted, which moves nothing.                 *)
LEMMA WithResumeFact ==
  ASSUME NEW p \in Player, Inside(p)
  PROVE  /\ Keeps(p, WithResume(p)) /\ WithResume(p).id = p.id
         /\ Inside(WithResume(p))
<1> DEFINE s == [Playing(p) EXCEPT !.resume = p.frame]
<1>1. p.id \in Samples /\ Playing(p) \in Sample /\ Playing(p) = p.bank[p.id]
      /\ p.frame \in Int
  BY DEF Player, Playing
<1>2. s \in Sample /\ s.first = p.bank[p.id].first /\ s.last = p.bank[p.id].last
      /\ s.exists = p.bank[p.id].exists /\ s.mstart = p.bank[p.id].mstart
      /\ s.mend = p.bank[p.id].mend
  BY <1>1 DEF Sample
<1>3. WithResume(p) = WithSample(p, p.id, s)
  BY DEF WithResume
<1> HIDE DEF s
<1>4. Keeps(p, WithSample(p, p.id, s))
  BY <1>1, <1>2, UpdateFact
<1>5. WithSample(p, p.id, s).id = p.id /\ WithSample(p, p.id, s).frame = p.frame
  BY <1>1, <1>2, WithSampleFact
<1> QED BY <1>3, <1>4, <1>5, InsideKept DEF Keeps

(* The whole of vj_perform_increase_sample_frame.                          *)
LEMMA OutcomesFact ==
  ASSUME NEW p0 \in Player, p0.frame \in Nat, NEW q \in Sequencer,
         SlotsExist(p0, q), NEW o \in Outcomes(p0, q)
  PROVE  /\ Keeps(p0, o.player)
         /\ o.player.frame = p0.frame \/ Inside(o.player)
         /\ o.seq \in Sequencer /\ o.seq.slot = q.slot
         /\ o.player.id = p0.id \/ p0.bank[o.player.id].exists
<1> DEFINE s == Playing(p0)
           num == p0.speed
           t == IF s.dup > 0 THEN [s EXCEPT !.dups = Repeated(s, num)] ELSE s
           w == WithSample(p0, p0.id, t)
           p == [w EXCEPT !.speed = s.speed]
           at(f) == [p EXCEPT !.frame = f]
           r(f) == Advanced(at(f), q)
           done(f) == Plays(WithResume(r(f).player), r(f).seq)
<1>1. s \in Sample /\ p0.id \in Samples /\ s = p0.bank[p0.id] /\ num \in Int
      /\ p0.frame \in Int
  BY NumbersAssumption DEF Player, Playing
<1>2. t \in Sample /\ t.first = s.first /\ t.last = s.last /\ t.exists = s.exists
      /\ t.mstart = s.mstart /\ t.mend = s.mend
  BY <1>1 DEF Sample, Repeated
<1>3. w \in Player /\ Keeps(p0, w) /\ w.id = p0.id /\ w.frame = p0.frame
  <2> HIDE DEF t
  <2> QED BY <1>1, <1>2, UpdateFact, WithSampleFact
<1>4. s.speed \in -MaxSpeed .. MaxSpeed
  BY <1>1 DEF Sample
<1>5. p \in Player /\ Keeps(p0, p) /\ p.id = p0.id /\ p.frame = p0.frame
  <2> HIDE DEF w
  <2> QED BY <1>3, <1>4 DEF Player, Keeps, SamePoints
<1>6. NextFrames(p, num) \subseteq Int
  <2>1. Playing(p) \in Sample /\ p.frame \in Int
    BY <1>5 DEF Player, Playing
  <2>2. In(Playing(p)) \in Nat /\ Out(Playing(p)) \in Nat
    BY <2>1, PointsFact
  <2> HIDE DEF p
  <2> QED BY <1>1, <2>1, <2>2 DEF NextFrames
<1>7. o = Plays(p, q) \/ \E f \in NextFrames(p, num) : o = done(f)
  BY DEF Outcomes
<1> HIDE DEF p
<1>8. CASE o = Plays(p, q)
  BY <1>5, <1>8 DEF Plays
<1>9. ASSUME NEW f \in NextFrames(p, num), o = done(f)
      PROVE  /\ Keeps(p0, o.player) /\ Inside(o.player)
             /\ o.seq \in Sequencer /\ o.seq.slot = q.slot
             /\ o.player.id = p0.id \/ p0.bank[o.player.id].exists
  <2>1. at(f) \in Player /\ at(f).id = p0.id /\ Keeps(p0, at(f))
    BY <1>5, <1>6 DEF Player, Keeps, SamePoints
  <2> HIDE DEF at
  <2>2. SlotsExist(at(f), q)
    BY <2>1 DEF Keeps, SamePoints, SlotsExist, Filled, Sequencer
  <2>3. Lands(at(f), q, r(f))
    BY <2>1, <2>2, AdvancedFact
  <2>4. o.player = WithResume(r(f).player) /\ o.seq = r(f).seq
    BY <1>9 DEF Plays
  <2> HIDE DEF r, done
  <2>5. PICK z : z = r(f).player
    OBVIOUS
  <2>6. /\ z \in Player /\ Inside(z) /\ Keeps(at(f), z)
        /\ o.seq \in Sequencer /\ o.seq.slot = q.slot
        /\ z.id = at(f).id \/ at(f).bank[z.id].exists
    BY <2>3, <2>4, <2>5 DEF Lands, Keeps
  <2>7. Keeps(z, o.player) /\ o.player.id = z.id /\ Inside(o.player)
    BY <2>4, <2>5, <2>6, WithResumeFact
  <2>8. Keeps(p0, o.player)
    BY <2>1, <2>6, <2>7, SameTransitive DEF Keeps
  <2>9. z.id \in Samples
    BY <2>6 DEF Player
  <2>10. o.player.id = p0.id \/ p0.bank[o.player.id].exists
    BY <2>1, <2>6, <2>7, <2>9 DEF Keeps, SamePoints
  <2> QED BY <2>6, <2>7, <2>8, <2>10
<1> QED BY <1>7, <1>8, <1>9
-----------------------------------------------------------------------------
(* The inductive invariant.  The types need the existence: a sample that   *)
(* is gone is played without setting a frame.                              *)
Inv == TypeOK /\ SamplesExist

(* The steps that leave the bank's points and existence as they are.       *)
LEMMA KeepsInv ==
  ASSUME Inv, Keeps(player, player'), player'.frame \in Nat,
         player'.id = player.id \/ player.bank[player'.id].exists,
         seq' \in Sequencer, seq'.slot = seq.slot,
         restart' \in BOOLEAN, events' \in 0 .. MaxEvents, tick' \in {0, 1}
  PROVE  Inv'
<1>1. player' \in Player /\ player'.id \in Samples /\ SamePoints(player, player')
  BY DEF Keeps, Player
<1>2. TypeOK'
  BY <1>1 DEF TypeOK
<1>3. SamplesExist'
  BY <1>1 DEF Inv, TypeOK, SamplesExist, Existing, Filled, SamePoints, Sequencer
<1> QED BY <1>2, <1>3 DEF Inv

(* One sample changes, and stays in the bank.                              *)
LEMMA UpdateInv ==
  ASSUME Inv, Event, NEW i \in Samples, NEW s \in Sample,
         s.exists = player.bank[i].exists, Update(i, s)
  PROVE  Inv'
<1>1. player' \in Player /\ player'.id = player.id /\ player'.frame = player.frame
      /\ player'.bank = [player.bank EXCEPT ![i] = s]
  BY WithSampleFact DEF Inv, TypeOK, Update, Plain
<1>2. events' \in 0 .. MaxEvents
  BY NumbersAssumption DEF Inv, TypeOK, Event
<1>3. TypeOK'
  BY <1>1, <1>2 DEF Inv, TypeOK, Event, Update, Plain
<1>4. SamplesExist'
  BY <1>1 DEF Inv, TypeOK, SamplesExist, Existing, Filled, Player, Sequencer,
              Update, Plain
<1> QED BY <1>3, <1>4 DEF Inv

(* The events that go through the functions above.                         *)
LEMMA PlainInv ==
  ASSUME Inv, Event, NEW p, Plain(p), Keeps(player, p), p.frame \in Nat,
         p.id = player.id \/ player.bank[p.id].exists
  PROVE  Inv'
<1>1. events' \in 0 .. MaxEvents
  BY NumbersAssumption DEF Inv, TypeOK, Event
<1> QED BY <1>1, KeepsInv DEF Inv, TypeOK, Event, Plain

(* The sequencer's slots are only given samples of the bank.               *)
LEMMA SlotsInv ==
  ASSUME Inv, Event, UNCHANGED player, seq' \in Sequencer, restart' \in BOOLEAN,
         \A k \in Slots : seq'.slot[k] \in {0, seq.slot[k]} \cup Existing
  PROVE  Inv'
<1>1. events' \in 0 .. MaxEvents
  BY NumbersAssumption DEF Inv, TypeOK, Event
<1>2. TypeOK'
  BY <1>1 DEF Inv, TypeOK, Event
<1>3. SamplesExist'
  BY DEF Inv, SamplesExist, Existing, Filled
<1> QED BY <1>2, <1>3 DEF Inv

(* What a frame that is played does to all variables.                      *)
LEMMA AdvanceFact ==
  ASSUME Inv, Advance
  PROVE  /\ Inv'
         /\ player'.frame = player.frame \/ Inside(player')
<1>1. player \in Player /\ player.frame \in Nat /\ seq \in Sequencer
      /\ SlotsExist(player, seq)
  BY DEF Inv, TypeOK, SamplesExist, SlotsExist, Existing, Filled
<1>2. PICK r \in Outcomes(player, seq) : player' = r.player /\ seq' = r.seq
  BY DEF Advance
<1>3. /\ Keeps(player, player')
      /\ player'.frame = player.frame \/ Inside(player')
      /\ seq' \in Sequencer /\ seq'.slot = seq.slot
      /\ player'.id = player.id \/ player.bank[player'.id].exists
  BY <1>1, <1>2, OutcomesFact
<1>4. player'.frame \in Nat
  BY <1>1, <1>3 DEF Inside
<1>5. restart' \in BOOLEAN /\ events' \in 0 .. MaxEvents /\ tick' \in {0, 1}
  BY DEF Inv, TypeOK, Advance
<1> QED BY <1>3, <1>4, <1>5, KeepsInv

(* The events that name a sample of the bank.                              *)
LEMMA SampleEventFact ==
  ASSUME Inv, NEW i \in Existing, SampleEvent(i)
  PROVE  Inv'
<1> DEFINE s == player.bank[i]
<1>1. player \in Player /\ i \in Samples /\ s \in Sample /\ s.exists
  BY DEF Inv, TypeOK, Existing, Player
<1>2. ASSUME NEW t, Event, Update(i, t), t \in Sample, t.exists = s.exists
      PROVE  Inv'
  BY <1>1, <1>2, UpdateInv
<1>3. ASSUME NEW n \in Numbers, SampleSpeed(i, n)
      PROVE  Inv'
  BY <1>1, <1>2, <1>3 DEF SampleSpeed, Sample
<1>4. ASSUME NEW n \in Numbers, SampleDup(i, n)
      PROVE  Inv'
  <2> DEFINE d == IF n <= 0 THEN 1 ELSE n
             e == IF i = player.id THEN 0 ELSE s.dups
             t == [s EXCEPT !.dup = d, !.dups = e]
  <2>1. d \in Nat /\ e \in Nat
    BY <1>1, NumbersAssumption DEF Sample
  <2>2. Event /\ Update(i, t)
    BY <1>4 DEF SampleDup
  <2> HIDE DEF d, e
  <2>3. t \in Sample /\ t.exists = s.exists
    BY <1>1, <2>1 DEF Sample
  <2> QED BY <1>2, <2>2, <2>3
<1>5. ASSUME NEW n \in Numbers, SampleStart(i, n)
      PROVE  Inv'
  <2> DEFINE m == IF n > Total[i] THEN Total[i] ELSE n
             d == IF m >= s.last THEN s.last - 1 ELSE m
             e == IF s.resume < m THEN m ELSE s.resume
             t == [s EXCEPT !.first = d, !.resume = e]
  <2>1. n \in Nat /\ Total[i] \in Nat
    BY <1>1, <1>5, NumbersAssumption, TotalAssumption DEF SampleStart
  <2>2. d \in Nat /\ e \in Int
    BY <1>1, <2>1 DEF Sample
  <2>3. Event /\ Update(i, t)
    BY <1>5 DEF SampleStart
  <2> HIDE DEF d, e
  <2>4. t \in Sample /\ t.exists = s.exists
    BY <1>1, <2>2 DEF Sample
  <2> QED BY <1>2, <2>3, <2>4
<1>6. ASSUME NEW n \in Numbers, SampleEnd(i, n)
      PROVE  Inv'
  <2> DEFINE a == IF n = -1 THEN Total[i] ELSE n
             m == IF a > Total[i] THEN Total[i] ELSE a
             e == IF s.resume > m THEN m ELSE s.resume
             t == [s EXCEPT !.last = m, !.resume = e]
  <2>1. a \in Nat \ {0} /\ Total[i] \in Nat \ {0}
    BY <1>1, <1>6, NumbersAssumption, TotalAssumption DEF SampleEnd
  <2>2. m \in Nat \ {0} /\ e \in Int
    BY <1>1, <2>1 DEF Sample
  <2>3. Event /\ Update(i, t)
    BY <1>6 DEF SampleEnd
  <2> HIDE DEF m, e
  <2>4. t \in Sample /\ t.exists = s.exists
    BY <1>1, <2>2 DEF Sample
  <2> QED BY <1>2, <2>3, <2>4
<1>7. ASSUME NEW n \in Numbers, MarkerStart(i, n)
      PROVE  Inv'
  <2> DEFINE t == IF s.speed < 0 THEN [s EXCEPT !.mend = n, !.mstart = s.mend]
                                 ELSE [s EXCEPT !.mstart = n]
  <2>1. t \in Sample /\ t.exists = s.exists
    BY <1>1, NumbersAssumption DEF Sample
  <2>2. Event /\ Update(i, t)
    BY <1>7 DEF MarkerStart
  <2> QED BY <1>2, <2>1, <2>2
<1>8. ASSUME NEW n \in Numbers, MarkerEnd(i, n)
      PROVE  Inv'
  <2> DEFINE m == s.last - n
             t == IF s.speed < 0 THEN [s EXCEPT !.mstart = m, !.mend = s.mstart]
                                 ELSE [s EXCEPT !.mend = m]
  <2>1. m \in Int
    BY <1>1, NumbersAssumption DEF Sample
  <2>2. Event /\ Update(i, t)
    BY <1>8 DEF MarkerEnd
  <2> HIDE DEF m
  <2>3. t \in Sample /\ t.exists = s.exists
    BY <1>1, <2>1 DEF Sample
  <2> QED BY <1>2, <2>2, <2>3
<1>9. ASSUME NEW l \in 0 .. 3, SampleLoop(i, l)
      PROVE  Inv'
  BY <1>1, <1>2, <1>9 DEF SampleLoop, Sample
<1>10. ASSUME NEW a \in Numbers, NEW b \in Numbers, Marker(i, a, b)
       PROVE  Inv'
  <2> DEFINE t == [s EXCEPT !.mstart = a, !.mend = b]
  <2>1. t \in Sample /\ t.exists = s.exists
    BY <1>1, NumbersAssumption DEF Sample
  <2>2. Event /\ Update(i, t)
    BY <1>10 DEF Marker
  <2> QED BY <1>2, <2>1, <2>2
<1>11. CASE MarkerClear(i)
  <2> DEFINE none == 0
             t == [s EXCEPT !.mstart = none, !.mend = none]
  <2>1. t \in Sample /\ t.exists = s.exists
    <3>1. none \in Int
      OBVIOUS
    <3> HIDE DEF none
    <3> QED BY <1>1, <3>1 DEF Sample
  <2>2. Event /\ Update(i, t)
    BY <1>11 DEF MarkerClear
  <2> QED BY <1>2, <2>1, <2>2
<1>12. CASE Delete(i)
  <2> DEFINE t == [s EXCEPT !.exists = FALSE]
  <2>1. t \in Sample
    BY <1>1 DEF Sample
  <2>2. player' = WithSample(player, i, t)
    BY <1>12 DEF Delete
  <2>3. player' \in Player /\ player'.id = player.id
        /\ player'.frame = player.frame
        /\ player'.bank = [player.bank EXCEPT ![i] = t]
    BY <1>1, <2>1, <2>2, WithSampleFact
  <2>4. seq' \in Sequencer /\ \A k \in Slots :
          seq'.slot[k] = IF seq.slot[k] = i THEN 0 ELSE seq.slot[k]
    BY <1>12 DEF Delete, Inv, TypeOK, Sequencer
  <2>5. events' \in 0 .. MaxEvents
    BY <1>12, NumbersAssumption DEF Delete, Event, Inv, TypeOK
  <2>6. TypeOK'
    BY <1>12, <2>3, <2>4, <2>5 DEF Delete, Event, Inv, TypeOK
  <2>7. \A j \in Samples : j # i => player'.bank[j].exists = player.bank[j].exists
    BY <1>1, <2>3 DEF Player
  <2>8. i # player.id
    BY <1>12 DEF Delete
  <2>9. SamplesExist'
    BY <2>3, <2>4, <2>7, <2>8 DEF Inv, SamplesExist, Existing, Filled
  <2> QED BY <2>6, <2>9 DEF Inv
<1>13. CASE Select(i)
  <2>1. Event /\ Plain(ChangeTo(player, i))
    BY <1>13 DEF Select
  <2>2. /\ Keeps(player, ChangeTo(player, i))
        /\ ChangeTo(player, i).id \in {player.id, i}
        /\ Inside(ChangeTo(player, i)) \/ ChangeTo(player, i) = player
    BY <1>1, ChangeToFact
  <2>3. ChangeTo(player, i).frame \in Nat
    BY <2>2 DEF Inv, TypeOK, Inside
  <2> QED BY <1>1, <2>1, <2>2, <2>3, PlainInv
<1>14. ASSUME NEW k \in Slots, SeqAdd(k, i)
       PROVE  Inv'
  <2>1. Event /\ UNCHANGED player /\ restart' \in BOOLEAN
    BY <1>14 DEF SeqAdd, Inv, TypeOK
  <2>2. seq' \in Sequencer
        /\ \A j \in Slots : seq'.slot[j] \in {0, seq.slot[j]} \cup Existing
    BY <1>1, <1>14 DEF SeqAdd, Inv, TypeOK, Sequencer
  <2> QED BY <2>1, <2>2, SlotsInv
<1> QED BY <1>3, <1>4, <1>5, <1>6, <1>7, <1>8, <1>9, <1>10, <1>11, <1>12, <1>13,
           <1>14 DEF SampleEvent

(* The events that do not.                                                 *)
LEMMA PlayerEventFact ==
  ASSUME Inv, PlayerEvent
  PROVE  Inv'
<1>1. player \in Player /\ player.id \in Samples /\ player.id \in Existing
  BY DEF Inv, TypeOK, SamplesExist, Player
<1>2. ASSUME NEW n \in Numbers, PlaySpeed(n)
      PROVE  Inv'
  <2>1. n \in Int /\ Event /\ Plain(SetSpeed(player, n))
    BY <1>2, NumbersAssumption DEF PlaySpeed
  <2>2. Keeps(player, SetSpeed(player, n)) /\ SetSpeed(player, n).id = player.id
        /\ SetSpeed(player, n).frame \in Nat
    BY <1>1, <2>1, SetSpeedFact DEF Inv, TypeOK
  <2> QED BY <2>1, <2>2, PlainInv
<1>3. ASSUME NEW n \in Numbers, GotoFrame(n)
      PROVE  Inv'
  <2> DEFINE m == IF n = -1 THEN Total[player.id] ELSE n
  <2>1. m \in Int /\ Event /\ Plain(SetFrame(player, m))
    BY <1>1, <1>3, NumbersAssumption, TotalAssumption DEF GotoFrame
  <2> HIDE DEF m
  <2>2. Keeps(player, SetFrame(player, m)) /\ SetFrame(player, m).id = player.id
        /\ SetFrame(player, m).frame \in Nat
    BY <1>1, <2>1, SetFrameFact DEF Inside
  <2> QED BY <2>1, <2>2, PlainInv
<1>4. CASE SampleNext
  <2> DEFINE dir == IF player.speed < 0 THEN -1 ELSE 1
             k == IF seq.current + dir < 0 THEN 0 ELSE seq.current + dir
             n == IF seq.active /\ k \in Slots THEN seq.slot[k] ELSE 0
             p == IF n \in Existing THEN SetSample(player, n) ELSE player
             d == IF p.speed < 0 THEN -1 ELSE 1
             i == IF p.id + d \in Existing THEN p.id + d ELSE p.id
  <2>1. Event /\ Plain(SetSample(p, i))
    BY <1>4 DEF SampleNext
  <2> HIDE DEF n
  <2>2. p \in Player /\ Keeps(player, p) /\ p.id \in Existing
    BY <1>1, SetSampleFact DEF Keeps, SamePoints, Existing
  <2> HIDE DEF p, d
  <2>3. i \in Existing
    BY <2>2
  <2> HIDE DEF i
  <2>4. /\ Keeps(p, SetSample(p, i)) /\ SetSample(p, i).id = i
        /\ SetSample(p, i).frame \in Nat
    BY <2>2, <2>3, SetSampleFact DEF Existing, Inside
  <2>5. Keeps(player, SetSample(p, i))
    BY <2>2, <2>4, SameTransitive DEF Keeps
  <2> QED BY <2>1, <2>3, <2>4, <2>5, PlainInv DEF Existing
<1>5. ASSUME NEW k \in Slots, SeqDel(k)
      PROVE  Inv'
  <2>1. Event /\ UNCHANGED player /\ restart' \in BOOLEAN
    BY <1>5 DEF SeqDel, Inv, TypeOK
  <2>2. seq' \in Sequencer /\ \A j \in Slots : seq'.slot[j] \in {0, seq.slot[j]}
    BY <1>5 DEF SeqDel, Inv, TypeOK, Sequencer
  <2> QED BY <2>1, <2>2, SlotsInv
<1>6. ASSUME NEW b \in BOOLEAN, SeqActive(b)
      PROVE  Inv'
  <2>1. Event /\ UNCHANGED player /\ restart' \in BOOLEAN
    BY <1>6 DEF SeqActive, Inv, TypeOK
  <2>2. seq' \in Sequencer /\ seq'.slot = seq.slot
    BY <1>6 DEF SeqActive, Inv, TypeOK, Sequencer
  <2> QED BY <2>1, <2>2, SlotsInv
<1>7. ASSUME NEW b \in BOOLEAN, PlayNoRestart(b)
      PROVE  Inv'
  <2>1. Event /\ UNCHANGED <<player, seq>> /\ restart' \in BOOLEAN
    BY <1>7 DEF PlayNoRestart
  <2> QED BY <2>1, SlotsInv DEF Inv, TypeOK
<1> QED BY <1>2, <1>3, <1>4, <1>5, <1>6, <1>7 DEF PlayerEvent

(* A sample that is created or loaded has the type of samples.             *)
LEMMA NewSampleFact ==
  ASSUME NEW i \in Samples, NEW l \in 0 .. 3, NEW v \in -MaxSpeed .. MaxSpeed
  PROVE  NewSample(i, l, v) \in Sample /\ NewSample(i, l, v).exists
  BY TotalAssumption DEF NewSample, Sample

(* Every step keeps the inductive invariant.                               *)
LEMMA NextInv ==
  ASSUME Inv, [Next]_vars
  PROVE  Inv'
<1>1. ASSUME NEW i \in Samples, Create(i)
      PROVE  Inv'
  <2> DEFINE s == NewSample(i, Normal, 1)
  <2>1. s \in Sample /\ s.exists
    BY NewSampleFact, NumbersAssumption DEF Normal
  <2>2. Event /\ Update(i, s) /\ ~player.bank[i].exists
    BY <1>1 DEF Create, Existing
  <2> HIDE DEF s
  <2>3. player' \in Player /\ player'.id = player.id
        /\ player'.frame = player.frame
        /\ player'.bank = [player.bank EXCEPT ![i] = s]
    BY <2>1, <2>2, WithSampleFact DEF Inv, TypeOK, Update, Plain
  <2>4. events' \in 0 .. MaxEvents
    BY <2>2, NumbersAssumption DEF Inv, TypeOK, Event
  <2>5. TypeOK'
    BY <2>2, <2>3, <2>4 DEF Inv, TypeOK, Event, Update, Plain
  <2>6. SamplesExist'
    BY <2>1, <2>2, <2>3 DEF Inv, TypeOK, SamplesExist, Existing, Filled, Player,
                            Sequencer, Update, Plain
  <2> QED BY <2>5, <2>6 DEF Inv
<1>2. CASE UNCHANGED vars
  BY <1>2 DEF vars, Inv, TypeOK, SamplesExist, Existing, Filled
<1> QED BY <1>1, <1>2, AdvanceFact, PlayerEventFact, SampleEventFact DEF Next

(* It holds when the sample list was loaded.                               *)
LEMMA InitInv ==
  ASSUME Init
  PROVE  Inv
<1>1. PICK i \in Samples, l \in [Samples -> Loops], v \in [Samples -> Speeds] :
        player = [id |-> i, frame |-> 0, speed |-> v[i],
                  bank |-> [j \in Samples |-> NewSample(j, l[j], v[j])]]
  BY DEF Init
<1>2. \A j \in Samples : NewSample(j, l[j], v[j]) \in Sample
                         /\ NewSample(j, l[j], v[j]).exists
  BY NewSampleFact, NumbersAssumption
<1> DEFINE bank == [j \in Samples |-> NewSample(j, l[j], v[j])]
<1>3. bank \in [Samples -> Sample] /\ \A j \in Samples : bank[j].exists
  BY <1>2
<1> HIDE DEF bank
<1>4. v[i] \in -MaxSpeed .. MaxSpeed
  BY NumbersAssumption
<1>5. player \in Player /\ player.frame \in Nat /\ player.bank = bank
  BY <1>1, <1>3, <1>4 DEF Player, bank
<1>6. Existing = Samples
  BY <1>3, <1>5 DEF Existing
<1>7. TypeOK
  BY <1>5, NumbersAssumption DEF Init, TypeOK, Sequencer
<1> QED BY <1>5, <1>6, <1>7 DEF Inv, TypeOK, SamplesExist, Filled, Player, Sequencer

(* No order of events leaves the engine or the sequencer with a sample     *)
(* that was deleted (sample_del clears the slots of the sequencer).        *)
THEOREM SamplesKept == Spec => []SamplesExist
<1>1. Init => Inv
  BY InitInv
<1>2. Inv /\ [Next]_vars => Inv'
  BY NextInv
<1> QED BY <1>1, <1>2, PTL DEF Spec, Inv

(* Every variable keeps its type: the frame is a number of a frame, and no *)
(* sample is left with a negative in point or without a last frame.        *)
THEOREM TypeCorrect == Spec => []TypeOK
<1>1. Init => Inv
  BY InitInv
<1>2. Inv /\ [Next]_vars => Inv'
  BY NextInv
<1> QED BY <1>1, <1>2, PTL DEF Spec, Inv

(* A frame that playing moves lands between the points of the sample that  *)
(* is then played, whatever the events did to points, markers and speed    *)
(* (veejay_set_frame, and the boundaries of increase_sample_frame).        *)
THEOREM PlaysInside == Spec => StaysInside
<1> DEFINE A == tick' # tick /\ player'.frame # player.frame
                  => LET s == player'.bank[player'.id]
                     IN Sound(player'.id, s) => player'.frame \in In(s) .. Out(s)
<1>1. Init => Inv
  BY InitInv
<1>2. Inv /\ [Next]_vars => Inv'
  BY NextInv
<1>3. Inv /\ [Next]_vars => [A]_vars
  <2> SUFFICES ASSUME Inv, Next, tick' # tick, player'.frame # player.frame
               PROVE  LET s == player'.bank[player'.id]
                      IN Sound(player'.id, s) => player'.frame \in In(s) .. Out(s)
    OBVIOUS
  <2>1. Advance
    BY DEF Next, PlayerEvent, SampleEvent, Event, PlaySpeed, GotoFrame, SampleNext,
           SeqDel, SeqActive, PlayNoRestart, SampleSpeed, SampleDup, SampleStart,
           SampleEnd, MarkerStart, MarkerEnd, SampleLoop, Marker, MarkerClear,
           Delete, Select, SeqAdd, Create
  <2>2. Inside(player')
    BY <2>1, AdvanceFact
  <2> QED BY <2>2 DEF Inside, Playing
<1> QED BY <1>1, <1>2, <1>3, PTL DEF Spec, StaysInside
=============================================================================
