--------------------------- MODULE PlaybackProofs ---------------------------
(***************************************************************************)
(* What Playback promises for every set of events, bound and option: the   *)
(* types, the inductive invariant of the handshake on valid[0], and that P *)
(* and S never use the frame buffer at the same time.                      *)
(***************************************************************************)
EXTENDS Playback, TLAPS

(* The control part of the invariant: what one step must preserve.         *)
Handshake == MutexInv /\ ValidInv /\ JoinInv /\ NotBothWaiting

(* veejay_open leaves an empty buffer, a free mutex and both threads at    *)
(* the start of their loops.                                               *)
LEMMA InitInvariant == Init => IInv
PROOF
  <1> SUFFICES ASSUME Init PROVE IInv
    OBVIOUS
  <1>1. 0 \in Frames /\ 0 \in 0 .. MaxSkips /\ 0 \in 0 .. MaxSignals
    BY BoundsAssumption DEF Frames
  <1>2. TypeOK
    BY <1>1, Zenon DEF Init, TypeOK, States, PStates, SStates
  <1>3. MutexInv /\ ValidInv /\ JoinInv /\ NotBothWaiting
    BY DEF Init, MutexInv, ValidInv, JoinInv, NotBothWaiting
  <1> QED
    BY <1>2, <1>3 DEF IInv

(* Frame numbers stay within the video when they are advanced.             *)
LEMMA MoveFrameType ==
  ASSUME TypeOK, MoveFrame
  PROVE  frame' \in Frames /\ state' \in States
PROOF
  <1>1. PICK f \in {frame + speed} \cup (IF sfd THEN {frame} ELSE {}) :
          /\ frame' = IF f > LastFrame THEN 0 ELSE f
          /\ state' = IF f > LastFrame /\ ~Continuous THEN "stop" ELSE state
    BY DEF MoveFrame
  <1>2. f \in Nat
    BY DEF TypeOK, Frames
  <1> QED
    BY <1>1, <1>2, BoundsAssumption DEF TypeOK, Frames, States

(* An entry is a bit or a frame number.                                    *)
LEMMA NextEntryType ==
  ASSUME TypeOK
  PROVE  NextEntry \in Nat
  BY DEF TypeOK, NextEntry, ByNumber, Frames

(* Every step of a thread keeps the types.                                 *)
LEMMA StepType ==
  ASSUME TypeOK, [Next]_vars
  PROVE  TypeOK'
PROOF
  <1> USE DEF TypeOK, shared, video, main, history, States, PStates, SStates
  <1>0. NextOdd(state # "paused") \in BOOLEAN /\ NextOdd(FALSE) \in BOOLEAN
    BY DEF NextOdd, ByNumber
  <1>1. CASE Render
    BY <1>1, MoveFrameType DEF Render
  <1>2. CASE QueueBuf
    BY <1>2, BoundsAssumption DEF MutexFree, QueueBuf
  <1>3. CASE CheckState
    BY <1>3 DEF CheckState
  <1>4. CASE SyncBuf
    BY <1>4 DEF MutexFree, SyncBuf
  <1>5. CASE EventsDone
    BY <1>5 DEF EventsDone
  <1>6. CASE Fill
    <2>1. odd' \in BOOLEAN
      BY <1>0, <1>6, Zenon DEF Fill
    <2> QED
      BY <1>6, <2>1, NextEntryType DEF Fill
  <1>7. CASE FillRepeat
    <2>1. odd' \in BOOLEAN
      BY <1>0, <1>7, Zenon DEF FillRepeat
    <2>2. /\ ppc = "fill" /\ cycleSpeed # 0 /\ entry' = NextEntry /\ ppc' = "queue"
          /\ UNCHANGED <<state, mutex, valid, processed, spc, main, queue_mutex,
                        speed, cycleSpeed, sfd, frame, skips, picture, fresh>>
      BY <1>7, Zenon DEF FillRepeat
    <2> QED
      BY <2>1, <2>2, NextEntryType
  <1>8. CASE FillSkip
    BY <1>8, BoundsAssumption, MoveFrameType, NextEntryType DEF FillSkip
  <1>9. CASE Cancel
    BY <1>9 DEF Cancel
  <1>10. CASE JoinScreen
    BY <1>10 DEF JoinScreen
  <1>11. CASE FreeOutputs
    BY <1>11 DEF FreeOutputs
  <1>12. CASE Quit
    BY <1>12 DEF MutexFree, Quit
  <1>13. CASE Suspend
    BY <1>13 DEF Suspend
  <1>14. CASE SetSpeed
    BY <1>14 DEF SetSpeed
  <1>15. CASE SetFrame \/ SetFramedup
    BY <1>15 DEF SetFrame, SetFramedup
  <1>16. CASE Top
    BY <1>16 DEF Top
  <1>17. CASE Lock
    BY <1>17 DEF MutexFree, Lock
  <1>18. CASE Test
    BY <1>18 DEF Test
  <1>19. CASE Relock
    BY <1>19 DEF MutexFree, Relock
  <1>20. CASE Woken
    BY <1>20 DEF Woken
  <1>21. CASE Decide
    BY <1>21 DEF Decide
  <1>22. CASE Display
    BY <1>22 DEF Display
  <1>23. CASE DisplayShared
    BY <1>23 DEF DisplayShared
  <1>24. CASE SharedDone
    BY <1>24 DEF SharedDone
  <1>25. CASE Mark
    BY <1>25 DEF Mark
  <1>26. CASE ClearLock
    BY <1>26 DEF MutexFree, ClearLock
  <1>27. CASE Clear
    BY <1>27 DEF Clear
  <1>28. CASE Handler
    BY <1>28 DEF MutexFree, Handler
  <1>29. CASE Poll
    BY <1>29 DEF Poll
  <1>30. CASE Busy
    BY <1>30 DEF Busy
  <1>31. CASE Free
    BY <1>31 DEF Free
  <1>32. CASE SpuriousP
    BY <1>32 DEF SpuriousP
  <1>33. CASE SpuriousS
    BY <1>33 DEF SpuriousS
  <1>34. CASE DisplayFails
    BY <1>34 DEF DisplayFails
  <1>35. CASE Die
    BY <1>35 DEF MutexFree, Die
  <1>36. CASE Signal
    BY <1>36, BoundsAssumption DEF Signal
  <1>37. CASE UNCHANGED vars
    BY <1>37 DEF vars
  <1>38. QED
    BY <1>1, <1>2, <1>3, <1>4, <1>5, <1>6, <1>7, <1>8, <1>9, <1>10, <1>11,
       <1>12, <1>13, <1>14, <1>15, <1>16, <1>17, <1>18, <1>19, <1>20, <1>21,
       <1>22, <1>23, <1>24, <1>25, <1>26, <1>27, <1>28, <1>29, <1>30, <1>31,
       <1>32, <1>33, <1>34, <1>35, <1>36, <1>37 DEF Next, PStep, EventStep,
       SStep, MStep, Filling

(* Every step of a thread keeps the handshake.                             *)
LEMMA StepHandshake ==
  ASSUME TypeOK, Handshake, [Next]_vars
  PROVE  Handshake'
PROOF
  <1> USE DEF Handshake, MutexInv, ValidInv, JoinInv, NotBothWaiting, shared,
              video, main, history
  <1>1. CASE Render
    BY <1>1 DEF Render
  <1>2. CASE QueueBuf
    BY <1>2 DEF MutexFree, QueueBuf
  <1>3. CASE CheckState
    BY <1>3 DEF CheckState
  <1>4. CASE SyncBuf
    BY <1>4 DEF TypeOK, MutexFree, SyncBuf
  <1>5. CASE EventsDone
    BY <1>5 DEF EventsDone
  <1>6. CASE Fill
    BY <1>6 DEF Fill
  <1>7. CASE FillRepeat
    BY <1>7 DEF FillRepeat
  <1>8. CASE FillSkip
    BY <1>8 DEF FillSkip
  <1>9. CASE Cancel
    BY <1>9 DEF Cancel
  <1>10. CASE JoinScreen
    BY <1>10 DEF JoinScreen
  <1>11. CASE FreeOutputs
    BY <1>11 DEF FreeOutputs
  <1>12. CASE Quit
    BY <1>12 DEF MutexFree, Quit
  <1>13. CASE Suspend
    BY <1>13 DEF Suspend
  <1>14. CASE SetSpeed
    BY <1>14 DEF SetSpeed
  <1>15. CASE SetFrame \/ SetFramedup
    BY <1>15 DEF SetFrame, SetFramedup
  <1>16. CASE Top
    BY <1>16 DEF Top
  <1>17. CASE Lock
    BY <1>17 DEF MutexFree, Lock
  <1>18. CASE Test
    BY <1>18 DEF TypeOK, Test
  <1>19. CASE Relock
    BY <1>19 DEF MutexFree, Relock
  <1>20. CASE Woken
    BY <1>20 DEF TypeOK, Woken
  <1>21. CASE Decide
    BY <1>21 DEF Decide
  <1>22. CASE Display
    BY <1>22 DEF Display
  <1>23. CASE DisplayShared
    BY <1>23 DEF DisplayShared
  <1>24. CASE SharedDone
    BY <1>24 DEF SharedDone
  <1>25. CASE Mark
    BY <1>25 DEF Mark
  <1>26. CASE ClearLock
    BY <1>26 DEF MutexFree, ClearLock
  <1>27. CASE Clear
    BY <1>27 DEF Clear
  <1>28. CASE Handler
    BY <1>28 DEF MutexFree, Handler
  <1>29. CASE Poll
    BY <1>29 DEF Poll
  <1>30. CASE Busy
    BY <1>30 DEF Busy
  <1>31. CASE Free
    BY <1>31 DEF Free
  <1>32. CASE SpuriousP
    BY <1>32 DEF SpuriousP
  <1>33. CASE SpuriousS
    BY <1>33 DEF SpuriousS
  <1>34. CASE DisplayFails
    BY <1>34 DEF DisplayFails
  <1>35. CASE Die
    BY <1>35 DEF MutexFree, Die
  <1>36. CASE Signal
    BY <1>36 DEF Signal
  <1>37. CASE UNCHANGED vars
    BY <1>37 DEF vars
  <1>38. QED
    BY <1>1, <1>2, <1>3, <1>4, <1>5, <1>6, <1>7, <1>8, <1>9, <1>10, <1>11,
       <1>12, <1>13, <1>14, <1>15, <1>16, <1>17, <1>18, <1>19, <1>20, <1>21,
       <1>22, <1>23, <1>24, <1>25, <1>26, <1>27, <1>28, <1>29, <1>30, <1>31,
       <1>32, <1>33, <1>34, <1>35, <1>36, <1>37 DEF Next, PStep, EventStep,
       SStep, MStep, Filling

(* So every step keeps the inductive invariant.                            *)
LEMMA Inductive == IInv /\ [Next]_vars => IInv'
PROOF
  <1> SUFFICES ASSUME IInv, [Next]_vars PROVE IInv'
    OBVIOUS
  <1>1. TypeOK /\ Handshake
    BY DEF IInv, Handshake
  <1>2. TypeOK'
    BY <1>1, StepType
  <1>3. Handshake'
    BY <1>1, StepHandshake
  <1> QED
    BY <1>2, <1>3 DEF IInv, Handshake

(* The inductive invariant: valid_mutex is held where the code holds it,   *)
(* valid[0] belongs to S while S shows the frame, nothing is freed early.  *)
THEOREM Invariant == Spec => []IInv
PROOF
  <1>1. Init => IInv
    BY InitInvariant
  <1>2. IInv /\ [Next]_vars => IInv'
    BY Inductive
  <1> QED
    BY <1>1, <1>2, PTL DEF Spec

(* The variables of the engine keep their types.                           *)
THEOREM TypeCorrect == Spec => []TypeOK
PROOF
  <1>1. IInv => TypeOK
    BY DEF IInv
  <1> QED
    BY <1>1, Invariant, PTL

(* veejay_mjpeg_queue_buf, veejay_mjpeg_sync_buf and the screen thread:    *)
(* while a frame is shown it is not rendered into, no event is handled,    *)
(* and neither the outputs nor the buffers are freed.                      *)
THEOREM Exclusive == Spec => []ExclusiveBuffer
PROOF
  <1>1. IInv => ExclusiveBuffer
    BY DEF IInv, TypeOK, PStates, ValidInv, JoinInv, Showing, ExclusiveBuffer
  <1> QED
    BY <1>1, Invariant, PTL

(* P waits on buffer_done only with a frame to show, S on buffer_filled    *)
(* only without one: no signal is missed and they never wait on each other *)
THEOREM NoMutualWait == Spec => []NotBothWaiting
PROOF
  <1>1. IInv => NotBothWaiting
    BY DEF IInv
  <1> QED
    BY <1>1, Invariant, PTL

(* What was rendered and is not shown, though its entry number is its own. *)
Due == fresh = "new" /\ ~odd

(* A frame that is due has another entry number than the last one that S   *)
(* took up, and is shown before S marks its entry and gives the buffer     *)
(* back; a suspended engine queues nothing that was rendered.  An entry    *)
(* that is not a bit is the number of the frame rendered last.             *)
PlayedInv ==
  /\ ppc = "events" \/ (ppc = "fill" /\ skips = 0) => processed = entry
  /\ spc \in {"sleep", "clear"} => processed = entry
  /\ ppc \in {"check", "sync", "wait"} /\ valid = 0 => processed = entry
  /\ ppc \in {"check", "sync", "wait", "events"} => skips = 0
  /\ ppc = "render" /\ ~odd =>
       /\ processed # entry \/ (ByNumber /\ picture = frame /\ fresh # "new")
       /\ (ByNumber => entry = frame)
       /\ (~ByNumber => entry < 2)
  /\ ppc # "render" /\ (ppc = "fill" => skips = 0) /\ ~odd /\ entry > 1 => picture = entry
  /\ ppc = "render" => state # "paused"
  /\ Due => /\ state # "paused"
            /\ ppc \notin {"events", "fill"} /\ spc \notin {"mark", "sleep", "clear"}
            /\ (ppc \in {"check", "sync", "wait"} => valid = 1) /\ processed # entry

(* Choosing the next entry: when it may not be that of another frame, it   *)
(* is a new one, or the number of the frame that was rendered last.        *)
LEMMA NextEntryNew ==
  ASSUME TypeOK, PlayedInv, ppc = "fill", NEW renders \in BOOLEAN, ~NextOdd(renders)
  PROVE  /\ NextEntry # processed \/ (ByNumber /\ renders /\ picture = frame)
         /\ ByNumber => renders /\ NextEntry = frame
         /\ ~ByNumber => NextEntry < 2
         /\ fresh # "new"
PROOF
  <1>1. skips = 0 /\ processed = entry
    BY DEF NextOdd, PlayedInv, TypeOK
  <1>2. fresh # "new"
    BY <1>1 DEF NextOdd, PlayedInv, Due
  <1>3. CASE ByNumber
    <2>1. frame \in Nat /\ frame > 1 /\ renders /\ ~(odd /\ frame = entry)
      BY <1>3 DEF NextOdd, TypeOK, Frames
    <2>2. NextEntry = frame
      BY <1>3 DEF NextEntry
    <2>3. frame = entry => picture = frame
      BY <1>1, <2>1 DEF PlayedInv
    <2> QED
      BY <1>1, <1>2, <1>3, <2>1, <2>2, <2>3
  <1>4. CASE ~ByNumber
    <2>1. NextEntry = (entry + 1) % 2 /\ entry \in Nat
      BY <1>4 DEF NextEntry, TypeOK
    <2>2. NextEntry < 2 /\ NextEntry # entry
      BY <2>1
    <2> QED
      BY <1>1, <1>2, <1>4, <2>2
  <1> QED
    BY <1>3, <1>4

(* Every step keeps it.                                                    *)
LEMMA StepPlayed ==
  ASSUME IInv, PlayedInv, [Next]_vars
  PROVE  PlayedInv'
PROOF
  <1> USE DEF IInv, PlayedInv, ValidInv, Due, ByNumber, shared, video, main, history
  <1>1. CASE Render
    <2>1. state' # "paused"
      BY <1>1 DEF Render, MoveFrame
    <2> QED
      BY <1>1, <2>1 DEF Render, TypeOK, Frames
  <1>2. CASE QueueBuf
    BY <1>2 DEF QueueBuf
  <1>3. CASE CheckState
    BY <1>3 DEF CheckState
  <1>4. CASE SyncBuf
    BY <1>4 DEF TypeOK, SyncBuf
  <1>5. CASE EventStep
    BY <1>5 DEF EventStep, Quit, Suspend, SetSpeed, SetFramedup, SetFrame
  <1>6. CASE EventsDone
    BY <1>6 DEF EventsDone
  <1>7. CASE Filling
    <2>1. ASSUME NEW renders \in BOOLEAN, ppc = "fill", ~NextOdd(renders)
          PROVE  /\ NextEntry # processed \/ (ByNumber /\ renders /\ picture = frame)
                 /\ ByNumber => renders /\ NextEntry = frame
                 /\ ~ByNumber => NextEntry < 2
                 /\ fresh # "new"
      BY <2>1, NextEntryNew
    <2>2. CASE Fill
      <3>1. CASE odd'
        BY <2>2, <3>1 DEF Fill
      <3>2. CASE ~odd'
        <4>1. ~NextOdd(state # "paused")
          BY <2>2, <3>2, Zenon DEF Fill
        <4>2. CASE state = "paused"
          <5>1. ~NextOdd(FALSE)
            BY <4>1, <4>2
          <5>2. ppc = "fill" /\ entry' = NextEntry /\ fresh # "new" /\ ~ByNumber /\ NextEntry < 2
                /\ NextEntry # processed
            BY <2>1, <2>2, <5>1, Zenon DEF Fill
          <5> QED
            BY <2>2, <4>2, <5>2, NextEntryType DEF Fill
        <4>3. CASE state # "paused"
          <5>1. ~NextOdd(TRUE)
            BY <4>1, <4>3
          <5> QED
            BY <2>1, <2>2, <4>3, <5>1 DEF Fill
        <4> QED
          BY <4>2, <4>3
      <3> QED
        BY <3>1, <3>2
    <2>3. CASE FillRepeat
      <3>1. CASE odd'
        BY <2>3, <3>1 DEF FillRepeat
      <3>2. CASE ~odd'
        <4>1. ~NextOdd(FALSE)
          BY <2>3, <3>2, Zenon DEF FillRepeat
        <4>2. fresh # "new" /\ ~ByNumber /\ NextEntry < 2 /\ NextEntry # processed
          BY <2>1, <2>3, <4>1, Zenon DEF FillRepeat
        <4>3. /\ ppc = "fill" /\ cycleSpeed # 0 /\ entry' = NextEntry /\ ppc' = "queue"
              /\ UNCHANGED <<state, mutex, valid, processed, spc, main, queue_mutex,
                            speed, cycleSpeed, sfd, frame, skips, picture, fresh>>
          BY <2>3, Zenon DEF FillRepeat
        <4> QED
          BY <4>2, <4>3, NextEntryType
      <3> QED
        BY <3>1, <3>2
    <2>4. CASE FillSkip
      BY <2>4 DEF FillSkip, TypeOK
    <2> QED
      BY <1>7, <2>2, <2>3, <2>4 DEF Filling
  <1>8. CASE Cancel \/ JoinScreen \/ FreeOutputs
    BY <1>8 DEF Cancel, JoinScreen, FreeOutputs
  <1>9. CASE Top \/ Lock \/ Test \/ Relock \/ Woken \/ DisplayShared \/ ClearLock
    BY <1>9 DEF Top, Lock, Test, Relock, Woken, DisplayShared, ClearLock
  <1>10. CASE Decide
    BY <1>10 DEF Decide
  <1>11. CASE Display \/ SharedDone
    BY <1>11 DEF Display, SharedDone
  <1>12. CASE DisplayFails
    BY <1>12 DEF DisplayFails
  <1>13. CASE Mark
    BY <1>13 DEF Mark
  <1>14. CASE Clear
    BY <1>14 DEF Clear
  <1>15. CASE SpuriousP \/ SpuriousS \/ Die \/ Signal
    BY <1>15 DEF SpuriousP, SpuriousS, Die, Signal
  <1>16. CASE MStep
    BY <1>16 DEF MStep, Handler, Poll, Busy, Free
  <1>17. CASE UNCHANGED vars
    BY <1>17 DEF vars
  <1> QED
    BY <1>1, <1>2, <1>3, <1>4, <1>5, <1>6, <1>7, <1>8, <1>9, <1>10, <1>11,
       <1>12, <1>13, <1>14, <1>15, <1>16, <1>17 DEF Next, PStep, SStep

(* "Wait until this buffer has been played": when veejay_mjpeg_sync_buf    *)
(* returns, what was rendered was shown or the output failed, but for the  *)
(* rounds whose entry number may be that of another frame.                 *)
THEOREM SyncWaitsForPlay == Spec => []SyncMeansPlayed
PROOF
  <1>1. Init => PlayedInv
    BY DEF Init, PlayedInv, Due, ByNumber
  <1>2. IInv /\ PlayedInv /\ [Next]_vars => PlayedInv'
    BY StepPlayed
  <1>3. PlayedInv => SyncMeansPlayed
    BY DEF PlayedInv, Due, SyncMeansPlayed
  <1> QED
    BY <1>1, <1>2, <1>3, Invariant, PTL DEF Spec
=============================================================================
