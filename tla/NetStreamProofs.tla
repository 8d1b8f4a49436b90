-------------------------- MODULE NetStreamProofs ---------------------------
(***************************************************************************)
(* What NetStream promises for every number of reader threads and of       *)
(* failures: the types, and, of a stream that has had one reader at a      *)
(* time, that a frame is never converted while it is written or after its  *)
(* buffer was freed, and never overwritten before it was taken.            *)
(***************************************************************************)
EXTENDS NetStream, TLAPS

Inv == TypeOK /\ StreamInv

(* A stream that was just created has no reader.                           *)
LEMMA InitInv == Init => Inv
PROOF
  <1> SUFFICES ASSUME Init PROVE Inv
    OBVIOUS
  <1>1. 0 \in 0 .. MaxFails /\ 0 \in 0 .. MaxSize
    BY FailsAssumption
  <1>2. TypeOK
    BY <1>1 DEF Init, TypeOK
  <1>3. StreamInv
    BY DEF Init, StreamInv, Alive, Writes, Reading
  <1> QED
    BY <1>2, <1>3 DEF Inv

(* The bound on failures is kept by whoever fails.                         *)
LEMMA FailType ==
  ASSUME TypeOK, Fail \/ UNCHANGED fails
  PROVE  fails' \in 0 .. MaxFails
  BY FailsAssumption DEF TypeOK, Fail

(* The steps of a reader keep the types.                                   *)
LEMMA ReaderType ==
  ASSUME TypeOK, NEW r \in Readers, ReaderStep(r) \/ Answer(r)
  PROVE  TypeOK'
PROOF
  <1> USE FailsAssumption DEF TypeOK, At, Goto, player, Fail
  <1>1. CASE Connect(r)
    BY <1>1 DEF Connect
  <1>2. CASE SetRunning(r)
    BY <1>2 DEF SetRunning
  <1>3. CASE Request(r)
    <2>0. Fail \/ UNCHANGED fails
      BY <1>3, Zenon DEF Request, SendRequest
    <2>1. fails' \in 0 .. MaxFails
      BY <2>0, FailType
    <2>2. CASE /\ Goto(r, "poll")
              /\ remote' = [remote EXCEPT ![r] = "asked"]
      BY <1>3, <2>1, <2>2 DEF Request, SendRequest
    <2>3. CASE Goto(r, "retry") /\ UNCHANGED remote
      BY <1>3, <2>1, <2>3 DEF Request, SendRequest
    <2> QED
      BY <1>3, <2>2, <2>3 DEF Request, SendRequest
  <1>4. CASE Spin(r)
    BY <1>4 DEF Spin, SpinTo
  <1>5. CASE PollReadable(r)
    BY <1>5 DEF PollReadable
  <1>6. CASE ReadHeader(r)
    BY <1>6 DEF ReadHeader
  <1>7. CASE LockBuffer(r)
    BY <1>7 DEF LockBuffer, Lock
  <1>8. CASE Allocate(r)
    <2>0. At(r, "alloc") /\ Goto(r, "recv") /\ UNCHANGED <<packed, remote, player, mutex, fails>>
      BY <1>8, Zenon DEF Allocate
    <2>1. PICK size \in 1 .. MaxSize :
            IF t.bufsize < size \/ ~t.buf
              THEN /\ \E place \in {Elsewhere} \cup (IF t.buf THEN {t.a} ELSE {}) :
                        t' = [t EXCEPT !.buf = TRUE, !.bufsize = size, !.a = place]
                   /\ grown' = (t.a # "none" /\ (grown \/ t.buf))
              ELSE UNCHANGED <<t, grown>>
      BY <1>8 DEF Allocate
    <2>2. CASE UNCHANGED <<t, grown>>
      BY <2>0, <2>2
    <2>3. CASE /\ \E place \in {Elsewhere} \cup (IF t.buf THEN {t.a} ELSE {}) :
                    t' = [t EXCEPT !.buf = TRUE, !.bufsize = size, !.a = place]
               /\ grown' = (t.a # "none" /\ (grown \/ t.buf))
      <3>1. PICK place \in {Elsewhere} \cup (IF t.buf THEN {t.a} ELSE {}) :
              t' = [t EXCEPT !.buf = TRUE, !.bufsize = size, !.a = place]
        BY <2>3
      <3>2. size \in 0 .. MaxSize
        OBVIOUS
      <3>3. place \in {"none", "here", "elsewhere"}
        BY <3>1 DEF Elsewhere
      <3> QED
        BY <2>0, <2>3, <3>1, <3>2, <3>3
    <2> QED
      BY <2>1, <2>2, <2>3
  <1>9. CASE Receive(r)
    <2>1. fails' \in 0 .. MaxFails
      BY <1>9 DEF Receive, ReceiveInto
    <2>2. mutex' \in {mutex, Released}
      BY <1>9 DEF Receive, ReceiveInto
    <2>3. mutex' \in [owner: Readers \cup {Performer, None}, valid: BOOLEAN]
      BY <2>2 DEF Released
    <2>4. pc' \in [Readers -> {"off", "connect", "connected", "loop", "poll", "header",
            "lock", "alloc", "recv", "unpack", "copy", "publish", "end", "retry", "exit"}]
      BY <1>9 DEF Receive, ReceiveInto
    <2>5. remote' \in [Readers -> {"idle", "asked", "answered", "broken"}]
      BY <1>9 DEF Receive, ReceiveInto
    <2>6. packed' \in [Readers -> BOOLEAN]
      BY <1>9, Zenon DEF Receive, ReceiveInto
    <2> QED
      BY <1>9, <2>1, <2>3, <2>4, <2>5, <2>6 DEF Receive, ReceiveInto
  <1>10. CASE LockToUnpack(r)
    BY <1>10 DEF LockToUnpack, Lock
  <1>11. CASE Decompress(r)
    BY <1>11 DEF Decompress, Released
  <1>12. CASE Publish(r)
    BY <1>12 DEF Publish
  <1>13. CASE LoopEnd(r)
    BY <1>13 DEF LoopEnd
  <1>14. CASE Retry(r)
    BY <1>14 DEF Retry, RetryTo
  <1>15. CASE Exit(r)
    BY <1>15 DEF Exit, Elsewhere
  <1>16. CASE Answer(r)
    BY <1>16 DEF Answer
  <1> QED
    BY <1>1, <1>2, <1>3, <1>4, <1>5, <1>6, <1>7, <1>8, <1>9, <1>10,
       <1>11, <1>12, <1>13, <1>14, <1>15, <1>16 DEF ReaderStep

(* So do the calls of the playback thread.                                 *)
LEMMA PlayerType ==
  ASSUME TypeOK,
         Play \/ Activate \/ GetFrame \/ Disable \/ LeaveInactive \/ Delete \/ Call
  PROVE  TypeOK'
PROOF
  <1> USE DEF TypeOK, reader, Goto
  <1>1. CASE Play \/ Activate
    <2>1. NetStart /\ tag' \in [active: BOOLEAN, playing: BOOLEAN, freed: BOOLEAN]
      BY <1>1 DEF Play, Activate
    <2>2. PICK r \in Readers : pc' = [pc EXCEPT ![r] = "connect"]
      BY <2>1 DEF NetStart
    <2>3. crowded' \in BOOLEAN
      BY <2>1 DEF NetStart
    <2> QED
      BY <2>1, <2>2, <2>3 DEF NetStart
  <1>2. CASE GetFrame \/ Delete
    BY <1>2 DEF GetFrame, Delete
  <1>3. CASE Disable
    BY <1>3 DEF Disable
  <1>4. CASE LeaveInactive
    <2>1. tag' \in [active: BOOLEAN, playing: BOOLEAN, freed: BOOLEAN]
      BY <1>4 DEF LeaveInactive
    <2>2. UNCHANGED <<reader, ppc, deleting, crowded, t, mutex, grown>>
      BY <1>4, Zenon DEF LeaveInactive
    <2> QED
      BY <2>1, <2>2
  <1>5. CASE LockFrame
    BY <1>5 DEF LockFrame, Lock
  <1>6. CASE Convert
    BY <1>6 DEF Convert, Released
  <1>7. CASE NetStop
    BY <1>7 DEF NetStop
  <1> QED
    BY <1>1, <1>2, <1>3, <1>4, <1>5, <1>6, <1>7 DEF Call

(* A reader that is alone, and none of whose steps takes the mutex from    *)
(* the playback thread, keeps the invariant.                               *)
LEMMA ReaderInv ==
  ASSUME Inv, NEW r \in Readers, ReaderStep(r) \/ Answer(r)
  PROVE  StreamInv'
PROOF
  <1> USE ReadersAssumption
      DEF Inv, TypeOK, StreamInv, At, Goto, player, Alive, Writes, Reading
  <1>1. CASE Connect(r)
    BY <1>1 DEF Connect
  <1>2. CASE SetRunning(r)
    BY <1>2 DEF SetRunning
  <1>3. CASE Request(r)
    BY <1>3 DEF Request, SendRequest
  <1>4. CASE Spin(r)
    BY <1>4 DEF Spin, SpinTo
  <1>5. CASE PollReadable(r)
    BY <1>5 DEF PollReadable
  <1>6. CASE ReadHeader(r)
    BY <1>6 DEF ReadHeader
  <1>7. CASE LockBuffer(r)
    BY <1>7 DEF LockBuffer, Lock
  <1>8. CASE Allocate(r)
    <2>0. At(r, "alloc") /\ Goto(r, "recv") /\ UNCHANGED <<packed, remote, player, mutex, fails>>
      BY <1>8, Zenon DEF Allocate
    <2>1. PICK size \in 1 .. MaxSize :
            IF t.bufsize < size \/ ~t.buf
              THEN /\ \E place \in {Elsewhere} \cup (IF t.buf THEN {t.a} ELSE {}) :
                        t' = [t EXCEPT !.buf = TRUE, !.bufsize = size, !.a = place]
                   /\ grown' = (t.a # "none" /\ (grown \/ t.buf))
              ELSE UNCHANGED <<t, grown>>
      BY <1>8 DEF Allocate
    <2>2. CASE UNCHANGED <<t, grown>>
      BY <2>0, <2>2
    <2>3. CASE /\ \E place \in {Elsewhere} \cup (IF t.buf THEN {t.a} ELSE {}) :
                    t' = [t EXCEPT !.buf = TRUE, !.bufsize = size, !.a = place]
               /\ grown' = (t.a # "none" /\ (grown \/ t.buf))
      <3>1. PICK place \in {Elsewhere} \cup (IF t.buf THEN {t.a} ELSE {}) :
              t' = [t EXCEPT !.buf = TRUE, !.bufsize = size, !.a = place]
        BY <2>3
      <3>2. size \in 0 .. MaxSize
        OBVIOUS
      <3>3. place \in {"none", "here", "elsewhere"}
        BY <3>1 DEF Elsewhere
      <3>4. t'.state = t.state /\ t'.have = t.have /\ t'.buf /\ t'.a = place
        BY <3>1
      <3>5. place # "none" => t.a # "none" /\ (place = "here" => t.a = "here")
        BY <3>1 DEF Elsewhere
      <3>6. ~crowded /\ place # "none" => grown'
        BY <2>3, <3>5
      <3>7. ~crowded /\ place = "none" => t.a = "none"
        BY <3>1 DEF Elsewhere
      <3> QED
        BY <2>0, <3>4, <3>5, <3>6, <3>7
    <2> QED
      BY <2>1, <2>2, <2>3
  <1>9. CASE Receive(r)
    BY <1>9 DEF Receive, ReceiveInto, Released
  <1>10. CASE LockToUnpack(r)
    BY <1>10 DEF LockToUnpack, Lock
  <1>11. CASE Decompress(r)
    BY <1>11 DEF Decompress, Released
  <1>12. CASE Publish(r)
    BY <1>12 DEF Publish
  <1>13. CASE LoopEnd(r)
    BY <1>13 DEF LoopEnd
  <1>14. CASE Retry(r)
    BY <1>14 DEF Retry, RetryTo
  <1>15. CASE Exit(r)
    BY <1>15 DEF Exit, Elsewhere
  <1>16. CASE Answer(r)
    BY <1>16 DEF Answer
  <1> QED
    BY <1>1, <1>2, <1>3, <1>4, <1>5, <1>6, <1>7, <1>8, <1>9, <1>10,
       <1>11, <1>12, <1>13, <1>14, <1>15, <1>16 DEF ReaderStep

(* The playback thread keeps it too: it starts a reader when none is       *)
(* alive, or the stream is crowded from then on.                           *)
LEMMA PlayerInv ==
  ASSUME Inv,
         Play \/ Activate \/ GetFrame \/ Disable \/ LeaveInactive \/ Delete \/ Call
  PROVE  StreamInv'
PROOF
  <1> USE ReadersAssumption
      DEF Inv, TypeOK, StreamInv, reader, Goto, Alive, Writes, Reading, Idle
  <1>1. CASE Play \/ Activate
    <2>1. NetStart /\ Idle
      BY <1>1 DEF Play, Activate
    <2>2. PICK r \in Readers : pc[r] = "off" /\ pc' = [pc EXCEPT ![r] = "connect"]
      BY <2>1 DEF NetStart
    <2>3. ~crowded' => \A q \in Readers : ~Alive(q)
      BY <2>1 DEF NetStart
    <2>4. ~crowded' => ~crowded /\ t.state = 0 /\ t'.state = 0 /\ ppc' = "idle"
      BY <2>1, <2>3 DEF NetStart
    <2>5. ~crowded' => \A q \in Readers : q # r => pc'[q] = "off"
      BY <2>2, <2>3
    <2> QED
      BY <2>1, <2>2, <2>3, <2>4, <2>5 DEF NetStart
  <1>2. CASE GetFrame \/ Delete
    BY <1>2 DEF GetFrame, Delete
  <1>3. CASE Disable
    BY <1>3 DEF Disable
  <1>4. CASE LeaveInactive
    BY <1>4 DEF LeaveInactive
  <1>5. CASE LockFrame
    BY <1>5 DEF LockFrame, Lock
  <1>6. CASE Convert
    BY <1>6 DEF Convert, Released
  <1>7. CASE NetStop
    BY <1>7 DEF NetStop
  <1> QED
    BY <1>1, <1>2, <1>3, <1>4, <1>5, <1>6, <1>7 DEF Call

(* Every step of the stream keeps the invariant.                           *)
LEMMA StepInv == Inv /\ [Next]_vars => Inv'
PROOF
  <1> SUFFICES ASSUME Inv, [Next]_vars PROVE Inv'
    OBVIOUS
  <1>1. CASE \E r \in Readers : ReaderStep(r) \/ Answer(r)
    BY <1>1, ReaderType, ReaderInv DEF Inv
  <1>2. CASE Play \/ Activate \/ GetFrame \/ Disable \/ LeaveInactive \/ Delete \/ Call
    BY <1>2, PlayerType, PlayerInv DEF Inv
  <1>3. CASE UNCHANGED vars
    BY <1>3 DEF vars, Inv, TypeOK, StreamInv, Alive, Writes, Reading
  <1> QED
    BY <1>1, <1>2, <1>3 DEF Next

(* The invariant holds of every behaviour.                                 *)
LEMMA Invariance == Spec => []Inv
  BY InitInv, StepInv, PTL DEF Spec

(* Types: net_thread_get_frame, the reader and the stream functions keep   *)
(* the stream's fields and the mutex in their ranges.                      *)
THEOREM TypeCorrect == Spec => []TypeOK
PROOF
  <1>1. Inv => TypeOK
    BY DEF Inv
  <1> QED
    BY <1>1, Invariance, PTL

(* The mutex of vj-net.c keeps net_thread_get_frame and the writing of the *)
(* buffer by the reader apart.                                             *)
THEOREM ConvertsAlone == Spec => []ConvertAlone
PROOF
  <1>1. Inv => ConvertAlone
    BY ReadersAssumption DEF Inv, StreamInv, ConvertAlone
  <1> QED
    BY <1>1, Invariance, PTL

(* net_thread_get_frame never converts from a buffer that the reader freed *)
(* at NETTHREADEXIT.                                                       *)
THEOREM BufferKept == Spec => []BufferStays
PROOF
  <1>1. Inv => BufferStays
    BY DEF Inv, StreamInv, BufferStays
  <1> QED
    BY <1>1, Invariance, PTL

(* The reader never begins to overwrite a frame that have_frame announces. *)
THEOREM FramesKept == Spec => NoFrameLost
PROOF
  <1>1. Inv /\ Inv' /\ [Next]_vars
          => [\A r \in Readers : ~crowded /\ Writes(r)' /\ ~Writes(r) => t.have = 0]_vars
    <2> SUFFICES ASSUME Inv, Next, NEW r \in Readers, ~crowded, Writes(r)', ~Writes(r)
                 PROVE  t.have = 0
      OBVIOUS
    <2>1. pc[r] \in Reading => t.have = 0
      BY DEF Inv, StreamInv
    <2>2. CASE \E q \in Readers : ReaderStep(q) \/ Answer(q)
      <3>1. PICK q \in Readers : ReaderStep(q) \/ Answer(q)
        BY <2>2
      <3>2. CASE Allocate(q)
        <4>1. pc[q] = "alloc" /\ pc' = [pc EXCEPT ![q] = "recv"] /\ UNCHANGED packed
          BY <3>2, Zenon DEF Allocate, At, Goto
        <4> QED
          BY <4>1, <2>1 DEF Inv, TypeOK, Writes, Reading
      <3>3. CASE ~Allocate(q)
        <4>1. pc[r] \in Reading
          BY <3>1, <3>3 DEF Inv, TypeOK, Writes, Reading, ReaderStep, At, Goto, player,
             Connect, SetRunning, Request, SendRequest, Spin, SpinTo,
             PollReadable, ReadHeader, LockBuffer, Receive, ReceiveInto,
             LockToUnpack, Decompress, Publish, LoopEnd, Retry, RetryTo,
             Exit, Answer
        <4> QED
          BY <4>1, <2>1
      <3> QED
        BY <3>2, <3>3
    <2>3. CASE Play \/ Activate
      BY <2>3 DEF Play, Activate, NetStart, Goto, Inv, TypeOK, Writes
    <2>4. CASE GetFrame \/ Disable \/ LeaveInactive \/ Delete \/ Call
      BY <2>4 DEF GetFrame, Disable, LeaveInactive, Delete, Call, LockFrame,
         Convert, NetStop, reader, Writes
    <2> QED
      BY <2>2, <2>3, <2>4 DEF Next
  <1> QED
    BY <1>1, Invariance, PTL DEF Spec, NoFrameLost
=============================================================================
