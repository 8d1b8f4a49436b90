--------------------------- MODULE MsgRingProofs ----------------------------
(***************************************************************************)
(* What MsgRing promises for every number of threads, of messages and of   *)
(* places: it implements MessageLog, every message in the ring has a token *)
(* on its way except those that were left behind by a fetch that came too  *)
(* early, and of these there are always fewer than places.                 *)
(***************************************************************************)
EXTENDS MsgRing, FiniteSetTheorems, TLAPS

Inv == TypeOK /\ OnePlace /\ Balance /\ NotStarved

(* The next place is a place of the ring.                                  *)
LEMMA AfterType == \A k \in Slots : After(k) \in Slots
  BY SizeAssumption DEF Slots, After

(* The sets that Balance counts are finite.                                *)
LEMMA Finite ==
  /\ IsFiniteSet(Slots) /\ Cardinality(Slots) = Size
  /\ IsFiniteSet(Filled) /\ Cardinality(Filled) \in Nat
  /\ IsFiniteSet(Posting) /\ Cardinality(Posting) \in Nat
PROOF
  <1>1. IsFiniteSet(0 .. Size - 1) /\ Cardinality(0 .. Size - 1) = Size
    <2>1. 0 \in Int /\ Size - 1 \in Int /\ ~(0 > Size - 1) /\ (Size - 1) - 0 + 1 = Size
      BY SizeAssumption
    <2> QED
      BY <2>1, FS_Interval
  <1>2. IsFiniteSet(Filled)
    BY <1>1, FS_Subset DEF Filled, Slots
  <1>3. IsFiniteSet(Posting)
    BY ThreadsAssumption, FS_Subset DEF Posting
  <1> QED
    BY <1>1, <1>2, <1>3, FS_CardinalityType DEF Slots

(* veejay_init_msg_ring makes an empty ring.                               *)
LEMMA InitInv == Init => Inv
PROOF
  <1> SUFFICES ASSUME Init PROVE Inv
    OBVIOUS
  <1>1. 0 \in Slots
    BY SizeAssumption DEF Slots
  <1>2. TypeOK
    BY <1>1 DEF Init, TypeOK, Writer
  <1>3. OnePlace
    BY <1>1 DEF Init, OnePlace
  <1>4. Filled = {} /\ Posting = {}
    BY DEF Init, Filled, Posting
  <1>5. Balance /\ NotStarved
    BY <1>4, FS_EmptySet, SizeAssumption DEF Init, Balance, NotStarved
  <1> QED
    BY <1>2, <1>3, <1>5 DEF Inv

(* Every step keeps the types.                                             *)
LEMMA StepType ==
  ASSUME TypeOK, [Next]_vars
  PROVE  TypeOK'
PROOF
  <1> USE DEF TypeOK, Writer
  <1>1. CASE \E p \in Threads : (\E m \in Messages : Message(p, m)) \/ Step(p)
    <2> PICK p \in Threads : (\E m \in Messages : Message(p, m)) \/ Step(p)
      BY <1>1
    <2>1. CASE \E m \in Messages : Message(p, m)
      <3>1. 0 \in Slots
        BY SizeAssumption DEF Slots
      <3> QED
        BY <2>1, <3>1 DEF Message
    <2>2. CASE Reserve(p)
      BY <2>2, AfterType DEF Reserve
    <2>3. CASE Fill(p)
      BY <2>3 DEF Fill, Put
    <2>4. CASE Post(p)
      <3>1. 0 \in Slots
        BY SizeAssumption DEF Slots
      <3> QED
        BY <2>4, <3>1 DEF Post, PostTokens
    <2> QED
      BY <2>1, <2>2, <2>3, <2>4 DEF Step
  <1>2. CASE Update \/ TryWait \/ Hand
    BY <1>2 DEF Update, TryWait, Hand
  <1>3. CASE Miss
    <2>1. missed' \in Nat
      BY <1>3 DEF Miss, MissAndGoTo
    <2> QED
      BY <1>3, <2>1 DEF Miss, MissAndGoTo
  <1>4. CASE Take
    BY <1>4, AfterType DEF Take, TakeAndGoTo
  <1>5. CASE Toggle
    BY <1>5 DEF Toggle
  <1>6. CASE UNCHANGED vars
    BY <1>6 DEF vars
  <1> QED
    BY <1>1, <1>2, <1>3, <1>4, <1>5, <1>6 DEF Next, Fetch

(* Every step leaves a message in one place at most: the swap of Fill only *)
(* succeeds on an empty place, and Take empties the place that it shows.   *)
LEMMA StepOnePlace ==
  ASSUME TypeOK, OnePlace, [Next]_vars
  PROVE  OnePlace'
PROOF
  <1> USE NothingAssumption DEF TypeOK, Writer, OnePlace
  <1>1. CASE \E p \in Threads : (\E m \in Messages : Message(p, m)) \/ Step(p)
    <2> PICK p \in Threads : (\E m \in Messages : Message(p, m)) \/ Step(p)
      BY <1>1
    <2>1. CASE \E m \in Messages : Message(p, m)
      BY <2>1 DEF Message, Waiting
    <2>2. CASE Reserve(p)
      BY <2>2 DEF Reserve
    <2>3. CASE Fill(p)
      BY <2>3 DEF Fill, Put
    <2>4. CASE Post(p)
      BY <2>4 DEF Post, PostTokens
    <2> QED
      BY <2>1, <2>2, <2>3, <2>4 DEF Step
  <1>2. CASE Update \/ TryWait \/ Hand \/ Miss \/ Toggle
    BY <1>2 DEF Update, TryWait, Hand, Miss, MissAndGoTo, Toggle
  <1>3. CASE Take
    BY <1>3 DEF Take, TakeAndGoTo
  <1>4. CASE UNCHANGED vars
    BY <1>4 DEF vars
  <1> QED
    BY <1>1, <1>2, <1>3, <1>4 DEF Next, Fetch

(* Every step keeps the balance of messages and tokens, and a fetch that   *)
(* comes too early finds at least one empty place.                         *)
LEMMA StepBalance ==
  ASSUME TypeOK, OnePlace, Balance, NotStarved, [Next]_vars
  PROVE  Balance' /\ NotStarved'
PROOF
  <1> USE DEF TypeOK, Writer
  <1>1. CASE \E p \in Threads : (\E m \in Messages : Message(p, m)) \/ Reserve(p)
    <2>1. Filled' = Filled /\ Posting' = Posting
      BY <1>1 DEF Message, Reserve, Filled, Posting
    <2>2. UNCHANGED <<tokens, missed, screen>>
      BY <1>1 DEF Message, Reserve
    <2> QED
      BY <2>1, <2>2 DEF Balance, NotStarved
  <1>2. ASSUME NEW p \in Threads, Fill(p)
        PROVE  Balance' /\ NotStarved'
    <2> DEFINE k == writer[p].slot
    <2>1. k \in Slots \ Filled /\ p \in Threads \ Posting /\ writer[p].msg # Nothing
      <3>1. writer[p].at = "fill" /\ dommel[k] = Nothing
        BY <1>2 DEF Fill, Put
      <3> QED
        BY <3>1 DEF Filled, Posting, OnePlace
    <2>2. Filled' = Filled \cup {k} /\ Posting' = Posting \cup {p}
      BY <1>2, <2>1 DEF Fill, Put, Filled, Posting
    <2>3. Cardinality(Filled') = Cardinality(Filled) + 1
      BY <2>1, <2>2, Finite, FS_AddElement
    <2>4. Cardinality(Posting') = Cardinality(Posting) + 1
      BY <2>1, <2>2, Finite, FS_AddElement
    <2>5. UNCHANGED <<tokens, missed, screen>>
      BY <1>2 DEF Fill, Put
    <2> QED
      BY <2>3, <2>4, <2>5, Finite DEF Balance, NotStarved
  <1>3. ASSUME NEW p \in Threads, Post(p)
        PROVE  Balance' /\ NotStarved'
    <2>1. Filled' = Filled /\ Posting' = Posting \ {p} /\ p \in Posting
      BY <1>3 DEF Post, PostTokens, Filled, Posting
    <2>2. Cardinality(Posting') = Cardinality(Posting) - 1
      BY <2>1, Finite, FS_RemoveElement
    <2>3. tokens' = tokens + 1 /\ UNCHANGED <<missed, screen>>
      BY <1>3 DEF Post, PostTokens
    <2> QED
      BY <2>1, <2>2, <2>3, Finite DEF Balance, NotStarved
  <1>4. CASE Update \/ TryWait \/ Hand
    <2>1. Filled' = Filled /\ Posting' = Posting
      BY <1>4 DEF Update, TryWait, Hand, Filled, Posting
    <2> QED
      BY <1>4, <2>1, Finite DEF Update, TryWait, Hand, Balance, NotStarved
  <1>5. CASE Miss
    <2>1. Filled' = Filled /\ Posting' = Posting
      BY <1>5 DEF Miss, MissAndGoTo, Filled, Posting
    <2>2. Balance'
      BY <1>5, <2>1, Finite DEF Miss, MissAndGoTo, Balance
    <2>3. head \in Slots /\ Filled \in SUBSET (Slots \ {head})
      BY <1>5 DEF Miss, MissAndGoTo, Filled
    <2>4. IsFiniteSet(Slots \ {head}) /\ Cardinality(Slots \ {head}) = Size - 1
      BY <2>3, Finite, FS_RemoveElement
    <2>5. Cardinality(Filled) <= Size - 1
      BY <2>3, <2>4, FS_Subset
    <2>6. Cardinality(Filled) >= missed + 1
      BY <1>5, Finite DEF Miss, MissAndGoTo, Balance
    <2>7. missed' = missed + 1
      BY <1>5 DEF Miss, MissAndGoTo
    <2>8. NotStarved'
      BY <2>5, <2>6, <2>7, Finite, SizeAssumption DEF NotStarved
    <2> QED
      BY <2>2, <2>8
  <1>6. CASE Take
    <2>1. Filled' = Filled \ {head} /\ head \in Filled /\ Posting' = Posting
      BY <1>6 DEF Take, TakeAndGoTo, Filled, Posting
    <2>2. Cardinality(Filled') = Cardinality(Filled) - 1
      BY <2>1, Finite, FS_RemoveElement
    <2>3. screen = "read" /\ screen' = "wait" /\ UNCHANGED <<tokens, missed>>
      BY <1>6 DEF Take, TakeAndGoTo
    <2> QED
      BY <2>1, <2>2, <2>3, Finite DEF Balance, NotStarved
  <1>7. CASE Toggle \/ UNCHANGED vars
    <2>1. UNCHANGED <<dommel, writer, tokens, missed, screen>>
      BY <1>7 DEF Toggle, vars
    <2> QED
      BY <2>1 DEF Balance, NotStarved, Filled, Posting
  <1> QED
    BY <1>1, <1>2, <1>3, <1>4, <1>5, <1>6, <1>7 DEF Next, Step, Fetch

(* The invariant holds of every behaviour.                                 *)
LEMMA Invariance == Spec => []Inv
PROOF
  <1>1. Inv /\ [Next]_vars => Inv'
    BY StepType, StepOnePlace, StepBalance DEF Inv
  <1> QED
    BY <1>1, InitInv, PTL DEF Spec

(* Types: places and counters of the ring stay in their ranges.            *)
THEOREM TypeCorrect == Spec => []TypeOK
PROOF
  <1>1. Inv => TypeOK
    BY DEF Inv
  <1> QED
    BY <1>1, Invariance, PTL

(* veejay_msg_ringbuffer and veejay_msg_ringfetch keep tokens and messages *)
(* in balance, but for what was left behind.                               *)
THEOREM Balanced == Spec => []Balance
PROOF
  <1>1. Inv => Balance
    BY DEF Inv
  <1> QED
    BY <1>1, Invariance, PTL

(* Fewer messages are left behind than there are places: the fetcher of a  *)
(* full ring always has a token, or will get one.                          *)
THEOREM NeverStarved == Spec => []NotStarved
PROOF
  <1>1. Inv => NotStarved
    BY DEF Inv
  <1> QED
    BY <1>1, Invariance, PTL

(* The steps of the ring, seen as steps of the log.                        *)
LEMMA StepLog ==
  ASSUME Inv, Inv', [Next]_vars
  PROVE  [Log!Next]_<<Waiting, shown>>
PROOF
  <1> USE NothingAssumption DEF Inv, TypeOK, Writer
  <1>1. CASE \E p \in Threads : (\E m \in Messages : Message(p, m)) \/ Step(p)
    <2> PICK p \in Threads : (\E m \in Messages : Message(p, m)) \/ Step(p)
      BY <1>1
    <2>1. ASSUME NEW m \in Messages, Message(p, m)
          PROVE  Log!Log(m)
      <3>1. writer[p].msg = Nothing
        BY <2>1 DEF Message, OnePlace
      <3>2. Waiting' = Waiting \cup {m}
        BY <2>1, <3>1 DEF Message, Waiting
      <3> QED
        BY <2>1, <3>2 DEF Message, Log!Log
    <2>2. CASE Reserve(p) \/ Post(p)
      <3>1. \A q \in Threads : writer'[q].msg = writer[q].msg
        BY <2>2 DEF Reserve, Post, PostTokens, OnePlace
      <3>2. UNCHANGED <<dommel, shown>>
        BY <2>2 DEF Reserve, Post, PostTokens
      <3> QED
        BY <3>1, <3>2 DEF Waiting
    <2>3. CASE Fill(p)
      <3> DEFINE k == writer[p].slot
                 m == writer[p].msg
      <3>1. k \in Slots /\ dommel[k] = Nothing /\ m \in Messages
        BY <2>3 DEF Fill, Put, OnePlace
      <3>2. dommel' = [dommel EXCEPT ![k] = m] /\ shown' = shown
        BY <2>3 DEF Fill, Put
      <3>3. writer'[p].msg = Nothing /\ \A q \in Threads \ {p} : writer'[q] = writer[q]
        BY <2>3 DEF Fill, Put
      <3>4. ASSUME NEW n \in Messages
            PROVE  n \in Waiting' <=> n \in Waiting
        <4>1. CASE n = m
          BY <4>1, <3>1, <3>2 DEF Waiting
        <4>2. CASE n # m
          BY <4>2, <3>1, <3>2, <3>3 DEF Waiting
        <4> QED
          BY <4>1, <4>2
      <3> QED
        BY <3>2, <3>4 DEF Waiting
    <2> QED
      BY <2>1, <2>2, <2>3 DEF Step, Log!Next
  <1>2. CASE Update \/ TryWait \/ Hand \/ Miss \/ Toggle
    BY <1>2 DEF Update, TryWait, Hand, Miss, MissAndGoTo, Toggle, Waiting
  <1>3. CASE Take
    <2> DEFINE m == dommel[head]
    <2>1. m \in Messages /\ m \in Waiting
      BY <1>3 DEF Take, TakeAndGoTo, Waiting
    <2>2. shown' = shown \cup {m} /\ writer' = writer /\ dommel' = [dommel EXCEPT ![head] = Nothing]
      BY <1>3 DEF Take, TakeAndGoTo
    <2>3. ASSUME NEW n \in Messages
          PROVE  n \in Waiting' <=> n \in Waiting /\ n # m
      BY <2>1, <2>2 DEF Waiting, OnePlace
    <2>4. Waiting' = Waiting \ {m}
      BY <2>3 DEF Waiting
    <2> QED
      BY <2>1, <2>2, <2>4 DEF Log!Next, Log!Show
  <1>4. CASE UNCHANGED vars
    BY <1>4 DEF vars, Waiting
  <1> QED
    BY <1>1, <1>2, <1>3, <1>4 DEF Next, Fetch

(* The ring of vj-common.c implements a log that loses and repeats no      *)
(* message: every step of a thread is one of the log's, or none.           *)
THEOREM Implements == Spec => LogSpec
PROOF
  <1>1. Init => Log!Init
    BY NothingAssumption DEF Init, Log!Init, Waiting
  <1>2. Inv /\ Inv' /\ [Next]_vars => [Log!Next]_<<Waiting, shown>>
    BY StepLog
  <1> QED
    BY <1>1, <1>2, Invariance, PTL DEF Spec, LogSpec, Log!Spec
=============================================================================
