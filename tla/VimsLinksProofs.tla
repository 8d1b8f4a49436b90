-------------------------- MODULE VimsLinksProofs ---------------------------
(***************************************************************************)
(* For every number of clients, of links and of places for requests: the   *)
(* links of a number stay paired while sessions come one by one.           *)
(***************************************************************************)
EXTENDS VimsLinks, TLAPS

Inv == TypeOK /\ Paired

Slots == [Links -> Clients \cup {Nobody}]

(* A sequence that grew is a sequence with something in it.                *)
LEMMA Appended ==
  ASSUME NEW S, NEW s \in Seq(S), NEW x \in S
  PROVE  Append(s, x) \in Seq(S) /\ Append(s, x) # <<>>
PROOF
  <1>1. Append(s, x) \in Seq(S) /\ Len(Append(s, x)) = Len(s) + 1 /\ Len(s) \in Nat
    OBVIOUS
  <1> QED
    BY <1>1

(* Veejay starts with no links.                                            *)
LEMMA InitInv == Init => Inv
PROOF
  <1> SUFFICES ASSUME Init PROVE Inv
    OBVIOUS
  <1>1. backlog \in [Ports -> Seq(Clients)] /\ slot \in [Ports -> Slots]
    BY DEF Init, Slots
  <1>2. rlinks \in Seq(Links) /\ Len(rlinks) <= MaxFrames
    BY SizeAssumption DEF Init
  <1>3. Paired
    BY DEF Init, Paired, Ports
  <1> QED
    BY <1>1, <1>2, <1>3 DEF Init, Inv, TypeOK, Slots

(* Hanging up keeps the type of the links, and closes the command and the  *)
(* status link together when both ports are told to.                       *)
LEMMA HangupKeeps ==
  ASSUME NEW ports \in SUBSET Ports, NEW l \in Links, TypeOK, Hangup(ports, l)
  PROVE  /\ slot' \in [Ports -> Slots]
         /\ ("cmd" \in ports <=> "sta" \in ports) =>
              (slot["cmd"] = slot["sta"] => slot'["cmd"] = slot'["sta"])
  BY DEF TypeOK, Hangup, Ports, Slots

(* A request finds a place in the queue or leaves it as it is.             *)
LEMMA QueueKeeps ==
  ASSUME NEW l \in Links, TypeOK, Queue(l)
  PROVE  /\ rlinks' \in Seq(Links) /\ Len(rlinks') <= MaxFrames
         /\ rlinks # <<>> => rlinks' # <<>>
         /\ ~Full => rlinks' # <<>>
PROOF
  <1>1. rlinks \in Seq(Links) /\ Len(rlinks) <= MaxFrames /\ Len(rlinks) \in Nat
    BY DEF TypeOK
  <1>2. CASE Full
    BY <1>1, <1>2 DEF Queue
  <1>3. CASE ~Full
    <2>1. rlinks' = Append(rlinks, l)
      BY <1>3 DEF Queue
    <2>2. rlinks' \in Seq(Links) /\ Len(rlinks') = Len(rlinks) + 1
      BY <1>1, <2>1
    <2> QED
      BY <1>1, <1>3, <2>2, SizeAssumption DEF Full
  <1> QED
    BY <1>2, <1>3

(* What the clients do does not touch the links.                           *)
LEMMA ClientStep ==
  ASSUME NEW c \in Clients, Inv, Connect(c) \/ AskFrame(c) \/ Leave(c) \/ Return(c)
  PROVE  Inv'
PROOF
  <1> USE DEF Inv, TypeOK, Paired, client, frames
  <1>1. ASSUME NEW p \in Ports, NEW from, NEW to \in {"half", "in"}, ConnectTo(c, p, from, to)
        PROVE  Inv'
    <2>1. phase' \in [Clients -> {"away", "half", "in", "gone"}]
      BY <1>1 DEF ConnectTo
    <2>2. Append(backlog[p], c) \in Seq(Clients) /\ Append(backlog[p], c) # <<>>
      <3>1. backlog[p] \in Seq(Clients)
        OBVIOUS
      <3> QED
        BY <3>1, Appended
    <2>3. backlog' \in [Ports -> Seq(Clients)] /\ (backlog["cmd"] # <<>> => backlog'["cmd"] # <<>>)
      BY <1>1, <2>2 DEF ConnectTo, Ports
    <2> QED
      BY <1>1, <2>1, <2>3 DEF ConnectTo
  <1>2. CASE Connect(c)
    BY <1>1, <1>2 DEF Connect, Ports
  <1>3. CASE AskFrame(c)
    BY <1>3 DEF AskFrame
  <1>4. CASE Leave(c)
    BY <1>4 DEF Leave
  <1>5. CASE Return(c)
    BY <1>5 DEF Return
  <1> QED
    BY <1>2, <1>3, <1>4, <1>5

(* Both ports take the same session, or none, on the same link.            *)
LEMMA AcceptStep ==
  ASSUME Inv, Accept
  PROVE  Inv'
PROOF
  <1> USE DEF Inv, TypeOK, Paired, client, frames
  <1>1. \A p \in Ports : Comes(p) =>
          Head(backlog[p]) \in Clients /\ Tail(backlog[p]) \in Seq(Clients)
    BY DEF Comes
  <1>2. slot' \in [Ports -> Slots]
    BY <1>1 DEF Accept, Slots
  <1>3. backlog' \in [Ports -> Seq(Clients)]
    BY <1>1 DEF Accept
  <1>4. todo' \in [Ports -> SUBSET Links]
    BY DEF Accept, Used
  <1>5. TypeOK'
    BY <1>2, <1>3, <1>4 DEF Accept, Slots
  <1>6. ASSUME ~apart' PROVE slot'["cmd"] = slot'["sta"]
    <2>1. slot["cmd"] = slot["sta"] /\ Coming("cmd") = Coming("sta")
      BY <1>6 DEF Accept
    <2>2. Used("cmd") = Used("sta")
      BY <2>1 DEF Used
    <2>3. Comes("cmd") = Comes("sta") /\ (Comes("cmd") => Head(backlog["cmd"]) = Head(backlog["sta"]))
      BY <1>1, <2>1 DEF Coming, Ports, Comes
    <2>4. \A l \in Links : slot'["cmd"][l] = slot'["sta"][l]
      BY <2>1, <2>2, <2>3 DEF Accept, Ports
    <2> QED
      BY <1>2, <2>4 DEF Slots, Ports
  <1> QED
    BY <1>5, <1>6

(* What is read or sent on a link closes both links of its number or none. *)
LEMMA LinkStep ==
  ASSUME NEW l \in Links, Inv, Command(l) \/ Data(l) \/ Status(l)
  PROVE  Inv'
PROOF
  <1> USE DEF Inv, TypeOK, Paired, client, frames
  <1>1. ASSUME NEW p \in Ports, At(p, l)
        PROVE  pc' = pc /\ todo' \in [Ports -> SUBSET Links]
    BY <1>1 DEF At, Left
  <1>2. {"cmd", "sta"} \in SUBSET Ports /\ {"dat"} \in SUBSET Ports /\ Ports \in SUBSET Ports
    BY DEF Ports
  <1>3. CASE Command(l)
    <2>1. pc' = pc /\ todo' \in [Ports -> SUBSET Links]
      BY <1>1, <1>3 DEF Command, Ports
    <2>2. /\ slot' \in [Ports -> Slots]
          /\ slot["cmd"] = slot["sta"] => slot'["cmd"] = slot'["sta"]
      BY <1>2, <1>3, HangupKeeps DEF Command, Slots
    <2>3. /\ rlinks' \in Seq(Links) /\ Len(rlinks') <= MaxFrames
          /\ rlinks # <<>> => rlinks' # <<>>
      BY <1>3, QueueKeeps DEF Command
    <2> QED
      BY <1>3, <2>1, <2>2, <2>3 DEF Command, Slots
  <1>4. CASE Data(l)
    <2>1. pc' = pc /\ todo' \in [Ports -> SUBSET Links]
      BY <1>1, <1>4 DEF Data, Ports
    <2>2. /\ slot' \in [Ports -> Slots]
          /\ slot["cmd"] = slot["sta"] => slot'["cmd"] = slot'["sta"]
      BY <1>2, <1>4, HangupKeeps DEF Data, Answer, Slots, Ports
    <2>3. /\ rlinks' \in Seq(Links) /\ Len(rlinks') <= MaxFrames /\ sending' \in BOOLEAN
          /\ sending' => rlinks' # <<>>
      <3>1. CASE ~Full /\ Queue(l) /\ AskScreen
        BY <3>1, QueueKeeps DEF AskScreen
      <3>2. CASE UNCHANGED frames
        BY <3>2
      <3> QED
        BY <1>4, <3>1, <3>2 DEF Data
    <2>4. want' \in [Clients -> {"no", "asked", "queued", "unheard"}]
      BY <1>4 DEF Data
    <2> QED
      BY <1>4, <2>1, <2>2, <2>3, <2>4 DEF Data, Slots
  <1>5. CASE Status(l)
    <2>1. pc' = pc /\ todo' \in [Ports -> SUBSET Links]
      BY <1>1, <1>5 DEF Status, Ports
    <2>2. /\ slot' \in [Ports -> Slots]
          /\ slot["cmd"] = slot["sta"] => slot'["cmd"] = slot'["sta"]
      BY <1>2, <1>5, HangupKeeps DEF Status, CloseAll, Slots, Ports
    <2> QED
      BY <1>5, <2>1, <2>2 DEF Status, Slots
  <1> QED
    BY <1>3, <1>4, <1>5

(* Showing a frame closes links of the data port only.                     *)
LEMMA ShowStep ==
  ASSUME Inv, Display \/ Skip
  PROVE  Inv'
PROOF
  <1> USE DEF Inv, TypeOK, Paired, client, frames
  <1>1. ASSUME Shows
        PROVE  /\ pc' = "accept" /\ todo' \in [Ports -> SUBSET Links] /\ pending' \in BOOLEAN
               /\ pending' => backlog["cmd"] # <<>>
    BY <1>1 DEF Shows, Poll
  <1>2. CASE Display /\ ~sending
    BY <1>1, <1>2 DEF Display
  <1>3. CASE Display /\ sending
    <2>1. /\ slot' \in [Ports -> Slots]
          /\ slot["cmd"] = slot["sta"] => slot'["cmd"] = slot'["sta"]
      BY <1>3 DEF Display, Slots, Ports
    <2>2. want' \in [Clients -> {"no", "asked", "queued", "unheard"}]
      BY <1>3 DEF Display
    <2>3. rlinks' \in Seq(Links) /\ Len(rlinks') <= MaxFrames /\ sending' = FALSE
      BY <1>3, SizeAssumption DEF Display
    <2> QED
      BY <1>1, <1>3, <2>1, <2>2, <2>3 DEF Display, Slots
  <1>4. CASE Skip
    BY <1>1, <1>4 DEF Skip
  <1> QED
    BY <1>2, <1>3, <1>4

(* Every step keeps the types and the pairs.                               *)
LEMMA StepInv ==
  ASSUME Inv, [Next]_vars
  PROVE  Inv'
PROOF
  <1>1. CASE UNCHANGED vars
    BY <1>1 DEF Inv, TypeOK, Paired, vars
  <1>2. CASE Next
    BY <1>2, ClientStep, AcceptStep, LinkStep, ShowStep DEF Next, Server
  <1> QED
    BY <1>1, <1>2

(* Types: among them, the queue of requests keeps its bound, and the       *)
(* screen thread is asked for frames only when somebody waits in it.       *)
THEOREM TypeCorrect == Spec => []TypeOK
PROOF
  <1>1. Inv => TypeOK
    BY DEF Inv
  <1> QED
    BY InitInv, StepInv, <1>1, PTL DEF Spec

(* While sessions come one by one, the command and the status link of one  *)
(* number belong to one client (_vj_server_del_client is always called for *)
(* both ports).                                                            *)
THEOREM StaysPaired == Spec => []Paired
PROOF
  <1>1. Inv => Paired
    BY DEF Inv
  <1> QED
    BY InitInv, StepInv, <1>1, PTL DEF Spec
=============================================================================
