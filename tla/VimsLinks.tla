------------------------------ MODULE VimsLinks -----------------------------
(***************************************************************************)
(* The links of veejay's three ports (libvjnet/vj-server.c; veejay/        *)
(* vj-event.c, vj_event_update_remote; veejay/liblavplayvj.c,              *)
(* veejay_handle_callbacks).  A session is a client of the command and the *)
(* status port, a viewer of the data port.  Each port numbers its links on *)
(* its own, by the lowest free one, and the server takes links of one      *)
(* number for one client: whatever closes one of them closes others, and   *)
(* answers to viewers go to the command port.  A request for frames leaves *)
(* its link in a queue that the screen thread empties.                     *)
(*                                                                         *)
(* What is read on a link is what module VimsReceive says of it: whole     *)
(* messages, or something that closes it.                                  *)
(***************************************************************************)
EXTENDS Naturals, Sequences, FiniteSets, Functions

CONSTANTS
  Sessions, Viewers, \* clients
  Nobody,            \* a free link
  MaxConnections,    \* VJ_MAX_CONNECTIONS
  MaxFrames          \* the length of rlinks, 8

Clients == Sessions \cup Viewers
Ports == {"cmd", "sta", "dat"}
Links == 1 .. MaxConnections

ASSUME ClientsAssumption == Nobody \notin Clients /\ Sessions \cap Viewers = {}
ASSUME SizeAssumption == MaxConnections \in Nat /\ MaxFrames \in Nat

VARIABLES
  phase,    \* phase[c]: "away", "half" (a session without status), "in" or "gone"
  want,     \* want[c]: a viewer's frame: "no", "asked", "queued", or "unheard"
            \* when the request found the queue full
  backlog,  \* backlog[p]: connections not accepted yet
  slot,     \* slot[p][l]: the client of a link
  pc,       \* playback thread: where its round is
  pending,  \* the poll of the command port found a connection
  todo,     \* todo[p]: links that the round has yet to look at
  rlinks,   \* links that asked for a frame
  sending,  \* unicast_frame_sender
  apart     \* history: a session got its links in different rounds

vars == <<phase, want, backlog, slot, pc, pending, todo, rlinks, sending, apart>>
client == <<phase, want>>
frames == <<rlinks, sending>>

Used(p) == {l \in Links : slot[p][l] # Nobody}
Linked(c) == \E p \in Ports : c \in Range(slot[p]) \cup Range(backlog[p])
Gone(c) == c # Nobody /\ phase[c] = "gone"

TypeOK ==
  /\ phase \in [Clients -> {"away", "half", "in", "gone"}]
  /\ want \in [Clients -> {"no", "asked", "queued", "unheard"}]
  /\ backlog \in [Ports -> Seq(Clients)]
  /\ slot \in [Ports -> [Links -> Clients \cup {Nobody}]]
  /\ pc \in {"accept", "links"}
  /\ (pending => backlog["cmd"] # <<>>) /\ pending \in BOOLEAN /\ todo \in [Ports -> SUBSET Links]
  /\ rlinks \in Seq(Links) /\ Len(rlinks) <= MaxFrames /\ sending \in BOOLEAN
  /\ sending => rlinks # <<>>
  /\ apart \in BOOLEAN

Init ==
  /\ phase = [c \in Clients |-> "away"] /\ want = [c \in Clients |-> "no"]
  /\ backlog = [p \in Ports |-> <<>>] /\ slot = [p \in Ports |-> [l \in Links |-> Nobody]]
  /\ pc = "accept" /\ pending = FALSE /\ todo = [p \in Ports |-> {}]
  /\ rlinks = <<>> /\ sending = FALSE /\ apart = FALSE

-----------------------------------------------------------------------------
(* The clients.  A session connects to the command port, then to the       *)
(* status port (vj_client_connect), a viewer to the data port.             *)
ConnectTo(c, p, from, to) ==
  /\ phase[c] = from /\ phase' = [phase EXCEPT ![c] = to]
  /\ backlog' = [backlog EXCEPT ![p] = Append(@, c)]
  /\ UNCHANGED <<want, slot, pc, pending, todo, frames, apart>>
Connect(c) ==
  \/ c \in Sessions /\ ConnectTo(c, "cmd", "away", "half")
  \/ c \in Sessions /\ ConnectTo(c, "sta", "half", "in")
  \/ c \in Viewers /\ ConnectTo(c, "dat", "away", "in")

AskFrame(c) ==
  /\ c \in Viewers /\ phase[c] = "in" /\ want[c] = "no" /\ Linked(c)
  /\ want' = [want EXCEPT ![c] = "asked"]
  /\ UNCHANGED <<phase, backlog, slot, pc, pending, todo, frames, apart>>

(* A client closes its end; what it sent is read, and its reset has        *)
(* arrived if it sends one.                                                *)
Leave(c) ==
  /\ phase[c] \in {"half", "in"} /\ phase' = [phase EXCEPT ![c] = "gone"]
  /\ want' = [want EXCEPT ![c] = "no"]
  /\ UNCHANGED <<backlog, slot, pc, pending, todo, frames, apart>>

(* Somebody else comes instead.                                            *)
Return(c) ==
  /\ phase[c] = "gone" /\ ~Linked(c)
  /\ phase' = [phase EXCEPT ![c] = "away"]
  /\ UNCHANGED <<want, backlog, slot, pc, pending, todo, frames, apart>>

-----------------------------------------------------------------------------
(* The round of the playback thread: the three ports are polled, one after *)
(* the other.  What the poll of the command port saw of its connections is *)
(* used after the poll of the status port: sessions may come in between.   *)
Poll == pending' = (backlog["cmd"] # <<>>)

(* Each port takes one connection, on its lowest free link, or closes it   *)
(* when there is none.  The links that were there are to be looked at.     *)
(* What a client does after the poll of its port it may as well do before: *)
(* what is read on its link, if anything, is decided then.                 *)
Lowest(free) == {l \in free : \A k \in free : l <= k}
Comes(p) == backlog[p] # <<>> /\ (p = "cmd" => pending)
Coming(p) == {c \in Clients : Comes(p) /\ Head(backlog[p]) = c}

Accept ==
  /\ pc = "accept" /\ pc' = "links" /\ pending' = FALSE
  /\ slot' = [p \in Ports |-> [l \in Links |->
       IF Comes(p) /\ l \in Lowest(Links \ Used(p)) THEN Head(backlog[p]) ELSE slot[p][l]]]
  /\ backlog' = [p \in Ports |-> IF Comes(p) THEN Tail(backlog[p]) ELSE backlog[p]]
  /\ todo' = [p \in Ports |-> IF p = "sta" THEN {l \in Links : slot'[p][l] # Nobody} ELSE Used(p)]
  /\ apart' = (apart \/ Coming("cmd") # Coming("sta"))
  /\ UNCHANGED <<client, frames>>

(* The loops over the links in use, first of the command port, then of the *)
(* data port, then of the status port.                                     *)
Left(p) == todo[p] \cap Used(p)
At(p, l) ==
  /\ pc = "links" /\ l \in Lowest(Left(p)) /\ pc' = pc
  /\ p # "cmd" => Left("cmd") = {}
  /\ p = "sta" => Left("dat") = {}
  /\ todo' = [todo EXCEPT ![p] = Left(p) \ {l}]

(* _vj_server_del_client of link l on some ports.                          *)
Hangup(ports, l) ==
  slot' = [p \in Ports |-> IF p \in ports THEN [slot[p] EXCEPT ![l] = Nobody] ELSE slot[p]]

(* An answer is sent on the command port to link l, whoever has it.  It    *)
(* closes every link of this number when it fails.                         *)
Answer(l) == UNCHANGED slot \/ (Gone(slot["cmd"][l]) /\ Hangup(Ports, l))

(* vj_event_send_frame: the link is queued before the port is looked at.   *)
Full == Len(rlinks) = MaxFrames
Queue(l) == rlinks' = IF Full THEN rlinks ELSE Append(rlinks, l)

(* A command, a request for frames on the wrong port, or what ends the     *)
(* session: a failed read or VIMS_CLOSE.                                   *)
Command(l) ==
  /\ At("cmd", l)
  /\ \/ ~Gone(slot["cmd"][l]) /\ UNCHANGED <<slot, rlinks>>
     \/ ~Gone(slot["cmd"][l]) /\ Queue(l) /\ UNCHANGED slot
     \/ Hangup({"cmd", "sta"}, l) /\ UNCHANGED rlinks
  /\ UNCHANGED <<client, backlog, pending, sending, apart>>

(* Wrong: unicast_frame_sender is not set.                                 *)
AskNobody == UNCHANGED sending
AskScreen == sending' = TRUE
(* A request for frames, or what closes the link.  A full queue refuses    *)
(* the request, on the command port: its viewer hears nothing.  VIMS_CLOSE *)
(* closes the links of this number on the two other ports, not its own.    *)
Data(l) ==
  LET c == slot["dat"][l] IN
  /\ At("dat", l)
  /\ \/ /\ want[c] = "asked" /\ ~Full /\ Queue(l) /\ AskScreen
        /\ want' = [want EXCEPT ![c] = "queued"] /\ UNCHANGED slot
     \/ /\ want[c] = "asked" /\ Full /\ Answer(l)
        /\ want' = [want EXCEPT ![c] = "unheard"] /\ UNCHANGED frames
     \/ /\ want[c] # "asked" /\ ~Gone(c) /\ UNCHANGED <<want, frames>>
        /\ UNCHANGED slot \/ Hangup({"cmd", "sta"}, l)
     \/ Hangup({"dat"}, l) /\ want' = [want EXCEPT ![c] = "no"] /\ UNCHANGED frames
  /\ UNCHANGED <<phase, backlog, pending, apart>>

(* Wrong: a send that fails closes the status link only; it is ignored.    *)
CloseStatus(l) == Hangup({"sta"}, l)
CloseNone(l) == UNCHANGED slot
CloseAll(l) == Hangup(Ports, l)
(* The status goes to every link of its port, and a send that fails closes *)
(* all of this number.                                                     *)
Status(l) ==
  /\ At("sta", l)
  /\ IF Gone(slot["sta"][l]) THEN CloseAll(l) ELSE UNCHANGED slot
  /\ UNCHANGED <<client, backlog, pending, frames, apart>>

Shows ==
  /\ pc = "links" /\ (\A p \in Ports : Left(p) = {})
  /\ pc' = "accept" /\ Poll /\ todo' = [p \in Ports |-> {}]

(* The screen thread shows the frame, and sends it to the links that asked *)
(* for one.  A send that fails, or would block, closes the link.           *)
Display ==
  /\ Shows
  /\ \/ ~sending /\ UNCHANGED <<want, slot, frames>>
     \/ /\ sending /\ sending' = FALSE /\ rlinks' = <<>>
        /\ \E lost \in SUBSET Range(rlinks) :
             slot' = [slot EXCEPT !["dat"] = [l \in Links |-> IF l \in lost THEN Nobody ELSE @[l]]]
        /\ want' = [c \in Clients |->
             IF want[c] = "queued" /\ \E l \in Range(rlinks) : slot["dat"][l] = c THEN "no" ELSE want[c]]
  /\ UNCHANGED <<phase, backlog, apart>>

(* A frame that is the same as the last one, as when rendering is paused,  *)
(* is not shown.                                                           *)
Skip ==
  /\ Shows /\ sending
  /\ UNCHANGED <<client, backlog, slot, frames, apart>>

-----------------------------------------------------------------------------
Server ==
  \/ Accept \/ Display \/ Skip
  \/ \E l \in Links : Command(l) \/ Data(l) \/ Status(l)
Next == Server \/ \E c \in Clients : Connect(c) \/ AskFrame(c) \/ Leave(c) \/ Return(c)

Spec == Init /\ [][Next]_vars

(* The playback thread goes on, and rendering is not paused for good.      *)
FairSpec == Spec /\ WF_vars(Server) /\ SF_vars(Display)

(* While sessions come one by one, the command and the status link of one  *)
(* number belong to one client: what closes one closes the other, at every *)
(* place that does, and no status goes to a link that somebody else took.  *)
Paired == ~apart => slot["cmd"] = slot["sta"]

(* Every link of a client that left is freed: its number is not lost, nor  *)
(* does the server keep sending to it, even when its links have different  *)
(* numbers.                                                                *)
GoneFreed == \A c \in Clients : phase[c] = "gone" ~> ~Linked(c)

(* A viewer that asked for a frame gets it or loses its link, unless the   *)
(* queue was full when its request was read: then it waits, and nobody     *)
(* tells it.  What got a place in the queue is not forgotten there.        *)
FramesAnswered ==
  \A c \in Viewers : want[c] = "asked" ~> want[c] \in {"no", "unheard"} \/ ~Linked(c)
=============================================================================
