---------------------------- MODULE VimsReceive -----------------------------
(***************************************************************************)
(* How the playback thread receives VIMS messages on one TCP port          *)
(* (libvjnet/vj-server.c, called from vj_event_update_remote in            *)
(* veejay/vj-event.c).  Each round it polls, accepts one connection, and   *)
(* reads every link that is readable: one byte, then at most RECV_SIZE     *)
(* more, into one buffer that all links of the port share and that is      *)
(* never cleared.  What was read is verified as a row of whole messages,   *)
(* parsed and executed; whatever fails closes the connection.  The         *)
(* sockets block.                                                          *)
(*                                                                         *)
(* A message is a row of cells <<client, number, position>>: the first     *)
(* stands for its letter, the second for its header, the last for its end. *)
(* TCP keeps the cells of a client in order and delivers them in pieces.   *)
(* A cell within a message may look like a letter: the 'D' of a header, a  *)
(* capital in a text, any byte of a packet of key frames.                  *)
(***************************************************************************)
EXTENDS Naturals, FiniteSets, SequencesExt

CONSTANTS
  Clients,
  Script,         \* Script[c]: the messages of a client, [kind, len]
  Letters,        \* cells that are no first cells but look like one: 'V', 'K', 'D'
  Nobody, Blank,  \* a free link; a byte of the buffer that nobody wrote
  MaxConnections, \* VJ_MAX_CONNECTIONS
  RecvSize,       \* RECV_SIZE, in cells
  BufSize,        \* recv_bufsize, in cells
  MaxPending      \* VJ_MAX_PENDING_MSG

(* VIMS messages; a bundle that contains VIMS_CLOSE, as its own netid, 601,*)
(* is above what the verification takes; netid 0; packets of key frames.   *)
Kinds == {"command", "close", "zero", "keys"}
Links == 1 .. MaxConnections
Numbers(c) == DOMAIN Script[c]

ASSUME ScriptAssumption ==
  /\ Script \in [Clients -> Seq([kind : Kinds, len : Nat])]
  /\ \A c \in Clients : \A m \in Numbers(c) : Script[c][m].len > 2
(* The last byte of a VIMS message is ';'.                                 *)
ASSUME LettersAssumption ==
  \A x \in Letters : LET message == Script[x[1]][x[2]] IN
    x[3] < message.len \/ (x[3] = message.len /\ message.kind = "keys")
ASSUME SizeAssumption ==
  /\ MaxConnections \in Nat \ {0} /\ RecvSize \in Nat \ {0} /\ BufSize \in Nat /\ BufSize >= RecvSize
  /\ MaxPending \in Nat /\ Nobody \notin Clients /\ Blank \notin Clients \X Nat \X Nat

VARIABLES
  conn,     \* conn[c]: "away", "open" or "closed" by either side
  left,     \* clients that closed their end
  sent,     \* sent[c]: messages given to the socket
  taken,    \* taken[c]: cells that recv returned
  backlog,  \* connections not accepted yet
  slot,     \* slot[l]: Link[l]->in_use and handle
  readable, \* fds: the links that the round has yet to look at
  pc,       \* playback thread: where it is
  buf,      \* recv_buf
  received, \* cells read into it by this update
  executed, \* history: executed[c], messages executed for c, 0 for a torn one
  torn      \* history: clients of whom a read ended within a message

vars == <<conn, left, sent, taken, backlog, slot, readable, pc, buf, received, executed, torn>>

(* Where the k-th message of c ends, what c sends, and how many messages   *)
(* the first n cells make.                                                 *)
Cells(c, m) == [p \in 1 .. Script[c][m].len |-> <<c, m, p>>]
Ends == [c \in Clients |->
  LET end[k \in 0 .. Len(Script[c])] == IF k = 0 THEN 0 ELSE end[k - 1] + Script[c][k].len IN end]
EndOf(c, k) == Ends[c][k]
MessageOf(c, p) == CHOOSE m \in Numbers(c) : EndOf(c, m - 1) < p /\ p <= EndOf(c, m)
Wire == [c \in Clients |-> [p \in 1 .. EndOf(c, Len(Script[c])) |->
  LET m == MessageOf(c, p) IN <<c, m, p - EndOf(c, m - 1)>>]]
Whole(c, n) == Cardinality({m \in Numbers(c) : EndOf(c, m) <= n})
InFlight(c) == EndOf(c, sent[c]) - taken[c]

Cell == UNION {UNION {Range(Cells(c, m)) : m \in Numbers(c)} : c \in Clients}

TypeOK ==
  /\ conn \in [Clients -> {"away", "open", "closed"}] /\ left \subseteq Clients
  /\ sent \in [Clients -> Nat] /\ taken \in [Clients -> Nat]
  /\ \A c \in Clients : sent[c] <= Len(Script[c]) /\ taken[c] <= EndOf(c, sent[c])
  /\ backlog \in Seq(Clients)
  /\ slot \in [Links -> Clients \cup {Nobody}] /\ readable \subseteq Links
  /\ \A k, l \in Links : k # l /\ slot[k] = slot[l] => slot[k] = Nobody
  /\ \A c \in Clients : conn[c] = "open" <=> c \in Range(backlog) \cup Range(slot)
  /\ pc \in {"idle", "links", "rest", "more", "update"} /\ (pc = "idle" <=> readable = {})
  /\ buf \in Seq(Cell) /\ received \in 0 .. Len(buf) /\ torn \subseteq Clients

Init ==
  /\ conn = [c \in Clients |-> "away"] /\ left = {} /\ backlog = <<>>
  /\ sent = [c \in Clients |-> 0] /\ taken = sent
  /\ slot = [l \in Links |-> Nobody] /\ readable = {} /\ pc = "idle"
  /\ buf = <<>> /\ received = 0
  /\ executed = [c \in Clients |-> <<>>] /\ torn = {}

-----------------------------------------------------------------------------
(* The clients and the network.                                            *)
Connect(c) ==
  /\ conn[c] = "away"
  /\ conn' = [conn EXCEPT ![c] = "open"] /\ backlog' = Append(backlog, c)
  /\ UNCHANGED <<left, sent, taken, slot, readable, pc, buf, received, executed, torn>>

Send(c) ==
  /\ conn[c] = "open" /\ c \notin left /\ sent[c] < Len(Script[c])
  /\ sent' = [sent EXCEPT ![c] = @ + 1]
  /\ UNCHANGED <<conn, left, taken, backlog, slot, readable, pc, buf, received, executed, torn>>

Leave(c) ==
  /\ conn[c] = "open" /\ c \notin left /\ left' = left \cup {c}
  /\ UNCHANGED <<conn, sent, taken, backlog, slot, readable, pc, buf, received, executed, torn>>

-----------------------------------------------------------------------------
AtEOF(c) == c \in left /\ InFlight(c) = 0

(* Wrong: a loop that ends one link early.                                 *)
UsedButLast == {l \in Links : slot[l] # Nobody /\ l < MaxConnections}
Used == {l \in Links : slot[l] # Nobody}
Free == {l \in Links : slot[l] = Nobody}

(* Poll, and accept one connection: it gets the lowest free link or is     *)
(* closed.  What has not reached the socket yet is taken for what its      *)
(* client sends later; that a message is there in part shows in Receive.   *)
Poll ==
  /\ pc = "idle"
  /\ readable' = {l \in Used : InFlight(slot[l]) > 0 \/ AtEOF(slot[l])}
  /\ pc' = IF readable' = {} THEN "idle" ELSE "links"
  /\ \/ backlog = <<>> /\ UNCHANGED <<conn, backlog, slot>>
     \/ /\ backlog # <<>> /\ Free # {}
        /\ slot' = [slot EXCEPT ![Min(Free)] = Head(backlog)]
        /\ backlog' = Tail(backlog) /\ UNCHANGED conn
     \/ /\ backlog # <<>> /\ Free = {}
        /\ conn' = [conn EXCEPT ![Head(backlog)] = "closed"]
        /\ backlog' = Tail(backlog) /\ UNCHANGED slot
  /\ UNCHANGED <<left, sent, taken, buf, received, executed, torn>>

(* The link that the round is at, and how it goes on to the next one.      *)
Link == Min(readable)
Client == slot[Link]
NextLink ==
  /\ readable' = readable \ {Link} /\ received' = 0
  /\ pc' = IF readable' = {} THEN "idle" ELSE "links"
Close == slot' = [slot EXCEPT ![Link] = Nobody] /\ conn' = [conn EXCEPT ![Client] = "closed"]

(* Wrong: no test of the first byte; one for 'V' only.                     *)
AnyByte(x) == x # Blank
FirstOfVims(x) == x # Blank /\ x[3] = 1 /\ Script[x[1]][x[2]].kind # "keys"
IsFirst(x) == x # Blank /\ (x[3] = 1 \/ x \in Letters)

(* recv of one byte.                                                       *)
FirstByte ==
  /\ pc = "links"
  /\ \/ AtEOF(Client) /\ Close /\ NextLink /\ UNCHANGED <<taken, buf>>
     \/ LET x == Wire[Client][taken[Client] + 1] IN
        /\ InFlight(Client) > 0
        /\ taken' = [taken EXCEPT ![Client] = @ + 1]
        /\ buf' = <<x>> \o SubSeq(buf, 2, Len(buf))
        /\ \/ IsFirst(x) /\ pc' = "rest" /\ received' = 1 /\ UNCHANGED <<conn, slot, readable>>
           \/ ~IsFirst(x) /\ Close /\ NextLink
  /\ UNCHANGED <<left, sent, backlog, executed, torn>>

(* recv of the rest, which blocks while there is nothing; when it is full  *)
(* and errno, which no successful call resets, is EAGAIN, it is repeated.  *)
Receive ==
  /\ pc \in {"rest", "more"}
  /\ \E n \in 0 .. RecvSize :
       LET last == taken[Client] + n IN
       /\ n <= InFlight(Client) /\ (n = 0 => AtEOF(Client))
       /\ buf' = SubSeq(buf, 1, received) \o SubSeq(Wire[Client], taken[Client] + 1, last)
                   \o SubSeq(buf, received + n + 1, Len(buf))
       /\ taken' = [taken EXCEPT ![Client] = last]
       /\ \/ /\ pc' = "update" /\ received' = received + n /\ UNCHANGED <<conn, slot, readable>>
             /\ torn' = torn \cup {c \in {Client} : \A k \in 0 .. sent[c] : EndOf(c, k) # last}
          \/ /\ n = RecvSize /\ received + n - 1 <= BufSize
             /\ pc' = "more" /\ received' = received + n /\ UNCHANGED <<conn, slot, readable, torn>>
          \/ n = RecvSize /\ received + n - 1 > BufSize /\ Close /\ NextLink /\ UNCHANGED torn
  /\ UNCHANGED <<left, sent, backlog, executed>>

-----------------------------------------------------------------------------
(* Verification and parsing look at the buffer, whoever wrote it.          *)
At(i) == IF i \in DOMAIN buf THEN buf[i] ELSE Blank
Message(x) == Script[x[1]][x[2]]
IsHeader(x) == x # Blank /\ x[3] = 2
IsEnd(x) == x # Blank /\ x[3] = Message(x).len /\ Message(x).kind # "keys"
LenAt(i) == Message(At(i + 1)).len
IsKeys(x) == Message(x).kind = "keys"
KindAt(i) == Message(At(IF IsKeys(At(i)) THEN i ELSE i + 1)).kind

(* A VIMS message has a header and ends with ';'; of key frames only the   *)
(* header is tested.                                                       *)
Fits(i) ==
  /\ IsFirst(At(i)) /\ IsHeader(At(i + 1))
  /\ IsKeys(At(i)) \/ (~IsKeys(At(i + 1)) /\ IsEnd(At(i + LenAt(i) - 1)))

(* Wrong: the whole buffer is looked at.                                   *)
FoundInBuffer ==
  LET from[i \in 1 .. Len(buf)] ==
        IF i = Len(buf) THEN <<>>
        ELSE IF ~Fits(i) THEN <<0>> ELSE <<i>> \o from[Min({i + LenAt(i), Len(buf)})]
  IN from[1]
(* Where the messages begin, 0 for what is not one.  The first byte is not *)
(* counted, so that the loop ends one byte early.                          *)
Found ==
  LET from[i \in 1 .. received] ==
        IF i = received THEN <<>>
        ELSE IF ~Fits(i) THEN <<0>> ELSE <<i>> \o from[Min({i + LenAt(i), received})]
  IN from[1]

(* Messages for netid 0 are counted and not stored: the numbers differ.    *)
Verified(found) == received > 1 /\ 0 \notin Range(found) /\ Len(found) < MaxPending
Accepted(found) == Verified(found) /\ \A k \in DOMAIN found : KindAt(found[k]) # "zero"

(* The number of the message of c that is at i, 0 when it is not whole.    *)
NumberAt(c, i) ==
  LET x == At(i) IN
  IF [p \in 1 .. LenAt(i) |-> At(i + p - 1)] = Cells(x[1], x[2]) /\ x[1] = c THEN x[2] ELSE 0

(* What was found is queued, retrieved and executed; nothing is after      *)
(* VIMS_CLOSE, which frees the link.                                       *)
Closing(queue) == {k \in DOMAIN queue : KindAt(queue[k]) = "close"}
Retrieved(queue) == SubSeq(queue, 1, Min(Closing(queue) \cup {Len(queue)}))

Update ==
  /\ pc = "update" /\ NextLink
  /\ \E found \in {Found} :
       \/ /\ Accepted(found)
          /\ \E done \in {Retrieved(found)} :
               /\ executed' = [executed EXCEPT ![Client] = @ \o [k \in DOMAIN done |-> NumberAt(Client, done[k])]]
               /\ IF Closing(done) # {} THEN Close ELSE UNCHANGED <<conn, slot>>
       \/ ~Accepted(found) /\ Close /\ UNCHANGED executed
  /\ UNCHANGED <<left, sent, taken, backlog, buf, torn>>

-----------------------------------------------------------------------------
Server == Poll \/ FirstByte \/ Receive \/ Update
Next == Server \/ \E c \in Clients : Connect(c) \/ Send(c) \/ Leave(c)

Spec == Init /\ [][Next]_vars

(* The playback thread goes on, and the network delivers to a recv that    *)
(* waits.  Clients need not send, nor leave.                               *)
FairSpec == Spec /\ WF_vars(Server)

Reading(c) == pc \in {"rest", "more", "update"} /\ Client = c

(* A client none of whose reads ended within a message has its messages    *)
(* executed once each, whole and in the order it sent them, and after      *)
(* every round all that were read (unless it was closed): what other       *)
(* clients left in the shared buffer does not matter to it.                *)
WholeReadsServed ==
  \A c \in Clients \ torn :
    LET n == Len(executed[c]) IN
    /\ executed[c] = [m \in 1 .. n |-> m]
    /\ conn[c] = "open" /\ ~Reading(c) => n = Whole(c, taken[c])

(* The byte that let c in last was the end of a packet of key frames, the  *)
(* rest of which an earlier read took.                                     *)
EndOfCutKeys(c) == c \in torn /\ IsKeys(Wire[c][taken[c]])

(* What a poll found is still there when the turn of the link comes, after *)
(* the other links were read and closed; and when the playback thread has  *)
(* read one byte and asks for the rest, which blocks, there is a rest.     *)
(* Only the last byte of a packet of key frames may pass for a first one   *)
(* with nothing behind it, when a read was cut before it; the end of a     *)
(* VIMS message is never let in, however its bytes arrive.                 *)
RecvFindsData ==
  /\ \A l \in readable : pc = "links" \/ l # Link => InFlight(slot[l]) > 0 \/ AtEOF(slot[l])
  /\ pc = "rest" => InFlight(Client) > 0 \/ EndOfCutKeys(Client)

(* The server closes a connection only when the client left, asked for it, *)
(* was read in the middle of a message, sent netid 0 or too much at once,  *)
(* or when it had no link left for it.                                     *)
ClosedForReason ==
  [][\A c \in Clients : conn[c] = "open" /\ conn'[c] = "closed" =>
       \/ AtEOF(c) \/ c \in torn
       \/ \E m \in 1 .. sent[c] : Script[c][m].kind \in {"close", "zero"} /\ EndOf(c, m) <= taken[c]
       \/ (pc = "update" /\ Len(Found) >= MaxPending)
       \/ pc = "more" /\ received + RecvSize > BufSize
       \/ backlog # <<>> /\ Head(backlog) = c /\ \A l \in Links : slot[l] # Nobody]_vars

(* Where the playback thread may stay in recv: when it repeats a full one, *)
(* and behind the end of a cut packet of key frames, until the client      *)
(* sends more or leaves.                                                   *)
Blocked == pc = "more" \/ (pc = "rest" /\ InFlight(Client) = 0 /\ EndOfCutKeys(Client))

(* The playback thread gets through its round, although it waits in recv   *)
(* after the first byte, unless it is blocked as above.                    *)
RoundEnds == pc # "idle" ~> pc = "idle" \/ Blocked

(* What a client sent is executed, unless its connection is closed, a read *)
(* cut a message of it or the playback thread is blocked, be it by another *)
(* client.                                                                 *)
Served ==
  \A c \in Clients : \A m \in Numbers(c) :
    (conn[c] = "open" /\ sent[c] >= m) ~> (\/ m \in Range(executed[c]) \/ c \in torn
                                          \/ conn[c] = "closed" \/ Blocked)
=============================================================================
