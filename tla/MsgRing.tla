------------------------------ MODULE MsgRing -------------------------------
(***************************************************************************)
(* The on-screen log of libvjmsg/vj-common.c: any thread that calls        *)
(* veejay_msg puts its message into a ring with atomic operations and      *)
(* posts a semaphore; an event switches the log on and off.  Messages are  *)
(* fetched where the screen is updated, at most one for each new frame     *)
(* that the playback thread hands to the screen thread: a playback thread  *)
(* that pauses, or that spins in the log itself, hands over none.          *)
(*                                                                         *)
(* A thread reserves a place, then fills it, then posts.  The fetcher      *)
(* may get the token of a later place while its own is still empty: it     *)
(* shows nothing, and the token is gone.                                   *)
(***************************************************************************)
EXTENDS Naturals, FiniteSets

CONSTANTS
  Threads,   \* threads that log
  Player,    \* the playback thread, one of them
  Messages,  \* messages; bound: each is logged once
  Nothing,   \* NULL
  Size       \* MESSAGE_RING_SIZE

ASSUME SizeAssumption == Size \in Nat \ {0}
ASSUME ThreadsAssumption == IsFiniteSet(Threads) /\ Player \in Threads
ASSUME NothingAssumption == Nothing \notin Messages

VARIABLES
  dommel,   \* the ring
  tail,     \* msg_ring->pos, modulo the size
  head,     \* pos of veejay_msg_ringfetch
  tokens,   \* value of the semaphore
  enabled,  \* msg_ring_enabled
  writer,   \* writer[p]: where the thread is, its place and its message
  screen,   \* the screen thread: waiting, with a new frame, about to try the
            \* semaphore, with a token in hand
  shown, missed  \* history: messages shown; tokens that found no message

vars == <<dommel, tail, head, tokens, enabled, writer, screen, shown, missed>>

Slots == 0 .. Size - 1
Writer == [at: {"idle", "reserve", "fill", "post"}, slot: Slots, msg: Messages \cup {Nothing}]

TypeOK ==
  /\ dommel \in [Slots -> Messages \cup {Nothing}]
  /\ tail \in Slots /\ head \in Slots
  /\ tokens \in Nat /\ missed \in Nat
  /\ enabled \in BOOLEAN /\ screen \in {"wait", "frame", "try", "read"}
  /\ writer \in [Threads -> Writer]
  /\ shown \subseteq Messages

Init ==
  /\ dommel = [k \in Slots |-> Nothing]
  /\ tail = 0 /\ head = 0 /\ tokens = 0 /\ missed = 0
  /\ enabled = FALSE /\ screen = "wait"
  /\ writer = [p \in Threads |-> [at |-> "idle", slot |-> 0, msg |-> Nothing]]
  /\ shown = {}

After(k) == (k + 1) % Size

(* Messages that a thread carries, or that are in the ring.                *)
Waiting ==
  {m \in Messages : (\E p \in Threads : writer[p].msg = m) \/ (\E k \in Slots : dommel[k] = m)}

(* veejay_msg_prnt: the message goes to the ring as long as the log is on. *)
Message(p, m) ==
  /\ enabled /\ writer[p].at = "idle" /\ m \notin Waiting \cup shown
  /\ writer' = [writer EXCEPT ![p] = [at |-> "reserve", slot |-> 0, msg |-> m]]
  /\ UNCHANGED <<dommel, tail, head, tokens, enabled, screen, shown, missed>>

Reserve(p) ==
  /\ writer[p].at = "reserve"
  /\ writer' = [writer EXCEPT ![p].at = "fill", ![p].slot = tail]
  /\ tail' = After(tail)
  /\ UNCHANGED <<dommel, head, tokens, enabled, screen, shown, missed>>

Put(p) ==
  /\ writer[p].at = "fill"
  /\ dommel' = [dommel EXCEPT ![writer[p].slot] = writer[p].msg]
  /\ writer' = [writer EXCEPT ![p].at = "post", ![p].msg = Nothing]
  /\ UNCHANGED <<tail, head, tokens, enabled, screen, shown, missed>>

(* Wrong: the place is overwritten.                                        *)
FillOver(p) == Put(p)
(* The compare-and-swap spins while the place is taken.                    *)
Fill(p) == dommel[writer[p].slot] = Nothing /\ Put(p)

PostTokens(p, n) ==
  /\ writer[p].at = "post"
  /\ tokens' = tokens + n
  /\ writer' = [writer EXCEPT ![p] = [at |-> "idle", slot |-> 0, msg |-> Nothing]]
  /\ UNCHANGED <<dommel, tail, head, enabled, screen, shown, missed>>

(* Wrong: two tokens; a semaphore that only knows 0 and 1.                 *)
PostTwice(p) == PostTokens(p, 2)
PostBinary(p) == PostTokens(p, IF tokens = 0 THEN 1 ELSE 0)
Post(p) == PostTokens(p, 1)

(* The playback thread queues a frame that was not shown yet; it does so   *)
(* between two calls of the log, never from inside one.                    *)
Hand ==
  /\ screen = "wait" /\ writer[Player].at = "idle"
  /\ screen' = "frame"
  /\ UNCHANGED <<dommel, tail, head, tokens, enabled, writer, shown, missed>>

(* vj_sdl_update_yuv_overlay: the frame is shown, with a message if the    *)
(* log is on.                                                              *)
Update ==
  /\ screen = "frame"
  /\ screen' = IF enabled THEN "try" ELSE "wait"
  /\ UNCHANGED <<dommel, tail, head, tokens, enabled, writer, shown, missed>>

(* veejay_msg_ringfetch: no token, no message with this frame.             *)
TryWait ==
  /\ screen = "try"
  /\ IF tokens > 0 THEN tokens' = tokens - 1 /\ screen' = "read"
                   ELSE screen' = "wait" /\ UNCHANGED tokens
  /\ UNCHANGED <<dommel, tail, head, enabled, writer, shown, missed>>

MissAndGoTo(k) ==
  /\ screen = "read" /\ dommel[head] = Nothing
  /\ missed' = missed + 1
  /\ head' = k
  /\ screen' = "wait"
  /\ UNCHANGED <<dommel, tail, tokens, enabled, writer, shown>>

(* Wrong: the place that was not filled in time is passed over.            *)
MissAndSkip == MissAndGoTo(After(head))
Miss == MissAndGoTo(head)

TakeAndGoTo(k) ==
  /\ screen = "read" /\ dommel[head] # Nothing
  /\ shown' = shown \cup {dommel[head]}
  /\ dommel' = [dommel EXCEPT ![head] = Nothing]
  /\ head' = k
  /\ screen' = "wait"
  /\ UNCHANGED <<tail, tokens, enabled, writer, missed>>

Take == TakeAndGoTo(After(head))

(* An event, which the playback thread handles.                            *)
Toggle ==
  /\ writer[Player].at = "idle"
  /\ enabled' = ~enabled
  /\ UNCHANGED <<dommel, tail, head, tokens, writer, screen, shown, missed>>

Step(p) == Reserve(p) \/ Fill(p) \/ Post(p)
Fetch == Update \/ TryWait \/ Miss \/ Take

Next ==
  \/ \E p \in Threads : (\E m \in Messages : Message(p, m)) \/ Step(p)
  \/ Fetch \/ Hand \/ Toggle

Spec == Init /\ [][Next]_vars

(* Threads go on: one that spins gets its place when it is free again and  *)
(* again, and the screen thread shows the frame it was handed.  Nothing    *)
(* makes the playback thread hand over another.                            *)
FairSpec == Spec /\ WF_vars(Fetch) /\ \A p \in Threads : SF_vars(Step(p))
-----------------------------------------------------------------------------
(* Why the ring implements a log: no message is in two places, and none    *)
(* that was shown is in any.                                               *)
OnePlace ==
  /\ \A p \in Threads : (writer[p].msg # Nothing) = (writer[p].at \in {"reserve", "fill"})
  /\ \A p, q \in Threads : writer[p].msg = writer[q].msg /\ writer[p].msg # Nothing => p = q
  /\ \A k, l \in Slots : dommel[k] = dommel[l] /\ dommel[k] # Nothing => k = l
  /\ \A p \in Threads, k \in Slots : writer[p].msg = dommel[k] => dommel[k] = Nothing
  /\ \A p \in Threads : writer[p].msg \notin shown
  /\ \A k \in Slots : dommel[k] \notin shown

(* The ring implements a log that loses and repeats nothing, however the   *)
(* threads interleave and whether or not they get their places in order.   *)
Log == INSTANCE MessageLog WITH Messages <- Messages, waiting <- Waiting, shown <- shown
LogSpec == Log!Spec

Filled == {k \in Slots : dommel[k] # Nothing}
Posting == {p \in Threads : writer[p].at = "post"}

(* Every message in the ring has a token on its way, except one for each   *)
(* fetch that took a token and found its place empty: these stay behind.   *)
Balance ==
  Cardinality(Filled) = tokens + missed + Cardinality(Posting) + (IF screen = "read" THEN 1 ELSE 0)

(* New frames are handed over again and again.  It is not so while the     *)
(* playback thread pauses, nor when it spins on a full ring itself: no     *)
(* fetch follows then, and what waits in the ring stays there.             *)
FramesCome == []<>(screen = "frame")

(* While new frames come, what is logged is shown in the end, as long as   *)
(* the log is on and no fetch came too early.                              *)
Shown ==
  FramesCome =>
    \A m \in Messages : (m \in Waiting) ~> (m \in shown \/ missed > 0 \/ ~enabled)

(* Only so many fetches can come too early that a full ring still has a    *)
(* token: otherwise all threads that log would spin forever.               *)
NotStarved == missed < Size

(* While new frames come, another thread that logs gets its place in the   *)
(* end, whatever was left behind, as long as the log is on.                *)
SpinEnds ==
  FramesCome =>
    \A p \in Threads \ {Player} :
      (writer[p].at = "fill") ~> (writer[p].at # "fill" \/ ~enabled)
=============================================================================
