----------------------------- MODULE MessageLog -----------------------------
(***************************************************************************)
(* What a log promises, whoever writes to it: a message that was logged is *)
(* shown at most once, none is lost and none is invented.                  *)
(***************************************************************************)
CONSTANT Messages

VARIABLES waiting, shown

Init == waiting = {} /\ shown = {}

Log(m) ==
  /\ m \notin waiting \cup shown
  /\ waiting' = waiting \cup {m}
  /\ UNCHANGED shown

Show(m) ==
  /\ m \in waiting
  /\ waiting' = waiting \ {m}
  /\ shown' = shown \cup {m}

Next == \E m \in Messages : Log(m) \/ Show(m)

Spec == Init /\ [][Next]_<<waiting, shown>>
=============================================================================
