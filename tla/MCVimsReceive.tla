--------------------------- MODULE MCVimsReceive ----------------------------
(* Three clients for two links: one sends key frames, one a command,       *)
(* VIMS_CLOSE and a message for netid 0, one a command.  The 'D' of a      *)
(* header and the last two bytes of the key frames look like letters.      *)
EXTENDS VimsReceive

CONSTANTS c1, c2, c3

MCClients == {c1, c2, c3}
Of(kind, len) == [kind |-> kind, len |-> len]
MCScript ==
  c1 :> <<Of("keys", 4)>> @@
  c2 :> <<Of("command", 3), Of("close", 3), Of("zero", 3)>> @@
  c3 :> <<Of("command", 3)>>
MCLetters == {<<c1, 1, 3>>, <<c1, 1, 4>>, <<c2, 1, 2>>}
=============================================================================
