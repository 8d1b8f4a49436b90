---------------------------- MODULE MCSamplePlay ----------------------------
(* Two samples, of three and of four frames; the sequencer is empty, or    *)
(* plays one after the other.                                              *)
EXTENDS SamplePlay

MCTotal == [i \in Samples |-> i + 1]
MCNumbers == -1 .. 1
MCPrograms == {[k \in Slots |-> 0], [k \in Slots |-> k + 1]}
=============================================================================
