--------------------------- MODULE MCSensorsWorker ---------------------------
(***************************************************************************)
(* TLC instance of SensorsWorker. A half of a delay is -1, 0 or 1: the     *)
(* delays are 200 ms (its low half nonzero), none, and the NO_RATE of      *)
(* sensors_wrapper.h, whose two halves are all ones.                       *)
(***************************************************************************)
EXTENDS SensorsWorker

MCWords == -1..1
Ms200 == [hi |-> 0, lo |-> 1]
NoDelay == [hi |-> 0, lo |-> 0]
NoRate == [hi |-> -1, lo |-> -1]
MCDelays == {Ms200, NoDelay, NoRate}

=============================================================================
