---------------------------- MODULE MCSensorsFifo ----------------------------
(* TLC instance of SensorsFifo. *)
EXTENDS SensorsFifo

CONSTANTS e1, e2, e3

MCTagged == {e1, e2, e3}

\* Any buffer, shorter or longer than the FIFO.
AnyLens == 1..(FIFO_LEN + 1)

=============================================================================
