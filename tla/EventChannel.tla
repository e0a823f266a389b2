---------------------------- MODULE EventChannel ----------------------------
(***************************************************************************)
(* What the event FIFO promises the sensor threads and the thread that     *)
(* polls the HAL: a bounded channel without locks, waits or signals. An    *)
(* event is accepted at the end, or lost when Capacity events are already  *)
(* pending; a return hands over the oldest pending events, at least one,   *)
(* in their order, and forgets the rest.                                   *)
(***************************************************************************)
EXTENDS Sequences, Naturals

CONSTANTS Events, Capacity, Lens

VARIABLES pending, returned

channelVars == <<pending, returned>>

Init == pending = <<>> /\ returned = <<>>

Accept(e) ==
  /\ Len(pending) < Capacity
  /\ pending' = Append(pending, e)
  /\ UNCHANGED returned

Lose == Len(pending) = Capacity /\ UNCHANGED channelVars

Return(n) ==
  /\ pending # <<>>
  /\ returned' = SubSeq(pending, 1, IF n < Len(pending) THEN n ELSE Len(pending))
  /\ pending' = <<>>

Next ==
  \/ \E e \in Events : Accept(e)
  \/ Lose
  \/ \E n \in Lens : Return(n)

Spec == Init /\ [][Next]_channelVars

=============================================================================
