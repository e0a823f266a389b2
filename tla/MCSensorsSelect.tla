--------------------------- MODULE MCSensorsSelect ---------------------------
(***************************************************************************)
(* TLC instance of SensorsSelect: two descriptor numbers, so that a number *)
(* is both reused and not, and a pipe with room for one enable beyond the  *)
(* worker's backlog.                                                       *)
(***************************************************************************)
EXTENDS SensorsSelect

TwoFds == {3, 4}

\* Both kinds of driver, behind the wrapper and outside it.
AllSetups == [wrapped : BOOLEAN, suspendFirst : BOOLEAN]

=============================================================================
