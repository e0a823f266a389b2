----------------------------- MODULE MCLsm303dlh -----------------------------
(***************************************************************************)
(* TLC instance of Lsm303dlh: a rate of the accelerometer and one of the   *)
(* compass on either side of the mode's limit. The magnetometer has the    *)
(* compass's.                                                              *)
(***************************************************************************)
EXTENDS Lsm303dlh

MCRates == [acc |-> {20000000}, mag |-> {}, compass |-> {100000000}]

=============================================================================
