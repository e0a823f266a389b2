--------------------------- MODULE MCSensorsWrapper ---------------------------
(***************************************************************************)
(* TLC instance of SensorsWrapper, wired as sensors/wrappers is: a plain   *)
(* accelerometer client and a compass that matches two types.              *)
(***************************************************************************)
EXTENDS SensorsWrapper

\* Two accelerometer drivers: the scan goes on to the second when the first
\* fails to initialise.
ThreeDrivers == 1..3
ThreeTypes == <<"acc", "mag", "acc">>

MCClients == {"accel", "compass"}
MCMatch == [accel |-> <<"acc">>, compass |-> <<"acc", "mag">>]

=============================================================================
