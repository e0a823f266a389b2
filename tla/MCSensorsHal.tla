----------------------------- MODULE MCSensorsHal -----------------------------
(***************************************************************************)
(* TLC instance of SensorsHal: two accelerometers with one handle, as in a *)
(* build for several boards, a light sensor and a gyroscope behind the     *)
(* wrapper, and a list one sensor too short for all of them.               *)
(***************************************************************************)
EXTENDS SensorsHal

MCApis == {"bma150", "bma250", "als", "gyro"}
MCHandle == [bma150 |-> 1, bma250 |-> 1, als |-> 6, gyro |-> 12]

=============================================================================
