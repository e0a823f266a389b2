---------------------------- MODULE MCFusedSensors ----------------------------
(***************************************************************************)
(* TLC instance of FusedSensors: one driver of each type, and a second     *)
(* magnetometer for ak0991x alone. The plain sensor is an accelerometer    *)
(* and shares the first driver, which may refuse calls, as may the second  *)
(* magnetometer. The compass modules are asked for both their sensors, the *)
(* others for two of theirs. The plain sensor is given a rate beside akm6d *)
(* and ecompass, which choose their own (inemo has a fixed one).           *)
(***************************************************************************)
EXTENDS FusedSensors

MCDrivers == 1..4
MCType == <<"acc", "mag", "gyr", "other mag">>

MCClients == Kinds \cup {"plain"}
MCMatch ==
  [c \in MCClients |->
     CASE c = "plain" -> <<"acc">>
       [] c = "ak0991x" -> <<"other mag">>
       [] c = "inemo" -> <<"acc", "mag", "gyr">>
       [] OTHER -> <<"acc", "mag">>]

MCAsked ==
  [k \in Kinds |->
     CASE k = "ak0991x" -> {"MAGNETIC", "MAGNETIC_UNCALIB"}
       [] k = "ak897x" -> {"MAGNETIC", "plain"}
       [] k \in {"ak896x", "inemo"} -> {"MAGNETIC", "ORIENTATION"}
       [] OTHER -> {"MAGNETIC", "ORIENTATION", "plain"}]
MCPlainRates == [k \in Kinds |-> IF k \in {"akm6d", "ecompass"} THEN {1} ELSE {}]

=============================================================================
