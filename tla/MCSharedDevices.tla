--------------------------- MODULE MCSharedDevices ---------------------------
(***************************************************************************)
(* TLC instance of SharedDevices: every composition, the compass's opened  *)
(* twice, with no delay, one below the accelerometer's minDelay of 5 ms,   *)
(* and one above.                                                          *)
(***************************************************************************)
EXTENDS SharedDevices

MCRates == {0, 2000000, 20000000}
MCOpens == [k \in Kinds |-> IF k = "mpu3050" THEN 1 ELSE 2]

=============================================================================
