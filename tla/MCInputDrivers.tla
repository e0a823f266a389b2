---------------------------- MODULE MCInputDrivers ----------------------------
EXTENDS InputDrivers

AllKinds == {"noa3402", "apds970x", "tsl2772", "sharp_gp2", "sys_als", "lps331ap_input",
             "bmp180_input", "bma250na_input", "bma250_input", "bma150_input", "ak896xna", "ak897xna",
             "ak0991xna", "ak0991xna_raw", "l3g4200d_gyro", "lsm303dlhx_acc", "lsm303dlhx_mag",
             "lsm303dlhc_acc_lt",
             "light_sensor_als", "as3676_als", "lm3533_als"}
\* Two delays where set_delay compares the new one with the old.
MCRates ==
  [k \in AllKinds |-> IF k \in {"l3g4200d_gyro", "lsm303dlhx_acc", "lsm303dlhx_mag", "lsm303dlhc_acc_lt"}
                      THEN {1, 2} ELSE {1}]
=============================================================================
