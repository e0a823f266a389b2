------------------------- MODULE InputDriversProofs -------------------------
(***************************************************************************)
(* Theorems about InputDrivers, for any of its drivers, any descriptors    *)
(* and delays, and whatever opens, writes and library calls fail.          *)
(***************************************************************************)
EXTENDS InputDrivers, TLAPS

(***************************************************************************)
(* What may be left of a call: the lists of each driver and their tails.   *)
(***************************************************************************)

InitSteps == {
  <<"probe", "AKL_DASH_Init", "AKL_Init", "select_init">>, <<"AKL_DASH_Init", "AKL_Init", "select_init">>,
  <<"AKL_Init", "select_init">>, <<"probe", "find_path", "select_init">>, <<"find_path", "select_init">>,
  <<"probe", "find_sysfs", "select_init">>, <<"find_sysfs", "select_init">>, <<"probe", "select_init">>,
  <<"select_init">>, <<"worker_init">>}

OnSteps(k) ==
  CASE k = "light_sensor_als" -> {<<"als_enable", "resume">>, <<"resume">>}
    [] k = "as3676_als" -> {<<"open", "keep_fd", "resume">>, <<"keep_fd", "resume">>, <<"resume">>}
    [] k = "lm3533_als" -> {<<"als_enable", "open", "keep_fd", "resume">>,
                            <<"open", "keep_fd", "resume">>, <<"keep_fd", "resume">>, <<"resume">>}
    [] k = "noa3402" -> {<<"open", "set_fd", "resume", "get_distance", "report_distance">>,
                         <<"set_fd", "resume", "get_distance", "report_distance">>,
                         <<"resume", "get_distance", "report_distance">>,
                         <<"get_distance", "report_distance">>, <<"report_distance">>}
    [] k = "apds970x" -> {<<"open", "init_threshold", "set_fd", "resume">>,
                          <<"init_threshold", "set_fd", "resume">>, <<"set_fd", "resume">>, <<"resume">>}
    [] k = "lps331ap_input" -> {<<"open", "clear_average", "set_fd", "resume">>,
                                <<"clear_average", "set_fd", "resume">>, <<"set_fd", "resume">>, <<"resume">>}
    [] k = "sys_als" -> {<<"open", "sysals_activate", "set_fd", "resume">>,
                         <<"sysals_activate", "set_fd", "resume">>, <<"set_fd", "resume">>, <<"resume">>}
    [] k = "ak0991xna" -> {<<"open", "start", "set_fd", "resume">>,
                           <<"start", "set_fd", "resume">>, <<"set_fd", "resume">>, <<"resume">>}
    [] OTHER -> {<<"open", "set_fd", "resume">>, <<"set_fd", "resume">>, <<"resume">>}

OffSteps(k) ==
  CASE k = "light_sensor_als" -> {<<"suspend", "als_disable">>, <<"als_disable">>}
    [] k = "as3676_als" -> {<<"suspend", "close_fd", "forget_fd">>, <<"close_fd", "forget_fd">>, <<"forget_fd">>}
    [] k = "lm3533_als" -> {<<"suspend", "close_fd", "forget_fd", "als_disable">>,
                            <<"close_fd", "forget_fd", "als_disable">>,
                            <<"forget_fd", "als_disable">>, <<"als_disable">>}
    [] k = "sys_als" -> {<<"set_fd", "suspend", "sysals_deactivate">>,
                         <<"suspend", "sysals_deactivate">>, <<"sysals_deactivate">>}
    [] k = "ak0991xna" -> {<<"suspend", "set_fd", "interval_off", "stop">>,
                           <<"set_fd", "interval_off", "stop">>, <<"interval_off", "stop">>, <<"stop">>}
    [] k \in Compass \ {"ak0991xna"} -> {<<"suspend", "set_fd", "interval_off">>,
                                         <<"set_fd", "interval_off">>, <<"interval_off">>}
    [] OTHER -> {<<"set_fd", "suspend">>, <<"suspend">>}

DelaySteps(k) ==
  IF k \in Xyz THEN {<<"unless_applied", "write_rate", "note">>, <<"write_rate", "note">>, <<"note">>}
  ELSE {<<"clamp", "note", "write_rate">>, <<"note", "write_rate">>, <<"write_rate">>, <<"note">>,
        <<"clamp", "note", "try_rate">>, <<"note", "try_rate">>, <<"try_rate">>, <<"clamp", "try_rate">>}

(***************************************************************************)
(* The inductive invariant.                                                *)
(***************************************************************************)

FdSet == Fds \cup {NoFd}
Odd(x) == x \in hist.odd

SysType == [fd : FdSet, newfd : FdSet, files : SUBSET Fds, mode : {"none", "sleep", "run", "gone"},
            chip : [on : BOOLEAN, rate : Int]]

TypeInv ==
  /\ kind \in Kinds /\ kind \in Drivers /\ on \in BOOLEAN /\ sensed \in Nat
  /\ call = [what |-> call.what, todo |-> call.todo, rv |-> call.rv, arg |-> call.arg]
  /\ call.arg \in Int
  /\ call.todo # <<>> => call.rv = 0
  /\ sys \in SysType /\ own \in [delay : Int, lib : BOOLEAN, path : BOOLEAN]
  /\ hist = [put |-> hist.put, shown |-> hist.shown, window |-> hist.window, odd |-> hist.odd]

\* The thread follows what the framework was told.
Off == sys.fd = NoFd /\ sys.mode = "sleep"
Running ==
  sys.mode = "run" /\ IF kind = "light_sensor_als" THEN sys.fd = NoFd ELSE sys.fd \in sys.files
Refused == kind = "sys_als" /\ Off /\ ~sys.chip.on
Stands == IF on THEN Running \/ Refused ELSE Off
Settled == sys.newfd = NoFd /\ Stands

\* Of an enable under way.
OnStage ==
  /\ Do("open") \/ Do("als_enable") => Settled
  /\ (Do("open") \/ Do("sysals_activate")) /\ kind = "sys_als" => ~sys.chip.on
  /\ Do("start") => ~on
  /\ IF kind \in Lights
     THEN /\ Do("keep_fd") => Stands /\ sys.newfd \in sys.files
          /\ Do("resume") => /\ sys.newfd = NoFd
                             /\ IF kind = "light_sensor_als" THEN sys.fd = NoFd ELSE sys.fd \in sys.files
          /\ kind \in OpeningLights /\ on => Odd("enabled_twice")
     ELSE /\ Do("open") => sys.fd = NoFd
          /\ Do("set_fd") \/ Do("init_threshold") \/ Do("clear_average") \/ Do("sysals_activate") \/ Do("start")
               => sys.newfd \in sys.files /\ Off
          /\ Do("resume") => sys.newfd = NoFd /\ sys.fd \in sys.files /\ sys.mode = "sleep"
          /\ Do("get_distance") \/ Do("report_distance") => sys.newfd = NoFd /\ Running

\* Of a disable under way.
OffStage ==
  /\ sys.newfd = NoFd
  /\ kind = "light_sensor_als" => sys.fd = NoFd
  /\ Do("suspend") => IF kind \in Lights THEN Stands ELSE kind \in Compass \/ sys.fd = NoFd
  /\ (Do("set_fd") /\ kind \in Compass) \/ Do("close_fd") => sys.mode = "sleep"
  /\ Do("forget_fd") => sys.mode = "sleep" /\ sys.fd \notin sys.files
  /\ Do("interval_off") \/ Do("stop") \/ Do("sysals_deactivate") \/ Do("als_disable") => Off
  /\ Do("stop") => ~sys.chip.on

CallInv ==
  /\ call.what \in {"none", "init", "enable", "disable", "set_delay", "close"}
  /\ call.what \in {"none", "init"} \/ sys.mode # "none"
  /\ Rest => /\ call.what = "none" => sys.mode = "none"
             /\ call.what # "close" => sys.mode # "gone"
             /\ sys.mode \in {"sleep", "run"} => Settled
             /\ call.what = "close" => sys.mode = "gone"
  /\ ~Rest => /\ call.what # "none" /\ sys.mode # "gone"
              /\ call.what = "init" => call.todo \in InitSteps /\ sys.mode = "none"
              /\ call.what = "enable" => call.todo \in OnSteps(kind) /\ OnStage
              /\ call.what = "disable" => call.todo \in OffSteps(kind) /\ OffStage
              /\ call.what = "set_delay" =>
                   /\ call.todo \in DelaySteps(kind) /\ Settled
                   /\ kind \in Compass /\ ~on => Odd("paced")
              /\ call.what = "close" => call.todo = <<"destroy">> /\ Settled
  /\ sys.mode = "none" => /\ sys.fd = NoFd /\ sys.newfd = NoFd /\ ~on
                          /\ sys.chip = [on |-> FALSE, rate |-> -1]
                          /\ own.delay = 0 /\ ~own.lib

ChipInv ==
  /\ kind \notin Compass \cup {"sys_als", "light_sensor_als", "lm3533_als"} => ~sys.chip.on
  /\ kind # "ak0991xna" => ~own.lib
  /\ ~on /\ sys.mode # "gone" /\ (Rest \/ call.what \notin {"enable", "disable"}) =>
       /\ sys.chip.on => kind # "sys_als" /\ (Odd("failed") \/ (kind \in Compass /\ Odd("paced")))
       /\ own.lib => Odd("failed")

RateInv ==
  kind \in Xyz =>
    /\ ~own.path => sys.chip.rate = -1
    /\ Do("note") /\ own.path => sys.chip.rate = call.arg
    /\ own.path /\ own.delay # 0 /\ ~Do("note") => sys.chip.rate = own.delay

InputInv == TypeInv /\ FilesHeld /\ CallInv /\ ChipInv /\ RateInv


(***************************************************************************)
(* The lists of the drivers.                                               *)
(***************************************************************************)

\* What a call of the HAL finds in the driver's api.
ApiShape ==
  /\ api.init \in InitSteps
  /\ IF kind \in Lights
     THEN /\ api.enable \in OnSteps(kind) /\ Head(api.enable) \in {"open", "als_enable"}
          /\ api.disable \in OffSteps(kind) /\ Head(api.disable) = "suspend"
     ELSE /\ IF sys.fd < 0 THEN api.enable \in OnSteps(kind) /\ Head(api.enable) = "open"
             ELSE api.enable = <<>>
          /\ IF sys.fd > 0
             THEN /\ api.disable \in OffSteps(kind)
                  /\ Head(api.disable) = IF kind \in Compass THEN "suspend" ELSE "set_fd"
             ELSE api.disable = <<>>
  /\ api.set_delay \in DelaySteps(kind) \cup {<<>>}
  /\ kind \in Xyz => Head(api.set_delay) = "unless_applied" /\ api.set_delay # <<>>
  /\ api.close = <<"destroy">>

LEMMA ApiShapes == kind \in Drivers => ApiShape
<1> USE DEF ApiShape, OnSteps, OffSteps, DelaySteps, InitSteps, Compass, Xyz, Lights, OpeningLights, Api, Toggle
<1>1. CASE kind = "noa3402"
  <2>1. api = noa3402
    BY <1>1, Zenon DEF api
  <2>2. QED
    BY <1>1, <2>1 DEF noa3402, noa3402_init, noa3402_activate, noa3402_set_delay, noa3402_close
<1>2. CASE kind = "apds970x"
  <2>1. api = apds970x
    BY <1>2, Zenon DEF api
  <2>2. QED
    BY <1>2, <2>1 DEF apds970x, apds9700_init, apds9700_activate, apds9700_set_delay, apds9700_close
<1>3. CASE kind = "tsl2772"
  <2>1. api = tsl2772
    BY <1>3, Zenon DEF api
  <2>2. QED
    BY <1>3, <2>1 DEF tsl2772, tsl2772_init, tsl2772_activate, tsl2772_set_delay, tsl2772_close
<1>4. CASE kind = "sharp_gp2"
  <2>1. api = sharp_gp2
    BY <1>4, Zenon DEF api
  <2>2. QED
    BY <1>4, <2>1 DEF sharp_gp2, sharp_init, sharp_activate, sharp_set_delay, sharp_close
<1>5. CASE kind = "sys_als"
  <2>1. api = sys_als
    BY <1>5, Zenon DEF api
  <2>2. QED
    BY <1>5, <2>1 DEF sys_als, als_init, als_activate, als_set_delay, als_close
<1>6. CASE kind = "lps331ap_input"
  <2>1. api = lps331ap_pressure_input
    BY <1>6, Zenon DEF api
  <2>2. QED
    BY <1>6, <2>1 DEF lps331ap_pressure_input, lps331ap_input_init, lps331ap_input_activate, lps331ap_input_set_delay, lps331ap_input_close
<1>7. CASE kind = "bmp180_input"
  <2>1. api = bmp180_pressure_input
    BY <1>7, Zenon DEF api
  <2>2. QED
    BY <1>7, <2>1 DEF bmp180_pressure_input, bmp180_input_init, bmp180_input_activate, bmp180_input_set_delay, bmp180_input_close
<1>8. CASE kind = "bma250na_input"
  <2>1. api = bma250_input
    BY <1>8, Zenon DEF api
  <2>2. QED
    BY <1>8, <2>1 DEF bma250_input, bma250_input_init, bma250_input_activate, bma250_input_set_delay, bma250_input_close
<1>9. CASE kind = "bma250_input"
  <2>1. api = bma250_plain
    BY <1>9, Zenon DEF api
  <2>2. QED
    BY <1>9, <2>1 DEF bma250_plain, bma250_plain_init, bma250_plain_activate, bma250_plain_fw_delay, bma250_plain_close
<1>10. CASE kind = "bma150_input"
  <2>1. api = bma150_input
    BY <1>10, Zenon DEF api
  <2>2. QED
    BY <1>10, <2>1 DEF bma150_input, bma150_input_init, bma150_input_activate, bma150_input_fw_delay, bma150_input_close
<1>11. CASE kind = "ak896xna"
  <2>1. api = ak896xna_magnetic
    BY <1>11, Zenon DEF api
  <2>2. QED
    BY <1>11, <2>1 DEF ak896xna_magnetic, ak896x_init, ak896x_activate, ak896x_set_delay, ak896x_close
<1>12. CASE kind = "ak897xna"
  <2>1. api = ak897xna_magnetic
    BY <1>12, Zenon DEF api
  <2>2. QED
    BY <1>12, <2>1 DEF ak897xna_magnetic, ak897x_init, ak897x_activate, ak897x_set_delay, ak897x_close
<1>13. CASE kind = "ak0991xna"
  <2>1. api = ak0991xna_magnetic
    BY <1>13, Zenon DEF api
  <2>2. QED
    BY <1>13, <2>1 DEF ak0991xna_magnetic, ak0991x_init, ak0991x_activate, ak0991x_delay, ak0991x_close
<1>14. CASE kind = "ak0991xna_raw"
  <2>1. api = ak0991xna_raw_magnetic
    BY <1>14, Zenon DEF api
  <2>2. QED
    BY <1>14, <2>1 DEF ak0991xna_raw_magnetic, ak0991x_raw_init, ak0991x_raw_activate, ak0991x_raw_set_delay, ak0991x_raw_close
<1>15. CASE kind = "l3g4200d_gyro"
  <2>1. api = l3g4200d_gyro
    BY <1>15, Zenon DEF api
  <2>2. QED
    BY <1>15, <2>1 DEF l3g4200d_gyro, sensor_xyz_init, sensor_xyz_activate, sensor_xyz_set_delay, sensor_xyz_close
<1>16. CASE kind = "lsm303dlhx_acc"
  <2>1. api = lsm303dlhx_acc
    BY <1>16, Zenon DEF api
  <2>2. QED
    BY <1>16, <2>1 DEF lsm303dlhx_acc, sensor_xyz_init, sensor_xyz_activate, sensor_xyz_set_delay, sensor_xyz_close
<1>17. CASE kind = "lsm303dlhx_mag"
  <2>1. api = lsm303dlhx_mag
    BY <1>17, Zenon DEF api
  <2>2. QED
    BY <1>17, <2>1 DEF lsm303dlhx_mag, sensor_xyz_init, sensor_xyz_activate, sensor_xyz_set_delay, sensor_xyz_close
<1>18. CASE kind = "lsm303dlhc_acc_lt"
  <2>1. api = lsm303dlhc_acc_lt
    BY <1>18, Zenon DEF api
  <2>2. QED
    BY <1>18, <2>1 DEF lsm303dlhc_acc_lt, sensor_xyz_init, sensor_xyz_activate, sensor_xyz_set_delay, sensor_xyz_close
<1>19. CASE kind = "light_sensor_als"
  <2>1. api = light_sensor
    BY <1>19, Zenon DEF api
  <2>2. QED
    BY <1>19, <2>1 DEF light_sensor, light_init, light_activate, light_set_delay, light_close
<1>20. CASE kind = "as3676_als"
  <2>1. api = as3676_light_sensor
    BY <1>20, Zenon DEF api
  <2>2. QED
    BY <1>20, <2>1 DEF as3676_light_sensor, as3676_init, as3676_activate, as3676_set_delay, as3676_close
<1>21. CASE kind = "lm3533_als"
  <2>1. api = lm3533_light_sensor
    BY <1>21, Zenon DEF api
  <2>2. QED
    BY <1>21, <2>1 DEF lm3533_light_sensor, lm3533_init, lm3533_activate, lm3533_set_delay, lm3533_close
<1>22. QED
  BY <1>1, <1>2, <1>3, <1>4, <1>5, <1>6, <1>7, <1>8, <1>9, <1>10, <1>11, <1>12, <1>13, <1>14, <1>15, <1>16, <1>17, <1>18, <1>19, <1>20, <1>21, Zenon DEF Drivers, OnePacket

\* What follows each step of an enable.
OnNext(k, t) ==
  /\ t # <<>>
  /\ Head(t) = "als_enable" =>
       k \in {"light_sensor_als", "lm3533_als"} /\ Tail(t) \in OnSteps(k)
         /\ Head(Tail(t)) = IF k = "light_sensor_als" THEN "resume" ELSE "open"
  /\ Head(t) = "open" =>
       /\ k # "light_sensor_als" /\ Tail(t) \in OnSteps(k)
       /\ IF k \in Lights THEN Head(Tail(t)) = "keep_fd"
          ELSE IF k = "sys_als" THEN Head(Tail(t)) = "sysals_activate"
          ELSE IF k = "ak0991xna" THEN Head(Tail(t)) = "start"
          ELSE Head(Tail(t)) \in {"set_fd", "init_threshold", "clear_average"}
  /\ Head(t) = "keep_fd" =>
       k \in OpeningLights /\ Tail(t) \in OnSteps(k) /\ Head(Tail(t)) = "resume"
  /\ Head(t) \in {"init_threshold", "clear_average", "sysals_activate", "start"} =>
       k \notin Lights /\ Tail(t) \in OnSteps(k) /\ Head(Tail(t)) = "set_fd"
  /\ Head(t) = "sysals_activate" => k = "sys_als"
  /\ Head(t) = "start" => k = "ak0991xna"
  /\ Head(t) = "init_threshold" => k = "apds970x"
  /\ Head(t) = "set_fd" =>
       k \notin Lights /\ Tail(t) \in OnSteps(k) /\ Head(Tail(t)) = "resume"
  /\ Head(t) = "resume" =>
       \/ Tail(t) = <<>>
       \/ k = "noa3402" /\ Tail(t) \in OnSteps(k) /\ Head(Tail(t)) = "get_distance"
  /\ Head(t) = "get_distance" =>
       k = "noa3402" /\ Tail(t) \in OnSteps(k) /\ Head(Tail(t)) = "report_distance"
  /\ Head(t) = "report_distance" => k = "noa3402" /\ Tail(t) = <<>>
  /\ Head(t) \in {"als_enable", "open", "keep_fd", "init_threshold", "clear_average", "sysals_activate",
                  "start", "set_fd", "resume", "get_distance", "report_distance"}

LEMMA OnLists ==
  ASSUME NEW k \in Drivers, NEW t \in OnSteps(k)
  PROVE  OnNext(k, t)
<1> USE DEF OnNext
<1> USE DEF OnSteps, Lights, OpeningLights
<1>1. CASE k = "light_sensor_als"
  <2>1. /\ <<"als_enable", "resume">> # <<>> /\ Head(<<"als_enable", "resume">>) = "als_enable"
        /\ Tail(<<"als_enable", "resume">>) = <<"resume">>
        /\ <<"resume">> # <<>> /\ Head(<<"resume">>) = "resume"
        /\ Tail(<<"resume">>) = <<>>
    OBVIOUS
  <2>2. QED
    BY <1>1, <2>1
<1>2. CASE k = "as3676_als"
  <2>1. /\ <<"open", "keep_fd", "resume">> # <<>> /\ Head(<<"open", "keep_fd", "resume">>) = "open"
        /\ Tail(<<"open", "keep_fd", "resume">>) = <<"keep_fd", "resume">>
        /\ <<"keep_fd", "resume">> # <<>> /\ Head(<<"keep_fd", "resume">>) = "keep_fd"
        /\ Tail(<<"keep_fd", "resume">>) = <<"resume">>
        /\ <<"resume">> # <<>> /\ Head(<<"resume">>) = "resume"
        /\ Tail(<<"resume">>) = <<>>
    OBVIOUS
  <2>2. QED
    BY <1>2, <2>1
<1>3. CASE k = "lm3533_als"
  <2>1. /\ <<"als_enable", "open", "keep_fd", "resume">> # <<>>
        /\ Head(<<"als_enable", "open", "keep_fd", "resume">>) = "als_enable"
        /\ Tail(<<"als_enable", "open", "keep_fd", "resume">>) = <<"open", "keep_fd", "resume">>
        /\ <<"open", "keep_fd", "resume">> # <<>> /\ Head(<<"open", "keep_fd", "resume">>) = "open"
        /\ Tail(<<"open", "keep_fd", "resume">>) = <<"keep_fd", "resume">>
        /\ <<"keep_fd", "resume">> # <<>> /\ Head(<<"keep_fd", "resume">>) = "keep_fd"
        /\ Tail(<<"keep_fd", "resume">>) = <<"resume">>
        /\ <<"resume">> # <<>> /\ Head(<<"resume">>) = "resume"
        /\ Tail(<<"resume">>) = <<>>
    OBVIOUS
  <2>2. QED
    BY <1>3, <2>1
<1>4. CASE k = "noa3402"
  <2>1. /\ <<"open", "set_fd", "resume", "get_distance", "report_distance">> # <<>>
        /\ Head(<<"open", "set_fd", "resume", "get_distance", "report_distance">>) = "open"
        /\ Tail(<<"open", "set_fd", "resume", "get_distance", "report_distance">>) = <<"set_fd", "resume", "get_distance", "report_distance">>
        /\ <<"set_fd", "resume", "get_distance", "report_distance">> # <<>>
        /\ Head(<<"set_fd", "resume", "get_distance", "report_distance">>) = "set_fd"
        /\ Tail(<<"set_fd", "resume", "get_distance", "report_distance">>) = <<"resume", "get_distance", "report_distance">>
        /\ <<"resume", "get_distance", "report_distance">> # <<>>
        /\ Head(<<"resume", "get_distance", "report_distance">>) = "resume"
        /\ Tail(<<"resume", "get_distance", "report_distance">>) = <<"get_distance", "report_distance">>
        /\ <<"get_distance", "report_distance">> # <<>>
        /\ Head(<<"get_distance", "report_distance">>) = "get_distance"
        /\ Tail(<<"get_distance", "report_distance">>) = <<"report_distance">>
        /\ <<"report_distance">> # <<>> /\ Head(<<"report_distance">>) = "report_distance"
        /\ Tail(<<"report_distance">>) = <<>>
    OBVIOUS
  <2>2. QED
    BY <1>4, <2>1
<1>5. CASE k = "apds970x"
  <2>1. /\ <<"open", "init_threshold", "set_fd", "resume">> # <<>>
        /\ Head(<<"open", "init_threshold", "set_fd", "resume">>) = "open"
        /\ Tail(<<"open", "init_threshold", "set_fd", "resume">>) = <<"init_threshold", "set_fd", "resume">>
        /\ <<"init_threshold", "set_fd", "resume">> # <<>>
        /\ Head(<<"init_threshold", "set_fd", "resume">>) = "init_threshold"
        /\ Tail(<<"init_threshold", "set_fd", "resume">>) = <<"set_fd", "resume">>
        /\ <<"set_fd", "resume">> # <<>> /\ Head(<<"set_fd", "resume">>) = "set_fd"
        /\ Tail(<<"set_fd", "resume">>) = <<"resume">>
        /\ <<"resume">> # <<>> /\ Head(<<"resume">>) = "resume"
        /\ Tail(<<"resume">>) = <<>>
    OBVIOUS
  <2>2. QED
    BY <1>5, <2>1
<1>6. CASE k = "lps331ap_input"
  <2>1. /\ <<"open", "clear_average", "set_fd", "resume">> # <<>>
        /\ Head(<<"open", "clear_average", "set_fd", "resume">>) = "open"
        /\ Tail(<<"open", "clear_average", "set_fd", "resume">>) = <<"clear_average", "set_fd", "resume">>
        /\ <<"clear_average", "set_fd", "resume">> # <<>>
        /\ Head(<<"clear_average", "set_fd", "resume">>) = "clear_average"
        /\ Tail(<<"clear_average", "set_fd", "resume">>) = <<"set_fd", "resume">>
        /\ <<"set_fd", "resume">> # <<>> /\ Head(<<"set_fd", "resume">>) = "set_fd"
        /\ Tail(<<"set_fd", "resume">>) = <<"resume">>
        /\ <<"resume">> # <<>> /\ Head(<<"resume">>) = "resume"
        /\ Tail(<<"resume">>) = <<>>
    OBVIOUS
  <2>2. QED
    BY <1>6, <2>1
<1>7. CASE k = "sys_als"
  <2>1. /\ <<"open", "sysals_activate", "set_fd", "resume">> # <<>>
        /\ Head(<<"open", "sysals_activate", "set_fd", "resume">>) = "open"
        /\ Tail(<<"open", "sysals_activate", "set_fd", "resume">>) = <<"sysals_activate", "set_fd", "resume">>
        /\ <<"sysals_activate", "set_fd", "resume">> # <<>>
        /\ Head(<<"sysals_activate", "set_fd", "resume">>) = "sysals_activate"
        /\ Tail(<<"sysals_activate", "set_fd", "resume">>) = <<"set_fd", "resume">>
        /\ <<"set_fd", "resume">> # <<>> /\ Head(<<"set_fd", "resume">>) = "set_fd"
        /\ Tail(<<"set_fd", "resume">>) = <<"resume">>
        /\ <<"resume">> # <<>> /\ Head(<<"resume">>) = "resume"
        /\ Tail(<<"resume">>) = <<>>
    OBVIOUS
  <2>2. QED
    BY <1>7, <2>1
<1>8. CASE k = "ak0991xna"
  <2>1. /\ <<"open", "start", "set_fd", "resume">> # <<>>
        /\ Head(<<"open", "start", "set_fd", "resume">>) = "open"
        /\ Tail(<<"open", "start", "set_fd", "resume">>) = <<"start", "set_fd", "resume">>
        /\ <<"start", "set_fd", "resume">> # <<>> /\ Head(<<"start", "set_fd", "resume">>) = "start"
        /\ Tail(<<"start", "set_fd", "resume">>) = <<"set_fd", "resume">>
        /\ <<"set_fd", "resume">> # <<>> /\ Head(<<"set_fd", "resume">>) = "set_fd"
        /\ Tail(<<"set_fd", "resume">>) = <<"resume">>
        /\ <<"resume">> # <<>> /\ Head(<<"resume">>) = "resume"
        /\ Tail(<<"resume">>) = <<>>
    OBVIOUS
  <2>2. QED
    BY <1>8, <2>1
<1>9. CASE k \notin Lights \cup {"noa3402", "apds970x", "lps331ap_input", "sys_als", "ak0991xna"}
  <2>1. /\ <<"open", "set_fd", "resume">> # <<>> /\ Head(<<"open", "set_fd", "resume">>) = "open"
        /\ Tail(<<"open", "set_fd", "resume">>) = <<"set_fd", "resume">>
        /\ <<"set_fd", "resume">> # <<>> /\ Head(<<"set_fd", "resume">>) = "set_fd"
        /\ Tail(<<"set_fd", "resume">>) = <<"resume">>
        /\ <<"resume">> # <<>> /\ Head(<<"resume">>) = "resume"
        /\ Tail(<<"resume">>) = <<>>
    OBVIOUS
  <2>2. QED
    BY <1>9, <2>1
<1>10. QED
  BY <1>1, <1>2, <1>3, <1>4, <1>5, <1>6, <1>7, <1>8, <1>9

\* What follows each step of a disable.
OffNext(k, t) ==
  /\ t # <<>>
  /\ Head(t) = "suspend" =>
       IF k \in Lights \cup Compass \cup {"sys_als"}
       THEN /\ Tail(t) \in OffSteps(k)
            /\ Head(Tail(t)) = IF k = "light_sensor_als" THEN "als_disable"
                               ELSE IF k \in Lights THEN "close_fd"
                               ELSE IF k \in Compass THEN "set_fd" ELSE "sysals_deactivate"
       ELSE Tail(t) = <<>>
  /\ Head(t) = "set_fd" =>
       /\ k \notin Lights /\ Tail(t) \in OffSteps(k)
       /\ Head(Tail(t)) = IF k \in Compass THEN "interval_off" ELSE "suspend"
  /\ Head(t) = "close_fd" =>
       k \in OpeningLights /\ Tail(t) \in OffSteps(k) /\ Head(Tail(t)) = "forget_fd"
  /\ Head(t) = "forget_fd" =>
       IF k = "lm3533_als" THEN Tail(t) \in OffSteps(k) /\ Head(Tail(t)) = "als_disable"
       ELSE k = "as3676_als" /\ Tail(t) = <<>>
  /\ Head(t) = "interval_off" =>
       /\ k \in Compass
       /\ IF k = "ak0991xna" THEN Tail(t) \in OffSteps(k) /\ Head(Tail(t)) = "stop"
          ELSE Tail(t) = <<>>
  /\ Head(t) = "stop" => k = "ak0991xna" /\ Tail(t) = <<>>
  /\ Head(t) = "sysals_deactivate" => k = "sys_als" /\ Tail(t) = <<>>
  /\ Head(t) = "als_disable" => k \in {"light_sensor_als", "lm3533_als"} /\ Tail(t) = <<>>
  /\ Head(t) \in {"suspend", "set_fd", "close_fd", "forget_fd", "interval_off", "stop",
                  "sysals_deactivate", "als_disable"}

LEMMA OffLists ==
  ASSUME NEW k \in Drivers, NEW t \in OffSteps(k)
  PROVE  OffNext(k, t)
<1> USE DEF OffNext
<1> USE DEF OffSteps, Lights, OpeningLights, Compass
<1>1. CASE k = "light_sensor_als"
  <2>1. /\ <<"suspend", "als_disable">> # <<>> /\ Head(<<"suspend", "als_disable">>) = "suspend"
        /\ Tail(<<"suspend", "als_disable">>) = <<"als_disable">>
        /\ <<"als_disable">> # <<>> /\ Head(<<"als_disable">>) = "als_disable"
        /\ Tail(<<"als_disable">>) = <<>>
    OBVIOUS
  <2>2. QED
    BY <1>1, <2>1
<1>2. CASE k = "as3676_als"
  <2>1. /\ <<"suspend", "close_fd", "forget_fd">> # <<>>
        /\ Head(<<"suspend", "close_fd", "forget_fd">>) = "suspend"
        /\ Tail(<<"suspend", "close_fd", "forget_fd">>) = <<"close_fd", "forget_fd">>
        /\ <<"close_fd", "forget_fd">> # <<>> /\ Head(<<"close_fd", "forget_fd">>) = "close_fd"
        /\ Tail(<<"close_fd", "forget_fd">>) = <<"forget_fd">>
        /\ <<"forget_fd">> # <<>> /\ Head(<<"forget_fd">>) = "forget_fd"
        /\ Tail(<<"forget_fd">>) = <<>>
    OBVIOUS
  <2>2. QED
    BY <1>2, <2>1
<1>3. CASE k = "lm3533_als"
  <2>1. /\ <<"suspend", "close_fd", "forget_fd", "als_disable">> # <<>>
        /\ Head(<<"suspend", "close_fd", "forget_fd", "als_disable">>) = "suspend"
        /\ Tail(<<"suspend", "close_fd", "forget_fd", "als_disable">>) = <<"close_fd", "forget_fd", "als_disable">>
        /\ <<"close_fd", "forget_fd", "als_disable">> # <<>>
        /\ Head(<<"close_fd", "forget_fd", "als_disable">>) = "close_fd"
        /\ Tail(<<"close_fd", "forget_fd", "als_disable">>) = <<"forget_fd", "als_disable">>
        /\ <<"forget_fd", "als_disable">> # <<>> /\ Head(<<"forget_fd", "als_disable">>) = "forget_fd"
        /\ Tail(<<"forget_fd", "als_disable">>) = <<"als_disable">>
        /\ <<"als_disable">> # <<>> /\ Head(<<"als_disable">>) = "als_disable"
        /\ Tail(<<"als_disable">>) = <<>>
    OBVIOUS
  <2>2. QED
    BY <1>3, <2>1
<1>4. CASE k = "sys_als"
  <2>1. /\ <<"set_fd", "suspend", "sysals_deactivate">> # <<>>
        /\ Head(<<"set_fd", "suspend", "sysals_deactivate">>) = "set_fd"
        /\ Tail(<<"set_fd", "suspend", "sysals_deactivate">>) = <<"suspend", "sysals_deactivate">>
        /\ <<"suspend", "sysals_deactivate">> # <<>> /\ Head(<<"suspend", "sysals_deactivate">>) = "suspend"
        /\ Tail(<<"suspend", "sysals_deactivate">>) = <<"sysals_deactivate">>
        /\ <<"sysals_deactivate">> # <<>> /\ Head(<<"sysals_deactivate">>) = "sysals_deactivate"
        /\ Tail(<<"sysals_deactivate">>) = <<>>
    OBVIOUS
  <2>2. QED
    BY <1>4, <2>1
<1>5. CASE k = "ak0991xna"
  <2>1. /\ <<"suspend", "set_fd", "interval_off", "stop">> # <<>>
        /\ Head(<<"suspend", "set_fd", "interval_off", "stop">>) = "suspend"
        /\ Tail(<<"suspend", "set_fd", "interval_off", "stop">>) = <<"set_fd", "interval_off", "stop">>
        /\ <<"set_fd", "interval_off", "stop">> # <<>>
        /\ Head(<<"set_fd", "interval_off", "stop">>) = "set_fd"
        /\ Tail(<<"set_fd", "interval_off", "stop">>) = <<"interval_off", "stop">>
        /\ <<"interval_off", "stop">> # <<>> /\ Head(<<"interval_off", "stop">>) = "interval_off"
        /\ Tail(<<"interval_off", "stop">>) = <<"stop">>
        /\ <<"stop">> # <<>> /\ Head(<<"stop">>) = "stop"
        /\ Tail(<<"stop">>) = <<>>
    OBVIOUS
  <2>2. QED
    BY <1>5, <2>1
<1>6. CASE k \in Compass \ {"ak0991xna"}
  <2>1. /\ <<"suspend", "set_fd", "interval_off">> # <<>>
        /\ Head(<<"suspend", "set_fd", "interval_off">>) = "suspend"
        /\ Tail(<<"suspend", "set_fd", "interval_off">>) = <<"set_fd", "interval_off">>
        /\ <<"set_fd", "interval_off">> # <<>> /\ Head(<<"set_fd", "interval_off">>) = "set_fd"
        /\ Tail(<<"set_fd", "interval_off">>) = <<"interval_off">>
        /\ <<"interval_off">> # <<>> /\ Head(<<"interval_off">>) = "interval_off"
        /\ Tail(<<"interval_off">>) = <<>>
    OBVIOUS
  <2>2. QED
    BY <1>6, <2>1
<1>7. CASE k \notin Lights \cup Compass \cup {"sys_als"}
  <2>1. /\ <<"set_fd", "suspend">> # <<>> /\ Head(<<"set_fd", "suspend">>) = "set_fd"
        /\ Tail(<<"set_fd", "suspend">>) = <<"suspend">>
        /\ <<"suspend">> # <<>> /\ Head(<<"suspend">>) = "suspend"
        /\ Tail(<<"suspend">>) = <<>>
    OBVIOUS
  <2>2. QED
    BY <1>7, <2>1
<1>8. QED
  BY <1>1, <1>2, <1>3, <1>4, <1>5, <1>6, <1>7

\* What follows each step of a set_delay, and of an init.
DelayNext(k, t) ==
  /\ t # <<>> /\ Tail(t) \in DelaySteps(k) \cup {<<>>}
  /\ Head(t) \in {"unless_applied", "clamp", "note", "write_rate", "try_rate"}
  /\ Head(t) = "unless_applied" => k \in Xyz
  /\ k \in Xyz => /\ Head(t) \in {"unless_applied", "write_rate", "note"}
                  /\ Head(t) = "unless_applied" => Tail(t) # <<>> /\ Head(Tail(t)) = "write_rate"
                  /\ Head(t) = "write_rate" => Tail(t) # <<>> /\ Head(Tail(t)) = "note"
                  /\ Head(t) = "note" => Tail(t) = <<>>

LEMMA DelayLists ==
  ASSUME NEW k \in Drivers, NEW t \in DelaySteps(k)
  PROVE  DelayNext(k, t)
<1> USE DEF DelayNext
<1> USE DEF DelaySteps
<1>1. CASE k \in Xyz
  <2>1. /\ <<"unless_applied", "write_rate", "note">> # <<>>
        /\ Head(<<"unless_applied", "write_rate", "note">>) = "unless_applied"
        /\ Tail(<<"unless_applied", "write_rate", "note">>) = <<"write_rate", "note">>
        /\ <<"write_rate", "note">> # <<>> /\ Head(<<"write_rate", "note">>) = "write_rate"
        /\ Tail(<<"write_rate", "note">>) = <<"note">>
        /\ <<"note">> # <<>> /\ Head(<<"note">>) = "note"
        /\ Tail(<<"note">>) = <<>>
    OBVIOUS
  <2>2. QED
    BY <1>1, <2>1
<1>2. CASE k \notin Xyz
  <2>1. /\ <<"clamp", "note", "write_rate">> # <<>> /\ Head(<<"clamp", "note", "write_rate">>) = "clamp"
        /\ Tail(<<"clamp", "note", "write_rate">>) = <<"note", "write_rate">>
        /\ <<"note", "write_rate">> # <<>> /\ Head(<<"note", "write_rate">>) = "note"
        /\ Tail(<<"note", "write_rate">>) = <<"write_rate">>
        /\ <<"write_rate">> # <<>> /\ Head(<<"write_rate">>) = "write_rate"
        /\ Tail(<<"write_rate">>) = <<>>
        /\ <<"note">> # <<>> /\ Head(<<"note">>) = "note"
        /\ Tail(<<"note">>) = <<>>
        /\ <<"clamp", "note", "try_rate">> # <<>> /\ Head(<<"clamp", "note", "try_rate">>) = "clamp"
        /\ Tail(<<"clamp", "note", "try_rate">>) = <<"note", "try_rate">>
        /\ <<"note", "try_rate">> # <<>> /\ Head(<<"note", "try_rate">>) = "note"
        /\ Tail(<<"note", "try_rate">>) = <<"try_rate">>
        /\ <<"try_rate">> # <<>> /\ Head(<<"try_rate">>) = "try_rate"
        /\ Tail(<<"try_rate">>) = <<>>
        /\ <<"clamp", "try_rate">> # <<>> /\ Head(<<"clamp", "try_rate">>) = "clamp"
        /\ Tail(<<"clamp", "try_rate">>) = <<"try_rate">>
    OBVIOUS
  <2>2. QED
    BY <1>2, <2>1
<1>3. QED
  BY <1>1, <1>2

InitNext(t) ==
  /\ t # <<>>
  /\ Head(t) \in {"probe", "find_path", "find_sysfs", "AKL_DASH_Init", "AKL_Init",
                  "select_init", "worker_init"}
  /\ IF Head(t) \in {"select_init", "worker_init"} THEN Tail(t) = <<>> ELSE Tail(t) \in InitSteps

LEMMA InitLists ==
  ASSUME NEW t \in InitSteps
  PROVE  InitNext(t)
<1> USE DEF InitNext
<1>1. /\ <<"probe", "AKL_DASH_Init", "AKL_Init", "select_init">> # <<>>
      /\ Head(<<"probe", "AKL_DASH_Init", "AKL_Init", "select_init">>) = "probe"
      /\ Tail(<<"probe", "AKL_DASH_Init", "AKL_Init", "select_init">>) = <<"AKL_DASH_Init", "AKL_Init", "select_init">>
      /\ <<"AKL_DASH_Init", "AKL_Init", "select_init">> # <<>>
      /\ Head(<<"AKL_DASH_Init", "AKL_Init", "select_init">>) = "AKL_DASH_Init"
      /\ Tail(<<"AKL_DASH_Init", "AKL_Init", "select_init">>) = <<"AKL_Init", "select_init">>
      /\ <<"AKL_Init", "select_init">> # <<>> /\ Head(<<"AKL_Init", "select_init">>) = "AKL_Init"
      /\ Tail(<<"AKL_Init", "select_init">>) = <<"select_init">>
      /\ <<"probe", "find_path", "select_init">> # <<>>
      /\ Head(<<"probe", "find_path", "select_init">>) = "probe"
      /\ Tail(<<"probe", "find_path", "select_init">>) = <<"find_path", "select_init">>
      /\ <<"find_path", "select_init">> # <<>> /\ Head(<<"find_path", "select_init">>) = "find_path"
      /\ Tail(<<"find_path", "select_init">>) = <<"select_init">>
      /\ <<"probe", "find_sysfs", "select_init">> # <<>>
      /\ Head(<<"probe", "find_sysfs", "select_init">>) = "probe"
      /\ Tail(<<"probe", "find_sysfs", "select_init">>) = <<"find_sysfs", "select_init">>
      /\ <<"find_sysfs", "select_init">> # <<>> /\ Head(<<"find_sysfs", "select_init">>) = "find_sysfs"
      /\ Tail(<<"find_sysfs", "select_init">>) = <<"select_init">>
      /\ <<"probe", "select_init">> # <<>> /\ Head(<<"probe", "select_init">>) = "probe"
      /\ Tail(<<"probe", "select_init">>) = <<"select_init">>
      /\ <<"select_init">> # <<>> /\ Head(<<"select_init">>) = "select_init"
      /\ Tail(<<"select_init">>) = <<>>
      /\ <<"worker_init">> # <<>> /\ Head(<<"worker_init">>) = "worker_init"
      /\ Tail(<<"worker_init">>) = <<>>
  OBVIOUS
<1>2. QED
  BY <1>1 DEF InitSteps

(***************************************************************************)
(* What every step does to the call and to the history.                    *)
(***************************************************************************)

LEMMA ExcuseFacts ==
  kind \in Drivers => /\ kind \in Compass => {"failed", "paced"} \subseteq Excuses
                      /\ kind \in Lights => "failed" \in Excuses
                      /\ kind \in OpeningLights => "enabled_twice" \in Excuses
                      /\ kind = "ak0991xna" => "start_failed" \in Excuses
<1>1. CASE kind = "ak896xna"
  <2>1. /\ kind # "noa3402" /\ kind # "lps331ap_input"
        /\ kind # "ak897xna"
        /\ kind \notin OpeningLights
        /\ kind # "ak0991xna"
        /\ kind # "ak0991xna_raw"
        /\ kind \notin Xyz \cup OnePacket \cup {"bmp180_input", "bma250na_input"}
    BY <1>1 DEF OpeningLights, Xyz, OnePacket
  <2>2. Excuses = {"failed", "paced"}
    BY <1>1, <2>1 DEF Excuses
  <2>3. QED
    BY <1>1, <2>2 DEF Compass, Lights, OpeningLights
<1>2. CASE kind = "light_sensor_als"
  <2>1. /\ kind # "noa3402" /\ kind # "lps331ap_input"
        /\ kind # "ak897xna"
        /\ kind \notin OpeningLights
        /\ kind # "ak0991xna"
        /\ kind # "ak0991xna_raw"
        /\ kind \notin Xyz \cup OnePacket \cup {"bmp180_input", "bma250na_input"}
    BY <1>2 DEF OpeningLights, Xyz, OnePacket
  <2>2. Excuses = {"failed", "paced"}
    BY <1>2, <2>1 DEF Excuses
  <2>3. QED
    BY <1>2, <2>2 DEF Compass, Lights, OpeningLights
<1>3. CASE kind = "ak897xna"
  <2>1. /\ kind # "noa3402" /\ kind # "lps331ap_input"
        /\ kind \notin {"ak896xna", "light_sensor_als"}
        /\ kind \notin OpeningLights
        /\ kind # "ak0991xna"
        /\ kind # "ak0991xna_raw"
        /\ kind \notin Xyz \cup OnePacket \cup {"bmp180_input", "bma250na_input"}
    BY <1>3 DEF OpeningLights, Xyz, OnePacket
  <2>2. Excuses = {"failed", "paced", "dropped"}
    BY <1>3, <2>1 DEF Excuses
  <2>3. QED
    BY <1>3, <2>2 DEF Compass, Lights, OpeningLights
<1>4. CASE kind = "ak0991xna"
  <2>1. /\ kind # "noa3402" /\ kind # "lps331ap_input"
        /\ kind # "ak897xna"
        /\ kind \notin {"ak896xna", "light_sensor_als"}
        /\ kind \notin OpeningLights
        /\ kind # "ak0991xna_raw"
        /\ kind \notin Xyz \cup OnePacket \cup {"bmp180_input", "bma250na_input"}
    BY <1>4 DEF OpeningLights, Xyz, OnePacket
  <2>2. Excuses = {"failed", "paced", "start_failed"}
    BY <1>4, <2>1 DEF Excuses
  <2>3. QED
    BY <1>4, <2>2 DEF Compass, Lights, OpeningLights
<1>5. CASE kind = "ak0991xna_raw"
  <2>1. /\ kind # "noa3402" /\ kind # "lps331ap_input"
        /\ kind # "ak897xna"
        /\ kind \notin {"ak896xna", "light_sensor_als"}
        /\ kind \notin OpeningLights
        /\ kind # "ak0991xna"
        /\ kind \notin Xyz \cup OnePacket \cup {"bmp180_input", "bma250na_input"}
    BY <1>5 DEF OpeningLights, Xyz, OnePacket
  <2>2. Excuses = {"failed", "paced"}
    BY <1>5, <2>1 DEF Excuses
  <2>3. QED
    BY <1>5, <2>2 DEF Compass, Lights, OpeningLights
<1>6. CASE kind \in OpeningLights
  <2>1. /\ kind # "noa3402" /\ kind # "lps331ap_input"
        /\ kind # "ak897xna"
        /\ kind \notin {"ak896xna", "light_sensor_als"}
        /\ kind # "ak0991xna"
        /\ kind # "ak0991xna_raw"
        /\ kind \notin Xyz \cup OnePacket \cup {"bmp180_input", "bma250na_input"}
    BY <1>6 DEF OpeningLights, Xyz, OnePacket
  <2>2. Excuses = {"failed", "enabled_twice"}
    BY <1>6, <2>1 DEF Excuses
  <2>3. QED
    BY <1>6, <2>2 DEF Compass, Lights, OpeningLights
<1>7. QED
  BY <1>1, <1>2, <1>3, <1>4, <1>5, <1>6 DEF Compass, Lights

\* What the properties ask of the driver is not forgotten.
OddKept ==
  /\ kind \in Compass \cup Lights /\ Odd("failed") => Odd("failed")'
  /\ kind \in Compass /\ Odd("paced") => Odd("paced")'
  /\ kind \in OpeningLights /\ Odd("enabled_twice") => Odd("enabled_twice")'
  /\ kind = "ak0991xna" /\ Odd("start_failed") => Odd("start_failed")'

HistShape == hist = [put |-> hist.put, shown |-> hist.shown, window |-> hist.window, odd |-> hist.odd]

LEMMA QuietKeeps == ASSUME HistShape, Quiet
                    PROVE  HistShape' /\ hist'.odd = hist.odd /\ OddKept
<1>1. hist' = [hist EXCEPT !.put = <<>>]
  BY DEF Quiet
<1>2. hist' = [put |-> <<>>, shown |-> hist.shown, window |-> hist.window, odd |-> hist.odd]
  BY <1>1 DEF HistShape
<1>3. QED
  BY <1>2 DEF HistShape, OddKept, Odd

LEMMA RecalledKeeps ==
  ASSUME HistShape, kind \in Drivers, NEW odd, Recalled(odd)
  PROVE  /\ HistShape' /\ OddKept
         /\ "failed" \in odd /\ kind \in Compass \cup Lights => Odd("failed")'
         /\ "start_failed" \in odd /\ kind = "ak0991xna" => Odd("start_failed")'
<1>1. hist' = [hist EXCEPT !.put = <<>>, !.odd = (@ \cup odd) \cap Excuses]
  BY DEF Recalled
<1>2. hist' = [put |-> <<>>, shown |-> hist.shown, window |-> hist.window, odd |-> (hist.odd \cup odd) \cap Excuses]
  BY <1>1 DEF HistShape
<1>3. HistShape' /\ hist'.odd = (hist.odd \cup odd) \cap Excuses
  BY <1>2 DEF HistShape
<1>4. QED
  BY <1>3, ExcuseFacts DEF OddKept, Odd

LEMMA ProceedTo ==
  ASSUME TypeInv, NEW c, Proceed(c)
  PROVE  /\ call' = c /\ on' \in BOOLEAN
         /\ c.todo # <<>> => (on' <=> on)
         /\ c.todo = <<>> /\ c.what = "enable" => (on' <=> on \/ c.rv = 0)
         /\ c.todo = <<>> /\ c.what \in {"disable", "close"} => ~on'
         /\ c.todo = <<>> /\ c.what \notin {"enable", "disable", "close"} => (on' <=> on)
<1>1. on \in BOOLEAN /\ call' = c
  BY DEF TypeInv, Proceed
<1>2. CASE c.todo # <<>>
  <2>1. on' = on
    BY <1>2, Zenon DEF Proceed
  <2>2. QED
    BY <1>1, <1>2, <2>1
<1>3. CASE c.todo = <<>> /\ c.what = "enable"
  <2>1. on' = (on \/ c.rv = 0)
    BY <1>3, Zenon DEF Proceed
  <2>2. QED
    BY <1>1, <1>3, <2>1
<1>4. CASE c.todo = <<>> /\ c.what # "enable"
  <2>1. on' = (on /\ c.what \notin {"disable", "close"})
    BY <1>4, Zenon DEF Proceed
  <2>2. QED
    BY <1>1, <1>4, <2>1
<1>5. QED
  BY <1>2, <1>3, <1>4

LEMMA CallFields ==
  ASSUME NEW w, NEW t, NEW r, NEW a, NEW u, NEW c,
         c = [what |-> w, todo |-> t, rv |-> r, arg |-> a]
  PROVE  /\ [c EXCEPT !.todo = u] = [what |-> w, todo |-> u, rv |-> r, arg |-> a]
         /\ [c EXCEPT !.rv = u] = [what |-> w, todo |-> t, rv |-> u, arg |-> a]
         /\ [c EXCEPT !.arg = u] = [what |-> w, todo |-> t, rv |-> r, arg |-> u]
OBVIOUS

\* The call after its next step, after one that ends it, and after a failure.
LEMMA NextCall ==
  ASSUME TypeInv
  PROVE  /\ Done = [what |-> call.what, todo |-> Tail(call.todo), rv |-> call.rv, arg |-> call.arg]
         /\ [call EXCEPT !.todo = <<>>] = [what |-> call.what, todo |-> <<>>, rv |-> call.rv, arg |-> call.arg]
         /\ \A s : Failed(s) = [what |-> call.what, todo |-> <<>>, rv |-> -1, arg |-> call.arg]
         /\ \A a : [Done EXCEPT !.arg = a] = [what |-> call.what, todo |-> Tail(call.todo), rv |-> call.rv, arg |-> a]
<1> DEFINE what == call.what  todo == call.todo  rv == call.rv  arg == call.arg  rest == Tail(call.todo)
<1>1. call = [what |-> what, todo |-> todo, rv |-> rv, arg |-> arg]
  BY DEF TypeInv
<1>2. Done = [call EXCEPT !.todo = rest]
  BY DEF Done
<1>3. \A s : Failed(s) = [[call EXCEPT !.todo = <<>>] EXCEPT !.rv = -1]
  BY DEF Failed
<1> HIDE DEF what, todo, rv, arg, rest
<1>4. Done = [what |-> what, todo |-> rest, rv |-> rv, arg |-> arg]
  BY <1>1, <1>2, CallFields, Zenon
<1>5. [call EXCEPT !.todo = <<>>] = [what |-> what, todo |-> <<>>, rv |-> rv, arg |-> arg]
  BY <1>1
<1>6. \A s : Failed(s) = [what |-> what, todo |-> <<>>, rv |-> -1, arg |-> arg]
  BY <1>3, <1>5, CallFields, Zenon
<1>7. ASSUME NEW a
      PROVE  [Done EXCEPT !.arg = a] = [what |-> what, todo |-> rest, rv |-> rv, arg |-> a]
  BY <1>4
<1>8. QED
  BY <1>4, <1>5, <1>6, <1>7 DEF what, todo, rv, arg, rest

\* Where a call that is under way can be.
LEMMA CallAt ==
  ASSUME TypeInv, CallInv, call.todo # <<>>
  PROVE  /\ call.what \in {"init", "enable", "disable", "set_delay", "close"}
         /\ call.what = "init" =>
              /\ sys.mode = "none"
              /\ Head(call.todo) \in {"probe", "find_path", "find_sysfs", "AKL_DASH_Init", "AKL_Init",
                                      "select_init", "worker_init"}
              /\ IF Head(call.todo) \in {"select_init", "worker_init"} THEN Tail(call.todo) = <<>>
                 ELSE Tail(call.todo) \in InitSteps /\ Tail(call.todo) # <<>>
         /\ call.what = "enable" =>
              /\ OnStage /\ call.todo \in OnSteps(kind) /\ OnNext(kind, call.todo)
              /\ Head(call.todo) \in {"als_enable", "open", "keep_fd", "init_threshold", "clear_average",
                    "sysals_activate", "start", "set_fd", "resume", "get_distance", "report_distance"}
         /\ call.what = "disable" =>
              /\ OffStage /\ call.todo \in OffSteps(kind) /\ OffNext(kind, call.todo)
              /\ Head(call.todo) \in {"suspend", "set_fd", "close_fd", "forget_fd", "interval_off", "stop",
                                      "sysals_deactivate", "als_disable"}
         /\ call.what = "set_delay" =>
              /\ Settled /\ call.todo \in DelaySteps(kind) /\ DelayNext(kind, call.todo)
              /\ (kind \in Compass /\ ~on => Odd("paced"))
              /\ Head(call.todo) \in {"unless_applied", "clamp", "note", "write_rate", "try_rate"}
              /\ Tail(call.todo) \in DelaySteps(kind) \cup {<<>>}
         /\ call.what = "close" => Settled /\ Head(call.todo) = "destroy" /\ Tail(call.todo) = <<>>
         /\ call.what # "init" => sys.mode \in {"sleep", "run"}
         /\ call.rv = 0
<1>1. kind \in Drivers /\ sys.mode \in {"none", "sleep", "run", "gone"} /\ call.rv = 0
  BY DEF TypeInv, SysType
<1>2. /\ call.what \in {"init", "enable", "disable", "set_delay", "close"}
      /\ sys.mode # "gone" /\ (call.what # "init" => sys.mode # "none")
  BY DEF CallInv, Rest
<1>3. CASE call.what = "init"
  <2>1. call.todo \in InitSteps /\ sys.mode = "none"
    BY <1>3 DEF CallInv, Rest
  <2>2. Tail(call.todo) \in InitSteps => Tail(call.todo) # <<>>
    BY InitLists DEF InitNext
  <2>3. QED
    BY <1>1, <1>3, <2>1, <2>2, InitLists DEF InitNext
<1>4. CASE call.what = "enable"
  <2>1. call.todo \in OnSteps(kind) /\ OnStage
    BY <1>4 DEF CallInv, Rest
  <2>2. OnNext(kind, call.todo)
    BY <1>1, <2>1, OnLists
  <2>3. QED
    BY <1>1, <1>2, <1>4, <2>1, <2>2 DEF OnNext
<1>5. CASE call.what = "disable"
  <2>1. call.todo \in OffSteps(kind) /\ OffStage
    BY <1>5 DEF CallInv, Rest
  <2>2. OffNext(kind, call.todo)
    BY <1>1, <2>1, OffLists
  <2>3. QED
    BY <1>1, <1>2, <1>5, <2>1, <2>2 DEF OffNext
<1>6. CASE call.what = "set_delay"
  <2>1. /\ call.todo \in DelaySteps(kind) /\ Settled
        /\ kind \in Compass /\ ~on => Odd("paced")
    BY <1>6 DEF CallInv, Rest
  <2>2. DelayNext(kind, call.todo)
    BY <1>1, <2>1, DelayLists
  <2>3. QED
    BY <1>1, <1>2, <1>6, <2>1, <2>2 DEF DelayNext
<1>7. CASE call.what = "close"
  <2>1. call.todo = <<"destroy">> /\ Settled
    BY <1>7 DEF CallInv, Rest
  <2>2. Head(<<"destroy">>) = "destroy" /\ Tail(<<"destroy">>) = <<>>
    OBVIOUS
  <2>3. QED
    BY <1>1, <1>2, <1>7, <2>1, <2>2
<1>8. QED
  BY <1>2, <1>3, <1>4, <1>5, <1>6, <1>7

(***************************************************************************)
(* What the updates of sys make of it.                                     *)
(***************************************************************************)

SysIs(s, f, g, F, m, c) == s = [fd |-> f, newfd |-> g, files |-> F, mode |-> m, chip |-> c]

LEMMA SysOne ==
  ASSUME NEW s, NEW f, NEW g, NEW F, NEW m, NEW c, SysIs(s, f, g, F, m, c), NEW u
  PROVE  /\ SysIs([s EXCEPT !.fd = u], u, g, F, m, c)
         /\ SysIs([s EXCEPT !.newfd = u], f, u, F, m, c)
         /\ SysIs([s EXCEPT !.files = u], f, g, u, m, c)
         /\ SysIs([s EXCEPT !.mode = u], f, g, F, u, c)
         /\ SysIs([s EXCEPT !.chip = u], f, g, F, m, u)
BY DEF SysIs

LEMMA SysMore ==
  ASSUME NEW s, NEW f, NEW g, NEW F, NEW m, NEW c, SysIs(s, f, g, F, m, c), NEW u, NEW v, NEW w
  PROVE  /\ SysIs([s EXCEPT !.fd = u, !.newfd = v], u, v, F, m, c)
         /\ SysIs([s EXCEPT !.newfd = u, !.files = v], f, u, v, m, c)
         /\ SysIs([s EXCEPT !.files = u, !.newfd = v], f, v, u, m, c)
         /\ SysIs([s EXCEPT !.files = u, !.fd = v, !.newfd = w], v, w, u, m, c)
         /\ SysIs([s EXCEPT !.mode = u, !.files = v, !.fd = w], w, g, v, u, c)
<1>1. SysIs([[s EXCEPT !.fd = u] EXCEPT !.newfd = v], u, v, F, m, c)
  BY SysOne, Zenon
<1>2. SysIs([[s EXCEPT !.newfd = u] EXCEPT !.files = v], f, u, v, m, c)
  BY SysOne, Zenon
<1>3. SysIs([[s EXCEPT !.files = u] EXCEPT !.newfd = v], f, v, u, m, c)
  BY SysOne, Zenon
<1>4. SysIs([[[s EXCEPT !.files = u] EXCEPT !.fd = v] EXCEPT !.newfd = w], v, w, u, m, c)
  BY SysOne, Zenon
<1>5. SysIs([[[s EXCEPT !.mode = u] EXCEPT !.files = v] EXCEPT !.fd = w], w, g, v, u, c)
  BY SysOne, Zenon
<1>6. SysIs([s EXCEPT !.fd = u, !.newfd = v], u, v, F, m, c)
  BY <1>1
<1>7. SysIs([s EXCEPT !.newfd = u, !.files = v], f, u, v, m, c)
  BY <1>2
<1>8. SysIs([s EXCEPT !.files = u, !.newfd = v], f, v, u, m, c)
  BY <1>3
<1>9. SysIs([s EXCEPT !.files = u, !.fd = v, !.newfd = w], v, w, u, m, c)
  BY <1>4
<1>10. SysIs([s EXCEPT !.mode = u, !.files = v, !.fd = w], w, g, v, u, c)
  BY <1>5
<1>11. QED
  BY <1>6, <1>7, <1>8, <1>9, <1>10

LEMMA SysChip ==
  ASSUME NEW s, NEW f, NEW g, NEW F, NEW m, NEW a, NEW r, SysIs(s, f, g, F, m, [on |-> a, rate |-> r]), NEW u
  PROVE  /\ SysIs([s EXCEPT !.chip.on = u], f, g, F, m, [on |-> u, rate |-> r])
         /\ SysIs([s EXCEPT !.chip.rate = u], f, g, F, m, [on |-> a, rate |-> u])
BY DEF SysIs

\* sys before a step.
LEMMA SysNow ==
  ASSUME TypeInv
  PROVE  /\ SysIs(sys, sys.fd, sys.newfd, sys.files, sys.mode, [on |-> sys.chip.on, rate |-> sys.chip.rate])
         /\ SysIs(sys, sys.fd, sys.newfd, sys.files, sys.mode, sys.chip)
         /\ sys.fd \in FdSet /\ sys.newfd \in FdSet /\ sys.files \subseteq Fds
         /\ sys.mode \in {"none", "sleep", "run", "gone"}
         /\ sys.chip.on \in BOOLEAN /\ sys.chip.rate \in Int /\ sys.chip \in [on : BOOLEAN, rate : Int]
<1>1. sys \in SysType
  BY DEF TypeInv
<1>2. QED
  BY <1>1 DEF SysType, SysIs

(***************************************************************************)
(* The call after a step that succeeds, one that ends it, and one that     *)
(* fails.                                                                  *)
(***************************************************************************)

CallShape ==
  /\ call = [what |-> call.what, todo |-> call.todo, rv |-> call.rv, arg |-> call.arg]
  /\ call.arg \in Int
  /\ call.todo # <<>> => call.rv = 0

\* What the framework holds of the sensor once the call is call'.
OnFollows ==
  /\ on' \in BOOLEAN
  /\ call'.todo # <<>> => (on' <=> on)
  /\ call'.todo = <<>> /\ call'.what = "enable" => (on' <=> on \/ call'.rv = 0)
  /\ call'.todo = <<>> /\ call'.what \in {"disable", "close"} => ~on'
  /\ call'.todo = <<>> /\ call'.what \notin {"enable", "disable", "close"} => (on' <=> on)

LEMMA ProceedFacts ==
  ASSUME TypeInv, NEW w, NEW t, NEW r, NEW a \in Int, t # <<>> => r = 0,
         Proceed([what |-> w, todo |-> t, rv |-> r, arg |-> a])
  PROVE  /\ CallShape' /\ OnFollows
         /\ call'.what = w /\ call'.todo = t /\ call'.rv = r /\ call'.arg = a
<1> DEFINE c == [what |-> w, todo |-> t, rv |-> r, arg |-> a]
<1>1. c.what = w /\ c.todo = t /\ c.rv = r /\ c.arg = a
  OBVIOUS
<1>2. Proceed(c)
  OBVIOUS
<1>3. c = [what |-> c.what, todo |-> c.todo, rv |-> c.rv, arg |-> c.arg]
  OBVIOUS
<1> HIDE DEF c
<1>4. call' = c
  BY <1>2, ProceedTo
<1>5. OnFollows
  BY <1>2, <1>4, ProceedTo DEF OnFollows
<1>6. call' = [what |-> call'.what, todo |-> call'.todo, rv |-> call'.rv, arg |-> call'.arg]
  BY <1>3, <1>4
<1>7. QED
  BY <1>1, <1>4, <1>5, <1>6 DEF CallShape

LEMMA GoFacts ==
  ASSUME TypeInv, call.todo # <<>>, Proceed(Done)
  PROVE  /\ CallShape' /\ OnFollows
         /\ call'.what = call.what /\ call'.todo = Tail(call.todo) /\ call'.rv = 0 /\ call'.arg = call.arg
<1>1. call.rv = 0 /\ call.arg \in Int
  BY DEF TypeInv
<1>2. Proceed([what |-> call.what, todo |-> Tail(call.todo), rv |-> call.rv, arg |-> call.arg])
  BY NextCall, Zenon
<1>3. QED
  BY <1>1, <1>2, ProceedFacts

LEMMA EndFacts ==
  ASSUME TypeInv, call.todo # <<>>, Proceed([call EXCEPT !.todo = <<>>])
  PROVE  /\ CallShape' /\ OnFollows
         /\ call'.what = call.what /\ call'.todo = <<>> /\ call'.rv = 0
<1>1. call.rv = 0 /\ call.arg \in Int
  BY DEF TypeInv
<1>2. Proceed([what |-> call.what, todo |-> <<>>, rv |-> call.rv, arg |-> call.arg])
  BY NextCall, Zenon
<1>3. QED
  BY <1>1, <1>2, ProceedFacts

LEMMA FailFacts ==
  ASSUME TypeInv, call.todo # <<>>, NEW s, Proceed(Failed(s))
  PROVE  /\ CallShape' /\ OnFollows
         /\ call'.what = call.what /\ call'.todo = <<>> /\ call'.rv = -1
<1>1. call.arg \in Int
  BY DEF TypeInv
<1>2. Proceed([what |-> call.what, todo |-> <<>>, rv |-> -1, arg |-> call.arg])
  BY NextCall, Zenon
<1>3. QED
  BY <1>1, <1>2, ProceedFacts

\* The parts of the invariant that most steps leave alone.
LEMMA TypeStep ==
  ASSUME TypeInv, kind' = kind, on' \in BOOLEAN, sensed' \in Nat, CallShape', sys' \in SysType,
         own' \in [delay : Int, lib : BOOLEAN, path : BOOLEAN], HistShape'
  PROVE  TypeInv'
BY DEF TypeInv, CallShape, HistShape

LEMMA RateKept ==
  ASSUME RateInv, kind' = kind, kind \in Xyz => sys'.chip.rate = sys.chip.rate /\ own' = own,
         ~Do("note"), ~Do("note")'
  PROVE  RateInv'
BY DEF RateInv

LEMMA ChipKept ==
  ASSUME ChipInv, kind' = kind, call'.todo # <<>>, call'.what \in {"enable", "disable"},
         sys'.chip.on => sys.chip.on \/ kind \in Compass \cup {"sys_als", "light_sensor_als", "lm3533_als"},
         own'.lib => own.lib \/ kind = "ak0991xna"
  PROVE  ChipInv'
BY DEF ChipInv, Rest

LEMMA ChipAfterFailure ==
  ASSUME TypeInv, ChipInv, kind' = kind, sys'.chip = sys.chip, own'.lib => own.lib \/ kind = "ak0991xna",
         kind \in Compass \cup Lights => Odd("failed")', kind = "sys_als" => ~sys.chip.on
  PROVE  ChipInv'
BY DEF ChipInv, Compass, Lights, OpeningLights

\* How a step leaves the call: under way, or over.
LEMMA EnableGoesOn ==
  ASSUME kind' = kind, call'.what = "enable", call'.todo \in OnSteps(kind), call'.todo # <<>>,
         OnStage', sys'.mode \in {"sleep", "run"}
  PROVE  CallInv'
BY DEF CallInv, Rest

LEMMA DisableGoesOn ==
  ASSUME kind' = kind, call'.what = "disable", call'.todo \in OffSteps(kind), call'.todo # <<>>,
         OffStage', sys'.mode \in {"sleep", "run"}
  PROVE  CallInv'
BY DEF CallInv, Rest

LEMMA DelayGoesOn ==
  ASSUME kind' = kind, call'.what = "set_delay", call'.todo \in DelaySteps(kind), call'.todo # <<>>,
         Settled', kind \in Compass /\ ~on' => Odd("paced")', sys'.mode \in {"sleep", "run"}
  PROVE  CallInv'
BY DEF CallInv, Rest

LEMMA CallOver ==
  ASSUME call'.what \in {"init", "enable", "disable", "set_delay"}, call'.todo = <<>>,
         Settled', sys'.mode \in {"sleep", "run"}
  PROVE  CallInv'
BY DEF CallInv, Rest

LEMMA GoStep ==
  ASSUME TypeInv, call.todo # <<>>, Go
  PROVE  /\ CallShape' /\ OnFollows /\ on' \in BOOLEAN /\ (Tail(call.todo) # <<>> => on' = on)
         /\ call'.what = call.what /\ call'.todo = Tail(call.todo) /\ call'.rv = 0 /\ call'.arg = call.arg
         /\ HistShape' /\ hist'.odd = hist.odd /\ OddKept
<1>1. HistShape /\ on \in BOOLEAN /\ Proceed(Done) /\ Quiet
  BY DEF TypeInv, HistShape, Go
<1>2. HistShape' /\ hist'.odd = hist.odd /\ OddKept
  BY <1>1, QuietKeeps
<1>3. /\ CallShape' /\ OnFollows
      /\ call'.what = call.what /\ call'.todo = Tail(call.todo) /\ call'.rv = 0 /\ call'.arg = call.arg
  BY <1>1, GoFacts
<1>4. QED
  BY <1>1, <1>2, <1>3 DEF OnFollows

LEMMA FailStep ==
  ASSUME TypeInv, call.todo # <<>>, NEW s, NEW odd, Proceed(Failed(s)), Recalled(odd), "failed" \in odd
  PROVE  /\ CallShape' /\ OnFollows /\ on' \in BOOLEAN
         /\ call'.what = call.what /\ call'.todo = <<>> /\ call'.rv = -1
         /\ call.what # "disable" /\ call.what # "close" => on' = on
         /\ call.what \in {"disable", "close"} => ~on'
         /\ HistShape' /\ OddKept
         /\ kind \in Compass \cup Lights => Odd("failed")'
         /\ "start_failed" \in odd /\ kind = "ak0991xna" => Odd("start_failed")'
<1>1. HistShape /\ on \in BOOLEAN /\ kind \in Drivers
  BY DEF TypeInv, HistShape
<1>2. /\ HistShape' /\ OddKept
      /\ kind \in Compass \cup Lights => Odd("failed")'
      /\ "start_failed" \in odd /\ kind = "ak0991xna" => Odd("start_failed")'
  BY <1>1, RecalledKeeps
<1>3. /\ CallShape' /\ OnFollows
      /\ call'.what = call.what /\ call'.todo = <<>> /\ call'.rv = -1
  BY FailFacts
<1>4. QED
  BY <1>1, <1>2, <1>3 DEF OnFollows

(***************************************************************************)
(* The steps of an enable.                                                 *)
(***************************************************************************)

LEMMA NoFdIsNone == NoFd \notin Fds
BY InputAssumption DEF NoFd

\* The step that an enable is at, and the one after it.
LEMMA EnableAt ==
  ASSUME InputInv, call.todo # <<>>,
         Head(call.todo) \in {"als_enable", "open", "keep_fd", "init_threshold", "clear_average",
                    "sysals_activate", "start", "set_fd", "resume", "get_distance", "report_distance"},
         Head(call.todo) = "set_fd" => call.what = "enable"
  PROVE  /\ call.what = "enable" /\ OnStage /\ OnNext(kind, call.todo) /\ call.todo \in OnSteps(kind)
         /\ sys.mode \in {"sleep", "run"} /\ call.rv = 0 /\ kind \in Drivers /\ on \in BOOLEAN
         /\ Tail(call.todo) \in OnSteps(kind) => Tail(call.todo) # <<>>
<1>1. kind \in Drivers /\ on \in BOOLEAN
  BY DEF InputInv, TypeInv
<1>2. /\ call.what = "enable" /\ OnStage /\ OnNext(kind, call.todo) /\ call.todo \in OnSteps(kind)
      /\ sys.mode \in {"sleep", "run"} /\ call.rv = 0
  BY CallAt DEF InputInv
<1>3. Tail(call.todo) \in OnSteps(kind) => OnNext(kind, Tail(call.todo))
  BY <1>1, OnLists
<1>4. QED
  BY <1>1, <1>2, <1>3 DEF OnNext

LEMMA OpenSucceeds ==
  ASSUME InputInv, Do("open"), NEW f \in Fds \ sys.files,
         sys' = [sys EXCEPT !.newfd = f, !.files = @ \cup {f}], Go, UNCHANGED <<kind, d, own, evdev, sensed, poll>>
  PROVE  InputInv'
<1> USE DEF InputInv
<1>1. call.todo # <<>> /\ Head(call.todo) = "open"
  BY DEF Do
<1>2. /\ call.what = "enable" /\ OnStage /\ OnNext(kind, call.todo) /\ sys.mode \in {"sleep", "run"}
      /\ Tail(call.todo) \in OnSteps(kind) => Tail(call.todo) # <<>>
  BY <1>1, EnableAt
<1>3. SysIs(sys', sys.fd, f, sys.files \cup {f}, sys.mode, sys.chip)
  BY SysNow, SysMore
<1>4. /\ sys' \in SysType /\ sys'.fd = sys.fd /\ sys'.newfd = f /\ sys'.files = sys.files \cup {f}
      /\ sys'.mode = sys.mode /\ sys'.chip = sys.chip
  BY <1>3, SysNow DEF SysIs, SysType, FdSet
<1>5. /\ CallShape' /\ on' \in BOOLEAN /\ call'.what = "enable" /\ call'.todo = Tail(call.todo)
      /\ HistShape' /\ hist'.odd = hist.odd /\ OddKept /\ (Tail(call.todo) # <<>> => on' = on)
  BY <1>1, <1>2, GoStep
<1>6. /\ call'.todo \in OnSteps(kind) /\ call'.todo # <<>> /\ on' = on /\ kind # "light_sensor_als"
      /\ IF kind \in Lights THEN Head(call'.todo) = "keep_fd"
         ELSE IF kind = "sys_als" THEN Head(call'.todo) = "sysals_activate"
         ELSE IF kind = "ak0991xna" THEN Head(call'.todo) = "start"
         ELSE Head(call'.todo) \in {"set_fd", "init_threshold", "clear_average"}
  BY <1>1, <1>2, <1>5 DEF OnNext
<1>7. Settled /\ (kind \notin Lights => Off) /\ (kind = "sys_als" => ~sys.chip.on) /\ (kind = "ak0991xna" => ~on)
  <2>1. Settled /\ (kind \notin Lights => sys.fd = NoFd) /\ (kind = "sys_als" => ~sys.chip.on)
    BY <1>1, <1>2 DEF OnStage, Do
  <2>2. QED
    BY <2>1, NoFdIsNone, SysNow DEF Settled, Stands, Running, Refused, Off, Lights, OpeningLights
<1>8. TypeInv'
  BY <1>4, <1>5, TypeStep DEF TypeInv
<1>9. FilesHeld'
  BY <1>4, <1>5, <1>7, NoFdIsNone, SysNow DEF FilesHeld, Settled, OddKept, Odd
<1>10. OnStage'
  <2>1. kind \in OpeningLights /\ on => Odd("enabled_twice")'
    BY <1>2, <1>5 DEF OnStage, OddKept, Lights
  <2>2. CASE kind \in Lights
    <3>1. Stands' /\ sys'.newfd \in sys'.files
      BY <1>4, <1>6, <1>7, <2>2 DEF Settled, Stands, Running, Refused, Off
    <3>2. QED
      BY <1>6, <2>1, <2>2, <3>1 DEF OnStage, Do
  <2>3. CASE kind \notin Lights
    <3>1. Off' /\ sys'.newfd \in sys'.files
      BY <1>4, <1>7, <2>3 DEF Off
    <3>2. QED
      BY <1>4, <1>6, <1>7, <2>3, <3>1 DEF OnStage, Do
  <2>4. QED
    BY <2>2, <2>3
<1>11. CallInv'
  BY <1>2, <1>4, <1>5, <1>6, <1>10, EnableGoesOn
<1>12. ChipInv'
  BY <1>4, <1>5, <1>6, ChipKept
<1>13. RateInv'
  BY <1>1, <1>4, <1>6, RateKept DEF Do
<1>14. QED
  BY <1>8, <1>9, <1>11, <1>12, <1>13

\* An open that fails ends the enable, and leaves all as it was.
LEMMA OpenFails ==
  ASSUME InputInv, Do("open"), Fail("open"), UNCHANGED <<kind, sys, d, own, evdev, sensed, poll>>
  PROVE  InputInv'
<1> USE DEF InputInv
<1>1. call.todo # <<>> /\ Head(call.todo) = "open"
  BY DEF Do
<1>2. call.what = "enable" /\ OnStage /\ sys.mode \in {"sleep", "run"}
  BY <1>1, EnableAt
<1>3. /\ CallShape' /\ on' \in BOOLEAN /\ call'.what = "enable" /\ call'.todo = <<>> /\ on' = on
      /\ HistShape' /\ OddKept /\ (kind \in Compass \cup Lights => Odd("failed")')
  BY <1>1, <1>2, FailStep DEF Fail
<1>4. Settled /\ (kind = "sys_als" => ~sys.chip.on)
  BY <1>1, <1>2 DEF OnStage, Do
<1>5. TypeInv'
  BY <1>3, TypeStep DEF TypeInv
<1>6. FilesHeld'
  BY <1>3 DEF FilesHeld, OddKept, Odd
<1>7. CallInv'
  BY <1>2, <1>3, <1>4, CallOver DEF Settled, Stands, Running, Refused, Off
<1>8. ChipInv'
  BY <1>3, <1>4, ChipAfterFailure
<1>9. RateInv'
  BY <1>1, <1>3, RateKept DEF Do
<1>10. QED
  BY <1>5, <1>6, <1>7, <1>8, <1>9

\* Whatever als_enable returned.
LEMMA LightEnables ==
  ASSUME InputInv, Do("als_enable"), NEW b \in BOOLEAN,
         SysIs(sys', sys.fd, sys.newfd, sys.files, sys.mode, [on |-> b, rate |-> sys.chip.rate]),
         Proceed(Done), HistShape', OddKept, UNCHANGED <<kind, d, own, evdev, sensed, poll>>
  PROVE  InputInv'
<1> USE DEF InputInv
<1>1. call.todo # <<>> /\ Head(call.todo) = "als_enable"
  BY DEF Do
<1>2. /\ call.what = "enable" /\ OnStage /\ OnNext(kind, call.todo) /\ sys.mode \in {"sleep", "run"}
      /\ Tail(call.todo) \in OnSteps(kind) => Tail(call.todo) # <<>>
  BY <1>1, EnableAt
<1>3. /\ sys' \in SysType /\ sys'.fd = sys.fd /\ sys'.newfd = sys.newfd /\ sys'.files = sys.files
      /\ sys'.mode = sys.mode /\ sys'.chip.rate = sys.chip.rate
  BY SysNow DEF SysIs, SysType
<1>4. /\ CallShape' /\ on' \in BOOLEAN /\ call'.what = "enable" /\ call'.todo = Tail(call.todo)
      /\ Tail(call.todo) # <<>> => (on' <=> on)
  BY <1>1, <1>2, GoFacts DEF OnFollows
<1>5. /\ call'.todo \in OnSteps(kind) /\ call'.todo # <<>> /\ on' = on /\ kind \in {"light_sensor_als", "lm3533_als"}
      /\ Head(call'.todo) = IF kind = "light_sensor_als" THEN "resume" ELSE "open"
  BY <1>1, <1>2, <1>4 DEF OnNext, TypeInv
<1>6. Settled /\ Settled'
  BY <1>1, <1>2, <1>3, <1>5 DEF OnStage, Do, Settled, Stands, Running, Refused, Off
<1>7. TypeInv'
  BY <1>3, <1>4, TypeStep DEF TypeInv
<1>8. FilesHeld'
  BY <1>3 DEF FilesHeld, OddKept, Odd
<1>9. OnStage'
  <2>1. kind \in OpeningLights /\ on => Odd("enabled_twice")'
    BY <1>2 DEF OnStage, OddKept, Lights
  <2>2. kind = "light_sensor_als" => sys'.fd = NoFd
    BY <1>3, <1>6 DEF Settled, Stands, Running, Refused, Off
  <2>3. QED
    BY <1>5, <1>6, <2>1, <2>2 DEF OnStage, Do, Lights, OpeningLights, Settled
<1>10. CallInv'
  BY <1>2, <1>3, <1>4, <1>5, <1>9, EnableGoesOn
<1>11. ChipInv'
  BY <1>4, <1>5, ChipKept
<1>12. RateInv'
  BY <1>1, <1>3, <1>5, RateKept DEF Do
<1>13. QED
  BY <1>7, <1>8, <1>10, <1>11, <1>12

LEMMA LightKeepsFd ==
  ASSUME InputInv, Do("keep_fd"), sys' = [sys EXCEPT !.fd = sys.newfd, !.newfd = NoFd], Go,
         UNCHANGED <<kind, d, own, evdev, sensed, poll>>
  PROVE  InputInv'
<1> USE DEF InputInv
<1>1. call.todo # <<>> /\ Head(call.todo) = "keep_fd"
  BY DEF Do
<1>2. /\ call.what = "enable" /\ OnStage /\ OnNext(kind, call.todo) /\ sys.mode \in {"sleep", "run"}
      /\ Tail(call.todo) \in OnSteps(kind) => Tail(call.todo) # <<>>
  BY <1>1, EnableAt
<1>3. SysIs(sys', sys.newfd, NoFd, sys.files, sys.mode, sys.chip)
  BY SysNow, SysMore
<1>4. /\ sys' \in SysType /\ sys'.fd = sys.newfd /\ sys'.newfd = NoFd /\ sys'.files = sys.files
      /\ sys'.mode = sys.mode /\ sys'.chip = sys.chip
  BY <1>3, SysNow DEF SysIs, SysType, FdSet
<1>5. /\ CallShape' /\ on' \in BOOLEAN /\ call'.what = "enable" /\ call'.todo = Tail(call.todo)
      /\ HistShape' /\ hist'.odd = hist.odd /\ OddKept /\ (Tail(call.todo) # <<>> => on' = on)
  BY <1>1, <1>2, GoStep
<1>6. /\ call'.todo \in OnSteps(kind) /\ call'.todo # <<>> /\ on' = on /\ kind \in OpeningLights
      /\ Head(call'.todo) = "resume"
  BY <1>1, <1>2, <1>5 DEF OnNext
<1>7. Stands /\ sys.newfd \in sys.files /\ (on => Odd("enabled_twice"))
  BY <1>1, <1>2, <1>6 DEF OnStage, Do, Lights
<1>8. TypeInv'
  BY <1>4, <1>5, TypeStep DEF TypeInv
<1>9. FilesHeld'
  <2>1. CASE on
    BY <1>5, <1>6, <1>7, <2>1 DEF FilesHeld, OddKept, Odd
  <2>2. CASE ~on
    BY <1>4, <1>5, <1>7, <2>2, NoFdIsNone, SysNow DEF FilesHeld, Stands, Off, OddKept, Odd
  <2>3. QED
    BY <2>1, <2>2
<1>10. OnStage'
  BY <1>4, <1>5, <1>6, <1>7 DEF OnStage, Do, Lights, OpeningLights, Odd
<1>11. CallInv'
  BY <1>2, <1>4, <1>5, <1>6, <1>10, EnableGoesOn
<1>12. ChipInv'
  BY <1>4, <1>5, <1>6, ChipKept
<1>13. RateInv'
  BY <1>1, <1>4, <1>6, RateKept DEF Do
<1>14. QED
  BY <1>8, <1>9, <1>11, <1>12, <1>13

\* What comes between the open and the set_fd of a select driver.
LEMMA DriverPrepares ==
  ASSUME InputInv, call.todo # <<>>,
         Head(call.todo) \in {"init_threshold", "clear_average", "sysals_activate", "start"},
         kind' = kind, sensed' = sensed, Proceed(Done), HistShape', OddKept,
         NEW b \in BOOLEAN, b = sys.chip.on \/ Head(call.todo) = "sysals_activate",
         SysIs(sys', sys.fd, sys.newfd, sys.files, sys.mode, [on |-> b, rate |-> sys.chip.rate]),
         own' \in [delay : Int, lib : BOOLEAN, path : BOOLEAN],
         own'.lib => own.lib \/ Head(call.todo) = "start",
         own' = own \/ Head(call.todo) \in {"init_threshold", "start"}
  PROVE  InputInv'
<1> USE DEF InputInv
<1>1. /\ call.what = "enable" /\ OnStage /\ OnNext(kind, call.todo) /\ sys.mode \in {"sleep", "run"}
      /\ Tail(call.todo) \in OnSteps(kind) => Tail(call.todo) # <<>>
  BY EnableAt
<1>2. /\ sys' \in SysType /\ sys'.fd = sys.fd /\ sys'.newfd = sys.newfd /\ sys'.files = sys.files
      /\ sys'.mode = sys.mode /\ sys'.chip.on = b /\ sys'.chip.rate = sys.chip.rate
  BY SysNow DEF SysIs, SysType
<1>3. /\ CallShape' /\ on' \in BOOLEAN /\ call'.what = "enable" /\ call'.todo = Tail(call.todo)
      /\ Tail(call.todo) # <<>> => (on' <=> on)
  BY <1>1, GoFacts DEF OnFollows
<1>4. /\ call'.todo \in OnSteps(kind) /\ call'.todo # <<>> /\ on' = on /\ kind \notin Lights
      /\ Head(call'.todo) = "set_fd"
      /\ Head(call.todo) = "sysals_activate" => kind = "sys_als"
      /\ Head(call.todo) = "start" => kind = "ak0991xna"
      /\ Head(call.todo) = "init_threshold" => kind = "apds970x"
  BY <1>1, <1>3 DEF OnNext, TypeInv
<1>5. sys.newfd \in sys.files /\ Off
  BY <1>1, <1>4 DEF OnStage, Do
<1>6. TypeInv'
  BY <1>2, <1>3, TypeStep DEF TypeInv
<1>7. FilesHeld'
  BY <1>2 DEF FilesHeld, OddKept, Odd
<1>8. OnStage'
  BY <1>2, <1>4, <1>5 DEF OnStage, Do, Off
<1>9. CallInv'
  BY <1>1, <1>2, <1>3, <1>4, <1>8, EnableGoesOn
<1>10. ChipInv'
  <2>1. /\ sys'.chip.on => sys.chip.on \/ kind \in Compass \cup {"sys_als", "light_sensor_als", "lm3533_als"}
        /\ own'.lib => own.lib \/ kind = "ak0991xna"
    BY <1>2, <1>4
  <2>2. QED
    BY <1>3, <1>4, <2>1, ChipKept
<1>11. RateInv'
  <2>1. kind \in Xyz => sys'.chip.rate = sys.chip.rate /\ own' = own
    BY <1>2, <1>4 DEF Xyz
  <2>2. ~Do("note") /\ ~Do("note")'
    BY <1>4 DEF Do
  <2>3. QED
    BY <2>1, <2>2, RateKept
<1>12. QED
  BY <1>6, <1>7, <1>9, <1>10, <1>11

\* The library of sys_als.c refuses: the file is closed again.
LEMMA RefusalKeeps == ASSUME InputInv, SysalsRefuses
                      PROVE  InputInv'
<1> USE DEF InputInv
<1>1. /\ call.todo # <<>> /\ Head(call.todo) = "sysals_activate" /\ Proceed([call EXCEPT !.todo = <<>>])
      /\ sys' = [sys EXCEPT !.files = sys.files \ {sys.newfd}, !.newfd = NoFd] /\ Quiet
      /\ kind' = kind /\ own' = own /\ sensed' = sensed
  BY DEF SysalsRefuses, Do
<1>2. call.what = "enable" /\ OnStage /\ OnNext(kind, call.todo) /\ sys.mode \in {"sleep", "run"}
  BY <1>1, EnableAt
<1>3. SysIs(sys', sys.fd, NoFd, sys.files \ {sys.newfd}, sys.mode, sys.chip)
  BY <1>1, SysNow, SysMore
<1>4. /\ sys' \in SysType /\ sys'.fd = sys.fd /\ sys'.newfd = NoFd /\ sys'.files = sys.files \ {sys.newfd}
      /\ sys'.mode = sys.mode /\ sys'.chip = sys.chip
  BY <1>3, SysNow DEF SysIs, SysType, FdSet
<1>5. /\ CallShape' /\ call'.what = "enable" /\ call'.todo = <<>> /\ on' = TRUE
  BY <1>1, <1>2, EndFacts DEF OnFollows
<1>6. HistShape' /\ hist'.odd = hist.odd /\ OddKept
  BY <1>1, QuietKeeps DEF TypeInv, HistShape
<1>7. kind = "sys_als" /\ kind \notin Lights
  BY <1>1, <1>2 DEF OnNext, Lights, OpeningLights
<1>8. Off /\ ~sys.chip.on
  BY <1>1, <1>2, <1>7 DEF OnStage, Do
<1>9. TypeInv'
  BY <1>1, <1>4, <1>5, <1>6, TypeStep DEF TypeInv
<1>10. FilesHeld'
  BY <1>1, <1>4, <1>6, <1>7, <1>8, NoFdIsNone, SysNow DEF FilesHeld, Off, OpeningLights
<1>11. Settled'
  BY <1>1, <1>4, <1>5, <1>7, <1>8 DEF Settled, Stands, Refused, Off
<1>12. CallInv'
  BY <1>2, <1>4, <1>5, <1>11, CallOver
<1>13. ChipInv'
  BY <1>1, <1>4, <1>5, <1>8 DEF ChipInv
<1>14. RateInv'
  BY <1>1, <1>4, <1>5, RateKept DEF Do
<1>15. QED
  BY <1>9, <1>10, <1>12, <1>13, <1>14

\* A start of the library that fails leaves the file open.
LEMMA StartFails ==
  ASSUME InputInv, Do("start"), Proceed(Failed("start")), Recalled({"failed", "start_failed"}),
         sys' = [sys EXCEPT !.newfd = NoFd], UNCHANGED own, UNCHANGED <<kind, d, evdev, sensed, poll>>
  PROVE  InputInv'
<1> USE DEF InputInv
<1>1. call.todo # <<>> /\ Head(call.todo) = "start"
  BY DEF Do
<1>2. call.what = "enable" /\ OnStage /\ OnNext(kind, call.todo) /\ sys.mode \in {"sleep", "run"}
  BY <1>1, EnableAt
<1>3. SysIs(sys', sys.fd, NoFd, sys.files, sys.mode, sys.chip)
  BY SysNow, SysOne
<1>4. /\ sys' \in SysType /\ sys'.fd = sys.fd /\ sys'.newfd = NoFd /\ sys'.files = sys.files
      /\ sys'.mode = sys.mode /\ sys'.chip = sys.chip
  BY <1>3, SysNow DEF SysIs, SysType, FdSet
<1>5. kind = "ak0991xna" /\ kind \in Compass /\ kind \notin Lights
  BY <1>1, <1>2 DEF OnNext, Compass, Lights, OpeningLights
<1>6. /\ CallShape' /\ on' \in BOOLEAN /\ call'.what = "enable" /\ call'.todo = <<>> /\ on' = on
      /\ HistShape' /\ OddKept /\ Odd("failed")' /\ Odd("start_failed")'
  BY <1>1, <1>2, <1>5, FailStep
<1>7. Off /\ ~on
  BY <1>1, <1>2, <1>5 DEF OnStage, Do
<1>8. TypeInv'
  BY <1>4, <1>6, TypeStep DEF TypeInv
<1>9. FilesHeld'
  BY <1>5, <1>6 DEF FilesHeld, Odd
<1>10. Settled'
  BY <1>4, <1>6, <1>7 DEF Settled, Stands, Off
<1>11. CallInv'
  BY <1>2, <1>4, <1>6, <1>10, CallOver
<1>12. ChipInv'
  <2>1. kind # "sys_als"
    BY <1>5
  <2>2. QED
    BY <1>4, <1>6, <2>1, ChipAfterFailure
<1>13. RateInv'
  BY <1>1, <1>4, <1>6, RateKept DEF Do
<1>14. QED
  BY <1>8, <1>9, <1>11, <1>12, <1>13

LEMMA EnableSetsFd ==
  ASSUME InputInv, call.what = "enable", SetFd
  PROVE  InputInv'
<1> USE DEF InputInv
<1>1. /\ call.todo # <<>> /\ Head(call.todo) = "set_fd" /\ Proceed(Done)
      /\ sys' = [sys EXCEPT !.files = closed(sys.fd), !.fd = sys.newfd, !.newfd = NoFd]
      /\ kind' = kind /\ own' = own /\ sensed' = sensed
  BY DEF SetFd, Do
<1>2. /\ OnStage /\ OnNext(kind, call.todo) /\ sys.mode \in {"sleep", "run"} /\ kind \in Drivers
      /\ Tail(call.todo) \in OnSteps(kind) => Tail(call.todo) # <<>>
  BY <1>1, EnableAt
<1>3. SysIs(sys', sys.newfd, NoFd, closed(sys.fd), sys.mode, sys.chip)
  BY <1>1, SysNow, SysMore
<1>4. /\ sys' \in SysType /\ sys'.fd = sys.newfd /\ sys'.newfd = NoFd /\ sys'.files = sys.files \ {sys.fd}
      /\ sys'.mode = sys.mode /\ sys'.chip = sys.chip
  BY <1>3, SysNow DEF SysIs, SysType, FdSet, closed
<1>5. HistShape' /\ OddKept
  BY <1>2, RecalledKeeps DEF SetFd, TypeInv, HistShape
<1>6. /\ CallShape' /\ on' \in BOOLEAN /\ call'.what = "enable" /\ call'.todo = Tail(call.todo)
      /\ Tail(call.todo) # <<>> => (on' <=> on)
  BY <1>1, <1>2, GoFacts DEF OnFollows
<1>7. /\ call'.todo \in OnSteps(kind) /\ call'.todo # <<>> /\ on' = on /\ kind \notin Lights
      /\ Head(call'.todo) = "resume"
  BY <1>1, <1>2, <1>6 DEF OnNext, TypeInv
<1>8. sys.newfd \in sys.files /\ Off
  BY <1>1, <1>2, <1>7 DEF OnStage, Do
<1>9. sys'.fd \in sys'.files
  BY <1>4, <1>8, NoFdIsNone, SysNow DEF Off
<1>10. TypeInv'
  BY <1>1, <1>4, <1>5, <1>6, TypeStep DEF TypeInv
<1>11. FilesHeld'
  BY <1>1, <1>4, <1>5, <1>7, <1>8 DEF FilesHeld, Off, OddKept, Odd
<1>12. OnStage'
  BY <1>1, <1>4, <1>7, <1>8, <1>9 DEF OnStage, Do, Off
<1>13. CallInv'
  BY <1>1, <1>2, <1>4, <1>6, <1>7, <1>12, EnableGoesOn
<1>14. ChipInv'
  BY <1>1, <1>4, <1>6, <1>7, ChipKept
<1>15. RateInv'
  BY <1>1, <1>4, <1>7, RateKept DEF Do
<1>16. QED
  BY <1>10, <1>11, <1>13, <1>14, <1>15

LEMMA EnableResumes ==
  ASSUME InputInv, Do("resume"), sys' = [sys EXCEPT !.mode = "run"], Go,
         UNCHANGED <<kind, d, own, evdev, sensed, poll>>
  PROVE  InputInv'
<1> USE DEF InputInv
<1>1. call.todo # <<>> /\ Head(call.todo) = "resume"
  BY DEF Do
<1>2. /\ call.what = "enable" /\ OnStage /\ OnNext(kind, call.todo)
      /\ Tail(call.todo) \in OnSteps(kind) => Tail(call.todo) # <<>>
  BY <1>1, EnableAt
<1>3. SysIs(sys', sys.fd, sys.newfd, sys.files, "run", sys.chip)
  BY SysNow, SysOne
<1>4. /\ sys' \in SysType /\ sys'.fd = sys.fd /\ sys'.newfd = sys.newfd /\ sys'.files = sys.files
      /\ sys'.mode = "run" /\ sys'.chip = sys.chip
  BY <1>3, SysNow DEF SysIs, SysType
<1>5. /\ CallShape' /\ OnFollows /\ on' \in BOOLEAN /\ call'.what = "enable" /\ call'.todo = Tail(call.todo)
      /\ HistShape' /\ hist'.odd = hist.odd /\ OddKept /\ (Tail(call.todo) # <<>> => on' = on) /\ call'.rv = 0
  BY <1>1, <1>2, GoStep
<1>6. /\ \/ call'.todo = <<>>
         \/ /\ call'.todo \in OnSteps(kind) /\ call'.todo # <<>> /\ Head(call'.todo) = "get_distance"
            /\ kind \notin Lights
  BY <1>1, <1>2, <1>5 DEF OnNext, Lights, OpeningLights
<1>7. /\ sys.newfd = NoFd /\ (kind \in OpeningLights /\ on => Odd("enabled_twice"))
      /\ IF kind = "light_sensor_als" THEN sys.fd = NoFd ELSE sys.fd \in sys.files
  BY <1>1, <1>2 DEF OnStage, Do, Lights, OpeningLights
<1>8. Running'
  BY <1>4, <1>7 DEF Running
<1>9. TypeInv'
  BY <1>4, <1>5, TypeStep DEF TypeInv
<1>10. FilesHeld'
  BY <1>4, <1>5 DEF FilesHeld, OddKept, Odd
<1>11. CASE call'.todo = <<>>
  <2>1. on' = TRUE
    BY <1>5, <1>11 DEF OnFollows
  <2>2. Settled'
    BY <1>4, <1>7, <1>8, <2>1 DEF Settled, Stands
  <2>3. CallInv'
    BY <1>4, <1>5, <1>11, <2>2, CallOver
  <2>4. ChipInv'
    BY <1>4, <2>1 DEF ChipInv
  <2>5. RateInv'
    BY <1>1, <1>4, <1>11, RateKept DEF Do
  <2>6. QED
    BY <1>9, <1>10, <2>3, <2>4, <2>5
<1>12. CASE call'.todo # <<>>
  <2>1. call'.todo \in OnSteps(kind) /\ Head(call'.todo) = "get_distance" /\ kind \notin Lights
    BY <1>6, <1>12
  <2>2. OnStage'
    BY <1>4, <1>7, <1>8, <2>1 DEF OnStage, Do
  <2>3. CallInv'
    BY <1>4, <1>5, <1>12, <2>1, <2>2, EnableGoesOn
  <2>4. ChipInv'
    BY <1>4, <1>5, <1>12, ChipKept
  <2>5. RateInv'
    BY <1>1, <1>4, <2>1, RateKept DEF Do
  <2>6. QED
    BY <1>9, <1>10, <2>3, <2>4, <2>5
<1>13. QED
  BY <1>11, <1>12

\* noa3402.c reads the distance, and reports it.
LEMMA DistanceSteps ==
  ASSUME InputInv, call.todo # <<>>, UNCHANGED <<kind, sys, d, own, evdev, sensed, poll>>, HistShape', OddKept,
         CallShape', OnFollows, call'.what = call.what, call'.rv = 0,
         \/ Head(call.todo) = "get_distance" /\ call'.todo = Tail(call.todo)
         \/ Head(call.todo) = "get_distance" /\ call'.todo = <<>>
         \/ Head(call.todo) = "report_distance" /\ call'.todo = Tail(call.todo)
  PROVE  InputInv'
<1> USE DEF InputInv
<1>1. /\ call.what = "enable" /\ OnStage /\ OnNext(kind, call.todo) /\ sys.mode \in {"sleep", "run"}
      /\ Tail(call.todo) \in OnSteps(kind) => Tail(call.todo) # <<>>
  BY EnableAt
<1>2. /\ kind = "noa3402" /\ kind \notin Lights
      /\ \/ call'.todo = <<>>
         \/ /\ call'.todo \in OnSteps(kind) /\ call'.todo # <<>> /\ Head(call'.todo) = "report_distance"
  BY <1>1 DEF OnNext, Lights, OpeningLights
<1>3. sys.newfd = NoFd /\ Running
  BY <1>1, <1>2 DEF OnStage, Do
<1>4. TypeInv'
  BY TypeStep DEF TypeInv, OnFollows
<1>5. FilesHeld'
  BY DEF FilesHeld, OddKept, Odd
<1>6. ~Do("note") /\ ~Do("note")'
  BY <1>2 DEF Do
<1>7. RateInv'
  BY <1>6, RateKept
<1>8. CASE call'.todo = <<>>
  <2>1. on' = TRUE
    BY <1>1, <1>8 DEF OnFollows
  <2>2. Settled'
    BY <1>3, <2>1 DEF Settled, Stands, Running
  <2>3. CallInv'
    BY <1>1, <1>8, <2>2, CallOver
  <2>4. ChipInv'
    BY <2>1 DEF ChipInv
  <2>5. QED
    BY <1>4, <1>5, <1>7, <2>3, <2>4
<1>9. CASE call'.todo # <<>>
  <2>1. call'.todo \in OnSteps(kind) /\ Head(call'.todo) = "report_distance"
    BY <1>2, <1>9
  <2>2. OnStage'
    BY <1>2, <1>3, <2>1 DEF OnStage, Do, Running
  <2>3. CallInv'
    BY <1>1, <1>9, <2>1, <2>2, EnableGoesOn
  <2>4. ChipInv'
    BY <1>1, <1>9, ChipKept
  <2>5. QED
    BY <1>4, <1>5, <1>7, <2>3, <2>4
<1>10. QED
  BY <1>8, <1>9

(***************************************************************************)
(* The steps of a disable.                                                 *)
(***************************************************************************)

LEMMA DisableAt ==
  ASSUME InputInv, call.todo # <<>>,
         Head(call.todo) \in {"suspend", "set_fd", "close_fd", "forget_fd", "interval_off", "stop",
                              "sysals_deactivate", "als_disable"},
         Head(call.todo) = "set_fd" => call.what = "disable"
  PROVE  /\ call.what = "disable" /\ OffStage /\ OffNext(kind, call.todo) /\ sys.newfd = NoFd
         /\ sys.mode \in {"sleep", "run"} /\ call.rv = 0 /\ kind \in Drivers /\ on \in BOOLEAN
         /\ Tail(call.todo) \in OffSteps(kind) => Tail(call.todo) # <<>>
<1>1. kind \in Drivers /\ on \in BOOLEAN
  BY DEF InputInv, TypeInv
<1>2. /\ call.what = "disable" /\ OffStage /\ OffNext(kind, call.todo)
      /\ sys.mode \in {"sleep", "run"} /\ call.rv = 0
  BY CallAt DEF InputInv
<1>3. Tail(call.todo) \in OffSteps(kind) => OffNext(kind, Tail(call.todo))
  BY <1>1, OffLists
<1>4. QED
  BY <1>1, <1>2, <1>3 DEF OffNext, OffStage

\* A disable that is over.
LEMMA DisableOver ==
  ASSUME call'.what = "disable", call'.todo = <<>>, OnFollows, sys'.newfd = NoFd, Off'
  PROVE  CallInv' /\ ~on'
<1>1. ~on'
  BY DEF OnFollows
<1>2. Settled' /\ sys'.mode \in {"sleep", "run"}
  BY <1>1 DEF Settled, Stands, Off
<1>3. QED
  BY <1>1, <1>2, CallOver

LEMMA DisableSuspends ==
  ASSUME InputInv, Do("suspend"), sys' = [sys EXCEPT !.mode = "sleep"], Go,
         UNCHANGED <<kind, d, own, evdev, sensed, poll>>
  PROVE  InputInv'
<1> USE DEF InputInv
<1>1. call.todo # <<>> /\ Head(call.todo) = "suspend"
  BY DEF Do
<1>2. /\ call.what = "disable" /\ OffStage /\ OffNext(kind, call.todo) /\ sys.newfd = NoFd /\ kind \in Drivers
      /\ Tail(call.todo) \in OffSteps(kind) => Tail(call.todo) # <<>>
  BY <1>1, DisableAt
<1>3. SysIs(sys', sys.fd, sys.newfd, sys.files, "sleep", sys.chip)
  BY SysNow, SysOne
<1>4. /\ sys' \in SysType /\ sys'.fd = sys.fd /\ sys'.newfd = NoFd /\ sys'.files = sys.files
      /\ sys'.mode = "sleep" /\ sys'.chip = sys.chip
  BY <1>2, <1>3, SysNow DEF SysIs, SysType
<1>5. /\ CallShape' /\ OnFollows /\ on' \in BOOLEAN /\ call'.what = "disable" /\ call'.todo = Tail(call.todo)
      /\ HistShape' /\ hist'.odd = hist.odd /\ OddKept
  BY <1>1, <1>2, GoStep
<1>6. IF kind \in Lights \cup Compass \cup {"sys_als"}
      THEN /\ call'.todo \in OffSteps(kind) /\ call'.todo # <<>>
           /\ Head(call'.todo) = IF kind = "light_sensor_als" THEN "als_disable"
                                 ELSE IF kind \in Lights THEN "close_fd"
                                 ELSE IF kind \in Compass THEN "set_fd" ELSE "sysals_deactivate"
      ELSE call'.todo = <<>>
  BY <1>1, <1>2, <1>5 DEF OffNext
<1>7. /\ kind = "light_sensor_als" => sys.fd = NoFd
      /\ kind \notin Compass \cup Lights => sys.fd = NoFd
  BY <1>1, <1>2 DEF OffStage, Do
<1>8. TypeInv'
  BY <1>4, <1>5, TypeStep DEF TypeInv
<1>9. FilesHeld'
  BY <1>2, <1>4, <1>5 DEF FilesHeld
<1>10. ~Do("note") /\ ~Do("note")'
  BY <1>1, <1>6 DEF Do
<1>11. RateInv'
  BY <1>4, <1>10, RateKept
<1>12. CASE kind \in Lights \cup Compass \cup {"sys_als"}
  <2>1. OffStage'
    BY <1>4, <1>6, <1>7, <1>12 DEF OffStage, Do, Off, Lights, OpeningLights, Compass
  <2>2. CallInv'
    BY <1>4, <1>5, <1>6, <1>12, <2>1, DisableGoesOn
  <2>3. ChipInv'
    BY <1>4, <1>5, <1>6, <1>12, ChipKept
  <2>4. QED
    BY <1>8, <1>9, <1>11, <2>2, <2>3
<1>13. CASE kind \notin Lights \cup Compass \cup {"sys_als"}
  <2>1. call'.todo = <<>> /\ Off'
    BY <1>4, <1>6, <1>7, <1>13 DEF Off
  <2>2. CallInv'
    BY <1>4, <1>5, <2>1, DisableOver
  <2>3. ChipInv'
    BY <1>4, <1>13 DEF ChipInv, Lights, OpeningLights, Compass
  <2>4. QED
    BY <1>8, <1>9, <1>11, <2>2, <2>3
<1>14. QED
  BY <1>12, <1>13

LEMMA DisableSetsFd ==
  ASSUME InputInv, call.what = "disable", SetFd
  PROVE  InputInv'
<1> USE DEF InputInv
<1>1. /\ call.todo # <<>> /\ Head(call.todo) = "set_fd" /\ Proceed(Done)
      /\ sys' = [sys EXCEPT !.files = closed(sys.fd), !.fd = sys.newfd, !.newfd = NoFd]
      /\ kind' = kind /\ own' = own /\ sensed' = sensed
  BY DEF SetFd, Do
<1>2. /\ OffStage /\ OffNext(kind, call.todo) /\ sys.newfd = NoFd /\ kind \in Drivers /\ sys.mode \in {"sleep", "run"}
      /\ Tail(call.todo) \in OffSteps(kind) => Tail(call.todo) # <<>>
  BY <1>1, DisableAt
<1>3. SysIs(sys', sys.newfd, NoFd, closed(sys.fd), sys.mode, sys.chip)
  BY <1>1, SysNow, SysMore
<1>4. /\ sys' \in SysType /\ sys'.fd = NoFd /\ sys'.newfd = NoFd /\ sys'.files = sys.files \ {sys.fd}
      /\ sys'.mode = sys.mode /\ sys'.chip = sys.chip
  BY <1>2, <1>3, SysNow DEF SysIs, SysType, FdSet, closed
<1>5. HistShape' /\ OddKept
  BY <1>2, RecalledKeeps DEF SetFd, TypeInv, HistShape
<1>6. /\ CallShape' /\ on' \in BOOLEAN /\ call'.what = "disable" /\ call'.todo = Tail(call.todo)
  BY <1>1, GoFacts DEF OnFollows
<1>7. /\ call'.todo \in OffSteps(kind) /\ call'.todo # <<>> /\ kind \notin Lights
      /\ Head(call'.todo) = IF kind \in Compass THEN "interval_off" ELSE "suspend"
  BY <1>1, <1>2, <1>6 DEF OffNext
<1>8. kind \in Compass => sys.mode = "sleep"
  BY <1>1, <1>2 DEF OffStage, Do
<1>9. TypeInv'
  BY <1>1, <1>4, <1>5, <1>6, TypeStep DEF TypeInv
<1>10. FilesHeld'
  BY <1>1, <1>2, <1>4, <1>5, <1>7 DEF FilesHeld, OddKept, Odd
<1>11. OffStage'
  BY <1>1, <1>4, <1>7, <1>8 DEF OffStage, Do, Off
<1>12. CallInv'
  BY <1>1, <1>2, <1>4, <1>6, <1>7, <1>11, DisableGoesOn
<1>13. ChipInv'
  BY <1>1, <1>4, <1>6, <1>7, ChipKept
<1>14. ~Do("note") /\ ~Do("note")'
  BY <1>1, <1>7 DEF Do
<1>15. RateInv'
  BY <1>1, <1>4, <1>14, RateKept
<1>16. QED
  BY <1>9, <1>10, <1>12, <1>13, <1>15

\* A light sensor closes its file, and then forgets it.
LEMMA LightCloses ==
  ASSUME InputInv, Do("close_fd"), sys' = [sys EXCEPT !.files = closed(sys.fd)], Go,
         UNCHANGED <<kind, d, own, evdev, sensed, poll>>
  PROVE  InputInv'
<1> USE DEF InputInv
<1>1. call.todo # <<>> /\ Head(call.todo) = "close_fd"
  BY DEF Do
<1>2. /\ call.what = "disable" /\ OffStage /\ OffNext(kind, call.todo) /\ sys.newfd = NoFd /\ kind \in Drivers
      /\ Tail(call.todo) \in OffSteps(kind) => Tail(call.todo) # <<>>
  BY <1>1, DisableAt
<1>3. SysIs(sys', sys.fd, sys.newfd, closed(sys.fd), sys.mode, sys.chip)
  BY SysNow, SysOne
<1>4. /\ sys' \in SysType /\ sys'.fd = sys.fd /\ sys'.newfd = NoFd /\ sys'.files = sys.files \ {sys.fd}
      /\ sys'.mode = sys.mode /\ sys'.chip = sys.chip
  BY <1>2, <1>3, SysNow DEF SysIs, SysType, closed
<1>5. /\ CallShape' /\ on' \in BOOLEAN /\ call'.what = "disable" /\ call'.todo = Tail(call.todo)
      /\ HistShape' /\ hist'.odd = hist.odd /\ OddKept
  BY <1>1, <1>2, GoStep
<1>6. /\ call'.todo \in OffSteps(kind) /\ call'.todo # <<>> /\ kind \in OpeningLights
      /\ Head(call'.todo) = "forget_fd"
  BY <1>1, <1>2, <1>5 DEF OffNext
<1>7. sys.mode = "sleep"
  BY <1>1, <1>2 DEF OffStage, Do
<1>8. TypeInv'
  BY <1>4, <1>5, TypeStep DEF TypeInv
<1>9. FilesHeld'
  BY <1>2, <1>4, <1>5 DEF FilesHeld
<1>10. OffStage'
  BY <1>4, <1>6, <1>7 DEF OffStage, Do, OpeningLights
<1>11. CallInv'
  BY <1>4, <1>5, <1>6, <1>7, <1>10, DisableGoesOn
<1>12. ChipInv'
  BY <1>4, <1>5, <1>6, ChipKept
<1>13. ~Do("note") /\ ~Do("note")'
  BY <1>1, <1>6 DEF Do
<1>14. RateInv'
  BY <1>4, <1>13, RateKept
<1>15. QED
  BY <1>8, <1>9, <1>11, <1>12, <1>14

LEMMA LightForgets ==
  ASSUME InputInv, Do("forget_fd"), sys' = [sys EXCEPT !.fd = NoFd], Go,
         UNCHANGED <<kind, d, own, evdev, sensed, poll>>
  PROVE  InputInv'
<1> USE DEF InputInv
<1>1. call.todo # <<>> /\ Head(call.todo) = "forget_fd"
  BY DEF Do
<1>2. /\ call.what = "disable" /\ OffStage /\ OffNext(kind, call.todo) /\ sys.newfd = NoFd /\ kind \in Drivers
      /\ Tail(call.todo) \in OffSteps(kind) => Tail(call.todo) # <<>>
  BY <1>1, DisableAt
<1>3. SysIs(sys', NoFd, sys.newfd, sys.files, sys.mode, sys.chip)
  BY SysNow, SysOne
<1>4. /\ sys' \in SysType /\ sys'.fd = NoFd /\ sys'.newfd = NoFd /\ sys'.files = sys.files
      /\ sys'.mode = sys.mode /\ sys'.chip = sys.chip
  BY <1>2, <1>3, SysNow DEF SysIs, SysType, FdSet
<1>5. /\ CallShape' /\ OnFollows /\ on' \in BOOLEAN /\ call'.what = "disable" /\ call'.todo = Tail(call.todo)
      /\ HistShape' /\ hist'.odd = hist.odd /\ OddKept
  BY <1>1, <1>2, GoStep
<1>6. IF kind = "lm3533_als"
      THEN call'.todo \in OffSteps(kind) /\ call'.todo # <<>> /\ Head(call'.todo) = "als_disable"
      ELSE kind = "as3676_als" /\ call'.todo = <<>>
  BY <1>1, <1>2, <1>5 DEF OffNext
<1>7. sys.mode = "sleep" /\ sys.fd \notin sys.files
  BY <1>1, <1>2 DEF OffStage, Do
<1>8. Off'
  BY <1>4, <1>7 DEF Off
<1>9. TypeInv'
  BY <1>4, <1>5, TypeStep DEF TypeInv
<1>10. FilesHeld'
  BY <1>2, <1>4, <1>5, <1>7 DEF FilesHeld
<1>11. ~Do("note") /\ ~Do("note")'
  BY <1>1, <1>6 DEF Do
<1>12. RateInv'
  BY <1>4, <1>11, RateKept
<1>13. CASE kind = "lm3533_als"
  <2>1. OffStage'
    BY <1>4, <1>6, <1>8, <1>13 DEF OffStage, Do
  <2>2. CallInv'
    BY <1>4, <1>5, <1>6, <1>7, <1>13, <2>1, DisableGoesOn
  <2>3. ChipInv'
    BY <1>4, <1>5, <1>6, <1>13, ChipKept
  <2>4. QED
    BY <1>9, <1>10, <1>12, <2>2, <2>3
<1>14. CASE kind = "as3676_als"
  <2>1. CallInv'
    BY <1>4, <1>5, <1>6, <1>8, <1>14, DisableOver
  <2>2. ChipInv'
    BY <1>4, <1>14 DEF ChipInv, Compass
  <2>3. QED
    BY <1>9, <1>10, <1>12, <2>1, <2>2
<1>15. QED
  BY <1>6, <1>13, <1>14

\* The steps that turn off what an enable turned on. Only a stop is still to
\* come after one of them.
LEMMA DisableTurnsOff ==
  ASSUME InputInv, call.todo # <<>>,
         Head(call.todo) \in {"interval_off", "stop", "sysals_deactivate", "als_disable"},
         UNCHANGED <<kind, d, evdev, sensed, poll>>, HistShape', OddKept,
         CallShape', OnFollows, call'.what = call.what,
         NEW b \in BOOLEAN, NEW r \in Int, b => sys.chip.on,
         SysIs(sys', sys.fd, sys.newfd, sys.files, sys.mode, [on |-> b, rate |-> r]),
         own' \in [delay : Int, lib : BOOLEAN, path : BOOLEAN], own'.lib => own.lib \/ Head(call.todo) = "stop",
         kind = "sys_als" => ~b,
         \/ call'.todo = Tail(call.todo) /\ IF Head(call.todo) = "stop" THEN ~own'.lib ELSE ~b
         \/ /\ kind \in Compass \cup Lights => Odd("failed")'
            /\ call'.todo = <<>> \/ (Head(call.todo) = "als_disable" /\ call'.todo = Tail(call.todo))
  PROVE  InputInv'
<1> USE DEF InputInv
<1>1. /\ call.what = "disable" /\ OffStage /\ OffNext(kind, call.todo) /\ sys.newfd = NoFd /\ kind \in Drivers
      /\ sys.mode \in {"sleep", "run"}
      /\ Tail(call.todo) \in OffSteps(kind) => Tail(call.todo) # <<>>
  BY DisableAt
<1>2. /\ sys' \in SysType /\ sys'.fd = sys.fd /\ sys'.newfd = NoFd /\ sys'.files = sys.files
      /\ sys'.mode = sys.mode /\ sys'.chip.on = b
  BY <1>1, SysNow DEF SysIs, SysType
<1>3. Off /\ Off' /\ (Head(call.todo) = "stop" => ~b)
  BY <1>1, <1>2 DEF OffStage, Do, Off
<1>4. kind \in Compass \cup Lights \cup {"sys_als"} /\ kind \notin Xyz
  BY <1>1 DEF OffNext, Compass, Lights, OpeningLights, Xyz
<1>5. \/ call'.todo = <<>>
      \/ /\ call'.todo \in OffSteps(kind) /\ call'.todo # <<>> /\ Head(call'.todo) = "stop"
         /\ Head(call.todo) = "interval_off" /\ ~b
  BY <1>1 DEF OffNext
<1>6. TypeInv'
  BY <1>2, TypeStep DEF TypeInv, OnFollows
<1>7. FilesHeld'
  BY <1>1, <1>2 DEF FilesHeld, OddKept, Odd
<1>8. RateInv'
  BY <1>4 DEF RateInv
<1>9. CASE call'.todo # <<>>
  <2>1. OffStage'
    BY <1>2, <1>3, <1>5, <1>9 DEF OffStage, Do, Off
  <2>2. CallInv'
    BY <1>1, <1>2, <1>5, <1>9, <2>1, DisableGoesOn
  <2>3. ChipInv'
    BY <1>1, <1>2, <1>5, <1>9, ChipKept
  <2>4. QED
    BY <1>6, <1>7, <1>8, <2>2, <2>3
<1>10. CASE call'.todo = <<>>
  <2>1. CallInv'
    BY <1>1, <1>2, <1>3, <1>10, DisableOver
  <2>2. kind # "ak0991xna" => ~own'.lib
    BY <1>1 DEF ChipInv, OffNext
  <2>3. /\ b => kind # "sys_als" /\ Odd("failed")'
        /\ own'.lib => Odd("failed")'
    <3>1. CASE call'.todo = Tail(call.todo) /\ IF Head(call.todo) = "stop" THEN ~own'.lib ELSE ~b
      <4>1. kind = "ak0991xna" => Head(call.todo) = "stop"
        BY <1>1, <1>10, <3>1 DEF OffNext
      <4>2. QED
        BY <1>3, <2>2, <3>1, <4>1
    <3>2. CASE kind \in Compass \cup Lights => Odd("failed")'
      BY <1>4, <2>2, <3>2 DEF Compass
    <3>3. QED
      BY <3>1, <3>2
  <2>4. ChipInv'
    BY <1>2, <2>2, <2>3 DEF ChipInv
  <2>5. QED
    BY <1>6, <1>7, <1>8, <2>1, <2>4
<1>11. QED
  BY <1>9, <1>10

(***************************************************************************)
(* The steps of a set_delay, of an init and of a close.                    *)
(***************************************************************************)

LEMMA DelayAt ==
  ASSUME InputInv, call.todo # <<>>,
         Head(call.todo) \in {"unless_applied", "clamp", "note", "write_rate", "try_rate"}
  PROVE  /\ call.what = "set_delay" /\ Settled /\ DelayNext(kind, call.todo)
         /\ kind \in Compass /\ ~on => Odd("paced")
         /\ sys.mode \in {"sleep", "run"} /\ call.rv = 0 /\ kind \in Drivers /\ on \in BOOLEAN
<1>1. kind \in Drivers /\ on \in BOOLEAN
  BY DEF InputInv, TypeInv
<1>2. QED
  BY <1>1, CallAt DEF InputInv

\* All of the invariant but the rate of the chip.
LEMMA DelayStep ==
  ASSUME InputInv, call.todo # <<>>,
         Head(call.todo) \in {"unless_applied", "clamp", "note", "write_rate", "try_rate"},
         kind' = kind, sensed' = sensed, HistShape', OddKept, CallShape', OnFollows,
         call'.what = call.what, call'.todo = Tail(call.todo) \/ call'.todo = <<>>,
         NEW b \in BOOLEAN, NEW r \in Int, b => sys.chip.on \/ kind \in Compass,
         SysIs(sys', sys.fd, sys.newfd, sys.files, sys.mode, [on |-> b, rate |-> r]),
         own' \in [delay : Int, lib : BOOLEAN, path : BOOLEAN], own'.lib = own.lib
  PROVE  TypeInv' /\ FilesHeld' /\ CallInv' /\ ChipInv'
<1> USE DEF InputInv
<1>1. /\ call.what = "set_delay" /\ Settled /\ DelayNext(kind, call.todo)
      /\ kind \in Compass /\ ~on => Odd("paced")
      /\ sys.mode \in {"sleep", "run"} /\ on \in BOOLEAN
  BY DelayAt
<1>2. /\ sys' \in SysType /\ sys'.fd = sys.fd /\ sys'.newfd = sys.newfd /\ sys'.files = sys.files
      /\ sys'.mode = sys.mode /\ sys'.chip.on = b
  BY SysNow DEF SysIs, SysType
<1>3. on' = on /\ (call'.todo \in DelaySteps(kind) \/ call'.todo = <<>>)
  BY <1>1 DEF OnFollows, DelayNext
<1>4. kind = "sys_als" => ~b \/ sys.chip.on
  BY DEF Compass
<1>5. Settled'
  BY <1>1, <1>2, <1>3, <1>4 DEF Settled, Stands, Running, Refused, Off
<1>6. TypeInv'
  BY <1>2, TypeStep DEF TypeInv, OnFollows
<1>7. FilesHeld'
  BY <1>2 DEF FilesHeld, OddKept, Odd
<1>8. CallInv'
  <2>1. kind \in Compass /\ ~on' => Odd("paced")'
    BY <1>1, <1>3 DEF OddKept
  <2>2. QED
    BY <1>1, <1>2, <1>3, <1>5, <2>1, CallOver, DelayGoesOn
<1>9. ChipInv'
  <2>1. /\ sys.chip.on => kind \in Compass \cup Lights \cup {"sys_als"}
        /\ own.lib => kind \in Compass
    BY DEF ChipInv, Lights, OpeningLights, Compass
  <2>2. ~on => /\ sys.chip.on => kind # "sys_als" /\ (Odd("failed") \/ (kind \in Compass /\ Odd("paced")))
               /\ own.lib => Odd("failed")
    BY <1>1 DEF ChipInv
  <2>3. ~on => /\ b => kind # "sys_als" /\ (Odd("failed")' \/ (kind \in Compass /\ Odd("paced")'))
               /\ own.lib => Odd("failed")'
    BY <1>1, <2>1, <2>2 DEF OddKept, Compass
  <2>4. QED
    BY <1>2, <1>3, <2>3 DEF ChipInv
<1>10. QED
  BY <1>6, <1>7, <1>8, <1>9

LEMMA WriteRateSucceeds ==
  ASSUME InputInv, Do("write_rate") \/ Do("try_rate"), Written, Go,
         NEW b \in BOOLEAN, b => sys.chip.on \/ kind \in Compass,
         SysIs(sys', sys.fd, sys.newfd, sys.files, sys.mode, [on |-> b, rate |-> call.arg]),
         UNCHANGED <<kind, d, own, evdev, sensed, poll>>
  PROVE  InputInv'
<1>1. call.todo # <<>> /\ Head(call.todo) \in {"write_rate", "try_rate"} /\ TypeInv /\ call.arg \in Int
  BY DEF Do, InputInv, TypeInv
<1>2. DelayNext(kind, call.todo)
  BY <1>1, DelayAt
<1>3. /\ CallShape' /\ OnFollows /\ call'.what = call.what /\ call'.todo = Tail(call.todo) /\ call'.arg = call.arg
      /\ HistShape' /\ OddKept
  BY <1>1, GoStep
<1>4. TypeInv' /\ FilesHeld' /\ CallInv' /\ ChipInv'
  BY <1>1, <1>3, DelayStep DEF TypeInv
<1>5. kind \in Xyz => own.path /\ Do("note")'
  BY <1>1, <1>2, <1>3 DEF DelayNext, Do, Written
<1>6. sys'.chip.rate = call.arg
  BY DEF SysIs
<1>7. RateInv'
  BY <1>3, <1>5, <1>6 DEF RateInv
<1>8. QED
  BY <1>4, <1>7 DEF InputInv

\* The steps of a set_delay that leave the chip alone.
LEMMA DelayOnlyNotes ==
  ASSUME InputInv, call.todo # <<>>, UNCHANGED <<kind, sys, evdev, sensed, poll>>,
         Head(call.todo) \in {"unless_applied", "clamp", "note", "write_rate", "try_rate"},
         HistShape', OddKept, CallShape', OnFollows, call'.what = call.what,
         call'.todo = Tail(call.todo) \/ call'.todo = <<>>,
         Head(call.todo) = "write_rate" /\ call'.todo # <<>> => ~Written,
         IF Head(call.todo) = "note" THEN own' = [own EXCEPT !.delay = call.arg] ELSE own' = own
  PROVE  InputInv'
<1>1. TypeInv /\ RateInv /\ own \in [delay : Int, lib : BOOLEAN, path : BOOLEAN] /\ call.arg \in Int
  BY DEF InputInv, TypeInv
<1>2. DelayNext(kind, call.todo)
  BY DelayAt
<1>3. /\ own' \in [delay : Int, lib : BOOLEAN, path : BOOLEAN] /\ own'.lib = own.lib /\ own'.path = own.path
      /\ own'.delay = IF Head(call.todo) = "note" THEN call.arg ELSE own.delay
  BY <1>1
<1>4. SysIs(sys', sys.fd, sys.newfd, sys.files, sys.mode, [on |-> sys.chip.on, rate |-> sys.chip.rate])
      /\ sys.chip.on \in BOOLEAN /\ sys.chip.rate \in Int
  BY <1>1, SysNow
<1>5. TypeInv' /\ FilesHeld' /\ CallInv' /\ ChipInv'
  BY <1>3, <1>4, DelayStep
<1>6. kind \in Xyz => /\ Head(call.todo) = "note" => call'.todo = <<>>
                      /\ Do("note")' => ~own.path
  BY <1>2 DEF DelayNext, Do, Written
<1>7. RateInv'
  BY <1>1, <1>3, <1>6 DEF RateInv, Do
<1>8. QED
  BY <1>5, <1>7 DEF InputInv

LEMMA InitAt ==
  ASSUME InputInv, call.todo # <<>>, call.what = "init"
  PROVE  /\ sys.mode = "none" /\ sys.fd = NoFd /\ sys.newfd = NoFd /\ on = FALSE
         /\ sys.chip = [on |-> FALSE, rate |-> -1] /\ own.delay = 0 /\ ~own.lib
         /\ Head(call.todo) \in {"probe", "find_path", "find_sysfs", "AKL_DASH_Init", "AKL_Init",
                                 "select_init", "worker_init"}
         /\ IF Head(call.todo) \in {"select_init", "worker_init"} THEN Tail(call.todo) = <<>>
            ELSE Tail(call.todo) \in InitSteps /\ Tail(call.todo) # <<>>
<1>1. /\ sys.mode = "none"
      /\ Head(call.todo) \in {"probe", "find_path", "find_sysfs", "AKL_DASH_Init", "AKL_Init",
                              "select_init", "worker_init"}
      /\ IF Head(call.todo) \in {"select_init", "worker_init"} THEN Tail(call.todo) = <<>>
         ELSE Tail(call.todo) \in InitSteps /\ Tail(call.todo) # <<>>
  BY CallAt DEF InputInv
<1>2. QED
  BY <1>1 DEF InputInv, CallInv, TypeInv

LEMMA InitStep ==
  ASSUME InputInv, call.todo # <<>>, call.what = "init",
         Head(call.todo) \notin {"select_init", "worker_init"}, UNCHANGED <<kind, sys, d, evdev, sensed, poll>>,
         HistShape', OddKept, CallShape', OnFollows, call'.what = call.what,
         call'.todo = Tail(call.todo) \/ call'.todo = <<>>,
         own' \in [delay : Int, lib : BOOLEAN, path : BOOLEAN], own'.lib = own.lib, own'.delay = own.delay
  PROVE  InputInv'
<1> USE DEF InputInv
<1>1. /\ sys.mode = "none" /\ sys.fd = NoFd /\ sys.newfd = NoFd /\ on = FALSE
      /\ sys.chip = [on |-> FALSE, rate |-> -1] /\ own.delay = 0 /\ ~own.lib
      /\ call'.todo \in InitSteps \/ call'.todo = <<>>
  BY InitAt
<1>2. on' = FALSE
  BY <1>1 DEF OnFollows
<1>3. TypeInv'
  BY <1>2, TypeStep DEF TypeInv
<1>4. FilesHeld'
  BY DEF FilesHeld, OddKept, Odd
<1>5. CallInv'
  BY <1>1, <1>2 DEF CallInv, Rest
<1>6. ChipInv'
  BY <1>1 DEF ChipInv
<1>7. ~Do("note")'
  <2>1. call'.todo \in InitSteps => InitNext(call'.todo)
    BY InitLists
  <2>2. QED
    BY <1>1, <2>1 DEF InitNext, Do
<1>8. RateInv'
  BY <1>1, <1>7 DEF RateInv
<1>9. QED
  BY <1>3, <1>4, <1>5, <1>6, <1>8

LEMMA InitEnds ==
  ASSUME InputInv, Do("select_init") \/ Do("worker_init"), sys' = [sys EXCEPT !.mode = "sleep"], Go,
         UNCHANGED <<kind, d, own, evdev, sensed, poll>>
  PROVE  InputInv'
<1> USE DEF InputInv
<1>1. call.todo # <<>> /\ Head(call.todo) \in {"select_init", "worker_init"}
  BY DEF Do
<1>2. call.what = "init"
  BY <1>1, CallAt
<1>3. /\ sys.fd = NoFd /\ sys.newfd = NoFd /\ on = FALSE
      /\ sys.chip = [on |-> FALSE, rate |-> -1] /\ own.delay = 0 /\ ~own.lib /\ Tail(call.todo) = <<>>
  BY <1>1, <1>2, InitAt
<1>4. SysIs(sys', sys.fd, sys.newfd, sys.files, "sleep", sys.chip)
  BY SysNow, SysOne
<1>5. /\ sys' \in SysType /\ sys'.fd = NoFd /\ sys'.newfd = NoFd /\ sys'.files = sys.files
      /\ sys'.mode = "sleep" /\ sys'.chip = sys.chip
  BY <1>3, <1>4, SysNow DEF SysIs, SysType
<1>6. /\ CallShape' /\ OnFollows /\ call'.what = "init" /\ call'.todo = <<>>
      /\ HistShape' /\ hist'.odd = hist.odd /\ OddKept
  BY <1>1, <1>2, <1>3, GoStep
<1>7. on' = FALSE
  BY <1>3, <1>6 DEF OnFollows
<1>8. TypeInv'
  BY <1>5, <1>6, <1>7, TypeStep DEF TypeInv
<1>9. FilesHeld'
  BY <1>3, <1>5, <1>6 DEF FilesHeld
<1>10. CallInv'
  BY <1>5, <1>6, <1>7, CallOver DEF Settled, Stands, Off
<1>11. ChipInv'
  BY <1>3, <1>5 DEF ChipInv
<1>12. RateInv'
  BY <1>3, <1>5, <1>6 DEF RateInv, Do
<1>13. QED
  BY <1>8, <1>9, <1>10, <1>11, <1>12

LEMMA DestroyKeeps == ASSUME InputInv, Destroy
                      PROVE  InputInv'
<1> USE DEF InputInv
<1>1. /\ call.todo # <<>> /\ Head(call.todo) = "destroy" /\ Proceed(Done) /\ Quiet
      /\ kind' = kind /\ own' = own /\ sensed' = sensed
  BY DEF Destroy, Do
<1>2. call.what = "close" /\ Settled /\ Tail(call.todo) = <<>>
  BY <1>1, CallAt
<1>3. /\ sys' \in SysType /\ sys'.newfd = NoFd /\ sys'.mode = "gone" /\ sys'.chip = sys.chip
      /\ \/ sys'.fd = sys.fd /\ sys'.files = sys.files
         \/ sys'.fd = NoFd /\ sys'.files = sys.files \ {sys.fd}
  <2>1. CASE kind \in Lights
    <3>1. SysIs(sys', sys.fd, sys.newfd, sys.files, "gone", sys.chip)
      BY <2>1, SysNow, SysOne DEF Destroy
    <3>2. QED
      BY <1>2, <3>1, SysNow DEF SysIs, SysType, Settled
  <2>2. CASE kind \notin Lights
    <3>1. sys' = [sys EXCEPT !.mode = "gone", !.files = closed(sys.fd), !.fd = NoFd]
      BY <2>2 DEF Destroy
    <3>2. SysIs(sys', NoFd, sys.newfd, closed(sys.fd), "gone", sys.chip)
      BY <3>1, SysNow, SysMore
    <3>3. QED
      BY <1>2, <3>2, SysNow DEF SysIs, SysType, FdSet, Settled, closed
  <2>3. QED
    BY <2>1, <2>2
<1>4. /\ CallShape' /\ OnFollows /\ on' \in BOOLEAN /\ call'.what = "close" /\ call'.todo = <<>>
      /\ HistShape' /\ hist'.odd = hist.odd
  BY <1>1, <1>2, GoStep DEF Go
<1>5. TypeInv'
  BY <1>1, <1>3, <1>4, TypeStep DEF TypeInv
<1>6. FilesHeld'
  BY <1>1, <1>2, <1>3, <1>4 DEF FilesHeld, Settled
<1>7. CallInv'
  BY <1>3, <1>4 DEF CallInv, Rest
<1>8. ChipInv'
  BY <1>1, <1>3 DEF ChipInv
<1>9. RateInv'
  BY <1>1, <1>3, <1>4, RateKept DEF Do
<1>10. QED
  BY <1>5, <1>6, <1>7, <1>8, <1>9

(***************************************************************************)
(* The actions of a call.                                                  *)
(***************************************************************************)

LEMMA SysStepKeeps == ASSUME InputInv, SysStep
                      PROVE  InputInv'
<1>1. TypeInv /\ UNCHANGED <<kind, d, own, evdev, sensed, poll>>
  BY DEF InputInv, SysStep
<1>2. CASE (Do("select_init") \/ Do("worker_init")) /\ sys' = [sys EXCEPT !.mode = "sleep"] /\ Go
  BY <1>1, <1>2, InitEnds
<1>3. CASE /\ \E step \in {"probe", "find_sysfs", "AKL_DASH_Init", "AKL_Init"} : Do(step) /\ (Go \/ Fail(step))
           /\ UNCHANGED sys
  <2>1. /\ call.todo # <<>> /\ Head(call.todo) \in {"probe", "find_sysfs", "AKL_DASH_Init", "AKL_Init"}
    BY <1>3 DEF Do
  <2>2. call.what = "init"
    BY <1>1, <2>1, CallAt DEF InputInv
  <2>3. /\ HistShape' /\ OddKept /\ CallShape' /\ OnFollows /\ call'.what = call.what
        /\ call'.todo = Tail(call.todo) \/ call'.todo = <<>>
    BY <1>1, <1>3, <2>1, GoStep, FailStep DEF Fail
  <2>4. own' \in [delay : Int, lib : BOOLEAN, path : BOOLEAN] /\ own'.lib = own.lib /\ own'.delay = own.delay
    BY <1>1 DEF TypeInv
  <2>5. QED
    BY <1>1, <1>3, <2>1, <2>2, <2>3, <2>4, InitStep
<1>4. CASE Do("open") /\ \E f \in Fds \ sys.files :
                           sys' = [sys EXCEPT !.newfd = f, !.files = @ \cup {f}] /\ Go
  BY <1>1, <1>4, OpenSucceeds
<1>5. CASE Do("open") /\ Fail("open") /\ UNCHANGED sys
  BY <1>1, <1>5, OpenFails
<1>6. CASE Do("keep_fd") /\ sys' = [sys EXCEPT !.fd = sys.newfd, !.newfd = NoFd] /\ Go
  BY <1>1, <1>6, LightKeepsFd
<1>7. CASE Do("close_fd") /\ sys' = [sys EXCEPT !.files = closed(sys.fd)] /\ Go
  BY <1>1, <1>7, LightCloses
<1>8. CASE Do("forget_fd") /\ sys' = [sys EXCEPT !.fd = NoFd] /\ Go
  BY <1>1, <1>8, LightForgets
<1>9. CASE Do("resume") /\ sys' = [sys EXCEPT !.mode = "run"] /\ Go
  BY <1>1, <1>9, EnableResumes
<1>10. CASE Do("suspend") /\ sys' = [sys EXCEPT !.mode = "sleep"] /\ Go
  BY <1>1, <1>10, DisableSuspends
<1>11. QED
  BY <1>2, <1>3, <1>4, <1>5, <1>6, <1>7, <1>8, <1>9, <1>10, Zenon DEF SysStep

LEMMA LibraryStepKeeps == ASSUME InputInv, LibraryStep
                          PROVE  InputInv'
<1>1. TypeInv /\ UNCHANGED <<kind, d, evdev, sensed, poll>> /\ own \in [delay : Int, lib : BOOLEAN, path : BOOLEAN]
  BY DEF InputInv, TypeInv, LibraryStep
<1>2. /\ SysIs(sys, sys.fd, sys.newfd, sys.files, sys.mode, [on |-> sys.chip.on, rate |-> sys.chip.rate])
      /\ sys.chip.on \in BOOLEAN /\ sys.chip.rate \in Int
  BY <1>1, SysNow
<1>3. CASE Do("start") /\ own' = [own EXCEPT !.lib = TRUE] /\ Go /\ UNCHANGED sys
  <2>1. call.todo # <<>> /\ Head(call.todo) = "start" /\ Proceed(Done)
    BY <1>3 DEF Do, Go
  <2>2. HistShape' /\ OddKept
    BY <1>1, <1>3, <2>1, GoStep
  <2>3. own' \in [delay : Int, lib : BOOLEAN, path : BOOLEAN]
    BY <1>1, <1>3
  <2>4. QED
    BY <1>1, <1>2, <1>3, <2>1, <2>2, <2>3, DriverPrepares
<1>4. CASE /\ Do("start") /\ Proceed(Failed("start")) /\ Recalled({"failed", "start_failed"})
           /\ sys' = [sys EXCEPT !.newfd = NoFd] /\ UNCHANGED own
  BY <1>1, <1>4, StartFails
<1>5. CASE /\ Do("stop") /\ UNCHANGED sys
           /\ \/ own' = [own EXCEPT !.lib = FALSE] /\ Go
              \/ (\E lib \in BOOLEAN : own' = [own EXCEPT !.lib = lib]) /\ Fail("stop")
  <2>1. call.todo # <<>> /\ Head(call.todo) = "stop"
    BY <1>5 DEF Do
  <2>2. kind = "ak0991xna" /\ OffStage
    BY <2>1, DisableAt DEF OffNext
  <2>3. sys.chip.on = FALSE
    BY <1>2, <2>1, <2>2 DEF OffStage, Do
  <2>4. CASE own' = [own EXCEPT !.lib = FALSE] /\ Go
    <3>1. own' \in [delay : Int, lib : BOOLEAN, path : BOOLEAN] /\ ~own'.lib
      BY <1>1, <2>4
    <3>2. /\ HistShape' /\ OddKept /\ CallShape' /\ OnFollows /\ call'.what = call.what
          /\ call'.todo = Tail(call.todo)
      BY <1>1, <2>1, <2>4, GoStep
    <3>3. QED
      BY <1>1, <1>2, <1>5, <2>1, <2>3, <3>1, <3>2, DisableTurnsOff
  <2>5. CASE (\E lib \in BOOLEAN : own' = [own EXCEPT !.lib = lib]) /\ Fail("stop")
    <3>1. own' \in [delay : Int, lib : BOOLEAN, path : BOOLEAN]
      BY <1>1, <2>5
    <3>2. /\ HistShape' /\ OddKept /\ CallShape' /\ OnFollows /\ call'.what = call.what
          /\ call'.todo = <<>> /\ (kind \in Compass \cup Lights => Odd("failed")')
      BY <1>1, <2>1, <2>5, FailStep DEF Fail
    <3>3. QED
      BY <1>1, <1>2, <1>5, <2>1, <2>3, <3>1, <3>2, DisableTurnsOff
  <2>6. QED
    BY <1>5, <2>4, <2>5
<1>6. QED
  BY <1>3, <1>4, <1>5, Zenon DEF LibraryStep

LEMMA ChipStepKeeps == ASSUME InputInv, ChipStep
                       PROVE  InputInv'
<1>1. /\ TypeInv /\ UNCHANGED <<kind, d, own, evdev, sensed, poll>> /\ kind' = kind /\ sensed' = sensed
      /\ own' = own /\ own' \in [delay : Int, lib : BOOLEAN, path : BOOLEAN] /\ call.arg \in Int
  BY DEF InputInv, TypeInv, ChipStep
<1>2. /\ SysIs(sys, sys.fd, sys.newfd, sys.files, sys.mode, [on |-> sys.chip.on, rate |-> sys.chip.rate])
      /\ sys.chip.on \in BOOLEAN /\ sys.chip.rate \in Int
  BY <1>1, SysNow
<1>3. CASE /\ Do("write_rate") /\ Written /\ Go
           /\ sys' = [sys EXCEPT !.chip = [on |-> kind \in Compass /\ call.arg # -1, rate |-> call.arg]]
  <2> DEFINE b == kind \in Compass /\ call.arg # -1
  <2>1. b \in BOOLEAN /\ (b => sys.chip.on \/ kind \in Compass)
    OBVIOUS
  <2>2. sys' = [sys EXCEPT !.chip = [on |-> b, rate |-> call.arg]]
    BY <1>3
  <2> HIDE DEF b
  <2>3. SysIs(sys', sys.fd, sys.newfd, sys.files, sys.mode, [on |-> b, rate |-> call.arg])
    BY <1>2, <2>2, SysOne
  <2>4. QED
    BY <1>1, <1>3, <2>1, <2>3, WriteRateSucceeds
<1>4. CASE Do("write_rate") /\ Written /\ Fail("write_rate") /\ UNCHANGED sys
  <2>1. call.todo # <<>> /\ Head(call.todo) = "write_rate"
    BY <1>4 DEF Do
  <2>2. /\ HistShape' /\ OddKept /\ CallShape' /\ OnFollows /\ call'.what = call.what /\ call'.todo = <<>>
    BY <1>1, <1>4, <2>1, FailStep DEF Fail
  <2>3. QED
    BY <1>1, <1>4, <2>1, <2>2, DelayOnlyNotes
<1>5. CASE Do("write_rate") /\ ~Written /\ Go /\ UNCHANGED sys
  <2>1. call.todo # <<>> /\ Head(call.todo) = "write_rate"
    BY <1>5 DEF Do
  <2>2. /\ HistShape' /\ OddKept /\ CallShape' /\ OnFollows /\ call'.what = call.what
        /\ call'.todo = Tail(call.todo)
    BY <1>1, <1>5, <2>1, GoStep
  <2>3. QED
    BY <1>1, <1>5, <2>1, <2>2, DelayOnlyNotes
<1>6. CASE Do("try_rate") /\ Written /\ sys' = [sys EXCEPT !.chip.rate = call.arg] /\ Go
  <2>1. SysIs(sys', sys.fd, sys.newfd, sys.files, sys.mode, [on |-> sys.chip.on, rate |-> call.arg])
    BY <1>2, <1>6, SysChip
  <2>2. QED
    BY <1>1, <1>2, <1>6, <2>1, WriteRateSucceeds
<1>7. CASE Do("try_rate") /\ Go /\ UNCHANGED sys
  <2>1. call.todo # <<>> /\ Head(call.todo) = "try_rate"
    BY <1>7 DEF Do
  <2>2. /\ HistShape' /\ OddKept /\ CallShape' /\ OnFollows /\ call'.what = call.what
        /\ call'.todo = Tail(call.todo)
    BY <1>1, <1>7, <2>1, GoStep
  <2>3. QED
    BY <1>1, <1>7, <2>1, <2>2, DelayOnlyNotes
<1>8. CASE Do("interval_off") /\ sys' = [sys EXCEPT !.chip = [on |-> FALSE, rate |-> -1]] /\ Go
  <2>1. call.todo # <<>> /\ Head(call.todo) = "interval_off"
    BY <1>8 DEF Do
  <2>2. /\ HistShape' /\ OddKept /\ CallShape' /\ OnFollows /\ call'.what = call.what
        /\ call'.todo = Tail(call.todo)
    BY <1>1, <1>8, <2>1, GoStep
  <2>3. SysIs(sys', sys.fd, sys.newfd, sys.files, sys.mode, [on |-> FALSE, rate |-> -1])
    BY <1>2, <1>8, SysOne
  <2> DEFINE r == -1
  <2>4. r \in Int /\ SysIs(sys', sys.fd, sys.newfd, sys.files, sys.mode, [on |-> FALSE, rate |-> r])
    BY <2>3
  <2> HIDE DEF r
  <2>5. QED
    BY <1>1, <2>1, <2>2, <2>4, DisableTurnsOff
<1>9. CASE Do("interval_off") /\ Fail("interval_off") /\ UNCHANGED sys
  <2>1. call.todo # <<>> /\ Head(call.todo) = "interval_off"
    BY <1>9 DEF Do
  <2>2. /\ HistShape' /\ OddKept /\ CallShape' /\ OnFollows /\ call'.what = call.what
        /\ call'.todo = <<>> /\ (kind \in Compass \cup Lights => Odd("failed")')
    BY <1>1, <1>9, <2>1, FailStep DEF Fail
  <2>3. kind # "sys_als"
    BY <2>1, DisableAt DEF OffNext, Compass
  <2>4. QED
    BY <1>1, <1>2, <1>9, <2>1, <2>2, <2>3, DisableTurnsOff
<1>10. ASSUME NEW step \in {"als_enable", "als_disable"}, Do(step),
              \/ sys' = [sys EXCEPT !.chip.on = (step = "als_enable")] /\ Go
              \/ Proceed(Done) /\ Recalled({"failed"}) /\ UNCHANGED sys
       PROVE  InputInv'
  <2>1. call.todo # <<>> /\ Head(call.todo) = step
    BY <1>10 DEF Do
  <2>2. CASE sys' = [sys EXCEPT !.chip.on = (step = "als_enable")] /\ Go
    <3>1. /\ HistShape' /\ OddKept /\ CallShape' /\ OnFollows /\ call'.what = call.what
          /\ call'.todo = Tail(call.todo) /\ Proceed(Done)
      BY <1>1, <2>1, <2>2, GoStep DEF Go
    <3>2. CASE step = "als_enable"
      <4>1. sys' = [sys EXCEPT !.chip.on = TRUE]
        BY <2>2, <3>2
      <4>2. SysIs(sys', sys.fd, sys.newfd, sys.files, sys.mode, [on |-> TRUE, rate |-> sys.chip.rate])
        BY <1>2, <4>1, SysChip
      <4>3. QED
        BY <1>1, <1>10, <3>1, <3>2, <4>2, LightEnables
    <3>3. CASE step = "als_disable"
      <4>1. sys' = [sys EXCEPT !.chip.on = FALSE]
        BY <2>2, <3>3
      <4>2. SysIs(sys', sys.fd, sys.newfd, sys.files, sys.mode, [on |-> FALSE, rate |-> sys.chip.rate])
        BY <1>2, <4>1, SysChip
      <4>3. QED
        BY <1>1, <1>2, <2>1, <3>1, <3>3, <4>2, DisableTurnsOff
    <3>4. QED
      BY <3>2, <3>3
  <2>3. CASE Proceed(Done) /\ Recalled({"failed"}) /\ UNCHANGED sys
    <3>1. /\ CallShape' /\ OnFollows /\ call'.what = call.what /\ call'.todo = Tail(call.todo)
      BY <1>1, <2>1, <2>3, GoFacts
    <3>2. /\ HistShape' /\ OddKept /\ (kind \in Compass \cup Lights => Odd("failed")')
      BY <1>1, <2>3, RecalledKeeps DEF TypeInv, HistShape
    <3>3. CASE step = "als_enable"
      BY <1>1, <1>2, <1>10, <2>3, <3>2, <3>3, LightEnables
    <3>4. CASE step = "als_disable"
      <4>1. kind # "sys_als"
        BY <2>1, <3>4, DisableAt DEF OffNext
      <4>2. QED
        BY <1>1, <1>2, <2>1, <2>3, <3>1, <3>2, <3>4, <4>1, DisableTurnsOff
    <3>5. QED
      BY <3>3, <3>4
  <2>4. QED
    BY <1>10, <2>2, <2>3
<1>11. CASE Do("sysals_activate") /\ sys' = [sys EXCEPT !.chip.on = TRUE] /\ Go
  <2>1. call.todo # <<>> /\ Head(call.todo) = "sysals_activate" /\ Proceed(Done)
    BY <1>11 DEF Do, Go
  <2>2. HistShape' /\ OddKept
    BY <1>1, <1>11, <2>1, GoStep
  <2>3. SysIs(sys', sys.fd, sys.newfd, sys.files, sys.mode, [on |-> TRUE, rate |-> sys.chip.rate])
    BY <1>2, <1>11, SysChip
  <2>4. QED
    BY <1>1, <2>1, <2>2, <2>3, DriverPrepares
<1>12. CASE Do("sysals_deactivate") /\ sys' = [sys EXCEPT !.chip.on = FALSE] /\ Go
  <2>1. call.todo # <<>> /\ Head(call.todo) = "sysals_deactivate"
    BY <1>12 DEF Do
  <2>2. /\ HistShape' /\ OddKept /\ CallShape' /\ OnFollows /\ call'.what = call.what
        /\ call'.todo = Tail(call.todo)
    BY <1>1, <1>12, <2>1, GoStep
  <2>3. SysIs(sys', sys.fd, sys.newfd, sys.files, sys.mode, [on |-> FALSE, rate |-> sys.chip.rate])
    BY <1>2, <1>12, SysChip
  <2>4. QED
    BY <1>1, <1>2, <2>1, <2>2, <2>3, DisableTurnsOff
<1>13. QED
  BY <1>3, <1>4, <1>5, <1>6, <1>7, <1>8, <1>9, <1>10, <1>11, <1>12, Zenon DEF ChipStep

LEMMA FieldStepKeeps == ASSUME InputInv, FieldStep
                        PROVE  InputInv'
<1>1. /\ TypeInv /\ UNCHANGED <<kind, sys, evdev, sensed, poll>> /\ HistShape /\ kind \in Drivers
      /\ own \in [delay : Int, lib : BOOLEAN, path : BOOLEAN] /\ call.arg \in Int
  BY DEF InputInv, TypeInv, FieldStep, HistShape
<1>2. /\ SysIs(sys, sys.fd, sys.newfd, sys.files, sys.mode, [on |-> sys.chip.on, rate |-> sys.chip.rate])
      /\ sys.chip.on \in BOOLEAN /\ sys.chip.rate \in Int
  BY <1>1, SysNow
<1>3. CASE Do("note") /\ own' = [own EXCEPT !.delay = call.arg] /\ Go
  <2>1. call.todo # <<>> /\ Head(call.todo) = "note"
    BY <1>3 DEF Do
  <2>2. /\ HistShape' /\ OddKept /\ CallShape' /\ OnFollows /\ call'.what = call.what
        /\ call'.todo = Tail(call.todo)
    BY <1>1, <1>3, <2>1, GoStep
  <2>3. QED
    BY <1>1, <1>3, <2>1, <2>2, DelayOnlyNotes
<1>4. CASE /\ Do("clamp") /\ Quiet /\ UNCHANGED <<d, own>>
           /\ Proceed([Done EXCEPT !.arg = IF @ < MinDelay /\ @ >= 0 THEN MinDelay ELSE @])
  <2> DEFINE a == IF Done.arg < MinDelay /\ Done.arg >= 0 THEN MinDelay ELSE Done.arg
  <2>1. call.todo # <<>> /\ Head(call.todo) = "clamp"
    BY <1>4 DEF Do
  <2>2. Proceed([Done EXCEPT !.arg = a])
    BY <1>4
  <2>3. a \in Int
    <3>1. Done.arg = call.arg
      BY <1>1, NextCall
    <3>2. QED
      BY <1>1, <3>1, InputAssumption
  <2> HIDE DEF a
  <2>4. Proceed([what |-> call.what, todo |-> Tail(call.todo), rv |-> call.rv, arg |-> a])
    BY <1>1, <2>2, NextCall
  <2>5. call.rv = 0
    BY <1>1, <2>1 DEF TypeInv
  <2>6. CallShape' /\ OnFollows /\ call'.what = call.what /\ call'.todo = Tail(call.todo)
    BY <1>1, <2>3, <2>4, <2>5, ProceedFacts
  <2>7. HistShape' /\ OddKept
    BY <1>1, <1>4, QuietKeeps
  <2>8. QED
    BY <1>1, <1>4, <2>1, <2>6, <2>7, DelayOnlyNotes
<1>5. CASE /\ Do("unless_applied") /\ UNCHANGED <<d, own>>
           /\ IF call.arg = own.delay THEN Proceed([call EXCEPT !.todo = <<>>]) /\ Quiet ELSE Go
  <2>1. call.todo # <<>> /\ Head(call.todo) = "unless_applied"
    BY <1>5 DEF Do
  <2>2. /\ HistShape' /\ OddKept /\ CallShape' /\ OnFollows /\ call'.what = call.what
        /\ call'.todo = Tail(call.todo) \/ call'.todo = <<>>
    <3>1. CASE Go
      BY <1>1, <2>1, <3>1, GoStep
    <3>2. CASE Proceed([call EXCEPT !.todo = <<>>]) /\ Quiet
      BY <1>1, <2>1, <3>2, EndFacts, QuietKeeps
    <3>3. QED
      BY <1>5, <3>1, <3>2
  <2>3. QED
    BY <1>1, <1>5, <2>1, <2>2, DelayOnlyNotes
<1>6. CASE Do("find_path") /\ (\E found \in BOOLEAN : own' = [own EXCEPT !.path = found]) /\ Go /\ UNCHANGED d
  <2>1. call.todo # <<>> /\ Head(call.todo) = "find_path"
    BY <1>6 DEF Do
  <2>2. call.what = "init"
    BY <1>1, <2>1, CallAt DEF InputInv
  <2>3. /\ HistShape' /\ OddKept /\ CallShape' /\ OnFollows /\ call'.what = call.what
        /\ call'.todo = Tail(call.todo)
    BY <1>1, <1>6, <2>1, GoStep
  <2>4. own' \in [delay : Int, lib : BOOLEAN, path : BOOLEAN] /\ own'.lib = own.lib /\ own'.delay = own.delay
    BY <1>1, <1>6
  <2>5. QED
    BY <1>1, <1>6, <2>1, <2>2, <2>3, <2>4, InitStep
<1>7. CASE /\ Do("clear_average") /\ UNCHANGED own /\ Proceed(Done)
           /\ hist' = [hist EXCEPT !.put = <<>>, !.window = <<>>]
  <2>1. call.todo # <<>> /\ Head(call.todo) = "clear_average"
    BY <1>7 DEF Do
  <2>2. hist' = [put |-> <<>>, shown |-> hist.shown, window |-> <<>>, odd |-> hist.odd]
    BY <1>1, <1>7 DEF HistShape
  <2>3. HistShape' /\ OddKept
    BY <2>2 DEF HistShape, OddKept, Odd
  <2>4. QED
    BY <1>1, <1>2, <1>7, <2>1, <2>3, DriverPrepares
<1>8. CASE /\ Do("init_threshold") /\ Go
           /\ IF d.th = "unset"
              THEN d' = [d EXCEPT !.th = "default"] /\ \E found \in BOOLEAN : own' = [own EXCEPT !.path = found]
              ELSE UNCHANGED <<d, own>>
  <2>1. call.todo # <<>> /\ Head(call.todo) = "init_threshold" /\ Proceed(Done)
    BY <1>8 DEF Do, Go
  <2>2. HistShape' /\ OddKept
    BY <1>1, <1>8, <2>1, GoStep
  <2>3. own' \in [delay : Int, lib : BOOLEAN, path : BOOLEAN] /\ own'.lib = own.lib
    BY <1>1, <1>8
  <2>4. QED
    BY <1>1, <1>2, <2>1, <2>2, <2>3, DriverPrepares
<1>9. QED
  BY <1>3, <1>4, <1>5, <1>6, <1>7, <1>8, Zenon DEF FieldStep, cleared_average

LEMMA SetFdKeeps == ASSUME InputInv, SetFd
                    PROVE  InputInv'
<1>1. call.todo # <<>> /\ Head(call.todo) = "set_fd"
  BY DEF SetFd, Do
<1>2. call.what \in {"enable", "disable"}
  BY <1>1, CallAt DEF InputInv
<1>3. QED
  BY <1>2, EnableSetsFd, DisableSetsFd

LEMMA DistanceKeeps == ASSUME InputInv, noa3402_get_current_distance \/ noa3402_report_distance
                       PROVE  InputInv'
<1>1. /\ TypeInv /\ HistShape /\ kind \in Drivers /\ sensed \in Int /\ (call.todo # <<>> => call.rv = 0)
      /\ UNCHANGED <<kind, sys, d, own, evdev, sensed, poll>>
  BY DEF InputInv, TypeInv, HistShape, noa3402_get_current_distance, noa3402_report_distance
<1>2. CASE Do("get_distance") /\ Proceed([Done EXCEPT !.arg = sensed]) /\ Quiet
  <2>1. call.todo # <<>> /\ Head(call.todo) = "get_distance" /\ call.rv = 0
    BY <1>1, <1>2 DEF Do
  <2>2. Proceed([what |-> call.what, todo |-> Tail(call.todo), rv |-> call.rv, arg |-> sensed])
    BY <1>1, <1>2, NextCall
  <2>3. CallShape' /\ OnFollows /\ call'.what = call.what /\ call'.todo = Tail(call.todo) /\ call'.rv = 0
    BY <1>1, <2>1, <2>2, ProceedFacts
  <2>4. HistShape' /\ OddKept
    BY <1>1, <1>2, QuietKeeps
  <2>5. QED
    BY <1>1, <2>1, <2>3, <2>4, DistanceSteps
<1>3. CASE Do("get_distance") /\ Proceed([call EXCEPT !.todo = <<>>]) /\ Recalled({"unread"})
  <2>1. call.todo # <<>> /\ Head(call.todo) = "get_distance"
    BY <1>3 DEF Do
  <2>2. CallShape' /\ OnFollows /\ call'.what = call.what /\ call'.todo = <<>> /\ call'.rv = 0
    BY <1>1, <1>3, <2>1, EndFacts
  <2>3. HistShape' /\ OddKept
    BY <1>1, <1>3, RecalledKeeps
  <2>4. QED
    BY <1>1, <2>1, <2>2, <2>3, DistanceSteps
<1>4. CASE /\ Do("report_distance") /\ hist' = [hist EXCEPT !.put = <<>>, !.shown = shown_distance]
           /\ Proceed(Done)
  <2>1. call.todo # <<>> /\ Head(call.todo) = "report_distance"
    BY <1>4 DEF Do
  <2>2. CallShape' /\ OnFollows /\ call'.what = call.what /\ call'.todo = Tail(call.todo) /\ call'.rv = 0
    BY <1>1, <1>4, <2>1, GoFacts
  <2>3. hist' = [put |-> <<>>, shown |-> shown_distance, window |-> hist.window, odd |-> hist.odd]
    BY <1>1, <1>4 DEF HistShape
  <2>4. HistShape' /\ OddKept
    BY <2>3 DEF HistShape, OddKept, Odd
  <2>5. QED
    BY <1>1, <2>1, <2>2, <2>4, DistanceSteps
<1>5. QED
  BY <1>2, <1>3, <1>4, Zenon DEF noa3402_get_current_distance, noa3402_report_distance

(***************************************************************************)
(* A new call.                                                             *)
(***************************************************************************)

\* What a call recalls: the excuses of the last activate are dropped by one
\* that does anything.
Recalls(what) ==
  ((IF what \in {"enable", "disable"} /\ api[what] # <<>> THEN hist.odd \ {"failed", "paced"} ELSE hist.odd)
   \cup (IF what = "enable" /\ on THEN {"enabled_twice"} ELSE {})
   \cup (IF what = "set_delay" /\ ~on THEN {"paced"} ELSE {})) \cap Excuses

LEMMA HistRecalls ==
  ASSUME HistShape, NEW odd, hist' = [hist EXCEPT !.put = <<>>, !.odd = odd]
  PROVE  HistShape' /\ hist'.odd = odd
<1>1. hist' = [put |-> <<>>, shown |-> hist.shown, window |-> hist.window, odd |-> odd]
  BY DEF HistShape
<1>2. QED
  BY <1>1 DEF HistShape

LEMMA RecallsKeep ==
  ASSUME HistShape, kind \in Drivers, NEW what, hist' = [hist EXCEPT !.put = <<>>, !.odd = Recalls(what)]
  PROVE  /\ HistShape'
         /\ kind \in OpeningLights => (Odd("enabled_twice") => Odd("enabled_twice")')
         /\ kind \in OpeningLights /\ what = "enable" /\ on => Odd("enabled_twice")'
         /\ kind = "ak0991xna" /\ Odd("start_failed") => Odd("start_failed")'
         /\ kind \in Compass /\ what = "set_delay" /\ ~on => Odd("paced")'
         /\ what \notin {"enable", "disable"} \/ api[what] = <<>> => OddKept
<1>1. HistShape' /\ hist'.odd = Recalls(what)
  BY HistRecalls, Zenon
<1>2. QED
  BY <1>1, ExcuseFacts DEF Recalls, OddKept, Odd

LEMMA FdSigns == ASSUME NEW f \in FdSet
                 PROVE  (f < 0 <=> f = NoFd) /\ (f > 0 <=> f # NoFd)
<1>1. \A g \in Fds : g \in Nat /\ g # 0
  BY InputAssumption
<1>2. f = -1 \/ (f \in Nat /\ f # 0)
  BY <1>1 DEF FdSet, NoFd
<1>3. QED
  BY <1>2 DEF NoFd

LEMMA ApiHeads ==
  ASSUME kind \in Drivers
  PROVE  /\ InitNext(api.init)
         /\ (api.enable = <<>> /\ kind \notin Lights) \/ OnNext(kind, api.enable)
         /\ (api.disable = <<>> /\ kind \notin Lights) \/ OffNext(kind, api.disable)
         /\ kind \in Xyz => api.set_delay # <<>> /\ Head(api.set_delay) = "unless_applied"
         /\ api.close # <<>> /\ Head(api.close) = "destroy"
<1>1. ApiShape
  BY ApiShapes
<1>2. /\ api.init \in InitSteps
      /\ (api.enable = <<>> /\ kind \notin Lights) \/ api.enable \in OnSteps(kind)
      /\ (api.disable = <<>> /\ kind \notin Lights) \/ api.disable \in OffSteps(kind)
      /\ kind \in Xyz => api.set_delay # <<>> /\ Head(api.set_delay) = "unless_applied"
      /\ api.close = <<"destroy">>
  BY <1>1 DEF ApiShape
<1>3. InitNext(api.init)
  BY <1>2, InitLists
<1>4. (api.enable = <<>> /\ kind \notin Lights) \/ OnNext(kind, api.enable)
  BY <1>2, OnLists
<1>5. (api.disable = <<>> /\ kind \notin Lights) \/ OffNext(kind, api.disable)
  BY <1>2, OffLists
<1>6. QED
  BY <1>2, <1>3, <1>4, <1>5

\* A call of an api member that has nothing to do.
LEMMA NothingToDo ==
  ASSUME InputInv, Rest, NEW what \in {"enable", "disable", "set_delay"}, sys.mode \in {"sleep", "run"},
         UNCHANGED <<kind, sys, own>>, call'.what = what, call'.todo = <<>>, call'.rv = 0,
         OnFollows, OddKept,
         what = "enable" => kind \notin Lights /\ ~(sys.fd < 0),
         what = "disable" => kind \notin Lights /\ ~(sys.fd > 0)
  PROVE  CallInv' /\ ChipInv'
<1> USE DEF InputInv
<1>1. Settled /\ on \in BOOLEAN
  BY DEF CallInv, TypeInv
<1>2. (sys.fd < 0 <=> sys.fd = NoFd) /\ (sys.fd > 0 <=> sys.fd # NoFd)
  BY SysNow, FdSigns
<1>3. /\ what = "enable" => on /\ on'
      /\ what = "disable" => sys.fd = NoFd /\ kind \notin Lights /\ ~on'
      /\ what = "set_delay" => (on' <=> on)
  BY <1>1, <1>2 DEF OnFollows, Settled, Stands, Off
<1>4. what = "disable" => Off /\ (on => kind = "sys_als" /\ ~sys.chip.on)
  BY <1>1, <1>3, NoFdIsNone, SysNow DEF Settled, Stands, Running, Refused, Off, Lights
<1>5. Settled'
  BY <1>1, <1>3, <1>4 DEF Settled, Stands, Running, Refused, Off
<1>6. CallInv'
  BY <1>5, CallOver
<1>7. CASE on'
  BY <1>6, <1>7 DEF ChipInv
<1>8. CASE ~on' /\ on
  <2>1. kind = "sys_als" /\ ~sys.chip.on
    BY <1>3, <1>4, <1>8
  <2>2. QED
    BY <1>6, <1>8, <2>1 DEF ChipInv
<1>9. CASE ~on' /\ ~on
  <2>1. /\ sys.chip.on => kind \in Compass \cup Lights \cup {"sys_als"}
        /\ own.lib => kind \in Compass
    BY DEF ChipInv, Lights, OpeningLights, Compass
  <2>2. /\ sys.chip.on => kind # "sys_als" /\ (Odd("failed") \/ (kind \in Compass /\ Odd("paced")))
        /\ own.lib => Odd("failed")
    BY <1>9 DEF ChipInv
  <2>3. /\ sys.chip.on => kind # "sys_als" /\ (Odd("failed")' \/ (kind \in Compass /\ Odd("paced")'))
        /\ own.lib => Odd("failed")'
    BY <2>1, <2>2 DEF OddKept
  <2>4. ChipInv'
    BY <2>3 DEF ChipInv
  <2>5. QED
    BY <1>6, <2>4
<1>10. QED
  BY <1>7, <1>8, <1>9

\* A call that has something to do.
LEMMA CallStarts ==
  ASSUME InputInv, Rest, NEW what \in {"init", "enable", "disable", "set_delay", "close"}, MayCall(what),
         UNCHANGED <<kind, sys, own>>, call'.what = what, call'.todo = api[what], call'.todo # <<>>,
         OnFollows, hist' = [hist EXCEPT !.put = <<>>, !.odd = Recalls(what)]
  PROVE  CallInv' /\ ChipInv'
<1> USE DEF InputInv
<1>1. /\ kind \in Drivers /\ on \in BOOLEAN /\ HistShape /\ ApiShape
      /\ (sys.fd < 0 <=> sys.fd = NoFd) /\ (sys.fd > 0 <=> sys.fd # NoFd)
  BY ApiShapes, SysNow, FdSigns DEF TypeInv, HistShape
<1>2. on' = on
  BY <1>1 DEF OnFollows
<1>3. /\ kind \in OpeningLights /\ what = "enable" /\ on => Odd("enabled_twice")'
      /\ kind \in Compass /\ what = "set_delay" /\ ~on => Odd("paced")'
      /\ what \notin {"enable", "disable"} => OddKept
  BY <1>1, RecallsKeep
<1>4. /\ what = "init" => sys.mode = "none"
      /\ what # "init" => sys.mode \in {"sleep", "run"} /\ Settled
  BY DEF MayCall, CallInv
<1>5. CASE what = "init"
  <2>1. call'.todo \in InitSteps
    BY <1>1, <1>5 DEF ApiShape
  <2>2. CallInv'
    BY <1>2, <1>4, <1>5, <2>1 DEF CallInv, Rest
  <2>3. ChipInv'
    BY <1>4, <1>5 DEF CallInv, ChipInv
  <2>4. QED
    BY <2>2, <2>3
<1>6. CASE what = "enable"
  <2>1. /\ call'.todo \in OnSteps(kind)
        /\ IF kind \in Lights THEN Head(call'.todo) \in {"open", "als_enable"}
           ELSE sys.fd = NoFd /\ Head(call'.todo) = "open"
    BY <1>1, <1>6 DEF ApiShape
  <2>2. Settled'
    BY <1>2, <1>4, <1>6 DEF Settled, Stands, Running, Refused, Off
  <2>3. kind = "sys_als" => ~sys.chip.on
    <3>1. kind = "sys_als" => Off \/ Refused
      BY <1>4, <1>6, <2>1, NoFdIsNone, SysNow DEF Settled, Stands, Running, Lights, OpeningLights
    <3>2. kind = "sys_als" /\ on => ~sys.chip.on
      BY <1>4, <1>6, <2>1, NoFdIsNone, SysNow DEF Settled, Stands, Running, Refused, Lights, OpeningLights
    <3>3. kind = "sys_als" /\ ~on => ~sys.chip.on
      BY <1>4, <1>6 DEF ChipInv
    <3>4. QED
      BY <3>2, <3>3
  <2>4. OnStage'
    BY <1>2, <1>3, <1>6, <2>1, <2>2, <2>3 DEF OnStage, Do
  <2>5. CallInv'
    BY <1>4, <1>6, <2>1, <2>4, EnableGoesOn
  <2>6. QED
    BY <1>6, <2>5, ChipKept
<1>7. CASE what = "disable"
  <2>1. /\ call'.todo \in OffSteps(kind)
        /\ Head(call'.todo) = IF kind \in Lights \cup Compass THEN "suspend" ELSE "set_fd"
    <3>1. kind \in Lights => kind \notin Compass
      BY DEF Lights, OpeningLights, Compass
    <3>2. QED
      BY <1>1, <1>7, <3>1 DEF ApiShape
  <2>2. sys.newfd = NoFd /\ (kind = "light_sensor_als" => sys.fd = NoFd) /\ Stands'
    BY <1>2, <1>4, <1>7 DEF Settled, Stands, Running, Refused, Off
  <2>3. OffStage'
    BY <2>1, <2>2 DEF OffStage, Do
  <2>4. CallInv'
    BY <1>4, <1>7, <2>1, <2>3, DisableGoesOn
  <2>5. QED
    BY <1>7, <2>4, ChipKept
<1>8. CASE what \in {"set_delay", "close"}
  <2>1. Settled'
    BY <1>2, <1>4, <1>8 DEF Settled, Stands, Running, Refused, Off
  <2>2. CallInv'
    <3>1. CASE what = "set_delay"
      <4>1. call'.todo \in DelaySteps(kind)
        BY <1>1, <3>1 DEF ApiShape
      <4>2. QED
        BY <1>2, <1>3, <1>4, <2>1, <3>1, <4>1, DelayGoesOn
    <3>2. CASE what = "close"
      <4>1. call'.todo = <<"destroy">>
        BY <1>1, <3>2 DEF ApiShape
      <4>2. QED
        BY <1>4, <2>1, <3>2, <4>1 DEF CallInv, Rest
    <3>3. QED
      BY <1>8, <3>1, <3>2
  <2>3. /\ sys.chip.on => kind \in Compass \cup Lights \cup {"sys_als"}
        /\ own.lib => kind \in Compass
    BY DEF ChipInv, Lights, OpeningLights, Compass
  <2>4. ~on => /\ sys.chip.on => kind # "sys_als" /\ (Odd("failed") \/ (kind \in Compass /\ Odd("paced")))
               /\ own.lib => Odd("failed")
    BY <1>4, <1>8 DEF ChipInv
  <2>5. ~on => /\ sys.chip.on => kind # "sys_als" /\ (Odd("failed")' \/ (kind \in Compass /\ Odd("paced")'))
               /\ own.lib => Odd("failed")'
    BY <1>3, <1>8, <2>3, <2>4 DEF OddKept
  <2>6. ChipInv'
    BY <1>2, <2>5 DEF ChipInv
  <2>7. QED
    BY <2>2, <2>6
<1>9. QED
  BY <1>5, <1>6, <1>7, <1>8

LEMMA CallKeeps == ASSUME InputInv, Call
                   PROVE  InputInv'
<1> USE DEF InputInv
<1>1. UNCHANGED <<kind, sys, d, own, evdev, sensed, poll>>
  BY DEF Call
<1>2. PICK what \in {"init", "enable", "disable", "set_delay", "close"} :
        /\ MayCall(what)
        /\ \E ns \in (IF what # "set_delay" THEN {0} ELSE IF kind = "ak0991xna" THEN Rates[kind] \cup {-1} ELSE Rates[kind]) :
             Proceed([what |-> what, todo |-> api[what], rv |-> 0, arg |-> ns])
        /\ hist' = [hist EXCEPT !.put = <<>>, !.odd = Recalls(what)]
  BY Zenon DEF Call, Recalls
<1>3. PICK ns \in (IF what # "set_delay" THEN {0} ELSE IF kind = "ak0991xna" THEN Rates[kind] \cup {-1} ELSE Rates[kind]) :
        Proceed([what |-> what, todo |-> api[what], rv |-> 0, arg |-> ns])
  BY <1>2
<1>4. ns \in Int
  <2>1. kind \in Kinds
    BY DEF TypeInv
  <2>2. QED
    BY <1>3, <2>1, InputAssumption
<1>5. /\ CallShape' /\ OnFollows /\ call'.what = what /\ call'.todo = api[what] /\ call'.rv = 0
  BY <1>3, <1>4, ProceedFacts
<1>6. kind \in Drivers /\ HistShape /\ ApiShape
  BY ApiShapes DEF TypeInv, HistShape
<1>7. Rest /\ HistShape'
  BY <1>2, <1>6, RecallsKeep DEF MayCall
<1>8. TypeInv'
  BY <1>1, <1>5, <1>7, TypeStep DEF TypeInv, OnFollows
<1>9. FilesHeld'
  BY <1>1, <1>2, <1>6, RecallsKeep DEF FilesHeld, Odd
<1>10. kind \in Xyz => ~Do("note") /\ ~Do("note")'
  BY <1>2, <1>5, <1>6, <1>7, ApiHeads DEF Do, Rest, InitNext, OnNext, OffNext
<1>11. RateInv'
  BY <1>1, <1>10 DEF RateInv
<1>12. CASE api[what] # <<>>
  BY <1>1, <1>2, <1>5, <1>7, <1>8, <1>9, <1>11, <1>12, CallStarts
<1>13. CASE api[what] = <<>>
  <2>1. OddKept
    BY <1>2, <1>6, <1>13, RecallsKeep
  <2>2. /\ what \in {"enable", "disable", "set_delay"}
        /\ what = "enable" => kind \notin Lights /\ ~(sys.fd < 0)
        /\ what = "disable" => kind \notin Lights /\ ~(sys.fd > 0)
    <3>1. InitNext(api.init) /\ api.close # <<>>
      BY <1>6, ApiHeads
    <3>2. /\ api.enable \in OnSteps(kind) => OnNext(kind, api.enable)
          /\ api.disable \in OffSteps(kind) => OffNext(kind, api.disable)
      BY <1>6, OnLists, OffLists
    <3>3. /\ kind \in Lights \/ sys.fd < 0 => OnNext(kind, api.enable)
          /\ kind \in Lights \/ sys.fd > 0 => OffNext(kind, api.disable)
      BY <1>6, <3>2 DEF ApiShape
    <3>4. /\ kind \in Lights \/ sys.fd < 0 => api.enable # <<>>
          /\ kind \in Lights \/ sys.fd > 0 => api.disable # <<>>
          /\ api.init # <<>>
      BY <3>1, <3>3 DEF InitNext, OnNext, OffNext
    <3>5. QED
      BY <1>2, <1>13, <3>1, <3>4
  <2>3. sys.mode \in {"sleep", "run"}
    BY <1>2, <2>2 DEF MayCall
  <2>4. QED
    BY <1>1, <1>5, <1>7, <1>8, <1>9, <1>11, <1>13, <2>1, <2>2, <2>3, NothingToDo
<1>14. QED
  BY <1>12, <1>13

(***************************************************************************)
(* The driver's thread and the sensor change nothing the invariant is      *)
(* about; the thread only takes back what went wrong with a report.        *)
(***************************************************************************)

\* The invariant says the same of hist while these excuses are kept.
LEMMA ThreadStep ==
  ASSUME InputInv, UNCHANGED <<kind, call, on, sys, own>>, sensed' \in Nat, HistShape',
         \A x \in {"failed", "paced", "enabled_twice", "start_failed"} : x \in hist'.odd <=> x \in hist.odd
  PROVE  InputInv'
<1> USE DEF InputInv
<1>1. /\ Odd("failed")' <=> Odd("failed")
      /\ Odd("paced")' <=> Odd("paced")
      /\ Odd("enabled_twice")' <=> Odd("enabled_twice")
      /\ Odd("start_failed")' <=> Odd("start_failed")
  BY DEF Odd
<1>2. TypeInv'
  BY DEF TypeInv, HistShape
<1>3. FilesHeld'
  BY <1>1 DEF FilesHeld, Odd
<1>4. (OnStage <=> OnStage') /\ (OffStage <=> OffStage') /\ (Settled <=> Settled')
  BY <1>1 DEF OnStage, OffStage, Settled, Stands, Running, Refused, Off, Do
<1>5. CallInv'
  BY <1>1, <1>4 DEF CallInv, Rest
<1>6. ChipInv'
  BY <1>1 DEF ChipInv, Rest
<1>7. RateInv'
  BY DEF RateInv, Do
<1>8. QED
  BY <1>2, <1>3, <1>5, <1>6, <1>7

LEMMA ReadKeeps == ASSUME InputInv, Read
                   PROVE  InputInv'
<1>1. HistShape /\ sensed \in Nat
  BY DEF InputInv, TypeInv, HistShape
<1>2. PICK put, shown, window, odd :
        /\ hist' = [hist EXCEPT !.put = put, !.shown = shown, !.window = window, !.odd = odd]
        /\ odd = IF read.put = <<>> THEN hist.odd
                 ELSE (hist.odd \ {"overtaken", "unread"}) \cup (IF Do("report_distance") THEN {"overtaken"} ELSE {})
  BY Zenon DEF Read
<1>3. hist' = [put |-> put, shown |-> shown, window |-> window, odd |-> odd]
  BY <1>1, <1>2 DEF HistShape
<1>4. HistShape' /\ hist'.odd = odd
  BY <1>3 DEF HistShape
<1>5. \A x \in {"failed", "paced", "enabled_twice", "start_failed"} : x \in odd <=> x \in hist.odd
  BY <1>2
<1>6. UNCHANGED <<kind, call, on, sys, own, sensed>>
  BY DEF Read
<1>7. QED
  BY <1>1, <1>4, <1>5, <1>6, ThreadStep

LEMMA EndPollKeeps == ASSUME InputInv, EndPoll
                      PROVE  InputInv'
<1>1. HistShape /\ sensed \in Nat /\ UNCHANGED <<kind, call, on, sys, own, sensed>>
  BY DEF InputInv, TypeInv, HistShape, EndPoll
<1>2. PICK put : hist' = [hist EXCEPT !.put = put]
  BY Zenon DEF EndPoll
<1>3. hist' = [put |-> put, shown |-> hist.shown, window |-> hist.window, odd |-> hist.odd]
  BY <1>1, <1>2 DEF HistShape
<1>4. HistShape' /\ hist'.odd = hist.odd
  BY <1>3 DEF HistShape
<1>5. QED
  BY <1>1, <1>4, ThreadStep

LEMMA QuietStepsKeep == ASSUME InputInv, EndSleep \/ BeginPoll \/ Change \/ Deliver
                        PROVE  InputInv'
<1>1. HistShape /\ sensed \in Nat
  BY DEF InputInv, TypeInv, HistShape
<1>2. Quiet /\ UNCHANGED <<kind, call, on, sys, own>>
  BY DEF EndSleep, BeginPoll, Change, Deliver
<1>3. sensed' \in Nat
  <2>1. Measurable \subseteq Nat
    BY InputAssumption DEF Measurable
  <2>2. QED
    BY <1>1, <2>1 DEF EndSleep, BeginPoll, Change, Deliver
<1>4. HistShape' /\ hist'.odd = hist.odd
  BY <1>1, <1>2, QuietKeeps
<1>5. QED
  BY <1>2, <1>3, <1>4, ThreadStep

(***************************************************************************)
(* The theorems.                                                           *)
(***************************************************************************)

LEMMA InputStarts == Init => InputInv
<1> SUFFICES ASSUME Init PROVE InputInv
  OBVIOUS
<1>1. /\ kind \in Kinds /\ call = [what |-> "none", todo |-> <<>>, rv |-> 0, arg |-> 0] /\ on = FALSE
      /\ sys = [fd |-> NoFd, newfd |-> NoFd, files |-> {}, mode |-> "none", chip |-> [on |-> FALSE, rate |-> -1]]
      /\ own = [delay |-> 0, lib |-> FALSE, path |-> FALSE]
      /\ hist = [put |-> <<>>, shown |-> 0, window |-> <<>>, odd |-> {}]
  BY DEF Init
<1>2. sensed \in Nat
  BY InputAssumption DEF Init
<1>3. TypeInv
  <2>1. kind \in Drivers
    BY <1>1, InputAssumption
  <2>2. sys \in SysType
    BY <1>1 DEF SysType, FdSet
  <2>3. call = [what |-> call.what, todo |-> call.todo, rv |-> call.rv, arg |-> call.arg]
        /\ call.arg = 0 /\ call.todo = <<>>
    BY <1>1
  <2>4. HistShape
    BY <1>1 DEF HistShape
  <2>5. own \in [delay : Int, lib : BOOLEAN, path : BOOLEAN]
    <3>1. own = [delay |-> 0, lib |-> FALSE, path |-> FALSE]
      BY <1>1
    <3>2. QED
      BY <3>1
  <2>6. QED
    BY <1>1, <1>2, <2>1, <2>2, <2>3, <2>4, <2>5 DEF TypeInv, HistShape
<1>4. FilesHeld
  BY <1>1 DEF FilesHeld
<1>5. CallInv
  BY <1>1 DEF CallInv, Rest
<1>6. ChipInv
  BY <1>1 DEF ChipInv
<1>7. RateInv
  BY <1>1 DEF RateInv, Do
<1>8. QED
  BY <1>3, <1>4, <1>5, <1>6, <1>7 DEF InputInv

LEMMA InputStep == InputInv /\ [Next]_vars => InputInv'
<1> SUFFICES ASSUME InputInv, [Next]_vars PROVE InputInv'
  OBVIOUS
<1>1. CASE UNCHANGED vars
  <2>1. UNCHANGED <<kind, call, on, sys, own, hist, sensed>>
    BY <1>1 DEF vars
  <2>2. QED
    BY <2>1 DEF InputInv, TypeInv, FilesHeld, CallInv, OnStage, OffStage, Settled, Stands, Running, Refused,
                Off, ChipInv, RateInv, Rest, Do, Odd
<1>2. CASE Call
  BY <1>2, CallKeeps
<1>3. CASE HalStep
  BY <1>3, SysStepKeeps, LibraryStepKeeps, ChipStepKeeps, RefusalKeeps, FieldStepKeeps, SetFdKeeps,
     DestroyKeeps, DistanceKeeps DEF HalStep
<1>4. CASE Read
  BY <1>4, ReadKeeps
<1>5. CASE EndPoll
  BY <1>5, EndPollKeeps
<1>6. CASE EndSleep \/ BeginPoll \/ Change \/ Deliver
  BY <1>6, QuietStepsKeep
<1>7. QED
  BY <1>1, <1>2, <1>3, <1>4, <1>5, <1>6 DEF Next

LEMMA InputHolds == Spec => []InputInv
BY InputStarts, InputStep, PTL DEF Spec

(* Every driver is always where its invariant says: a call is at one of    *)
(* the steps of its list, and the descriptors, the thread, the chip and    *)
(* the driver's own fields are as that step needs them.                    *)
THEOREM InputInvariant == Spec => []InputInv
BY InputHolds

(* No call of any driver, however it failed, loses an open descriptor.     *)
THEOREM InputFilesHeld == Spec => []FilesHeld
<1>1. InputInv => FilesHeld
  BY DEF InputInv
<1>2. QED
  BY <1>1, InputHolds, PTL

(* The device follows the framework: its thread runs, its chip is on and   *)
(* its rate is set as the driver's calls returned that they are.           *)
THEOREM InputDeviceFollows == Spec => []DeviceFollows
<1>1. ASSUME InputInv
      PROVE  DeviceFollows
  <2> USE <1>1 DEF InputInv
  <2>1. EnabledRuns
    <3> SUFFICES ASSUME Rest, sys.mode \in {"sleep", "run"}
                 PROVE  IF on
                        THEN \/ sys.mode = "run" /\ (kind = "light_sensor_als" \/ sys.fd \in sys.files)
                             \/ kind = "sys_als" /\ sys.mode = "sleep" /\ sys.files = {} /\ ~sys.chip.on
                        ELSE sys.mode = "sleep"
      BY DEF EnabledRuns
    <3>1. Settled
      BY DEF CallInv
    <3>2. Refused => sys.files = {}
      BY <3>1, NoFdIsNone, SysNow DEF FilesHeld, Settled, Refused, Off, OpeningLights
    <3>3. QED
      BY <3>1, <3>2 DEF Settled, Stands, Running, Refused, Off
  <2>2. ChipOnlyWhileEnabled
    BY DEF ChipOnlyWhileEnabled, ChipInv, Odd
  <2>3. AppliedIsSet
    BY DEF AppliedIsSet, RateInv, Rest, Do
  <2>4. QED
    BY <2>1, <2>2, <2>3 DEF DeviceFollows
<1>2. QED
  BY <1>1, InputHolds, PTL

(***************************************************************************)
(* What a light sensor hands up.                                           *)
(***************************************************************************)

\* While its worker runs, a light sensor that opens a file has it open.
LEMMA RunningLightIsOpen ==
  ASSUME InputInv, kind \in OpeningLights, sys.mode = "run"
  PROVE  sys.fd \in sys.files
<1> USE DEF InputInv
<1>1. /\ kind \in {"as3676_als", "lm3533_als"} /\ kind \in Lights
      /\ kind \notin Compass \cup {"light_sensor_als", "sys_als", "ak0991xna"}
  BY DEF Lights, OpeningLights, Compass
<1>2. Stands => sys.fd \in sys.files
  BY <1>1 DEF Stands, Running, Refused, Off
<1>3. CASE call.todo = <<>>
  BY <1>2, <1>3 DEF CallInv, Rest, Settled
<1>4. CASE call.todo # <<>>
  <2>1. CASE call.what = "enable"
    <3>1. OnStage /\ OnNext(kind, call.todo)
      BY <1>4, <2>1, CallAt
    <3>2. Head(call.todo) \in {"als_enable", "open", "keep_fd", "resume"}
      BY <1>1, <3>1, Zenon DEF OnNext
    <3>3. QED
      BY <1>1, <1>2, <1>4, <3>1, <3>2 DEF OnStage, Do, Settled
  <2>2. CASE call.what = "disable"
    <3>1. OffStage /\ OffNext(kind, call.todo)
      BY <1>4, <2>2, CallAt
    <3>2. Head(call.todo) \in {"suspend", "close_fd", "forget_fd", "als_disable"}
      BY <1>1, <3>1, Zenon DEF OffNext
    <3>3. QED
      BY <1>1, <1>2, <1>4, <3>1, <3>2 DEF OffStage, Do, Off
  <2>3. CASE call.what \in {"init", "set_delay", "close"}
    BY <1>2, <1>4, <2>3, CallAt DEF Settled
  <2>4. QED
    BY <1>4, <2>1, <2>2, <2>3, CallAt
<1>5. QED
  BY <1>3, <1>4

\* Every step but the two threads' reads reports nothing.
LEMMA NothingPut ==
  ASSUME InputInv, Call \/ HalStep \/ EndSleep \/ BeginPoll \/ Change \/ Deliver
  PROVE  hist'.put = <<>>
<1>1. HistShape
  BY DEF InputInv, TypeInv, HistShape
<1>2. ASSUME NEW odd, NEW shown, NEW window,
             \/ hist' = [hist EXCEPT !.put = <<>>]
             \/ hist' = [hist EXCEPT !.put = <<>>, !.odd = odd]
             \/ hist' = [hist EXCEPT !.put = <<>>, !.shown = shown]
             \/ hist' = [hist EXCEPT !.put = <<>>, !.window = window]
      PROVE  hist'.put = <<>>
  BY <1>1, <1>2 DEF HistShape
<1>3. Quiet => hist'.put = <<>>
  BY <1>2 DEF Quiet
<1>4. \A odd : Recalled(odd) => hist'.put = <<>>
  <2>1. ASSUME NEW odd, Recalled(odd)
        PROVE  hist'.put = <<>>
    <3>1. hist' = [hist EXCEPT !.put = <<>>, !.odd = (hist.odd \cup odd) \cap Excuses]
      BY <2>1 DEF Recalled
    <3>2. QED
      BY <1>2, <3>1
  <2>2. QED
    BY <2>1
<1>5. \A step : Go \/ Fail(step) => hist'.put = <<>>
  BY <1>3, <1>4 DEF Go, Fail
<1>6. CASE Call
  <2>1. PICK odd : hist' = [hist EXCEPT !.put = <<>>, !.odd = odd]
    BY <1>6, Zenon DEF Call
  <2>2. QED
    BY <1>2, <2>1
<1>7. CASE SysStep \/ ChipStep \/ LibraryStep \/ SysalsRefuses \/ SetFd \/ Destroy \/ noa3402_get_current_distance
  BY <1>3, <1>4, <1>5, <1>7, Zenon
  DEF SysStep, ChipStep, LibraryStep, SysalsRefuses, SetFd, Destroy, noa3402_get_current_distance
<1>8. CASE FieldStep \/ noa3402_report_distance
  <2>1. CASE hist' = [hist EXCEPT !.put = <<>>, !.window = <<>>]
    BY <1>2, <2>1
  <2>2. CASE hist' = [hist EXCEPT !.put = <<>>, !.shown = shown_distance]
    BY <1>2, <2>2
  <2>3. QED
    BY <1>3, <1>5, <1>8, <2>1, <2>2, Zenon DEF FieldStep, noa3402_report_distance
<1>9. CASE EndSleep \/ BeginPoll \/ Change \/ Deliver
  BY <1>3, <1>9 DEF EndSleep, BeginPoll, Change, Deliver
<1>10. QED
  BY <1>6, <1>7, <1>8, <1>9 DEF HalStep

\* What a poll converts is the brightness, unless its file is closed.
LEMMA PollIsBacked ==
  ASSUME InputInv, EndPoll, kind \in Lights, NEW i \in DOMAIN hist'.put, hist'.put[i].said.a = Garbage
  PROVE  sys.mode # "run"
<1>1. HistShape /\ sensed \in Nat
  BY DEF InputInv, TypeInv, HistShape
<1>2. PICK lux \in CASE kind = "as3676_als" -> as3676_light_poll
                     [] kind = "lm3533_als" -> lm3533_light_poll
                     [] OTHER -> light_poll :
        hist' = [hist EXCEPT !.put = [j \in DOMAIN lux |-> [said |-> [a |-> lux[j], b |-> 0],
                                                           is |-> [a |-> sensed, b |-> 0]]]]
  BY Zenon DEF EndPoll
<1>3. hist'.put = [j \in DOMAIN lux |-> [said |-> [a |-> lux[j], b |-> 0], is |-> [a |-> sensed, b |-> 0]]]
  BY <1>1, <1>2 DEF HistShape
<1>4. i \in DOMAIN lux /\ lux[i] = -1
  BY <1>3 DEF Garbage
<1>5. kind \in OpeningLights /\ sys.fd \notin sys.files
  <2>1. \/ kind \in {"as3676_als", "lm3533_als"} /\ lux = <<IF sys.fd \in sys.files THEN sensed ELSE Garbage>>
        \/ lux = <<sensed>>
        \/ lux = <<>>
    BY <1>2 DEF as3676_light_poll, lm3533_light_poll, light_poll
  <2>2. QED
    BY <1>1, <1>4, <2>1 DEF OpeningLights
<1>6. QED
  BY <1>5, RunningLightIsOpen

(* The light sensors that open a file themselves convert a read of a file  *)
(* that is closed only in a poll that began before their worker was        *)
(* suspended, however the calls and the worker's polls interleave.         *)
THEOREM InputLightsReadTheirFile == Spec => [](kind \in Lights => GarbageOnlyLate)
<1> DEFINE P == kind \in Lights => GarbageOnlyLate
<1>1. Init => P
  BY DEF Init, GarbageOnlyLate
<1>2. InputInv /\ P /\ [Next]_vars => P'
  <2> SUFFICES ASSUME InputInv, P, [Next]_vars, kind' \in Lights, NEW i \in DOMAIN hist'.put,
                      hist'.put[i].said.a = Garbage
               PROVE  sys'.mode # "run"
    BY DEF GarbageOnlyLate
  <2>1. CASE UNCHANGED vars
    BY <2>1 DEF vars, GarbageOnlyLate
  <2>2. CASE Call \/ HalStep \/ EndSleep \/ BeginPoll \/ Change \/ Deliver
    BY <2>2, NothingPut
  <2>3. CASE Read
    BY <2>3 DEF Read
  <2>4. CASE EndPoll
    <3>1. UNCHANGED <<kind, sys>>
      BY <2>4 DEF EndPoll
    <3>2. QED
      BY <2>4, <3>1, PollIsBacked
  <2>5. QED
    BY <2>1, <2>2, <2>3, <2>4 DEF Next
<1>3. QED
  BY <1>1, <1>2, InputHolds, PTL DEF Spec

=============================================================================
