----------------------------- MODULE InputDrivers -----------------------------
(***************************************************************************)
(* The drivers of sensors/ that serve one sensor from one device file:     *)
(* eighteen that wait for input events on a select worker, and three light  *)
(* sensors that poll on a plain worker. One of them is chosen by kind.     *)
(*                                                                         *)
(* A call of the HAL is a list of steps (todo); the driver's thread runs   *)
(* between any two of them. Each driver is written as what its functions   *)
(* do: the steps of init, activate, set_delay and close, and what its read *)
(* makes of the events. A select callback runs with fd_mutex held on the   *)
(* driver's current descriptor (SensorsSelect), so a read is one action; a *)
(* poll of a light sensor reads d->fd some time after it began.            *)
(***************************************************************************)
EXTENDS Integers, Sequences, FiniteSets, SequencesExt

Compass == {"ak896xna", "ak897xna", "ak0991xna", "ak0991xna_raw"}
Xyz == {"l3g4200d_gyro", "lsm303dlhx_acc", "lsm303dlhx_mag", "lsm303dlhc_acc_lt"}
OpeningLights == {"as3676_als", "lm3533_als"}
Lights == OpeningLights \cup {"light_sensor_als"}
OnePacket == {"bma250_input", "bma150_input"}
Drivers == Compass \cup Xyz \cup Lights \cup OnePacket
             \cup {"noa3402", "apds970x", "tsl2772", "sharp_gp2", "sys_als",
                   "lps331ap_input", "bmp180_input", "bma250na_input"}

CONSTANTS
  Kinds,       (* the drivers considered                                   *)
  Fds,         (* the descriptor numbers open may return                   *)
  Values,      (* what a sensor can measure on an axis, 0 among them       *)
  Pressures,   (* what a barometer can measure: not 0                      *)
  Rates,       (* the delays the framework asks for, of each driver        *)
  MinDelay,    (* sensor.minDelay of the drivers that have one             *)
  QCAP,        (* bound: events that may wait behind a descriptor          *)
  NR_SAMPLES   (* length of lps331ap_input.c's average (16)                *)

ASSUME InputAssumption ==
  /\ Kinds \subseteq Drivers
  /\ Fds \subseteq Nat \ {0} /\ Values \subseteq Nat /\ 0 \in Values
  /\ Pressures \subseteq Nat \ {0}
  /\ (\A k \in Kinds : Rates[k] \subseteq Nat) /\ MinDelay \in Nat
  /\ QCAP \in Nat /\ NR_SAMPLES \in Nat \ {0}

VARIABLES
  kind,    (* the driver                                                   *)
  call,    (* the HAL call: what, todo, rv and the steps that failed       *)
  on,      (* history: the last activate that succeeded was an enable      *)
  sys,     (* fd, newfd (opened, not yet fd's), files (open), mode, chip   *)
  d,       (* the fields of struct sensor_desc that a read may change      *)
  own,     (* those that only calls change: delay, lib (AKL runs), path    *)
  evdev,   (* the input device: axes as last sent, queue behind the file   *)
  sensed,  (* what the sensor measures on its first axis                   *)
  poll,    (* the thread is in "idle", a "poll" or sharp_read's "sleep"    *)
  hist     (* history: put, the events the step before handed up; shown,   *)
           (* the last distance of noa3402; window, the last pressures of  *)
           (* lps331ap since its enable; odd, what went wrong so far       *)

vars == <<kind, call, on, sys, d, own, evdev, sensed, poll, hist>>

NoFd == -1

TwoAxes == Compass \cup Xyz \cup OnePacket \cup {"lps331ap_input", "bmp180_input", "bma250na_input"}
Unfiltered == {"ak896xna", "ak0991xna", "ak0991xna_raw", "sys_als"}

Rest == call.todo = <<>>

(***************************************************************************)
(* What the drivers' functions do. A step whose failure ends the call      *)
(* says so in HalStep.                                                     *)
(***************************************************************************)

\* The two guards of every select driver's activate.
Toggle(enable, opening, dropping) ==
  IF enable /\ sys.fd < 0 THEN opening
  ELSE IF ~enable /\ sys.fd > 0 THEN dropping
  ELSE <<>>

noa3402_init == <<"probe", "select_init">>
noa3402_activate(enable) ==
  Toggle(enable, <<"open", "set_fd", "resume", "get_distance", "report_distance">>,
                 <<"set_fd", "suspend">>)
noa3402_set_delay == <<>>
noa3402_close == <<"destroy">>

apds9700_init == <<"probe", "select_init">>
apds9700_activate(enable) ==
  Toggle(enable, <<"open", "init_threshold", "set_fd", "resume">>, <<"set_fd", "suspend">>)
apds9700_set_delay == <<"note">>
apds9700_close == <<"destroy">>

tsl2772_init == <<"probe", "select_init">>
tsl2772_activate(enable) == Toggle(enable, <<"open", "set_fd", "resume">>, <<"set_fd", "suspend">>)
tsl2772_set_delay == <<>>
tsl2772_close == <<"destroy">>

sharp_init == <<"probe", "select_init">>
sharp_activate(enable) == Toggle(enable, <<"open", "set_fd", "resume">>, <<"set_fd", "suspend">>)
sharp_set_delay == <<"note">>
sharp_close == <<"destroy">>

als_init == <<"select_init">>
als_activate(enable) ==
  Toggle(enable, <<"open", "sysals_activate", "set_fd", "resume">>,
                 <<"set_fd", "suspend", "sysals_deactivate">>)
als_set_delay == <<>>
als_close == <<"destroy">>

lps331ap_input_init == <<"probe", "select_init">>
lps331ap_input_activate(enable) ==
  Toggle(enable, <<"open", "clear_average", "set_fd", "resume">>, <<"set_fd", "suspend">>)
lps331ap_input_set_delay == <<"note", "write_rate">>
lps331ap_input_close == <<"destroy">>

bmp180_input_init == <<"probe", "select_init">>
bmp180_input_activate(enable) == Toggle(enable, <<"open", "set_fd", "resume">>, <<"set_fd", "suspend">>)
bmp180_input_set_delay == <<"note", "write_rate">>
bmp180_input_close == <<"destroy">>

bma250_input_init == <<"probe", "select_init">>
bma250_input_activate(enable) == Toggle(enable, <<"open", "set_fd", "resume">>, <<"set_fd", "suspend">>)
bma250_input_set_delay == <<"clamp", "note", "write_rate">>
bma250_input_close == <<"destroy">>

bma250_plain_init == <<"probe", "select_init">>
bma250_plain_activate(enable) == Toggle(enable, <<"open", "set_fd", "resume">>, <<"set_fd", "suspend">>)
bma250_plain_fw_delay == <<"clamp", "note", "try_rate">>
bma250_plain_close == <<"destroy">>

bma150_input_init == <<"probe", "find_path", "select_init">>
bma150_input_activate(enable) == Toggle(enable, <<"open", "set_fd", "resume">>, <<"set_fd", "suspend">>)
bma150_input_fw_delay == <<"clamp", "try_rate">>
bma150_input_close == <<"destroy">>

ak896x_init == <<"probe", "find_sysfs", "select_init">>
ak896x_activate(enable) ==
  Toggle(enable, <<"open", "set_fd", "resume">>, <<"suspend", "set_fd", "interval_off">>)
ak896x_set_delay == <<"clamp", "note", "write_rate">>
ak896x_close == <<"destroy">>

ak897x_init == <<"probe", "select_init">>
ak897x_activate(enable) ==
  Toggle(enable, <<"open", "set_fd", "resume">>, <<"suspend", "set_fd", "interval_off">>)
ak897x_set_delay == <<"clamp", "note", "write_rate">>
ak897x_close == <<"destroy">>

ak0991x_init == <<"probe", "AKL_DASH_Init", "AKL_Init", "select_init">>
\* Mutated form: the library is not stopped.
ak0991x_never_stopped(enable) ==
  Toggle(enable, <<"open", "start", "set_fd", "resume">>, <<"suspend", "set_fd", "interval_off">>)

ak0991x_activate(enable) ==
  Toggle(enable, <<"open", "start", "set_fd", "resume">>, <<"suspend", "set_fd", "interval_off", "stop">>)
ak0991x_delay == <<"clamp", "note", "write_rate">>
ak0991x_close == <<"destroy">>

ak0991x_raw_init == <<"probe", "select_init">>
ak0991x_raw_activate(enable) ==
  Toggle(enable, <<"open", "set_fd", "resume">>, <<"suspend", "set_fd", "interval_off">>)
ak0991x_raw_set_delay == <<"clamp", "note", "write_rate">>
ak0991x_raw_close == <<"destroy">>

sensor_xyz_init == <<"find_path", "select_init">>
sensor_xyz_activate(enable) == Toggle(enable, <<"open", "set_fd", "resume">>, <<"set_fd", "suspend">>)
\* The mode is the same text at every rate, and so never written here.
sensor_xyz_set_delay == <<"unless_applied", "write_rate", "note">>
sensor_xyz_close == <<"destroy">>

light_init == <<"worker_init">>
light_activate(enable) == IF enable THEN <<"als_enable", "resume">> ELSE <<"suspend", "als_disable">>
light_set_delay == <<"note">>
light_close == <<"destroy">>

as3676_init == <<"worker_init">>

as3676_activate(enable) ==
  IF enable THEN <<"open", "keep_fd", "resume">> ELSE <<"suspend", "close_fd", "forget_fd">>
as3676_set_delay == <<"note">>
as3676_close == <<"destroy">>

lm3533_init == <<"worker_init">>
lm3533_activate(enable) ==
  IF enable THEN <<"als_enable", "open", "keep_fd", "resume">>
  ELSE <<"suspend", "close_fd", "forget_fd", "als_disable">>
lm3533_set_delay == <<"note">>
lm3533_close == <<"destroy">>

\* The api member of a struct sensor_desc: what the HAL finds of the driver.
Api(init, activate(_), set_delay, close) ==
  [init |-> init, enable |-> activate(TRUE), disable |-> activate(FALSE),
   set_delay |-> set_delay, close |-> close]

noa3402 == Api(noa3402_init, noa3402_activate, noa3402_set_delay, noa3402_close)
apds970x == Api(apds9700_init, apds9700_activate, apds9700_set_delay, apds9700_close)
tsl2772 == Api(tsl2772_init, tsl2772_activate, tsl2772_set_delay, tsl2772_close)
sharp_gp2 == Api(sharp_init, sharp_activate, sharp_set_delay, sharp_close)
sys_als == Api(als_init, als_activate, als_set_delay, als_close)
lps331ap_pressure_input ==
  Api(lps331ap_input_init, lps331ap_input_activate, lps331ap_input_set_delay, lps331ap_input_close)
bmp180_pressure_input ==
  Api(bmp180_input_init, bmp180_input_activate, bmp180_input_set_delay, bmp180_input_close)
bma250_input ==
  Api(bma250_input_init, bma250_input_activate, bma250_input_set_delay, bma250_input_close)
bma250_plain ==
  Api(bma250_plain_init, bma250_plain_activate, bma250_plain_fw_delay, bma250_plain_close)
bma150_input ==
  Api(bma150_input_init, bma150_input_activate, bma150_input_fw_delay, bma150_input_close)
ak896xna_magnetic == Api(ak896x_init, ak896x_activate, ak896x_set_delay, ak896x_close)
ak897xna_magnetic == Api(ak897x_init, ak897x_activate, ak897x_set_delay, ak897x_close)
ak0991xna_magnetic == Api(ak0991x_init, ak0991x_activate, ak0991x_delay, ak0991x_close)
ak0991xna_raw_magnetic ==
  Api(ak0991x_raw_init, ak0991x_raw_activate, ak0991x_raw_set_delay, ak0991x_raw_close)
l3g4200d_gyro == Api(sensor_xyz_init, sensor_xyz_activate, sensor_xyz_set_delay, sensor_xyz_close)
lsm303dlhx_acc == Api(sensor_xyz_init, sensor_xyz_activate, sensor_xyz_set_delay, sensor_xyz_close)
lsm303dlhx_mag == Api(sensor_xyz_init, sensor_xyz_activate, sensor_xyz_set_delay, sensor_xyz_close)
lsm303dlhc_acc_lt == Api(sensor_xyz_init, sensor_xyz_activate, sensor_xyz_set_delay, sensor_xyz_close)
light_sensor == Api(light_init, light_activate, light_set_delay, light_close)
as3676_light_sensor == Api(as3676_init, as3676_activate, as3676_set_delay, as3676_close)
lm3533_light_sensor == Api(lm3533_init, lm3533_activate, lm3533_set_delay, lm3533_close)

api ==
  CASE kind = "noa3402" -> noa3402
    [] kind = "apds970x" -> apds970x
    [] kind = "tsl2772" -> tsl2772
    [] kind = "sharp_gp2" -> sharp_gp2
    [] kind = "sys_als" -> sys_als
    [] kind = "lps331ap_input" -> lps331ap_pressure_input
    [] kind = "bmp180_input" -> bmp180_pressure_input
    [] kind = "bma250na_input" -> bma250_input
    [] kind = "bma250_input" -> bma250_plain
    [] kind = "bma150_input" -> bma150_input
    [] kind = "ak896xna" -> ak896xna_magnetic
    [] kind = "ak897xna" -> ak897xna_magnetic
    [] kind = "ak0991xna" -> ak0991xna_magnetic
    [] kind = "ak0991xna_raw" -> ak0991xna_raw_magnetic
    [] kind = "l3g4200d_gyro" -> l3g4200d_gyro
    [] kind = "lsm303dlhx_acc" -> lsm303dlhx_acc
    [] kind = "lsm303dlhx_mag" -> lsm303dlhx_mag
    [] kind = "lsm303dlhc_acc_lt" -> lsm303dlhc_acc_lt
    [] kind = "light_sensor_als" -> light_sensor
    [] kind = "as3676_als" -> as3676_light_sensor
    [] kind = "lm3533_als" -> lm3533_light_sensor

(***************************************************************************)
(* The reads. An event stores a value on an axis ("a", the measurement, or *)
(* "b": a second axis, the temperature or the accuracy) or is the "syn" of *)
(* a packet, which carries here, unknown to the driver, what the sensor    *)
(* measured. A read yields the new descriptor and what it hands up.        *)
(***************************************************************************)

Got(n) == SubSeq(evdev.queue, 1, IF n < Len(evdev.queue) THEN n ELSE Len(evdev.queue))
Start(desc) == [d |-> desc, put |-> <<>>]
Stored(st, e) == [st EXCEPT !.d[e.axis] = e.val]
Put(st, e, a, b) == [st EXCEPT !.put = Append(@, [said |-> [a |-> a, b |-> b], is |-> e.val])]

\* On SYN, hand up what the descriptor holds.
OnEvent(st, e) == IF e.axis = "syn" THEN Put(st, e, st.d.a, st.d.b) ELSE Stored(st, e)
ReadEvents(n, desc) == FoldLeft(OnEvent, Start(desc), Got(n))

noa3402_read == ReadEvents(2, d)

\* distance is a local variable, 0 in every read.
tsl2772_read == ReadEvents(2, [d EXCEPT !.a = 0])

\* Each store also moves the chip's threshold for the next crossing.
apds9700_store_dist(st, e) ==
  LET change_threshold(w) == IF own.path THEN [w EXCEPT !.d.th = IF e.val = 0 THEN "det" ELSE "not_det"]
                             ELSE w
  IN  change_threshold(Stored(st, e))
apds9700_read ==
  LET apds(st, e) == IF e.axis = "syn" THEN Put(st, e, st.d.a, st.d.b) ELSE apds9700_store_dist(st, e)
  IN  FoldLeft(apds, Start(d), Got(QCAP))

\* One packet, then it sleeps.
sharp_read == ReadEvents(2, d)

\* A raw value is handed up at once, SYN or not.
als_read ==
  LET als(st, e) == IF e.axis = "a" THEN Put(st, [val |-> [a |-> e.val, b |-> 0]], e.val, 0) ELSE st
  IN  FoldLeft(als, Start(d), Got(2))

current_sample(x) == (x.i + 1) % NR_SAMPLES
current_sum(x) == IF x.num = NR_SAMPLES THEN x.sum - x.mem[x.i] ELSE x.sum

\* The average of the last NR_SAMPLES pressures. A SYN with no sample yet
\* divides by zero; what is handed up then, if anything, is left open as 0.
lps331ap_input_read ==
  LET sample(x, v) ==
        [x EXCEPT !.num = IF @ = NR_SAMPLES THEN @ ELSE @ + 1, !.mem[x.i] = v,
                  !.i = current_sample(x), !.sum = current_sum(x) + v]
      lps(st, e) ==
        CASE e.axis = "a" -> [st EXCEPT !.d = sample(@, e.val)]
          [] e.axis = "syn" -> IF st.d.num = 0
                               THEN Put([st EXCEPT !.d.zerodiv = TRUE], e, 0, 0)
                               ELSE Put(st, e, st.d.sum \div st.d.num, 0)
          [] OTHER -> st
  IN  FoldLeft(lps, Start(d), Got(3))

bmp180_input_read == ReadEvents(3, d)

\* Mutated form: the axes are local variables.
bma250_input_read_local == ReadEvents(5, [d EXCEPT !.a = 0, !.b = 0])

bma250_input_read == ReadEvents(5, d)

\* One event at a time, up to the end of a packet.
PacketSize == Min({i \in DOMAIN evdev.queue : evdev.queue[i].axis = "syn"} \cup {QCAP})
bma250_plain_read == ReadEvents(PacketSize, d)
bma150_input_read == ReadEvents(PacketSize, d)

\* The accuracy is static: it keeps its value from read to read.
ak896x_read == ReadEvents(10, d)

\* status is a local variable, ACCURACY_HIGH in every read.
High == 1
ak897x_read == ReadEvents(10, [d EXCEPT !.b = High])

\* Each packet also goes to the library, whether it takes it or not.
ak0991x_read == ReadEvents(10, d)
ak0991x_raw_read == ReadEvents(10, d)

sensor_xyz_read == ReadEvents(8, d)

read ==
  CASE kind = "noa3402" -> noa3402_read
    [] kind = "apds970x" -> apds9700_read
    [] kind = "tsl2772" -> tsl2772_read
    [] kind = "sharp_gp2" -> sharp_read
    [] kind = "sys_als" -> als_read
    [] kind = "lps331ap_input" -> lps331ap_input_read
    [] kind = "bmp180_input" -> bmp180_input_read
    [] kind = "bma250na_input" -> bma250_input_read
    [] kind = "bma250_input" -> bma250_plain_read
    [] kind = "bma150_input" -> bma150_input_read
    [] kind = "ak896xna" -> ak896x_read
    [] kind = "ak897xna" -> ak897x_read
    [] kind = "ak0991xna" -> ak0991x_read
    [] kind = "ak0991xna_raw" -> ak0991x_raw_read
    [] kind \in Xyz -> sensor_xyz_read

ReadSize ==
  CASE kind \in {"noa3402", "tsl2772", "sharp_gp2", "sys_als"} -> 2
    [] kind \in {"lps331ap_input", "bmp180_input"} -> 3
    [] kind = "bma250na_input" -> 5
    [] kind \in OnePacket -> PacketSize
    [] OTHER -> 10

Init ==
  /\ kind \in Kinds
  /\ call = [what |-> "none", todo |-> <<>>, rv |-> 0, arg |-> 0]
  /\ on = FALSE
  /\ sys = [fd |-> NoFd, newfd |-> NoFd, files |-> {}, mode |-> "none",
            chip |-> [on |-> FALSE, rate |-> -1]]
  /\ d = [a |-> 0, b |-> IF kind \in Compass THEN High ELSE 0, th |-> "unset",
          mem |-> [i \in 0..NR_SAMPLES - 1 |-> 0], i |-> 0, num |-> 0, sum |-> 0, zerodiv |-> FALSE]
  /\ own = [delay |-> 0, lib |-> FALSE, path |-> FALSE]
  /\ evdev = [a |-> 0, b |-> 0, queue |-> <<>>]
  /\ sensed \in IF kind \in {"lps331ap_input", "bmp180_input"} THEN Pressures ELSE {0}
  /\ poll = "idle"
  /\ hist = [put |-> <<>>, shown |-> 0, window |-> <<>>, odd |-> {}]

(***************************************************************************)
(* The HAL thread.                                                         *)
(***************************************************************************)

\* What the properties ask about the driver at hand.
Excuses ==
  CASE kind = "noa3402" -> {"overtaken", "unread"}
    [] kind = "lps331ap_input" -> {"closed"}
    [] kind = "ak897xna" -> {"failed", "paced", "dropped"}
    [] kind \in {"ak896xna", "light_sensor_als"} -> {"failed", "paced"}
    [] kind \in OpeningLights -> {"failed", "enabled_twice"}
    [] kind = "ak0991xna" -> {"failed", "paced", "start_failed"}
    [] kind = "ak0991xna_raw" -> {"failed", "paced"}
    [] kind \in Xyz \cup OnePacket \cup {"bmp180_input", "bma250na_input"} -> {"dropped"}
    [] OTHER -> {}

Quiet == hist' = [hist EXCEPT !.put = <<>>]
Recalled(odd) == hist' = [hist EXCEPT !.put = <<>>, !.odd = (@ \cup odd) \cap Excuses]

\* What the framework holds of the sensor when the call is c.
Proceed(c) ==
  /\ call' = c
  /\ on' = CASE c.todo # <<>> -> on
              [] c.todo = <<>> /\ c.what = "enable" -> on \/ c.rv = 0
              [] OTHER -> on /\ c.what \notin {"disable", "close"}

\* init comes first and once; a sensor whose init failed is not called again.
MayCall(what) ==
  /\ Rest
  /\ IF what = "init" THEN call.what = "none" ELSE sys.mode \in {"sleep", "run"}

Call ==
  /\ \E what \in {"init", "enable", "disable", "set_delay", "close"} :
       /\ MayCall(what)
       /\ \E ns \in (IF what # "set_delay" THEN {0} ELSE IF kind = "ak0991xna" THEN Rates[kind] \cup {-1} ELSE Rates[kind]) :
            Proceed([what |-> what, todo |-> api[what], rv |-> 0, arg |-> ns])
       /\ hist' = [hist EXCEPT !.put = <<>>, !.odd =
                     ((IF what \in {"enable", "disable"} /\ api[what] # <<>>
                       THEN @ \ {"failed", "paced"} ELSE @)
                      \cup (IF what = "enable" /\ on THEN {"enabled_twice"} ELSE {})
                      \cup (IF what = "set_delay" /\ ~on THEN {"paced"} ELSE {})) \cap Excuses]
  /\ UNCHANGED <<kind, sys, d, own, evdev, sensed, poll>>

Do(step) == call.todo # <<>> /\ Head(call.todo) = step
Done == [call EXCEPT !.todo = Tail(@)]

Failed(step) == [call EXCEPT !.todo = <<>>, !.rv = -1]

\* Mutated form: the old descriptor is not closed.
left_open(f) == sys.files

closed(f) == sys.files \ {f}

Go == Proceed(Done) /\ Quiet
Fail(step) == Proceed(Failed(step)) /\ Recalled({"failed"})

\* Steps that only change what the system holds for the driver.
SysStep ==
  /\ \/ (Do("select_init") \/ Do("worker_init")) /\ sys' = [sys EXCEPT !.mode = "sleep"] /\ Go
     \/ /\ \E step \in {"probe", "find_sysfs", "AKL_DASH_Init", "AKL_Init"} : Do(step) /\ (Go \/ Fail(step))
        /\ UNCHANGED sys
     \/ /\ Do("open")
        /\ \/ \E f \in Fds \ sys.files :
                sys' = [sys EXCEPT !.newfd = f, !.files = @ \cup {f}] /\ Go
           \/ Fail("open") /\ UNCHANGED sys
     \/ Do("keep_fd") /\ sys' = [sys EXCEPT !.fd = sys.newfd, !.newfd = NoFd] /\ Go
     \/ Do("close_fd") /\ sys' = [sys EXCEPT !.files = closed(sys.fd)] /\ Go
     \/ Do("forget_fd") /\ sys' = [sys EXCEPT !.fd = NoFd] /\ Go
     \/ Do("resume") /\ sys' = [sys EXCEPT !.mode = "run"] /\ Go
     \/ Do("suspend") /\ sys' = [sys EXCEPT !.mode = "sleep"] /\ Go
  /\ UNCHANGED <<kind, d, own, evdev, sensed, poll>>

\* sensor_xyz.c without a sysfs directory, and bma150_input.c without a rate
\* path, write nothing and return 0.
Written == kind \in Xyz \cup {"bma150_input"} => own.path

\* Steps that write to the chip. What als_enable and als_disable return is
\* not looked at.
ChipStep ==
  /\ \/ /\ Do("write_rate")
        /\ \/ /\ Written
              /\ sys' = [sys EXCEPT !.chip = [on |-> kind \in Compass /\ call.arg # -1, rate |-> call.arg]]
              /\ Go
           \/ Written /\ Fail("write_rate") /\ UNCHANGED sys
           \/ ~Written /\ Go /\ UNCHANGED sys
     \/ /\ Do("try_rate")
        /\ \/ Written /\ sys' = [sys EXCEPT !.chip.rate = call.arg] /\ Go
           \/ Go /\ UNCHANGED sys
     \/ /\ Do("interval_off")
        /\ \/ sys' = [sys EXCEPT !.chip = [on |-> FALSE, rate |-> -1]] /\ Go
           \/ Fail("interval_off") /\ UNCHANGED sys
     \/ \E step \in {"als_enable", "als_disable"} :
          /\ Do(step)
          /\ \/ sys' = [sys EXCEPT !.chip.on = (step = "als_enable")] /\ Go
             \/ Proceed(Done) /\ Recalled({"failed"}) /\ UNCHANGED sys
     \/ Do("sysals_activate") /\ sys' = [sys EXCEPT !.chip.on = TRUE] /\ Go
     \/ Do("sysals_deactivate") /\ sys' = [sys EXCEPT !.chip.on = FALSE] /\ Go
  /\ UNCHANGED <<kind, d, own, evdev, sensed, poll>>

\* The library refuses: the file is closed again and the call succeeds.
SysalsRefuses ==
  /\ Do("sysals_activate")
  /\ sys' = [sys EXCEPT !.files = @ \ {sys.newfd}, !.newfd = NoFd]
  /\ Proceed([call EXCEPT !.todo = <<>>])
  /\ evdev' = [evdev EXCEPT !.queue = <<>>]
  /\ Quiet
  /\ UNCHANGED <<kind, d, own, sensed, poll>>

\* Steps that change the driver's own fields.
cleared_average == [d EXCEPT !.i = 0, !.num = 0, !.sum = 0]
FieldStep ==
  /\ \/ Do("note") /\ own' = [own EXCEPT !.delay = call.arg] /\ Go /\ UNCHANGED d
     \/ /\ Do("clamp")
        /\ Proceed([Done EXCEPT !.arg = IF @ < MinDelay /\ @ >= 0 THEN MinDelay ELSE @])
        /\ Quiet /\ UNCHANGED <<d, own>>
     \/ /\ Do("unless_applied") /\ UNCHANGED <<d, own>>
        /\ IF call.arg = own.delay THEN Proceed([call EXCEPT !.todo = <<>>]) /\ Quiet ELSE Go
     \/ Do("find_path") /\ (\E found \in BOOLEAN : own' = [own EXCEPT !.path = found]) /\ Go /\ UNCHANGED d
     \/ /\ Do("clear_average")
        /\ d' = cleared_average /\ UNCHANGED own
        /\ Proceed(Done)
        /\ hist' = [hist EXCEPT !.put = <<>>, !.window = <<>>]
     \/ /\ Do("init_threshold")
        /\ IF d.th = "unset"
           THEN d' = [d EXCEPT !.th = "default"] /\ \E found \in BOOLEAN : own' = [own EXCEPT !.path = found]
           ELSE UNCHANGED <<d, own>>
        /\ Go
  /\ UNCHANGED <<kind, sys, evdev, sensed, poll>>

Shut(f) == evdev' = [evdev EXCEPT !.queue = IF f \in sys.files THEN <<>> ELSE @]

\* sensors_select_set_fd waits for the callback; what was not read is lost.
SetFd ==
  /\ Do("set_fd") /\ poll # "sleep"
  /\ sys' = [sys EXCEPT !.files = closed(sys.fd), !.fd = sys.newfd, !.newfd = NoFd]
  /\ Shut(sys.fd)
  /\ Recalled((IF sys.fd # NoFd THEN {"closed"} ELSE {})
              \cup (IF sys.fd # NoFd /\ evdev.queue # <<>> THEN {"dropped"} ELSE {}))
  /\ Proceed(Done)
  /\ UNCHANGED <<kind, d, own, sensed, poll>>

\* destroy joins the thread; only a select worker closes the file.
Destroy ==
  /\ Do("destroy") /\ poll = "idle"
  /\ sys' = IF kind \in Lights THEN [sys EXCEPT !.mode = "gone"]
            ELSE [sys EXCEPT !.mode = "gone", !.files = closed(sys.fd), !.fd = NoFd]
  /\ IF kind \in Lights THEN UNCHANGED evdev ELSE Shut(sys.fd)
  /\ Proceed(Done)
  /\ Quiet
  /\ UNCHANGED <<kind, d, own, sensed, poll>>

\* noa3402_get_current_distance: a failure means no report.
noa3402_get_current_distance ==
  /\ Do("get_distance")
  /\ \/ Proceed([Done EXCEPT !.arg = sensed]) /\ Quiet
     \/ Proceed([call EXCEPT !.todo = <<>>]) /\ Recalled({"unread"})
  /\ UNCHANGED <<kind, sys, d, own, evdev, sensed, poll>>

\* Mutated form: nothing is reported on enable.
not_shown == hist.shown

shown_distance == call.arg
noa3402_report_distance ==
  /\ Do("report_distance")
  /\ hist' = [hist EXCEPT !.put = <<>>, !.shown = shown_distance]
  /\ Proceed(Done)
  /\ UNCHANGED <<kind, sys, d, own, evdev, sensed, poll>>

\* ak0991x_start and ak0991x_stop. A start that fails leaves the file open;
\* a stop that fails may do so after the library has stopped.
LibraryStep ==
  /\ \/ /\ Do("start")
        /\ \/ own' = [own EXCEPT !.lib = TRUE] /\ Go /\ UNCHANGED sys
           \/ /\ Proceed(Failed("start")) /\ Recalled({"failed", "start_failed"})
              /\ sys' = [sys EXCEPT !.newfd = NoFd] /\ UNCHANGED own
     \/ /\ Do("stop") /\ UNCHANGED sys
        /\ \/ own' = [own EXCEPT !.lib = FALSE] /\ Go
           \/ (\E lib \in BOOLEAN : own' = [own EXCEPT !.lib = lib]) /\ Fail("stop")
  /\ UNCHANGED <<kind, d, evdev, sensed, poll>>

HalStep ==
  SysStep \/ LibraryStep \/ ChipStep \/ SysalsRefuses \/ FieldStep \/ SetFd \/ Destroy
    \/ noa3402_get_current_distance \/ noa3402_report_distance

(***************************************************************************)
(* The driver's thread.                                                    *)
(***************************************************************************)

Latest(w) == IF Len(w) > NR_SAMPLES THEN Tail(w) ELSE w
Windowed(events) ==
  FoldLeft(LAMBDA w, e : IF e.axis = "a" THEN Latest(Append(w, e.val)) ELSE w, hist.window, events)

\* A callback may still come between a suspend and the set_fd after it.
Read ==
  /\ kind \notin Lights
  /\ poll = "idle" /\ sys.fd # NoFd /\ evdev.queue # <<>>
  /\ sys.mode = "run" \/ ~Rest
  /\ d' = read.d
  /\ evdev' = [evdev EXCEPT !.queue = SubSeq(@, Len(Got(ReadSize)) + 1, Len(@))]
  /\ hist' = [hist EXCEPT
                !.put = read.put,
                !.shown = IF read.put = <<>> \/ kind # "noa3402" THEN @ ELSE read.put[Len(read.put)].said.a,
                !.window = IF kind = "lps331ap_input" THEN Windowed(Got(ReadSize)) ELSE @,
                !.odd = IF read.put = <<>> THEN @
                        ELSE (@ \ {"overtaken", "unread"})
                             \cup (IF Do("report_distance") THEN {"overtaken"} ELSE {})]
  /\ poll' = IF kind = "sharp_gp2" THEN "sleep" ELSE "idle"
  /\ UNCHANGED <<kind, call, on, sys, own, sensed>>

\* sensors_nsleep, with fd_mutex and wrapper_mutex held.
EndSleep ==
  /\ poll = "sleep" /\ poll' = "idle"
  /\ Quiet
  /\ UNCHANGED <<kind, call, on, sys, d, own, evdev, sensed>>

\* light_poll begins: the worker found the mode RUNNING.
BeginPoll ==
  /\ kind \in Lights /\ sys.mode = "run" /\ poll = "idle"
  /\ poll' = "poll"
  /\ Quiet
  /\ UNCHANGED <<kind, call, on, sys, d, own, evdev, sensed>>

Garbage == -1

\* pread from d->fd: what it fails to read is converted all the same.
as3676_light_poll == {<<IF sys.fd \in sys.files THEN sensed ELSE Garbage>>}
lm3533_light_poll == {<<IF sys.fd \in sys.files THEN sensed ELSE Garbage>>}

\* als_getlux_filtered may fail: then nothing is handed up.
light_poll == {<<sensed>>, <<>>}

EndPoll ==
  /\ poll = "poll"
  /\ \E lux \in CASE kind = "as3676_als" -> as3676_light_poll
                  [] kind = "lm3533_als" -> lm3533_light_poll
                  [] OTHER -> light_poll :
       hist' = [hist EXCEPT !.put = [i \in DOMAIN lux |-> [said |-> [a |-> lux[i], b |-> 0],
                                                         is |-> [a |-> sensed, b |-> 0]]]]
  /\ poll' = "idle"
  /\ UNCHANGED <<kind, call, on, sys, d, own, evdev, sensed>>

(***************************************************************************)
(* The sensor. evdev passes on the axes that changed; the compasses of     *)
(* ak896xna.c and ak0991xna*.c send raw values, always passed on. One is   *)
(* measuring while its file is open (a compass, when its interval is set). *)
(***************************************************************************)

Measuring == kind \notin Lights /\ sys.files \cap {sys.fd, sys.newfd} # {} /\ (kind \in Compass => sys.chip.on)

Measurable == IF kind \in {"lps331ap_input", "bmp180_input"} THEN Pressures ELSE Values

\* A sensor that is measuring sends one change before it sees the next.
Change ==
  /\ Measuring => sensed = evdev.a
  /\ \E v \in Measurable \ {sensed} : sensed' = v
  /\ Quiet
  /\ UNCHANGED <<kind, call, on, sys, d, own, evdev, poll>>

Axis(axis, v) ==
  IF v # evdev[axis] \/ kind \in Unfiltered THEN <<[axis |-> axis, val |-> v]>> ELSE <<>>

Deliver ==
  /\ Measuring
  /\ \E b \in (IF kind \in TwoAxes THEN Values ELSE {0}) :
       LET axes == Axis("a", sensed) \o (IF kind \in TwoAxes THEN Axis("b", b) ELSE <<>>)
           syn == [axis |-> "syn", val |-> [a |-> sensed, b |-> b]]
       IN  /\ axes # <<>>
           /\ Len(evdev.queue) + Len(axes) + 1 <= QCAP
           /\ evdev' = [a |-> sensed, b |-> b, queue |-> Append(evdev.queue \o axes, syn)]
  /\ Quiet
  /\ UNCHANGED <<kind, call, on, sys, d, own, sensed, poll>>

Next == Call \/ HalStep \/ Read \/ EndSleep \/ BeginPoll \/ EndPoll \/ Change \/ Deliver

Spec == Init /\ [][Next]_vars

(***************************************************************************)
(* Properties.                                                             *)
(***************************************************************************)

(* Every variable has its type; the ring of the average stays inside mem.  *)
TypeOK ==
  /\ kind \in Kinds /\ on \in BOOLEAN /\ sensed \in Values \cup Pressures
  /\ call.what \in {"none", "init", "enable", "disable", "set_delay", "close"} /\ call.rv \in {0, -1}
  /\ sys.fd \in Fds \cup {NoFd} /\ sys.newfd \in Fds \cup {NoFd} /\ sys.files \subseteq Fds
  /\ sys.mode \in {"none", "sleep", "run", "gone"}
  /\ d.a \in Values \cup Pressures /\ d.b \in Values /\ d.num \in 0..NR_SAMPLES /\ d.i \in 0..NR_SAMPLES - 1
  /\ d.th \in {"unset", "default", "det", "not_det"}
  /\ evdev.a \in Values \cup Pressures /\ evdev.b \in Values /\ Len(evdev.queue) <= QCAP
  /\ poll \in {"idle", "poll", "sleep"}

(* No call of any driver, however it failed, loses an open descriptor: each *)
(* is the driver's current one or is about to be. A light sensor that      *)
(* opens its own file keeps to this only if it is not enabled twice, and   *)
(* ak0991xna.c only if its library starts whenever it is enabled.          *)
FilesHeld ==
  \/ sys.files \subseteq {sys.fd, sys.newfd}
  \/ kind \in OpeningLights /\ "enabled_twice" \in hist.odd
  \/ kind = "ak0991xna" /\ "start_failed" \in hist.odd

(* What the framework was told is what the driver does: between calls an   *)
(* enabled sensor's thread runs on an open file and a disabled one's does  *)
(* not run. Only sys_als.c tells the framework it is enabled when the      *)
(* library refused, and then it has nothing open.                          *)
EnabledRuns ==
  Rest /\ sys.mode \in {"sleep", "run"} =>
    IF on
    THEN \/ sys.mode = "run" /\ (kind = "light_sensor_als" \/ sys.fd \in sys.files)
         \/ kind = "sys_als" /\ sys.mode = "sleep" /\ sys.files = {} /\ ~sys.chip.on
    ELSE sys.mode = "sleep"

(* The chip of a disabled sensor is on, and the library of ak0991xna.c     *)
(* runs, only when the last activate that did anything failed in some step *)
(* (a repeated disable of a compass does nothing any more), or a compass   *)
(* was given a delay while it was disabled.                                *)
ChipOnlyWhileEnabled ==
  Rest /\ ~on /\ sys.mode # "gone" =>
    /\ sys.chip.on => "failed" \in hist.odd \/ (kind \in Compass /\ "paced" \in hist.odd)
    /\ own.lib => "failed" \in hist.odd

(* The delay sensor_xyz.c has noted as applied is the one its device runs  *)
(* at, however many writes failed, since set_delay compares with it and    *)
(* writes nothing when it is the same. But where init found no sysfs       *)
(* directory every write succeeds and the device is never told.            *)
AppliedIsSet ==
  Rest /\ kind \in Xyz /\ own.delay # 0 => IF own.path THEN sys.chip.rate = own.delay ELSE sys.chip.rate = -1

(* An event says what the sensor measured when the packet was sent, in     *)
(* spite of packets read in parts and axes not sent because they did not   *)
(* change; but for a driver whose axes are filtered, only as long as no    *)
(* disable dropped a packet, and ak897xna.c forgets a low accuracy.        *)
ReportsSample ==
  \A i \in DOMAIN hist.put :
    LET said == hist.put[i].said
        is == hist.put[i].is
        filtered == kind \in TwoAxes \ Unfiltered
    IN  kind \notin Lights \cup {"lps331ap_input"} =>
          \/ said = is
          \/ filtered /\ "dropped" \in hist.odd
          \/ kind = "ak897xna" /\ said = [is EXCEPT !.b = High]

(* lps331ap_input.c's running sum is the sum of the pressures read since   *)
(* the enable, or of the last NR_SAMPLES of them.                          *)
AverageOfWindow ==
  kind = "lps331ap_input" =>
    d.num = Len(hist.window) /\ d.sum = FoldLeft(LAMBDA x, y : x + y, 0, hist.window)

(* lps331ap_input.c never divides by zero while it is enabled for the      *)
(* first time (from the second on, an unchanged pressure is not sent).     *)
DividesOnlyReenabled == d.zerodiv => "closed" \in hist.odd

(* When all is quiet, the last distance noa3402.c reported is the present  *)
(* one, whatever a disable dropped: unless it could not read the distance  *)
(* on enable, or its thread reported a newer one between that reading and  *)
(* its report, and nothing was reported since.                             *)
ShownIsCurrent ==
  kind = "noa3402" /\ Rest /\ on /\ evdev.queue = <<>> /\ evdev.a = sensed =>
    hist.shown = sensed \/ hist.odd \cap {"unread", "overtaken"} # {}

(* A light sensor converts a read that failed only in a poll that began    *)
(* before its worker was suspended.                                        *)
GarbageOnlyLate ==
  \A i \in DOMAIN hist.put : hist.put[i].said.a = Garbage => sys.mode # "run"

(* The device follows the framework: its thread runs, its chip is on and   *)
(* its rate is set as the driver's calls returned that they are.           *)
DeviceFollows == EnabledRuns /\ ChipOnlyWhileEnabled /\ AppliedIsSet

(* What a driver computes or keeps for its events is backed by what was    *)
(* read: averages, the distance shown last, samples of light.              *)
EventsBacked ==
  /\ TypeOK
  /\ AverageOfWindow /\ DividesOnlyReenabled
  /\ ShownIsCurrent
  /\ GarbageOnlyLate

=============================================================================
