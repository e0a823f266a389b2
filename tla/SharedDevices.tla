--------------------------- MODULE SharedDevices ---------------------------
(***************************************************************************)
(* The drivers that serve several sensors from one device file and one     *)
(* select worker: the compass of ak897x.c, which also asks the driver of   *)
(* the accelerometer (bma250_input.c or bma150_input.c) for a rate, and    *)
(* mpu3050.c in front of its library. One of them is chosen by kind.       *)
(*                                                                         *)
(* A call of the HAL is a list of steps (call.todo). The driver's thread   *)
(* runs between any two of them; it looks at a sensor's active flag and    *)
(* puts the event in two steps, since activate writes the flag without the *)
(* lock of the read. A callback runs with fd_mutex held, so a set_fd waits *)
(* for it (SensorsSelect).                                                 *)
(***************************************************************************)
EXTENDS Integers, Sequences, FiniteSets, SequencesExt, FiniteSetsExt

CONSTANTS
  Kinds,       (* the compositions considered, of AllKinds                 *)
  Rates,       (* the delays asked for in ns; 0 among them: the compasses  *)
               (* give the framework no minDelay                           *)
  Sending,     (* bound: those of Kinds whose device sends packets         *)
  OPENS        (* bound: how often the HAL is opened, of each of Kinds     *)

AllKinds == {"ak897x_bma250", "ak897x_bma150", "ak897x", "mpu3050"}

ASSUME SharedAssumption == Kinds \subseteq AllKinds /\ Sending \subseteq Kinds /\ Rates \subseteq Nat /\ OPENS \in [Kinds -> Nat]

VARIABLES
  kind,    (* the composition                                              *)
  hal,     (* opens so far; listed, the sensors not dropped from the list; *)
           (* toInit, those the open has still to come to; up, those that  *)
           (* may be called; want, those the framework holds for enabled;  *)
           (* acc, what the opens made of the accelerometer's driver       *)
  call,    (* the HAL call: its sensor, ns, steps (todo) and what was      *)
           (* opened (file)                                                *)
  worker,  (* select_worker: mode, open (fd is not -1), threads running    *)
  comp,    (* the composition: the sensors noted as init and active, and   *)
           (* mpu_activated                                                *)
  lib,     (* the sensors enabled in the library of the mpu3050            *)
  acc,     (* the accelerometer: requests of Android (0) and the compass   *)
           (* (1), the compass's handle, rate (ms; Unknown after a write   *)
           (* that failed)                                                 *)
  reader,  (* the callback: the sensors it has still to look at, and the   *)
           (* one whose event it is about to put                           *)
  hist     (* history: left, the sensors whose flag outlived a failed      *)
           (* enable or a close; lastAsk, the last delay asked for by an   *)
           (* orientation sensor with one enabled; idleAsk, one was asked  *)
           (* for with none enabled; late, those that put an event since   *)
           (* their disable; odd, what went wrong so far                   *)

vars == <<kind, hal, call, worker, comp, lib, acc, reader, hist>>

None == "none"
NoCall == [sensor |-> None, ns |-> 0, todo |-> <<>>, file |-> FALSE]
Rest == call.todo = <<>>
Crashed == "crash" \in hist.odd

ak897x_compass == <<"orientation", "orientation_raw", "magnetic">>
mpu3050_Gyro == <<"rotation_v", "linear_accl", "gravity", "gyro">>
Orientations == {"orientation", "orientation_raw"}

Mpu == kind = "mpu3050"
Composition == IF Mpu THEN mpu3050_Gyro ELSE ak897x_compass
Members == ToSet(Composition)

(***************************************************************************)
(* The accelerometer's side: delay_requests of bma250_input.c (in ns) and  *)
(* bma150_input.c (in microseconds).                                       *)
(***************************************************************************)

CLIENT_ANDROID == 0
MAX_CLIENTS == 2
minDelay == 5000
Unknown == -1
Bma250 == kind = "ak897x_bma250"
VALID_HANDLE(h) == h > CLIENT_ANDROID /\ h < MAX_CLIENTS
Stored(ns) == IF Bma250 THEN ns ELSE ns \div 1000

WithAcc == kind \in {"ak897x_bma250", "ak897x_bma150"}

\* An init that does not find the device returns before the worker and the
\* files are set up, and the driver is dropped from the list; what an earlier
\* init set up stays.
bma_input_init(found) ==
  CASE hal.acc \in {None, "missing", "dropped"} -> hal.acc
    [] hal.acc = "new" -> IF found THEN "ready" ELSE "missing"
    [] hal.acc = "ready" -> IF found THEN "ready" ELSE "dropped"

AccSetUp == hal.acc \in {"ready", "dropped"}

\* The smallest request, Android's also when it is none; but minDelay, which
\* is in microseconds, at least.
config_delay(requests) ==
  LET made == {requests[i] : i \in {j \in DOMAIN requests : requests[j] > 0}}
  IN  Max({minDelay, Min(made \cup {requests[CLIENT_ANDROID]})})

bma250_rate(requests) == config_delay(requests) \div 1000000
bma150_rate(requests) == config_delay(requests) \div 1000

\* What the driver then writes, where it knows of a file; the caller hears of
\* no failure.
Requested(requests, handle) ==
  \E ok \in {FALSE, AccSetUp} :
    acc' = [requests |-> requests, handle |-> handle,
            rate |-> IF ~ok THEN Unknown
                     ELSE IF Bma250 THEN bma250_rate(requests) ELSE bma150_rate(requests)]

fw_delay(ns) == Requested([acc.requests EXCEPT ![CLIENT_ANDROID] = Stored(ns)], acc.handle)

handle_released == -1

\* Without a request to release, or a slot that is free, nothing is stored:
\* a request stored at handle -1 would be outside the array.
request_delay(ns) ==
  LET h == acc.handle
      store(slot, handle) == Requested([acc.requests EXCEPT ![slot] = Stored(ns)], handle)
  IN  CASE Stored(ns) = 0 /\ VALID_HANDLE(h) -> store(h, handle_released)
        [] Stored(ns) = 0 /\ ~VALID_HANDLE(h) -> UNCHANGED acc
        [] Stored(ns) # 0 /\ VALID_HANDLE(h) -> store(h, h)
        [] OTHER -> IF acc.requests[1] = 0 THEN store(1, 1)
                    ELSE acc' = [acc EXCEPT !.handle = -2]

\* bma250_input_set_delay goes through the worker, to null if it was never
\* set up. bma150_input.c's does not.
NullCall(ns) == Bma250 /\ ~AccSetUp /\ (Stored(ns) # 0 \/ VALID_HANDLE(acc.handle))

dummy_acc_delay == UNCHANGED acc
request_acc_delay(ns) == IF ~WithAcc THEN dummy_acc_delay ELSE request_delay(ns)

(***************************************************************************)
(* The steps of activate and set_delay.                                    *)
(***************************************************************************)

Others(m) == comp.active \ {m}

\* Mutated form: only the sensor at hand is asked about.
others_forgotten(m) == {}

still_active(m) == Others(m)

\* Mutated form: the request is released with any of the sensors.
released_with_any(m) == TRUE

released_with(m) == Others(m) \cap Orientations = {}

ak897x_activate(m, enable) ==
  IF enable
  THEN <<"active">> \o (IF worker.open THEN <<>> ELSE <<"open", "set_fd", "resume">>)
  ELSE <<"inactive">>
       \o (IF worker.open /\ still_active(m) = {} THEN <<"suspend", "set_fd">> ELSE <<>>)
       \o (IF released_with(m) THEN <<"release_acc">> ELSE <<>>)

ak897x_set_delay(m) == (IF m \in Orientations THEN <<"request_acc">> ELSE <<>>) \o <<"worker_delay">>

mpu3050_activate(m, enable) ==
  IF enable
  THEN <<"lib_enable", "active">>
       \o (IF comp.activated THEN <<>> ELSE <<"lib_open", "activated", "set_fd", "resume">>)
  ELSE <<"lib_disable", "inactive">>
       \o (IF comp.activated /\ still_active(m) = {} THEN <<"deactivated", "suspend", "set_fd">> ELSE <<>>)

mpu3050_set_delay(m) == <<"lib_delay">>

activate(m, enable) == IF Mpu THEN mpu3050_activate(m, enable) ELSE ak897x_activate(m, enable)
set_delay(m) == IF Mpu THEN mpu3050_set_delay(m) ELSE ak897x_set_delay(m)

Init ==
  /\ kind \in Kinds
  /\ hal = [opens |-> 0, listed |-> Members, toInit |-> {}, up |-> {}, want |-> {},
            acc |-> IF WithAcc THEN "new" ELSE None]
  /\ call = NoCall
  /\ worker = [mode |-> None, open |-> FALSE, threads |-> 0]
  /\ comp = [init |-> {}, active |-> {}, activated |-> FALSE]
  /\ lib = {}
  /\ acc = [requests |-> [i \in 0..MAX_CLIENTS - 1 |-> 0], handle |-> -1, rate |-> Unknown]
  /\ reader = [todo |-> <<>>, put |-> None]
  /\ hist = [left |-> {}, lastAsk |-> 0, idleAsk |-> FALSE, late |-> {}, odd |-> {}]

(***************************************************************************)
(* The HAL thread: opens, which initialise every listed sensor, and calls. *)
(***************************************************************************)

Free == Rest /\ hal.toInit = {} /\ ~Crashed

\* A second open finds the sensors as the first one left them: the module's
\* close calls no driver. The accelerometer's init may come anywhere among
\* the others, none of which asks it for anything: it is taken to be first.
Open ==
  /\ Free /\ hal.opens < OPENS[kind]
  /\ \E found \in BOOLEAN :
       hal' = [hal EXCEPT !.opens = @ + 1, !.toInit = hal.listed, !.acc = bma_input_init(found)]
  /\ UNCHANGED <<kind, call, worker, comp, lib, acc, reader, hist>>

\* Mutated form: the flags are read after the sensor's own was set.
none_after_noted(m) == FALSE

NoneInited(m) == comp.init = {}

Created == worker' = [mode |-> "sleep", open |-> FALSE, threads |-> worker.threads + 1]

\* The device is looked for in every call.
ak897x_init(m, found) ==
  /\ comp' = [comp EXCEPT !.init = @ \cup {m}]
  /\ IF found /\ NoneInited(m) THEN Created ELSE UNCHANGED worker
  /\ UNCHANGED lib

mpu3050_init(m) ==
  /\ comp' = [comp EXCEPT !.init = {m}]
  /\ IF comp.init = {} THEN Created /\ lib' = {} ELSE UNCHANGED <<worker, lib>>

\* The list is gone through in its order.
InitSensor ==
  /\ \E i \in DOMAIN Composition, found \in BOOLEAN :
       LET m == Composition[i]
       IN  /\ m \in hal.toInit /\ \A j \in 1..i - 1 : Composition[j] \notin hal.toInit
           /\ IF Mpu THEN found /\ mpu3050_init(m) ELSE ak897x_init(m, found)
           /\ hal' = [hal EXCEPT !.toInit = @ \ {m},
                                 !.up = IF found THEN @ \cup {m} ELSE @ \ {m},
                                 !.listed = IF found THEN @ ELSE @ \ {m},
                                 !.want = IF found THEN @ ELSE @ \ {m}]
           /\ hist' = [hist EXCEPT !.odd = IF found THEN @ ELSE @ \cup {"missing"},
                                   !.left = IF found THEN @ ELSE @ \cup (comp.active \cap {m})]
  /\ UNCHANGED <<kind, call, acc, reader>>

\* What becomes of the other delays no property asks.
Begin ==
  /\ Free
  /\ \E m \in hal.up :
       \/ \E todo \in {activate(m, TRUE), activate(m, FALSE)} : call' = [NoCall EXCEPT !.sensor = m, !.todo = todo]
       \/ \E ns \in (IF m \in Orientations THEN Rates ELSE {0}) :
            call' = [sensor |-> m, ns |-> ns, todo |-> set_delay(m), file |-> FALSE]
  /\ UNCHANGED <<kind, hal, worker, comp, lib, acc, reader, hist>>

\* bma250_input.c's and bma150_input.c's set_delay, called by the framework.
AndroidDelay ==
  /\ Free /\ hal.acc = "ready"
  /\ \E ns \in Rates : fw_delay(ns)
  /\ UNCHANGED <<kind, hal, call, worker, comp, lib, reader, hist>>

Do(step) == ~Crashed /\ call.todo # <<>> /\ Head(call.todo) = step
Done == call' = IF Tail(call.todo) = <<>> THEN NoCall ELSE [call EXCEPT !.todo = Tail(@)]

\* What the framework holds after the last step of a call.
Now(active) == IF Tail(call.todo) # <<>> THEN hal.want
               ELSE IF active THEN hal.want \cup {call.sensor} ELSE hal.want \ {call.sensor}
Enabling == call.sensor \in comp.active
Returned == hal' = [hal EXCEPT !.want = Now(Enabling)]

\* activate writes the flag before anything else.
FlagStep ==
  /\ Do("active") \/ Do("inactive")
  /\ LET m == call.sensor
         active == IF Do("active") THEN comp.active \cup {m} ELSE comp.active \ {m}
     IN  /\ comp' = [comp EXCEPT !.active = active]
         /\ hal' = [hal EXCEPT !.want = Now(Do("active"))]
         /\ hist' = [hist EXCEPT !.left = @ \ {m}, !.late = @ \ {m},
                                 !.lastAsk = IF active \cap Orientations = {} THEN 0 ELSE @]
  /\ Done
  /\ UNCHANGED <<kind, worker, lib, acc, reader>>

Crashes == hist' = [hist EXCEPT !.odd = @ \cup {"crash"}]
Unset == worker.mode \in {None, "gone"}
Alive == ~Unset /\ UNCHANGED hist

\* A call through a worker that is not set up goes through a null pointer, or
\* into what destroy has left.
WorkerStep ==
  /\ \/ /\ Do("set_fd") /\ reader.todo = <<>> /\ reader.put = None
        /\ worker' = [worker EXCEPT !.open = call.file] /\ Alive
     \/ Do("resume") /\ worker' = [worker EXCEPT !.mode = "run"] /\ Alive
     \/ Do("suspend") /\ worker' = [worker EXCEPT !.mode = "sleep"] /\ Alive
     \/ Do("worker_delay") /\ UNCHANGED worker /\ Alive
     \/ /\ \E step \in {"open", "worker_delay"} : Do(step)
        /\ Unset /\ UNCHANGED worker /\ Crashes
  /\ Done
  /\ IF Do("worker_delay") THEN UNCHANGED hal ELSE Returned
  /\ UNCHANGED <<kind, comp, lib, acc, reader>>

\* ak897x.c: an open that fails ends the call, with the flag left set.
OpenStep ==
  /\ Do("open") /\ ~Unset
  /\ \/ call' = [call EXCEPT !.todo = Tail(@), !.file = TRUE] /\ UNCHANGED hist /\ UNCHANGED hal
     \/ /\ call' = NoCall
        /\ hist' = [hist EXCEPT !.left = @ \cup {call.sensor}]
        /\ hal' = [hal EXCEPT !.want = @ \ {call.sensor}]
  /\ UNCHANGED <<kind, worker, comp, lib, acc, reader>>

OddAfter(ns) == IF NullCall(ns) THEN hist.odd \cup {"crash"} ELSE hist.odd

\* The compass's requests. What they return is only logged.
AccStep ==
  /\ \/ /\ Do("request_acc") /\ request_acc_delay(call.ns)
        /\ hist' = IF comp.active \cap Orientations # {}
                   THEN [hist EXCEPT !.lastAsk = call.ns, !.idleAsk = call.ns > 0 /\ @, !.odd = OddAfter(call.ns)]
                   ELSE [hist EXCEPT !.idleAsk = call.ns > 0, !.odd = OddAfter(call.ns)]
        /\ UNCHANGED hal
     \/ /\ Do("release_acc") /\ request_acc_delay(0)
        /\ hist' = [hist EXCEPT !.idleAsk = FALSE, !.odd = OddAfter(0)]
        /\ Returned
  /\ Done
  /\ UNCHANGED <<kind, worker, comp, lib, reader>>

\* mpu3050.c's calls of its library; what call_open_fd returns is not checked.
LibStep ==
  /\ \/ Do("lib_enable") /\ lib' = lib \cup {call.sensor} /\ Done /\ UNCHANGED <<comp, hist>>
     \/ Do("lib_disable") /\ lib' = lib \ {call.sensor} /\ Done /\ UNCHANGED <<comp, hist>>
     \/ Do("lib_delay") /\ Done /\ UNCHANGED <<lib, comp, hist>>
     \/ /\ Do("lib_open") /\ UNCHANGED <<lib, comp>>
        /\ \E ok \in BOOLEAN :
             /\ call' = [call EXCEPT !.todo = Tail(@), !.file = ok]
             /\ hist' = [hist EXCEPT !.odd = IF ok THEN @ \ {"no file"} ELSE @ \cup {"no file"}]
     \/ /\ Do("activated") \/ Do("deactivated")
        /\ comp' = [comp EXCEPT !.activated = Do("activated")]
        /\ Done /\ UNCHANGED <<lib, hist>>
  /\ UNCHANGED <<kind, hal, worker, acc, reader>>

last(m) == comp.init \subseteq {m}

ak897x_close(m) ==
  /\ comp' = [comp EXCEPT !.init = @ \ {m}]
  /\ IF last(m)
     THEN /\ reader.todo = <<>> /\ reader.put = None
          /\ worker' = [mode |-> "gone", open |-> FALSE, threads |-> worker.threads - 1]
     ELSE UNCHANGED worker
  /\ UNCHANGED lib

\* The library is closed, with whichever sensor comes first; the worker stays.
mpu3050_close(m) ==
  /\ comp' = [comp EXCEPT !.init = {}]
  /\ UNCHANGED <<worker, lib>>

\* The drivers' close. The sensor is not called again before an open.
Close ==
  /\ Free
  /\ \E m \in hal.up :
       /\ IF Mpu THEN mpu3050_close(m) ELSE ak897x_close(m)
       /\ hal' = [hal EXCEPT !.up = @ \ {m}, !.want = @ \ {m}]
       /\ hist' = [hist EXCEPT !.left = @ \cup (comp.active \cap {m}), !.odd = @ \cup {"closed"}]
  /\ UNCHANGED <<kind, call, acc, reader>>

(***************************************************************************)
(* The driver's thread.                                                    *)
(***************************************************************************)

\* A packet has come: the compass looks at each of its sensors, the library
\* gives an event of each sensor enabled in it.
given(m) == IF m \in lib THEN <<m>> ELSE <<>>
mpu3050_read == given("rotation_v") \o given("linear_accl") \o given("gravity") \o given("gyro")
ak897x_read == <<"magnetic", "orientation_raw", "orientation">>

BeginRead ==
  /\ kind \in Sending /\ worker.open /\ ~Crashed /\ reader.todo = <<>> /\ reader.put = None
  /\ worker.mode = "run" \/ ~Rest
  /\ reader' = [reader EXCEPT !.todo = IF Mpu THEN mpu3050_read ELSE ak897x_read]
  /\ UNCHANGED <<kind, hal, call, worker, comp, lib, acc, hist>>

asks_for(m) == Mpu \/ m \in comp.active

Look ==
  /\ reader.todo # <<>> /\ reader.put = None /\ ~Crashed
  /\ LET m == Head(reader.todo)
     IN  reader' = [todo |-> Tail(reader.todo), put |-> IF asks_for(m) THEN m ELSE None]
  /\ UNCHANGED <<kind, hal, call, worker, comp, lib, acc, hist>>

\* sensors_fifo_put.
Put ==
  /\ reader.put # None /\ ~Crashed
  /\ LET m == reader.put
         stray == m \notin hal.want /\ m \notin hist.left /\ ~(call.sensor = m /\ ~Rest)
     IN  hist' = IF ~stray THEN hist
                 ELSE IF m \in hist.late THEN [hist EXCEPT !.odd = @ \cup {"late twice"}]
                 ELSE [hist EXCEPT !.late = @ \cup {m}]
  /\ reader' = [reader EXCEPT !.put = None]
  /\ UNCHANGED <<kind, hal, call, worker, comp, lib, acc>>

Next ==
  Open \/ InitSensor \/ Begin \/ AndroidDelay \/ FlagStep \/ WorkerStep \/ OpenStep \/ AccStep
    \/ LibStep \/ Close \/ BeginRead \/ Look \/ Put

Spec == Init /\ [][Next]_vars

(***************************************************************************)
(* Properties.                                                             *)
(***************************************************************************)

(* Every variable has its type; a handle is the compass's slot or none.    *)
TypeOK ==
  /\ kind \in Kinds
  /\ hal.opens \in 0..OPENS[kind] /\ hal.listed \subseteq Members
  /\ hal.acc \in {None, "new", "ready", "missing", "dropped"}
  /\ hal.up \subseteq hal.listed /\ hal.want \subseteq hal.up
  /\ call.sensor \in Members \cup {None} /\ call.ns \in Rates \cup {0} /\ call.file \in BOOLEAN
  /\ worker.mode \in {None, "sleep", "run", "gone"} /\ worker.open \in BOOLEAN /\ worker.threads \in 0..OPENS[kind]
  /\ comp.init \subseteq Members /\ comp.active \subseteq Members /\ comp.activated \in BOOLEAN
  /\ lib \subseteq Members /\ acc.handle \in {-1, 1}
  /\ reader.put \in Members \cup {None} /\ hist.left \subseteq Members /\ hist.late \subseteq Members

(* The shared worker runs on an open file while any of its sensors is      *)
(* enabled, whoever was disabled, refused or closed meanwhile, and runs    *)
(* for nobody else but a sensor whose last enable failed, or that was      *)
(* closed or dropped enabled: its flag is left set. mpu3050.c runs without *)
(* a file when its library gave none, and not at all after a close.        *)
RunsWhileWanted ==
  Rest /\ ~Crashed =>
    /\ hal.want # {} =>
         \/ worker.mode = "run" /\ (worker.open \/ (Mpu /\ "no file" \in hist.odd))
         \/ Mpu /\ "closed" \in hist.odd
    /\ worker.mode = "run" => hal.want \cup hist.left # {}

(* Since its disable returned a sensor has put at most one event, the one  *)
(* the callback under way had decided on; one whose flag was left set may  *)
(* put more.                                                               *)
OneLateEvent == "late twice" \notin hist.odd

(* The compass holds a handle exactly while its slot holds a request, and  *)
(* never finds the slot taken: no request is stored outside the array.     *)
HandleIsRequest == (acc.handle = 1 <=> acc.requests[1] # 0) /\ acc.handle # -2

(* The last delay asked for by an enabled orientation sensor stays with    *)
(* the accelerometer until the last of them is disabled, whatever the      *)
(* other sensors and Android do; with none enabled nothing is asked but    *)
(* what a disabled one asked for since.                                    *)
RequestWhileOriented ==
  WithAcc =>
    /\ hist.lastAsk > 0 => acc.requests[1] = Stored(hist.lastAsk)
    /\ Rest /\ comp.active \cap Orientations = {} /\ acc.requests[1] # 0 => hist.idleAsk

(* The rate last written serves every request: it is no slower, or is      *)
(* minDelay. bma150_input.c never goes below minDelay; bma250_input.c does *)
(* (it compares nanoseconds with microseconds).                            *)
AccServesAll ==
  acc.rate # Unknown =>
    /\ \A i \in DOMAIN acc.requests :
         LET unit == IF Bma250 THEN 1000000 ELSE 1000
         IN  acc.requests[i] > 0 => acc.rate * unit <= Max({acc.requests[i], minDelay})
    /\ ~Bma250 => acc.rate * 1000 >= minDelay

(* A worker is used before it is set up in two cases only: the first       *)
(* sensor of the composition was not found and a later one was, for the    *)
(* flag that says the worker has been set up is noted before the device is *)
(* looked for; or bma250_input.c never found its accelerometer and an      *)
(* orientation sensor asked it for a rate. No second open brings another.  *)
CrashesOnlyIfMissing ==
  Crashed => \/ Head(Composition) \notin hal.listed
             \/ hal.acc = "missing" /\ Bma250 /\ acc.requests[1] # 0

(* A composition has one thread at most, and none when its sensors have    *)
(* all been closed, unless one that was not found holds on to it;          *)
(* mpu3050.c ends none, and starts another after a close.                  *)
OneThread ==
  \/ worker.threads <= 1 /\ (hal.up = {} /\ hal.toInit = {} /\ "missing" \notin hist.odd => worker.threads = 0)
  \/ Mpu /\ "closed" \in hist.odd

(* The one worker of a composition serves all of its sensors, and none     *)
(* that is disabled.                                                       *)
WorkerServes == TypeOK /\ RunsWhileWanted /\ OneLateEvent /\ OneThread

(* The requests to the accelerometer are kept for the compass as long as   *)
(* it needs them, and the rate written serves them all.                    *)
RequestsServed == HandleIsRequest /\ RequestWhileOriented /\ AccServesAll

=============================================================================
