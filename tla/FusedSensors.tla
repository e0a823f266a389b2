----------------------------- MODULE FusedSensors -----------------------------
(***************************************************************************)
(* The Android sensors of sensors/wrappers: six modules that fuse several  *)
(* drivers into two to five sensors (one of them is chosen by kind), next  *)
(* to a plain sensor that shares a driver with them. Both are clients of   *)
(* sensors_wrapper.c, which this module extends.                           *)
(*                                                                         *)
(* A fused module is one client, whatever number of its sensors is on: it  *)
(* keeps an enable_mask and the delays asked for beside the wrapper's own. *)
(* HAL calls come from one thread and are lists of steps (todo). The data  *)
(* callback runs in a driver's thread with wrapper_mutex held, but reads   *)
(* the mask, which the HAL thread writes without that mutex.               *)
(***************************************************************************)
EXTENDS SensorsWrapper

CONSTANTS
  Kinds,                    (* the fused modules considered               *)
  PlainRates,               (* bound: the plain sensor's delays, by kind  *)
  Asked,                    (* bound: the sensors used, by kind           *)
  rate_ns,                  (* the fixed rate of inemo.c                  *)
  COMPASS_DELAY,            (* the slowest rate of lsm303dlhx_compass.c   *)
  FRC_TRIGGER               (* bad samples before a new calibration: 4096 *)

(* The types of the drivers a client asks for.                            *)
Matched(d) == {Match[d][k] : k \in DOMAIN Match[d]}

ASSUME FusedAssumption ==
  /\ Kinds \subseteq Clients \cap {"ak896x", "ak897x", "ak0991x", "akm6d", "inemo", "ecompass"}
  /\ "plain" \in Clients
  /\ {rate_ns, COMPASS_DELAY} \subseteq Rates /\ PlainRates \in [Kinds -> SUBSET Rates]
  /\ FRC_TRIGGER \in Nat
  /\ "inemo" \in Kinds => Matched("inemo") = {"acc", "mag", "gyr"}
  /\ "akm6d" \in Kinds => Matched("akm6d") = {"acc", "mag"}

VARIABLES
  kind,              (* the fused module                                  *)
  call,              (* the HAL call under way: todo, its sensor, its ns  *)
  session,           (* "new", "open" or "closed"                         *)
  enable_mask,       (* its sensors whose bit is set                      *)
  delay_requests,    (* the delay each of them asks for                   *)
  exist,             (* the sample types marked as arrived since a run    *)
  threshold_counter, (* badly calibrated samples                          *)
  lib,               (* the library: "none" unless init returned 0, then  *)
                     (* "stopped", "running" or "released"                *)
  data,              (* the callback: sensors to look at, one to put, ran *)
  want,              (* history: the sensors the framework has enabled    *)
  late,              (* history: events put for a sensor not in want      *)
  unheard,           (* history: enabled since the last request           *)
  fresh,             (* history: the types delivered since the last run   *)
  strayed            (* history: what went wrong: a second event "late    *)
                     (* twice", a sample for a "stopped" library          *)

ownVars == <<enable_mask, delay_requests, exist, threshold_counter, lib>>
vars == <<wrapperVars, kind, call, session, ownVars, data, want, late, unheard, fresh, strayed>>

\* A step that calls nobody in the wrapper.
Apart == heard' = Silence /\ UNCHANGED <<entry, access, hw, rv, acted, paced, wants>>

Akm == {"ak896x", "ak897x", "ak0991x", "akm6d"}
Chips == {"ak896x", "ak897x"}

(***************************************************************************)
(* The modules. Each function is the steps it takes.                       *)
(***************************************************************************)

\* Whether sensor i is, or was, the only one.
Others(i) == enable_mask \ {i} # {}

ak896x == {"MAGNETIC", "ORIENTATION"}
\* The registers are read, or not, and the layout: nobody looks at whether.
ak896x_init == <<"wrapper_init", "AKM_Init">>
\* Mutated form: the library is stopped when any sensor is disabled.
ak896x_activate_stops(i, enable) ==
  IF enable THEN IF enable_mask # {} THEN <<"set">> ELSE <<"set", "AKM_Start", "activate">>
  ELSE IF Others(i) THEN <<"request_none", "clear", "AKM_Stop">>
       ELSE <<"request_none", "clear", "AKM_Stop", "deactivate">>

ak896x_activate(i, enable) ==
  IF enable THEN IF enable_mask # {} THEN <<"set">> ELSE <<"set", "AKM_Start", "activate">>
  ELSE IF Others(i) THEN <<"request_none", "clear">>
       ELSE <<"request_none", "clear", "AKM_Stop", "deactivate">>
ak896x_delay == <<"request">>
ak896x_close == IF enable_mask = {} THEN <<"AKM_Release", "wrapper_close">> ELSE <<>>

ak897x == {"MAGNETIC", "ORIENTATION"}
ak897x_init == <<"wrapper_init", "AKM_Init">>
ak897x_activate(i, enable) ==
  LET start == IF enable_mask = {} THEN <<"AKM_Start", "activate">> ELSE <<>>
      stop == IF Others(i) THEN <<>> ELSE <<"AKM_Stop", "deactivate">>
  IN  IF enable THEN <<"set">> \o start ELSE <<"request_none", "clear">> \o stop
ak897x_delay == <<"request">>
ak897x_close == IF enable_mask = {} THEN <<"AKM_Release", "wrapper_close">> ELSE <<>>

ak0991x == {"MAGNETIC", "MAGNETIC_UNCALIB"}
ak0991x_init == <<"wrapper_init">>
ak0991x_activate(i, enable) ==
  IF enable THEN IF enable_mask # {} THEN <<"set">> ELSE <<"set", "activate">>
  ELSE IF Others(i) THEN <<"request_none", "clear">> ELSE <<"request_none", "clear", "deactivate">>
ak0991x_delay == <<"request">>
ak0991x_close == IF enable_mask = {} THEN <<"wrapper_close">> ELSE <<>>

akm6d == {"ORIENTATION"}
akm6d_init == <<"wrapper_init">>
akm6d_activate(i, enable) ==
  IF enable THEN IF enable_mask # {} THEN <<"set">> ELSE <<"set", "activate">>
  ELSE IF Others(i) THEN <<"request_none", "clear">> ELSE <<"request_none", "clear", "deactivate">>
akm6d_delay == <<"request">>
akm6d_close == IF enable_mask = {} THEN <<"wrapper_close">> ELSE <<>>

inemo == {"GRAVITY", "LINEAR_ACCELERATION", "ROTATION_VECTOR", "ORIENTATION", "MAGNETIC"}
inemo_init == <<"Initialization", "wrapper_init">>
\* Mutated form: a disable does not look for other sensors.
inemo_activate_alone(i, enable) ==
  IF enable THEN IF enable_mask # {} THEN <<"set">> ELSE <<"set", "activate">>
  ELSE <<"clear", "deactivate">>

inemo_activate(i, enable) ==
  IF enable THEN IF enable_mask # {} THEN <<"set">> ELSE <<"set", "activate">>
  ELSE IF Others(i) THEN <<"clear">> ELSE <<"clear", "deactivate">>
inemo_delay == <<"default_rate">>
inemo_close == IF enable_mask = {} THEN <<"wrapper_close">> ELSE <<>>

ecompass == {"ORIENTATION", "MAGNETIC"}
ecompass_init == <<"Initialization", "wrapper_init">>
ecompass_activate(i, enable) ==
  IF enable THEN IF enable_mask # {} THEN <<"set">> ELSE <<"set", "activate">>
  ELSE IF Others(i) THEN <<"clear">> ELSE <<"clear", "deactivate">>
ecompass_delay == <<"limited_rate">>
ecompass_close == IF enable_mask = {} THEN <<"wrapper_close">> ELSE <<>>

Sensors ==
  CASE kind = "ak896x" -> ak896x [] kind = "ak897x" -> ak897x
    [] kind = "ak0991x" -> ak0991x [] kind = "akm6d" -> akm6d
    [] kind = "inemo" -> inemo [] kind = "ecompass" -> ecompass

init ==
  CASE kind = "ak896x" -> ak896x_init [] kind = "ak897x" -> ak897x_init
    [] kind = "ak0991x" -> ak0991x_init [] kind = "akm6d" -> akm6d_init
    [] kind = "inemo" -> inemo_init [] kind = "ecompass" -> ecompass_init

activate(i, enable) ==
  CASE kind = "ak896x" -> ak896x_activate(i, enable)
    [] kind = "ak897x" -> ak897x_activate(i, enable)
    [] kind = "ak0991x" -> ak0991x_activate(i, enable)
    [] kind = "akm6d" -> akm6d_activate(i, enable)
    [] kind = "inemo" -> inemo_activate(i, enable)
    [] kind = "ecompass" -> ecompass_activate(i, enable)

set_delay ==
  CASE kind = "ak896x" -> ak896x_delay [] kind = "ak897x" -> ak897x_delay
    [] kind = "ak0991x" -> ak0991x_delay [] kind = "akm6d" -> akm6d_delay
    [] kind = "inemo" -> inemo_delay [] kind = "ecompass" -> ecompass_delay

close ==
  CASE kind = "ak896x" -> ak896x_close [] kind = "ak897x" -> ak897x_close
    [] kind = "ak0991x" -> ak0991x_close [] kind = "akm6d" -> akm6d_close
    [] kind = "inemo" -> inemo_close [] kind = "ecompass" -> ecompass_close

(***************************************************************************)
(* The data callbacks: what a sample of a type does to exist and to the    *)
(* counter, and the sensors whose bits are looked at, in order. ok says    *)
(* that the library accepted the sample; cal that it asks for calibration. *)
(***************************************************************************)

Ignored == [exist |-> exist, counter |-> threshold_counter, todo |-> <<>>]

counted == IF threshold_counter + 1 > FRC_TRIGGER THEN 0 ELSE threshold_counter + 1

ak896xna_compass_data(type, ok, cal) ==
  IF type # "mag" THEN Ignored
  ELSE [Ignored EXCEPT !.counter = IF cal THEN counted ELSE @, !.todo = <<"MAGNETIC", "ORIENTATION">>]

ak897xna_compass_data(type, ok, cal) ==
  [Ignored EXCEPT !.counter = IF cal /\ type = "mag" THEN counted ELSE @,
                  !.todo = IF type = "mag" THEN <<"MAGNETIC", "ORIENTATION">> ELSE <<>>]

ak0991xna_compass_data(type, ok) ==
  [Ignored EXCEPT !.todo = IF type = "mag" /\ ok THEN <<"MAGNETIC", "MAGNETIC_UNCALIB">> ELSE <<>>]

\* A sample the library fails to take does not count.
akm6d_sensors_data(type, ok) ==
  LET up == exist \cup IF ok \/ type = "mag" THEN {type} ELSE {}
  IN  IF up = {"acc", "mag"} THEN [Ignored EXCEPT !.exist = {}, !.todo = <<"ORIENTATION">>]
      ELSE [Ignored EXCEPT !.exist = up]

\* Mutated form: the engine runs again with what it has.
inemo_data_kept(type) ==
  [Ignored EXCEPT !.exist = @ \cup {type},
                  !.todo = IF exist \cup {type} = {"acc", "mag", "gyr"}
                           THEN <<"GRAVITY", "LINEAR_ACCELERATION", "ROTATION_VECTOR", "ORIENTATION", "MAGNETIC">>
                           ELSE <<>>]

inemo_data(type) ==
  IF exist \cup {type} # {"acc", "mag", "gyr"} THEN [Ignored EXCEPT !.exist = @ \cup {type}]
  ELSE [Ignored EXCEPT !.exist = {},
                       !.todo = <<"GRAVITY", "LINEAR_ACCELERATION", "ROTATION_VECTOR", "ORIENTATION", "MAGNETIC">>]

ecompass_data(type, ok) ==
  [Ignored EXCEPT !.todo = IF type = "mag" /\ ok THEN <<"ORIENTATION", "MAGNETIC">> ELSE <<>>]

callback(type, ok, cal) ==
  CASE kind = "ak896x" -> ak896xna_compass_data(type, ok, cal)
    [] kind = "ak897x" -> ak897xna_compass_data(type, ok, cal)
    [] kind = "ak0991x" -> ak0991xna_compass_data(type, ok)
    [] kind = "akm6d" -> akm6d_sensors_data(type, ok)
    [] kind = "inemo" -> inemo_data(type)
    [] kind = "ecompass" -> ecompass_data(type, ok)

(***************************************************************************)
(* The HAL thread.                                                         *)
(***************************************************************************)

None == "none"
Rest == call.todo = <<>>
Do(step) == call.todo # <<>> /\ Head(call.todo) = step
NoCall == [todo |-> <<>>, sensor |-> None, ns |-> NO_RATE]
Done ==
  /\ ~Rest
  /\ call' = IF Tail(call.todo) = <<>> THEN NoCall ELSE [call EXCEPT !.todo = Tail(@)]

\* wrapper_mutex, which the callback holds to its end.
Idle == data.todo = <<>> /\ data.hold = None

Init ==
  /\ WrapperInit
  /\ kind \in Kinds
  /\ call = NoCall
  /\ session = "new"
  /\ enable_mask = {}
  /\ delay_requests = [i \in Sensors |-> NO_RATE]
  /\ exist = {} /\ threshold_counter = 0
  /\ lib = "none"
  /\ data = [todo |-> <<>>, hold |-> None, ran |-> FALSE]
  /\ want = {} /\ late = {} /\ unheard = {} /\ fresh = {} /\ strayed = {}

Begin(todo, i, ns) ==
  /\ Rest
  /\ call' = [todo |-> todo, sensor |-> i, ns |-> ns]
  /\ Apart
  /\ UNCHANGED <<kind, ownVars, data, unheard, fresh, strayed>>

\* The module's init is called once for each of its sensors; the second
\* call and the later ones return what the first did.
hal_open ==
  /\ session = "new" /\ session' = "open"
  /\ Begin(<<"plain_init">> \o init, None, NO_RATE)
  /\ UNCHANGED <<want, late>>

Usable == session = "open" /\ lib # "none"

hal_activate ==
  \E i \in (Sensors \cup {"plain"}) \cap Asked[kind], enable \in BOOLEAN :
    /\ IF i = "plain" THEN session = "open" ELSE Usable
    /\ Begin(IF i # "plain" THEN activate(i, enable)
             ELSE IF enable THEN <<"plain_activate">> ELSE <<"plain_deactivate">>, i, NO_RATE)
    /\ want' = IF enable THEN want \cup {i} ELSE want
    /\ late' = IF enable THEN late \ {i} ELSE late
    /\ UNCHANGED session

hal_set_delay ==
  \E i \in (Sensors \cup {"plain"}) \cap Asked[kind], ns \in Rates :
    /\ i = "plain" => ns \in PlainRates[kind]
    /\ IF i = "plain" THEN session = "open" ELSE Usable
    /\ Begin(IF i = "plain" THEN <<"plain_set_delay">> ELSE set_delay, i, ns)
    /\ UNCHANGED <<want, late, session>>

\* The steps of seq, n times.
Repeated(seq, n) == [k \in 1..(n * Len(seq)) |-> seq[1 + ((k - 1) % Len(seq))]]

\* sensors_module.c closes every sensor, those that are enabled too.
hal_close ==
  /\ session = "open" /\ session' = "closed"
  /\ Begin(<<"plain_close">> \o IF Usable THEN Repeated(close, Cardinality(Sensors)) ELSE <<>>,
           None, NO_RATE)
  /\ UNCHANGED <<want, late>>

\* Steps on the module's own state, without wrapper_mutex.
OwnStep ==
  /\ \/ /\ Do("set") /\ Done
        /\ enable_mask' = enable_mask \cup {call.sensor}
        /\ unheard' = IF call.sensor \in enable_mask \/ delay_requests[call.sensor] = NO_RATE
                      THEN unheard ELSE unheard \cup {call.sensor}
        /\ UNCHANGED <<lib, want>>
     \/ /\ Do("clear") /\ Done
        /\ enable_mask' = enable_mask \ {call.sensor}
        /\ unheard' = unheard \ {call.sensor}
        /\ want' = IF Tail(call.todo) = <<>> THEN want \ {call.sensor} ELSE want
        /\ UNCHANGED lib
     \/ /\ \E step \in {"AKM_Start", "AKM_Stop", "AKM_Release"} :
             /\ Do(step) /\ Done
             /\ lib' = CASE step = "AKM_Start" -> "running" [] step = "AKM_Stop" -> "stopped"
                          [] step = "AKM_Release" -> "released"
        /\ UNCHANGED <<enable_mask, unheard, want>>
     \/ /\ Do("AKM_Init") \/ Do("Initialization")
        /\ \/ /\ Done
              /\ lib' = IF Tail(call.todo) = <<>> THEN "stopped" ELSE lib
           \/ /\ call' = NoCall
              /\ UNCHANGED lib
        /\ UNCHANGED <<enable_mask, unheard, want>>
  /\ Apart
  /\ UNCHANGED <<kind, session, delay_requests, exist, threshold_counter, data, late, fresh, strayed>>

\* The smallest delay the sensors of the mask ask for.
Fastest(mask, requests) ==
  LET asked == {requests[i] : i \in mask} \ {NO_RATE}
  IN  IF asked = {} THEN NO_RATE ELSE Min(asked)

\* Mutated form: only the enabled sensor that asks is looked at.
requested_alone(i, ns) == Fastest(enable_mask \cap {i}, [delay_requests EXCEPT ![i] = ns])

requested(i, ns) == Fastest(enable_mask, [delay_requests EXCEPT ![i] = ns])

limited(ns) == IF ns > COMPASS_DELAY THEN COMPASS_DELAY ELSE ns

\* The module's calls to set_delay of the wrapper: an error is logged or
\* returned, and the request stays as it was noted.
PaceStep ==
  /\ Idle /\ Done
  /\ \E rate_ok \in Accepting(kind) :
       \/ LET ns == IF Do("request") THEN call.ns ELSE NO_RATE
          IN  /\ Do("request") \/ Do("request_none")
              /\ delay_requests' = [delay_requests EXCEPT ![call.sensor] = ns]
              /\ unheard' = {}
              /\ sensors_wrapper_set_delay(kind, requested(call.sensor, ns), rate_ok)
       \/ /\ Do("default_rate") /\ sensors_wrapper_set_delay(kind, rate_ns, rate_ok)
          /\ UNCHANGED <<delay_requests, unheard>>
       \/ /\ Do("limited_rate") /\ sensors_wrapper_set_delay(kind, limited(call.ns), rate_ok)
          /\ UNCHANGED <<delay_requests, unheard>>
  /\ UNCHANGED <<kind, session, enable_mask, exist, threshold_counter, lib, data, want, late, fresh, strayed>>

\* The module's other calls to the wrapper. An error of the drivers is
\* returned, with the bit of the mask left as it is.
WrapperStep ==
  /\ Idle
  /\ \/ \E init_ok \in Accepting(kind) :
          /\ Do("wrapper_init")
          /\ sensors_wrapper_init(kind, init_ok)
          /\ lib' = IF rv' = 0 /\ Tail(call.todo) = <<>> THEN "stopped" ELSE lib
          /\ IF rv' = 0 THEN Done ELSE call' = NoCall
          /\ UNCHANGED want
     \/ \E act_ok, rate_ok \in Accepting(kind) :
          /\ Do("activate") \/ Do("deactivate")
          /\ sensors_wrapper_activate(kind, Do("activate"), act_ok, rate_ok)
          /\ Done
          /\ want' = IF Do("activate") THEN want ELSE want \ {call.sensor}
          /\ UNCHANGED lib
     \/ Do("wrapper_close") /\ sensors_wrapper_close(kind) /\ Done /\ UNCHANGED <<lib, want>>
  /\ UNCHANGED <<kind, session, enable_mask, delay_requests, exist, threshold_counter, data,
                 late, unheard, fresh, strayed>>

(***************************************************************************)
(* The plain sensors: the api of each is the wrapper's own functions.      *)
(***************************************************************************)

PlainStep ==
  /\ Idle /\ Done
  /\ \/ \E init_ok \in Accepting("plain") : Do("plain_init") /\ sensors_wrapper_init("plain", init_ok)
     \/ \E act_ok, rate_ok \in Accepting("plain") :
          /\ Do("plain_activate") \/ Do("plain_deactivate")
          /\ sensors_wrapper_activate("plain", Do("plain_activate"), act_ok, rate_ok)
     \/ \E rate_ok \in Accepting("plain") :
          Do("plain_set_delay") /\ sensors_wrapper_set_delay("plain", call.ns, rate_ok)
     \/ Do("plain_close") /\ sensors_wrapper_close("plain")
  /\ want' = IF Do("plain_deactivate") THEN want \ {"plain"} ELSE want
  /\ UNCHANGED <<kind, session, ownVars, data, late, unheard, fresh, strayed>>

(***************************************************************************)
(* The drivers' threads.                                                   *)
(***************************************************************************)

Fuses == kind \in {"inemo", "akm6d"}

\* A plain sensor puts its event at once.
Sample(s) ==
  /\ Idle
  /\ sensors_wrapper_data(s)
  /\ IF kind \in heard'.to
     THEN \E ok, cal \in BOOLEAN :
            LET after == callback(Type[s], ok, cal)
            IN  /\ cal => kind \in Chips
                /\ exist' = after.exist
                /\ threshold_counter' = after.counter
                /\ data' = [todo |-> after.todo, hold |-> None, ran |-> Fuses /\ after.todo # <<>>]
                /\ fresh' = IF Fuses /\ after.todo = <<>> THEN fresh \cup {Type[s]} ELSE {}
                /\ strayed' = IF kind \in Chips /\ lib # "running" /\ Rest
                              THEN strayed \cup {"stopped"} ELSE strayed
     ELSE UNCHANGED <<exist, threshold_counter, data, fresh, strayed>>
  /\ UNCHANGED <<kind, call, session, enable_mask, delay_requests, lib, want, late, unheard>>

bit(i) == i \in enable_mask

\* One look at a bit of the mask. akm6d's vector may then not be had.
Look ==
  LET i == Head(data.todo)
  IN  /\ data.todo # <<>> /\ data.hold = None
      /\ \E got \in BOOLEAN :
           /\ got \/ kind = "akm6d"
           /\ data' = [data EXCEPT !.todo = Tail(@), !.ran = FALSE,
                                   !.hold = IF bit(i) /\ got THEN i ELSE None]
      /\ Apart
      /\ UNCHANGED <<kind, call, session, ownVars, want, late, unheard, fresh, strayed>>

Put ==
  LET i == data.hold
  IN  /\ i # None
      /\ data' = [data EXCEPT !.hold = None]
      /\ late' = IF i \in want THEN late ELSE late \cup {i}
      /\ strayed' = IF i \in late \ want THEN strayed \cup {"late twice"} ELSE strayed
      /\ Apart
      /\ UNCHANGED <<kind, call, session, ownVars, want, unheard, fresh>>

Next ==
  \/ hal_open \/ hal_activate \/ hal_set_delay \/ hal_close
  \/ OwnStep \/ PaceStep \/ WrapperStep \/ PlainStep
  \/ \E s \in Drivers : Sample(s)
  \/ Look \/ Put

Spec == Init /\ [][Next]_vars

(***************************************************************************)
(* Properties.                                                             *)
(***************************************************************************)

AndroidSensors == UNION {ak896x, ak897x, ak0991x, akm6d, inemo, ecompass}
Types == {Type[s] : s \in Drivers}
Steps == {"plain_init", "plain_activate", "plain_deactivate", "plain_set_delay", "plain_close",
          "wrapper_init", "activate", "deactivate", "wrapper_close", "set", "clear",
          "request", "request_none", "default_rate", "limited_rate",
          "AKM_Init", "Initialization", "AKM_Start", "AKM_Stop", "AKM_Release"}

(* Every variable has its type; the counter of bad samples of ak896xna and *)
(* ak897xna never passes FRC_TRIGGER, where it forces a calibration.       *)
TypeOK ==
  /\ kind \in Kinds
  /\ call.todo \in Seq(Steps) /\ call.sensor \in AndroidSensors \cup {"plain", None}
  /\ call.ns \in Rates \cup {NO_RATE}
  /\ session \in {"new", "open", "closed"}
  /\ enable_mask \subseteq Sensors /\ delay_requests \in [Sensors -> Rates \cup {NO_RATE}]
  /\ exist \subseteq Types /\ fresh \subseteq Types
  /\ threshold_counter \in 0..FRC_TRIGGER
  /\ lib \in {"none", "stopped", "running", "released"}
  /\ data.hold \in AndroidSensors \cup {None} /\ data.ran \in BOOLEAN
  /\ want \subseteq Sensors \cup {"plain"}
  /\ late \subseteq Sensors /\ unheard \subseteq Sensors
  /\ strayed \subseteq {"late twice", "stopped"}

(* Between calls, and whatever the drivers refused, the module's client    *)
(* has the wrapper's last word for an enable exactly while some bit of the *)
(* mask is set: each of several sensors turns its shared drivers on or     *)
(* leaves them on, and only the last one turns them off.                   *)
ClientFollowsMask == Rest => (kind \in wants <=> enable_mask # {})

(* So a driver that accepted its last activate runs exactly while a sensor *)
(* it serves is enabled, be it one of the fused ones or the plain one.     *)
DriversFollowSensors ==
  Rest /\ session = "open" =>
    \A s \in Drivers : acted[s] =>
      (hw[s].on <=> \/ s \in At(kind) /\ enable_mask # {}
                    \/ s \in At("plain") /\ "plain" \in want)

(* The rate the client asks of its drivers is the smallest that an enabled *)
(* sensor asks for, but for sensors enabled since the last request: what   *)
(* they asked for while disabled is applied only with the next request     *)
(* (ak896xna_sensors.c:354). inemo asks for its own rate, ecompass for no  *)
(* slower one than the library stands. A driver that accepted its last     *)
(* set_delay is no slower than that, whatever was refused before and       *)
(* whoever has come, gone or changed its mind since; one that refused it   *)
(* keeps its rate until a request changes the smallest again.              *)
PacedForAll ==
  LET asked(s) == entry[s].rate[access[kind][s]]
  IN  Rest /\ session = "open" => \A s \in At(kind) :
        /\ kind \in Akm => asked(s) = Fastest(enable_mask \ unheard, delay_requests)
        /\ kind = "inemo" => asked(s) \in {NO_RATE, rate_ns}
        /\ kind = "ecompass" => asked(s) <= COMPASS_DELAY
        /\ asked(s) # NO_RATE /\ paced[s] => hw[s].delay # NO_RATE /\ hw[s].delay <= asked(s)

(* The callback reads the mask without a lock the disable would take: a    *)
(* disabled sensor of the module may yet get one event, and only one.      *)
OneLateEvent == "late twice" \notin strayed

(* Each run of inemo's engine, and of akm6d's, takes a sample of every     *)
(* driver that no run has taken before, in whatever order they come.       *)
NoSampleTwice ==
  [][\A s \in Drivers :
       Fuses /\ ~data.ran /\ data'.ran /\ heard'.from = s
         => fresh \cup {Type[s]} = Matched(kind)]_vars

(* The AKM library runs exactly while a sensor is enabled, and gets no     *)
(* sample while it does not, except during the call that stops it: AKM_Stop*)
(* comes before the drivers are stopped.                                   *)
LibraryFollowsMask ==
  /\ "stopped" \notin strayed
  /\ Rest /\ kind \in Chips /\ session = "open" => (lib = "running" <=> enable_mask # {})

(* After the HAL closed, a driver is closed if the plain sensor was its    *)
(* only client or the module had no sensor enabled. It stays open if one   *)
(* was (nobody disables it), or if init failed after it had been attached  *)
(* (no close is called then).                                              *)
ClosedWhenIdle ==
  Rest /\ session = "closed" => \A s \in Drivers :
    hw[s].closed <=> /\ s \in At(kind) \cup At("plain")
                     /\ s \in At(kind) => lib # "none" /\ enable_mask = {}

(* The shared drivers follow the fused sensors, from the enable of the     *)
(* first to the disable of the last and the close.                         *)
DriversFollow == TypeOK /\ ClientFollowsMask /\ DriversFollowSensors /\ ClosedWhenIdle

(* Neither an event nor a sample for the library comes at a time when the  *)
(* sensor, or the library, is off: but for one late event.                 *)
NothingStray == OneLateEvent /\ LibraryFollowsMask

=============================================================================
