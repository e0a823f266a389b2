----------------------------- MODULE SensorsHal -----------------------------
(***************************************************************************)
(* The HAL device of sensors_module.c over the sensor list of              *)
(* sensors_list.c: constructors register sensors, open initialises each    *)
(* and drops those that fail while it walks the list, requests are routed  *)
(* by handle, and the device may be closed and opened again.               *)
(*                                                                         *)
(* The framework calls the device from one thread. Several sensors may     *)
(* have one handle: a product enables all the accelerometers it may have.  *)
(***************************************************************************)
EXTENDS Integers, Sequences, SequencesExt

CONSTANTS
  Apis,               (* the sensors that may be compiled in              *)
  Handle,             (* the handle of each                               *)
  Clients,            (* those whose init is sensors_wrapper_init (not    *)
                      (* the fused ones, which remember its result)       *)
  Absent,             (* those whose device may be missing at an open     *)
  DASH_MAX_SENSORS,
  MAX_OPENS           (* bound: how often the device is opened            *)

Indices == 1..DASH_MAX_SENSORS
Handles == {Handle[s] : s \in Apis}

ASSUME HalAssumption ==
  /\ DASH_MAX_SENSORS \in Nat
  /\ MAX_OPENS \in Nat
  /\ Handle \in [Apis -> Nat]
  /\ Clients \subseteq Apis /\ Absent \subseteq Apis

VARIABLES
  phase,              (* "loading", "closed", "opening" or "open"         *)
  sensors,            (* sensors[i].handle, counted from 1                *)
  sensor_apis,
  number_of_sensors,
  at,                 (* i + 1, the index of foreach_api                  *)
  reply,              (* the last request and the sensor it reached       *)
  opens,              (* history: how often the device was opened         *)
  registered,         (* history: what the list held when open began      *)
  inits,              (* history: how often each was initialised by it    *)
  failed              (* history: those that failed in it                 *)

halVars == <<phase, sensors, sensor_apis, number_of_sensors, at, reply, opens,
             registered, inits, failed>>

NoApi == "NULL"
NoHandle == -1
NoReply == [handle |-> NoHandle, api |-> NoApi]

Listed == [k \in 1..number_of_sensors |-> sensor_apis[k]]

Init ==
  /\ phase = "loading"
  /\ sensors = [k \in Indices |-> NoHandle]
  /\ sensor_apis = [k \in Indices |-> NoApi]
  /\ number_of_sensors = 0
  /\ at = 1
  /\ reply = NoReply
  /\ opens = 0
  /\ registered = <<>>
  /\ inits = [s \in Apis |-> 0]
  /\ failed = {}

(***************************************************************************)
(* sensors_list.c                                                          *)
(***************************************************************************)

Full == number_of_sensors > DASH_MAX_SENSORS - 1

\* A constructor's register; those run in any order, and ignore an error.
sensors_list_register(s) ==
  /\ phase = "loading"
  /\ s \notin ToSet(Listed)
  /\ IF Full
     THEN UNCHANGED <<sensors, sensor_apis, number_of_sensors>>
     ELSE LET n == number_of_sensors + 1
          IN  /\ sensor_apis' = [sensor_apis EXCEPT ![n] = s]
              /\ sensors' = [sensors EXCEPT ![n] = Handle[s]]
              /\ number_of_sensors' = n
  /\ UNCHANGED <<phase, at, reply, opens, registered, inits, failed>>

\* Lines 61-64: what follows position k moves down by one.
ClosedGap(array, k) ==
  [j \in Indices |-> IF j \in k..(number_of_sensors - 1) THEN array[j + 1] ELSE array[j]]

\* Mutated form: the sensor structures stay where they are.
deregister_apis(k) ==
  /\ sensor_apis' = ClosedGap(sensor_apis, k)
  /\ number_of_sensors' = number_of_sensors - 1
  /\ UNCHANGED sensors

sensors_list_deregister(k) ==
  /\ sensor_apis' = ClosedGap(sensor_apis, k)
  /\ sensors' = ClosedGap(sensors, k)
  /\ number_of_sensors' = number_of_sensors - 1

\* sensors_list_get_api_from_handle: the first in the list.
Routed(h) ==
  LET first == {k \in 1..number_of_sensors :
                  sensors[k] = h /\ \A j \in 1..(k - 1) : sensors[j] # h}
  IN  IF first = {} THEN NoApi ELSE sensor_apis[CHOOSE k \in first : TRUE]

(***************************************************************************)
(* sensors_module.c                                                        *)
(***************************************************************************)

Loaded ==
  /\ phase = "loading"
  /\ phase' = "closed"
  /\ UNCHANGED <<sensors, sensor_apis, number_of_sensors, at, reply, opens, registered,
                 inits, failed>>

\* open, up to its walk over the list.
Open ==
  /\ phase = "closed" /\ opens < MAX_OPENS
  /\ phase' = "opening"
  /\ at' = 1
  /\ opens' = opens + 1
  /\ registered' = Listed
  /\ inits' = [s \in Apis |-> 0]
  /\ failed' = {}
  /\ reply' = NoReply
  /\ UNCHANGED <<sensors, sensor_apis, number_of_sensors>>

\* sensors_wrapper_init finds no match for a client it has attached before.
Refuses(s) == s \in Clients /\ opens > 1

\* Mutated form: the position a sensor was dropped from is not revisited.
RevisitedNot == at + 1

\* --i, and the i++ of the loop.
Revisited == at

\* One turn of foreach_api: init, and deregister when it failed.
InitSensor(found) ==
  LET s == sensor_apis[at]
      ok == found /\ ~Refuses(s)
  IN  /\ phase = "opening" /\ at <= number_of_sensors
      /\ found \/ s \in Absent
      /\ inits' = [inits EXCEPT ![s] = @ + 1]
      /\ failed' = IF ok THEN failed ELSE failed \cup {s}
      /\ IF ok
         THEN at' = at + 1 /\ UNCHANGED <<sensors, sensor_apis, number_of_sensors>>
         ELSE at' = Revisited /\ sensors_list_deregister(at)
      /\ UNCHANGED <<phase, reply, opens, registered>>

Opened ==
  /\ phase = "opening" /\ at > number_of_sensors
  /\ phase' = "open"
  /\ UNCHANGED <<sensors, sensor_apis, number_of_sensors, at, reply, opens, registered,
                 inits, failed>>

\* sensors_module_activate and sensors_module_set_delay, up to the call.
Request(h) ==
  /\ phase = "open"
  /\ reply' = [handle |-> h, api |-> Routed(h)]
  /\ UNCHANGED <<phase, sensors, sensor_apis, number_of_sensors, at, opens, registered,
                 inits, failed>>

\* No sensor is closed, and the list is kept.
Close ==
  /\ phase = "open"
  /\ phase' = "closed"
  /\ reply' = NoReply
  /\ UNCHANGED <<sensors, sensor_apis, number_of_sensors, at, opens, registered, inits,
                 failed>>

Next ==
  \/ \E s \in Apis : sensors_list_register(s)
  \/ Loaded \/ Open \/ Opened \/ Close
  \/ \E found \in BOOLEAN : InitSensor(found)
  \/ \E h \in Handles : Request(h)

Spec == Init /\ [][Next]_halVars

(***************************************************************************)
(* Properties.                                                             *)
(***************************************************************************)

(* Every variable has its type; the list never passes DASH_MAX_SENSORS.    *)
TypeOK ==
  /\ phase \in {"loading", "closed", "opening", "open"}
  /\ sensors \in [Indices -> Handles \cup {NoHandle}]
  /\ sensor_apis \in [Indices -> Apis \cup {NoApi}]
  /\ number_of_sensors \in 0..DASH_MAX_SENSORS
  /\ at \in 1..(DASH_MAX_SENSORS + 1)
  /\ reply \in [handle : Handles \cup {NoHandle}, api : Apis \cup {NoApi}]
  /\ opens \in 0..MAX_OPENS
  /\ registered \in Seq(Apis)
  /\ inits \in [Apis -> Nat]
  /\ failed \subseteq Apis

(* Although the list shrinks under it, an open initialises every sensor    *)
(* of the list once (the --i of sensors_list.c:93).                        *)
EachInitedOnce ==
  phase = "open" => \A s \in Apis : inits[s] = IF s \in ToSet(registered) THEN 1 ELSE 0

(* After an open the list holds the sensors that initialised, in the order *)
(* in which they were registered.                                          *)
SurvivorsInOrder ==
  phase = "open" =>
    /\ ToSet(Listed) = ToSet(registered) \ failed
    /\ \A j, k \in DOMAIN Listed, p, q \in DOMAIN registered :
         Listed[j] = registered[p] /\ Listed[k] = registered[q] => (j < k <=> p < q)

(* A request reaches a sensor of its handle that the last open initialised *)
(* successfully, if there is any, and of several the first registered.     *)
RoutedToSurvivor ==
  LET alive == {p \in DOMAIN registered :
                  registered[p] \notin failed /\ Handle[registered[p]] = reply.handle}
  IN  reply # NoReply =>
        \/ alive = {} /\ reply.api = NoApi
        \/ \E p \in alive : reply.api = registered[p] /\ \A q \in alive : p <= q

(* README section 2.1: the module traverses the enabled sensors and routes *)
(* requests to the right one; so the request for a sensor whose device is  *)
(* present is not turned down.                                             *)
PresentSensorRouted ==
  \A s \in Apis \ Absent : reply.handle = Handle[s] /\ s \in ToSet(registered)
                             => reply.api # NoApi

(* An open keeps the sensors that initialised, in their order, and routes  *)
(* each request to the first of them with its handle.                      *)
SurvivorsReached == SurvivorsInOrder /\ RoutedToSurvivor

=============================================================================
