------------------------------ MODULE Lsm303dlh ------------------------------
(***************************************************************************)
(* sensors/lsm303dlh.c: an accelerometer and a magnetometer, each with a   *)
(* device file, a select worker and users, and a compass computed from     *)
(* both, whose own worker only watches a slider. The calls of the HAL and  *)
(* the work of every callback are done under one mutex, lock.              *)
(*                                                                         *)
(* A call is a list of steps (call.todo): a name, a device, an argument.   *)
(* The threads of sensors_select.c call sensor_read with wrapper_mutex and *)
(* their fd_mutex held: at most one callback is under way (reader), and a  *)
(* set_fd of its device waits for it while it waits for lock.              *)
(***************************************************************************)
EXTENDS Integers, Sequences, FiniteSets, FiniteSetsExt

CONSTANTS
  Rates,      (* the delays in ns the framework asks for, by sensor        *)
  Accs,       (* the accelerometers considered: "dlhc", which has an       *)
              (* attribute for its mode, and "dlh"                         *)
  Refusing    (* bound: the devices whose attributes may refuse a write    *)

None == "none"
Devices == {"acc", "mag"}
Sensors == Devices \cup {"compass"}
INTERNAL == "internal"
EXTERNAL == "external"
DELAY_LOWEST_MS == 1000

ASSUME LsmAssumption ==
  Accs \subseteq {"dlhc", "dlh"} /\ Refusing \subseteq Devices /\ \A s \in Sensors : Rates[s] \subseteq Nat

VARIABLES
  found,     (* what the constructor found: acc, mag and slider            *)
  up,        (* the sensors initialised and not closed                     *)
  call,      (* the HAL call: sensor, what, todo, slider (what was opened  *)
             (* for the compass) and ok                                    *)
  dev,       (* of each sensor: mode of its worker, fd, users, the delays  *)
             (* internal and external, applied (applied_delay_ms), path    *)
             (* (phys_path was found) and power, the mode written          *)
  reader,    (* the device whose callback has read and waits for lock      *)
  hist       (* history: want, the sensors the framework holds for         *)
             (* enabled; left, the users a failed enable left behind;      *)
             (* asked, the compass's last delay since it was disabled;     *)
             (* refused, the devices whose last write failed; odd, what    *)
             (* happened so far                                            *)

vars == <<found, up, call, dev, reader, hist>>

NoCall == [sensor |-> None, what |-> None, todo |-> <<>>, slider |-> FALSE, ok |-> TRUE]
Rest == call.todo = <<>>
Closed == "closed" \in hist.odd

\* The HAL holds lock for the whole of a call, but not to init and close.
LockFree == Rest \/ call.what \in {"init", "close"}

\* The compass is there when both devices are.
Registered == {s \in Sensors : (s # "mag" => found.acc # None) /\ (s # "acc" => found.mag)}

Init ==
  /\ found \in [acc : Accs \cup {None}, mag : BOOLEAN, slider : BOOLEAN]
  /\ up = {} /\ call = NoCall
  /\ dev = [s \in Sensors |-> [mode |-> None, fd |-> None, users |-> {}, internal |-> 0, external |-> 0,
                               applied |-> 0, path |-> FALSE, power |-> "default"]]
  /\ reader = None
  /\ hist = [want |-> {}, left |-> {}, asked |-> 0, refused |-> {}, odd |-> {}]

(***************************************************************************)
(* What the functions do.                                                  *)
(***************************************************************************)

\* Mutated form: the other user is not asked about.
sole_user(d, user) == TRUE

\* Mutated form: whether there is a file already is not asked.
always_opens(d) == TRUE

reopens(d) == dev[d].fd = None
unused_without(d, user) == dev[d].users \subseteq {user}

sensor_activate_local(d, enable, user) ==
  IF enable
  THEN <<<<"use", d, user>>>>
       \o (IF reopens(d) THEN <<<<"open", d, user>>, <<"set_fd", d>>, <<"resume", d>>>> ELSE <<>>)
  ELSE <<<<"unuse", d, user>>>>
       \o (IF dev[d].fd # None /\ unused_without(d, user) THEN <<<<"suspend", d>>, <<"drop_fd", d>>>> ELSE <<>>)

sensor_activate(s, enable) == sensor_activate_local(s, enable, EXTERNAL)

\* Mutated form: the compass's delay stays.
delay_kept(d) == <<<<"update", d>>>>

delay_cleared(d) == <<<<"internal", d, 0>>, <<"update", d>>>>

activate_required_sensors(enable) ==
  LET one(d) == sensor_activate_local(d, enable, INTERNAL)
                \o (IF enable THEN <<>> ELSE delay_cleared(d))
  IN  one("acc") \o one("mag")

\* The required sensors activated before the one that failed are given back;
\* that one keeps its user.
err_exit(d) == IF d = "mag" THEN sensor_activate_local("acc", FALSE, INTERNAL) ELSE <<>>

drops_file == IF dev["compass"].fd # None THEN <<<<"drop_fd", "compass">>>> ELSE <<>>

\* What the descriptor was is read before lock is taken.
compass_sensor_activate(enable) ==
  IF enable
  THEN <<<<"use", "compass", EXTERNAL>>>>
       \o (IF dev["compass"].fd = None THEN <<<<"open_slider", "compass", None>>>> ELSE <<>>)
       \o activate_required_sensors(TRUE)
       \o <<<<"set_fd", "compass">>, <<"resume", "compass">>>>
  ELSE <<<<"unuse", "compass", EXTERNAL>>, <<"suspend", "compass">>>>
       \o drops_file \o activate_required_sensors(FALSE)

sensor_set_delay(s, ns) == <<<<"external", s, ns>>, <<"update", s>>>>
compass_sensor_set_delay(ns) ==
  <<<<"internal", "acc", ns>>, <<"update", "acc">>, <<"internal", "mag", ns>>, <<"update", "mag">>>>

sensor_init(s) == <<<<"phys_path", s>>, <<"select_init", s>>>>
compass_sensor_init == <<<<"compass_API_Init", "compass">>, <<"select_init", "compass">>>>
sensor_close(s) == <<<<"destroy", s>>>>

steps(s, what, ns) ==
  CASE what = "init" -> IF s = "compass" THEN compass_sensor_init ELSE sensor_init(s)
    [] what = "enable" -> IF s = "compass" THEN compass_sensor_activate(TRUE) ELSE sensor_activate(s, TRUE)
    [] what = "disable" -> IF s = "compass" THEN compass_sensor_activate(FALSE) ELSE sensor_activate(s, FALSE)
    [] what = "set_delay" -> IF s = "compass" THEN compass_sensor_set_delay(ns) ELSE sensor_set_delay(s, ns)
    [] what = "close" -> sensor_close(s)

\* Every sensor is initialised before any is used, and none used once one
\* has been closed.
MayCall(s, what) ==
  CASE what = "init" -> s \in Registered \ up /\ ~Closed
    [] what = "close" -> s \in up /\ (up = Registered \/ Closed)
    [] OTHER -> s \in up /\ up = Registered /\ ~Closed

Asked(s, what, ns) ==
  IF s # "compass" THEN hist.asked
  ELSE CASE what = "set_delay" -> ns [] what = "disable" -> 0 [] OTHER -> hist.asked

Call ==
  /\ Rest
  /\ \E s \in Sensors, what \in {"init", "enable", "disable", "set_delay", "close"} :
       /\ MayCall(s, what)
       /\ \E ns \in (IF what = "set_delay" THEN Rates[s] ELSE {0}) :
            /\ call' = [sensor |-> s, what |-> what, todo |-> steps(s, what, ns), slider |-> FALSE, ok |-> TRUE]
            /\ hist' = [hist EXCEPT !.asked = Asked(s, what, ns),
                 !.odd = @ \cup {e \in {"twice", "closed"} :
                            \/ e = "twice" /\ what = "enable" /\ s = "compass" /\ s \in hist.want
                            \/ e = "closed" /\ what = "close"}]
  /\ UNCHANGED <<found, up, dev, reader>>

(***************************************************************************)
(* The steps.                                                              *)
(***************************************************************************)

Do(step) == ~Rest /\ Head(call.todo)[1] = step
Target == Head(call.todo)[2]
Given == Head(call.todo)[3]
Set(r) == dev' = [dev EXCEPT ![Target] = r]

\* What the framework holds when the call is over.
Held(ok) ==
  CASE call.what = "enable" /\ ok -> hist.want \cup {call.sensor}
    [] call.what = "set_delay" \/ call.what = "init" -> hist.want
    [] OTHER -> hist.want \ {call.sensor}

Goes(todo, h, ok) ==
  /\ call' = IF todo = <<>> THEN NoCall ELSE [call EXCEPT !.todo = todo, !.ok = ok]
  /\ hist' = IF todo = <<>> THEN [h EXCEPT !.want = Held(ok)] ELSE h
Done == Goes(Tail(call.todo), hist, call.ok)

UserStep ==
  /\ Do("use") \/ Do("unuse")
  /\ Set([dev[Target] EXCEPT !.users = IF Do("use") THEN @ \cup {Given} ELSE @ \ {Given}])
  /\ Goes(Tail(call.todo), [hist EXCEPT !.left = @ \ {<<Target, Given>>}], call.ok)
  /\ UNCHANGED <<found, up, reader>>

\* A device that cannot be opened ends the enable, with its user noted; the
\* compass gives back what was activated before it, and its file.
OpenStep ==
  /\ Do("open")
  /\ \/ Done
     \/ LET compass == call.sensor = "compass"
        IN  Goes(IF compass THEN err_exit(Target) ELSE <<>>,
                 [hist EXCEPT !.left = @ \cup {<<Target, Given>>, <<call.sensor, EXTERNAL>>}], FALSE)
  /\ UNCHANGED <<found, up, dev, reader>>

\* Without a slider the compass works without a file.
SliderStep ==
  /\ Do("open_slider")
  /\ \E slider \in {FALSE, found.slider} :
       call' = [call EXCEPT !.todo = Tail(@), !.slider = slider]
  /\ UNCHANGED <<found, up, dev, reader, hist>>

\* The compass enabled twice sets the file it has, which set_fd closes first.
FileSet == IF Target \in Devices THEN "open"
           ELSE IF dev[Target].fd # None THEN "stale" ELSE IF call.slider THEN "open" ELSE None

\* set_fd waits for the callback of its device.
WorkerStep ==
  /\ \/ Do("set_fd") /\ reader # Target /\ Set([dev[Target] EXCEPT !.fd = FileSet])
     \/ Do("drop_fd") /\ reader # Target /\ Set([dev[Target] EXCEPT !.fd = None])
     \/ Do("resume") /\ Set([dev[Target] EXCEPT !.mode = "run"])
     \/ Do("suspend") /\ Set([dev[Target] EXCEPT !.mode = "sleep"])
  /\ Done
  /\ UNCHANGED <<found, up, reader>>

\* phys_path may not be found; what compass_API_Init returns is not used.
InitStep ==
  /\ \/ Do("phys_path") /\ (\E path \in BOOLEAN : Set([dev[Target] EXCEPT !.path = path])) /\ UNCHANGED up
     \/ Do("compass_API_Init") /\ UNCHANGED <<dev, up>>
     \/ Do("select_init") /\ Set([dev[Target] EXCEPT !.mode = "sleep"]) /\ up' = up \cup {Target}
     \/ /\ Do("destroy") /\ reader # Target
        /\ Set([dev[Target] EXCEPT !.mode = None, !.fd = None]) /\ up' = up \ {Target}
  /\ Done
  /\ UNCHANGED <<found, reader>>

DelayStep ==
  /\ \/ Do("internal") /\ Set([dev[Target] EXCEPT !.internal = Given])
     \/ Do("external") /\ Set([dev[Target] EXCEPT !.external = Given])
  /\ Done
  /\ UNCHANGED <<found, up, reader>>

\* A delay below 1 ms counts as none.
update_delay(r) ==
  LET asked == {r.internal \div 1000000, r.external \div 1000000} \ {0}
  IN  IF asked = {} THEN DELAY_LOWEST_MS ELSE Min(asked)

\* dev_modes of rate2mode: polled below 60 ms.
rate2mode(ms) == IF ms < 60 THEN "poll" ELSE "irq"

mode_before(ms) == rate2mode(dev[Target].applied)

\* The rate, and the mode when it differs from that of the rate before. A
\* rate refused is not noted; a mode refused is not seen. Without a path
\* nothing is written, successfully.
set_pollrate(ms) ==
  \E rate, mode \in {TRUE, dev[Target].path => Target \notin Refusing} :
    LET changes == Target = "acc" /\ found.acc = "dlhc" /\ mode_before(ms) # rate2mode(ms) /\ dev[Target].path
        refused == {o \in {<<Target, "rate">>} : ~rate} \cup {o \in {<<Target, "mode">>} : rate /\ changes /\ ~mode}
    IN  /\ Set(IF ~rate THEN dev[Target]
               ELSE [dev[Target] EXCEPT !.applied = ms, !.power = IF changes /\ mode THEN rate2mode(ms) ELSE @])
        /\ Goes(Tail(call.todo),
                [hist EXCEPT !.refused = (@ \ {o \in {<<Target, "rate">>, <<Target, "mode">>} :
                                                 rate /\ (o[2] = "mode" => changes)}) \cup refused], call.ok)

UpdateStep ==
  /\ Do("update")
  /\ IF update_delay(dev[Target]) = dev[Target].applied
     THEN Goes(Tail(call.todo), [hist EXCEPT !.refused = @ \ {<<Target, "rate">>}], call.ok) /\ UNCHANGED dev
     ELSE set_pollrate(update_delay(dev[Target]))
  /\ UNCHANGED <<found, up, reader>>

(***************************************************************************)
(* The threads. A thread suspended in the middle of its round ends it.     *)
(***************************************************************************)

Read ==
  /\ reader = None
  /\ \E s \in Sensors :
       /\ dev[s].fd = "open" /\ (dev[s].mode = "run" \/ ~Rest)
       /\ reader' = s
  /\ UNCHANGED <<found, up, call, dev, hist>>

external(s) == EXTERNAL \in dev[s].users

\* sensor_read's packet, under lock: the device's own event, and the compass's
\* with one of the magnetometer's when compass_run succeeds. The slider only
\* changes the form factor.
Process ==
  /\ reader # None /\ LockFree
  /\ \E computed \in BOOLEAN :
       LET own == {reader} \ {"compass"}
           compass == IF reader = "mag" /\ computed THEN {"compass"} ELSE {}
           put == {s \in own \cup compass : external(s)}
           stray == {s \in put \ hist.want : <<s, EXTERNAL>> \notin hist.left}
       IN  hist' = IF stray = {} \/ Closed THEN hist ELSE [hist EXCEPT !.odd = @ \cup {"stray"}]
  /\ reader' = None
  /\ UNCHANGED <<found, up, call, dev>>

Next ==
  Call \/ UserStep \/ OpenStep \/ SliderStep \/ WorkerStep \/ InitStep \/ DelayStep \/ UpdateStep
    \/ Read \/ Process

Spec == Init /\ [][Next]_vars

(***************************************************************************)
(* Properties.                                                             *)
(***************************************************************************)

(* Every variable has its type; only a registered sensor is called, and    *)
(* the compass's users are the framework's.                                *)
TypeOK ==
  /\ up \subseteq Registered /\ hist.want \subseteq Registered
  /\ call.sensor \in Registered \cup {None}
  /\ \A s \in Sensors :
       /\ dev[s].mode \in {None, "sleep", "run"} /\ dev[s].fd \in {None, "open", "stale"}
       /\ dev[s].users \subseteq (IF s = "compass" THEN {EXTERNAL} ELSE {EXTERNAL, INTERNAL})
       /\ dev[s].power \in {"default", "poll", "irq"} /\ dev[s].applied \in Nat
  /\ reader \in Registered \cup {None}

(* A device's thread runs on an open file while the framework wants the    *)
(* device or the compass, whatever was enabled, refused or disabled in     *)
(* between; a device nobody wants is open only for a user that an enable   *)
(* which failed left behind.                                               *)
RunsWhileWanted ==
  Rest /\ ~Closed =>
    \A s \in Devices :
      /\ {s, "compass"} \cap hist.want # {} => dev[s].fd = "open" /\ dev[s].mode = "run"
      /\ dev[s].fd # None => \/ {s, "compass"} \cap hist.want # {}
                             \/ \E user \in {INTERNAL, EXTERNAL} : <<s, user>> \in hist.left
      /\ dev[s].mode = "run" => dev[s].fd # None

(* An event is put only for a sensor the framework holds for enabled, none *)
(* late: the users are looked at and the event put under lock. Left out    *)
(* are the sensors whose last enable failed: their user is left set, and   *)
(* they give events when another sensor's enable opens the device.         *)
EventsOnlyWanted == "stray" \notin hist.odd

(* The framework's thread, with lock, and a callback, with fd_mutex, wait  *)
(* for each other only when the file of the callback's device is dropped   *)
(* or replaced: in a disable, in the undoing of an enable of the compass   *)
(* that failed, or when the compass is enabled twice. The enable of a      *)
(* device never does.                                                      *)
DeadlockOnlyDroppingFile ==
  ~Rest /\ ~LockFree /\ reader # None /\ reader = Target /\ (Do("set_fd") \/ Do("drop_fd")) =>
    \/ call.what = "disable"
    \/ call.what = "enable" /\ (~call.ok \/ (Target = "compass" /\ "twice" \in hist.odd))

(* A worker is left on a file that has been closed only when the compass,  *)
(* with a slider, is enabled twice without a disable.                      *)
StaleOnlyIfEnabledTwice ==
  \A s \in Sensors : dev[s].fd = "stale" => s = "compass" /\ "twice" \in hist.odd

served(s, ns) == ns >= 1000000 => dev[s].applied <= ns \div 1000000

(* The rate of a device serves the framework's delay for it and, from its  *)
(* set_delay to its disable, the compass's, unless the last write failed;  *)
(* a delay below 1 ms is served as none. The compass's delay does not      *)
(* outlive its disable.                                                    *)
RateServesUsers ==
  Rest /\ ~Closed =>
    \A s \in Devices :
      /\ <<s, "rate">> \notin hist.refused => served(s, dev[s].external) /\ served(s, hist.asked)
      /\ hist.asked = 0 => dev[s].internal = 0

(* The mode written is that of the rate, but that after a write of the     *)
(* mode that failed it is not until a rate of another mode is set; the     *)
(* first mode is not written when it is the fastest.                       *)
ModeFollowsRate ==
  found.acc = "dlhc" /\ dev["acc"].path /\ dev["acc"].applied # 0 /\ <<"acc", "mode">> \notin hist.refused =>
    \/ dev["acc"].power = rate2mode(dev["acc"].applied)
    \/ dev["acc"].power = "default" /\ dev["acc"].applied < 60

(* A device runs, on an open file, for all who want it, and gives events   *)
(* to nobody else.                                                         *)
DevicesServe == TypeOK /\ RunsWhileWanted /\ EventsOnlyWanted /\ StaleOnlyIfEnabledTwice

(* The rate of a device serves the framework and the compass, and the mode *)
(* of the accelerometer is that of its rate.                               *)
RatesServe == RateServesUsers /\ ModeFollowsRate

=============================================================================
