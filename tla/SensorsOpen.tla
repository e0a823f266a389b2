----------------------------- MODULE SensorsOpen -----------------------------
(***************************************************************************)
(* The opening of the HAL with what it rests on: sensors_module.c over the *)
(* list (SensorsHal), the configuration it reads and frees (SensorsConfig) *)
(* and the cache of input devices, where an init looks for its device      *)
(* (SensorsInputCache).                                                    *)
(***************************************************************************)
EXTENDS SensorsHal, SensorsConfig, SensorsInputCache

CONSTANTS
  InputName     (* the input device each sensor looks for                  *)

VARIABLES
  file,         (* the configuration file; it does not change              *)
  opened        (* history: of each sensor the device its last init opened *)
                (* and the path it was found at                            *)

vars == <<halVars, configVars, cacheVars, file, opened>>

ASSUME OpenAssumption == Readers \subseteq Apis \ Clients /\ InputName \in [Apis -> Names]

NotOpened == [device |-> NoDevice, path |-> NoPath]

OpenInit ==
  /\ Init /\ ConfigInit /\ CacheInit
  /\ file \in Files
  /\ opened = [s \in Apis |-> NotOpened]

\* Undefined behaviour is not followed any further.
Goes == ~config_list.corrupt /\ ~overrun

ListStep ==
  /\ Goes
  /\ (\E s \in Apis : sensors_list_register(s)) \/ Loaded \/ Opened \/ (\E h \in Handles : Request(h))
  /\ UNCHANGED <<configVars, cacheVars, file, opened>>

\* sensors_module_open reads the configuration before it walks the list.
OpenDevice ==
  /\ Goes /\ Open
  /\ sensors_config_read(file)
  /\ UNCHANGED <<axes, overrun, cacheVars, file, opened>>

\* An init: the device is looked for by its name and opened, which may fail.
\* The drivers of AllAtOnce (bma*) have read the configuration before that,
\* ak897x.c reads it when it has found the device.
InitStep ==
  /\ Goes /\ phase = "opening" /\ at <= number_of_sensors
  /\ LET s == sensor_apis[at]
     IN  \E path \in Paths \cup {NoPath}, ok \in BOOLEAN :
           /\ sensors_input_cache_get(InputName[s], path)
           /\ LET found == ok /\ DeviceAt(path) # NoDevice
              IN  /\ InitSensor(found)
                  /\ IF s \in Readers /\ (found \/ s \in AllAtOnce) THEN config_read(s) ELSE UNCHANGED configVars
           /\ opened' = [opened EXCEPT ![s] = [device |-> DeviceAt(path), path |-> path]]
  /\ UNCHANGED <<kernel, replugged, file>>

\* sensors_module_close frees the configuration.
CloseDevice ==
  /\ Goes /\ Close
  /\ sensors_config_destroy
  /\ UNCHANGED <<axes, overrun, cacheVars, file, opened>>

\* Before anything is cached, a change is another start.
Plug == Goes /\ phase \in {"closed", "opening"} /\ cache # <<>> /\ Replug /\ UNCHANGED <<halVars, configVars, file, opened>>

OpenNext == ListStep \/ OpenDevice \/ InitStep \/ CloseDevice \/ Plug

OpenSpec == OpenInit /\ [][OpenNext]_vars

(***************************************************************************)
(* Properties.                                                             *)
(***************************************************************************)

(* Entries that have been freed are used only when the device is opened    *)
(* again after a configuration was read, or when a line that does not      *)
(* parse follows an entry: with a file that parses the first open and all  *)
(* the inits of it see a list that is whole.                               *)
FreedUsedOnlyIf ==
  config_list.corrupt =>
    \/ opens > 1 /\ \E i \in DOMAIN file : file[i].what = "entry"
    \/ \E i, j \in DOMAIN file : i < j /\ file[i].what = "entry" /\ file[j].what \in {"error", "long comment"}

(* The lines of file whose prefix and key begin those the reader asks for. *)
AskedFor(s, k) ==
  {i \in DOMAIN file : /\ file[i].what = "entry"
                       /\ IsPrefix(file[i].prefix, Prefix[s]) /\ IsPrefix(file[i].key, Keys[s][k].name)}

FirstAskedFor(s, k, i) == i \in AskedFor(s, k) /\ \A j \in AskedFor(s, k) : i <= j

(* What a driver uses is its default, or in range and what the first of    *)
(* the file's entries that begins like the one asked for says: a later,    *)
(* exact one is not seen. An element the entry does not give may be        *)
(* anything in range, and one too many in such a first entry, and nothing  *)
(* else, is stored past the driver's array. Those that read all at once    *)
(* use all of the file's values or none.                                   *)
AxesFromFirstMatch ==
  /\ \A s \in Readers :
       /\ \A k \in KeyIndices(s) : axes[s][k] # Default =>
            /\ InRange(s, k, axes[s][k]) /\ Len(axes[s][k]) = Keys[s][k].size
            /\ \E i \in DOMAIN file :
                 /\ FirstAskedFor(s, k, i)
                 /\ IF Keys[s][k].type = "int" THEN axes[s][k] = <<atoi(file[i].value)>>
                    ELSE IsPrefix(file[i].value, axes[s][k])
       /\ s \in AllAtOnce => \/ \A k \in KeyIndices(s) : axes[s][k] = Default
                             \/ \A k \in KeyIndices(s) : axes[s][k] # Default
  /\ overrun => \E s \in Readers : \E k \in KeyIndices(s), i \in DOMAIN file :
                  /\ FirstAskedFor(s, k, i)
                  /\ Keys[s][k].type = "array" /\ Len(file[i].value) > Keys[s][k].size

Changed(p) == \E i \in DOMAIN replugged : p \in replugged[i]

(* A sensor that an open initialised reads the device it asked for, unless *)
(* the device at its path was changed: entries of the cache are for good.  *)
ReadsItsDevice ==
  phase = "open" =>
    \A s \in ToSet(registered) \ failed :
      opened[s].device = InputName[s] \/ Changed(opened[s].path)

(* No path is cached twice, and a device that was never moved is found     *)
(* under no name but its own.                                              *)
EachPathOnce ==
  /\ \A i, j \in DOMAIN cache : i # j => cache[i].event_path # cache[j].event_path
  /\ \A i \in DOMAIN cache : kernel[cache[i].event_path] = cache[i].dev_name \/ Changed(cache[i].event_path)

(* A sensor is on its own device: every path of the cache is told once,    *)
(* and true until the device there changes.                                *)
DeviceFound == ReadsItsDevice /\ EachPathOnce

=============================================================================
