---------------------------- MODULE SensorsConfig ----------------------------
(***************************************************************************)
(* sensors_config.c: the list of entries parsed from the configuration     *)
(* file, its lookup and its end, and the drivers' readers of their axes.   *)
(* All of it runs on the framework's thread.                               *)
(*                                                                         *)
(* A name is a sequence of parts, for one may be a prefix of another. A    *)
(* value is the sequence of integers it is read as. The head of the list   *)
(* is not reset when its entries are freed; what follows a use of freed    *)
(* entries (corrupt), or a store past a reader's array that does harm      *)
(* (overrun), is not defined, and no further step is taken.                *)
(***************************************************************************)
EXTENDS Integers, Sequences, SequencesExt

CONSTANTS
  Files,      (* the configuration files considered: sequences of lines    *)
  Readers,    (* the drivers that read a configuration                     *)
  Prefix,     (* the prefix each asks for                                  *)
  AllAtOnce,  (* those that keep either all their values or none           *)
  Keys,       (* the keys each asks for, in order: name, type ("int" or    *)
              (* "array"), size, min and max                               *)
  Garbage     (* what an element that was not written may hold             *)

Lines == {"entry", "error", "long comment", "comment", "blank"}

ASSUME ConfigAssumption ==
  /\ AllAtOnce \subseteq Readers /\ Garbage \subseteq Int
  /\ \A file \in Files : /\ file \in Seq(ToSet(file))
                         /\ \A i \in DOMAIN file : file[i].what \in Lines /\ file[i].value \in Seq(Int)
  /\ \A s \in Readers : \A k \in DOMAIN Keys[s] :
       /\ Keys[s][k].type \in {"int", "array"} /\ Keys[s][k].size \in Nat
       /\ Keys[s][k].type = "int" => Keys[s][k].size = 1

VARIABLES
  config_list,  (* entries, freed (the head points to freed entries), and  *)
                (* corrupt                                                 *)
  axes,         (* the driver's value of each of its keys, or Default      *)
  overrun       (* what lies behind a reader's array was used, and is lost *)

configVars == <<config_list, axes, overrun>>

Default == <<>>
KeyIndices(s) == DOMAIN Keys[s]

ConfigInit ==
  /\ config_list = [entries |-> <<>>, freed |-> FALSE, corrupt |-> FALSE]
  /\ axes = [s \in Readers |-> [k \in KeyIndices(s) |-> Default]]
  /\ overrun = FALSE

(***************************************************************************)
(* The list.                                                               *)
(***************************************************************************)

Corrupted(list) == [list EXCEPT !.corrupt = TRUE]

\* Mutated form: a new entry goes before the others.
inserted_first(list, entry) ==
  IF list.freed THEN Corrupted(list) ELSE [list EXCEPT !.entries = <<entry>> \o @]

insert_entry(list, entry) ==
  IF list.freed THEN Corrupted(list) ELSE [list EXCEPT !.entries = Append(@, entry)]

destroyed(list) ==
  IF list.freed THEN Corrupted(list)
  ELSE [entries |-> <<>>, freed |-> list.entries # <<>>, corrupt |-> list.corrupt]

\* A line that does not parse destroys the list, and the reading goes on. A
\* comment too long for fgets is cut, and what is left of it does not begin
\* with '#'.
ParseLine(list, line) ==
  CASE line.what = "entry" -> insert_entry(list, line)
    [] line.what \in {"error", "long comment"} -> destroyed(list)
    [] line.what \in {"comment", "blank"} -> list

\* The list when the file has been read line by line.
Parsed(list, file) ==
  LET after[n \in 0..Len(file)] == IF n = 0 THEN list ELSE ParseLine(after[n - 1], file[n])
  IN  after[Len(file)]

\* Mutated form: the list is destroyed when the file has been read.
read_and_destroyed(file) == config_list' = destroyed(Parsed(config_list, file))

\* There may be no file; the result is not looked at by open.
sensors_config_read(file) == config_list' = Parsed(config_list, file)

sensors_config_destroy == config_list' = destroyed(config_list)

sensors_have_config_file == config_list.entries # <<>> \/ config_list.freed

\* The first entry whose prefix and key begin those asked for.
Matches(prefix, key) ==
  {i \in DOMAIN config_list.entries :
     IsPrefix(config_list.entries[i].prefix, prefix) /\ IsPrefix(config_list.entries[i].key, key)}
FirstMatch(prefix, key) == CHOOSE i \in Matches(prefix, key) : \A j \in Matches(prefix, key) : i <= j

FirstValue(prefix, key) == config_list.entries[FirstMatch(prefix, key)].value

\* An int is the first of the values; none is read as zero.
atoi(value) == IF value = <<>> THEN 0 ELSE value[1]

\* Too many values for the array. The check comes after the store, which has
\* then gone one int past its end.
TooMany(value, type, size) == type = "array" /\ Len(value) > size

StoresPast(prefix, key, type, size) == Matches(prefix, key) # {} /\ TooMany(FirstValue(prefix, key), type, size)

\* What the caller's size ints may then be taken for: nothing when there is
\* no entry or it has too many values; there is garbage after too few.
sensors_config_get_key(prefix, key, type, size) ==
  LET value == FirstValue(prefix, key)
  IN  CASE Matches(prefix, key) = {} \/ StoresPast(prefix, key, type, size) -> {}
        [] Matches(prefix, key) # {} /\ type = "int" -> {<<atoi(value)>>}
        [] OTHER -> {value \o rest : rest \in [1..(size - Len(value)) -> Garbage]}

(***************************************************************************)
(* The readers: bma250_input_read_config, bma250na and bma150 likewise,    *)
(* keep all their values or none; config_read_axis of the others looks at  *)
(* one array after the other.                                              *)
(***************************************************************************)

Asked(s, k) == sensors_config_get_key(Prefix[s], Keys[s][k].name, Keys[s][k].type, Keys[s][k].size)

InRange(s, k, value) == \A i \in DOMAIN value : value[i] \in Keys[s][k].min..Keys[s][k].max

\* The values the driver has read: Default for those it could not take.
Readings(s) ==
  LET values(k) == {IF InRange(s, k, v) THEN v ELSE Default : v \in Asked(s, k)}
                     \cup (IF Asked(s, k) = {} THEN {Default} ELSE {})
  IN  {r \in [KeyIndices(s) -> UNION {values(k) : k \in KeyIndices(s)}] :
         \A k \in KeyIndices(s) : r[k] \in values(k)}

Kept(s, read) ==
  IF s \in AllAtOnce /\ \E k \in KeyIndices(s) : read[k] = Default THEN axes[s]
  ELSE [k \in KeyIndices(s) |-> IF read[k] # Default THEN read[k] ELSE axes[s][k]]

\* The int behind the array, on the reader's stack, may be padding or in use.
Overruns(s) ==
  /\ \E k \in KeyIndices(s) : StoresPast(Prefix[s], Keys[s][k].name, Keys[s][k].type, Keys[s][k].size)
  /\ overrun' = TRUE
  /\ UNCHANGED axes

config_read(s) ==
  CASE ~sensors_have_config_file -> UNCHANGED configVars
    [] config_list.freed -> config_list' = Corrupted(config_list) /\ UNCHANGED <<axes, overrun>>
    [] OTHER -> /\ \/ Overruns(s)
                   \/ /\ \E read \in Readings(s) : axes' = [axes EXCEPT ![s] = Kept(s, read)]
                      /\ UNCHANGED overrun
                /\ UNCHANGED config_list

=============================================================================
