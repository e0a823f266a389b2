-------------------------- MODULE SensorsInputCache --------------------------
(***************************************************************************)
(* sensors_input_cache.c: which path has the input device of a name. The   *)
(* directory is read when a name is not known; what was found is kept for  *)
(* good. The kernel's devices are external: one may be plugged, unplugged  *)
(* or renumbered, and one may not be opened or not tell its name for now.  *)
(* Every call is made under util_mutex: a lookup is one step.              *)
(***************************************************************************)
EXTENDS Integers, Sequences, FiniteSets, SequencesExt

CONSTANTS
  Paths,       (* the paths of /dev/input                                  *)
  Names,       (* the names of the devices, no two alike                   *)
  REPLUGS      (* bound: how often the devices change                      *)

NoDevice == "none"
NoPath == "no path"

ASSUME CacheAssumption ==
  /\ REPLUGS \in Nat /\ IsFiniteSet(Paths)
  /\ NoDevice \notin Names /\ NoPath \notin Paths

VARIABLES
  kernel,      (* the name of the device at each path, or NoDevice         *)
  cache,       (* the list at head: entries of a path and a name           *)
  replugged    (* history: the paths each change of the devices concerned  *)

cacheVars == <<kernel, cache, replugged>>

Distinct(k) == \A p, q \in Paths : p # q /\ k[p] # NoDevice => k[p] # k[q]

CacheInit ==
  /\ kernel \in {k \in [Paths -> Names \cup {NoDevice}] : Distinct(k)}
  /\ cache = <<>>
  /\ replugged = <<>>

\* A device comes to a path, from another perhaps, or goes.
Replug ==
  /\ Len(replugged) < REPLUGS
  /\ \E p \in Paths, n \in Names \cup {NoDevice} :
       LET left == {q \in Paths \ {p} : n # NoDevice /\ kernel[q] = n}
       IN  /\ n # kernel[p]
           /\ kernel' = [q \in Paths |-> CASE q = p -> n [] q \in left -> NoDevice [] OTHER -> kernel[q]]
           /\ replugged' = Append(replugged, {p} \cup left)
  /\ UNCHANGED cache

Entry(p, n) == [event_path |-> p, dev_name |-> n]

\* Mutated form: the first entry is taken.
first_path(list, name) == IF list = <<>> THEN NoPath ELSE Head(list).event_path

PathOf(list, name) ==
  LET found == {i \in DOMAIN list : list[i].dev_name = name}
  IN  IF found = {} THEN NoPath ELSE list[CHOOSE i \in found : \A j \in found : i <= j].event_path

Cached == {cache[i].event_path : i \in DOMAIN cache}

\* The devices of the directory not cached yet that can be opened and asked
\* now, in any order: no two have one name.
Scanned(answering) ==
  LET paths == SetToSeq({p \in answering \ Cached : kernel[p] # NoDevice})
  IN  [i \in DOMAIN paths |-> Entry(paths[i], kernel[paths[i]])]

\* The path returned, and the list that is left: a name that is known is not
\* looked for.
sensors_input_cache_get(name, path) ==
  IF PathOf(cache, name) # NoPath
  THEN path = PathOf(cache, name) /\ UNCHANGED cache
  ELSE \E answering \in SUBSET Paths :
         /\ path = PathOf(Scanned(answering), name)
         /\ cache' = Scanned(answering) \o cache

\* What open_input_dev_by_name opens: the device at the path, whichever it is
\* by now.
DeviceAt(path) == IF path = NoPath THEN NoDevice ELSE kernel[path]

=============================================================================
