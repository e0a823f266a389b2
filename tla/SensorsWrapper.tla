---------------------------- MODULE SensorsWrapper ----------------------------
(***************************************************************************)
(* The multiplexer of sensors_wrapper.c: several clients (the Android      *)
(* sensors of sensors/wrappers) share the drivers registered in its        *)
(* internal list. A client is attached to one driver per sensor type it    *)
(* matches; a driver runs while some client is active, at the smallest     *)
(* delay any client has asked for.                                         *)
(*                                                                         *)
(* wrapper_mutex is held through each function, and data arrives with it   *)
(* held, so each function is one action. An unreliable driver may refuse   *)
(* any call: init_ok, act_ok and rate_ok hold the drivers that accept it.  *)
(***************************************************************************)
EXTENDS Integers, FiniteSets, FiniteSetsExt, Sequences

CONSTANTS
  Drivers,                  (* indices of list[], 1..idx                  *)
  Clients,                  (* the wrapper_desc's                         *)
  Type,                     (* list[i].sensor->type                       *)
  Match,                    (* access.match[0 .. m_nr - 1] of a client    *)
  MAX_SENSOR_CONNECTIONS,
  Rates,                    (* the delays clients ask for                 *)
  Unreliable                (* the drivers that may refuse a call         *)

NO_RATE == -1
Slots == 1..MAX_SENSOR_CONNECTIONS
Matches(d, s) == \E k \in DOMAIN Match[d] : Match[d][k] = Type[s]

ASSUME WrapperAssumption ==
  /\ Drivers \subseteq Nat \ {0}
  /\ Rates \subseteq Nat
  /\ IsFiniteSet(Clients)
  /\ MAX_SENSOR_CONNECTIONS \in Nat
  /\ \A d \in Clients : Match[d] \in Seq({Type[s] : s \in Drivers} \cup {"none"})

\* No client names a type twice, and no type has more clients than an entry
\* has slots: the code checks neither.
ASSUME WiringAssumption ==
  /\ \A d \in Clients : \A j, k \in DOMAIN Match[d] : Match[d][j] = Match[d][k] => j = k
  /\ \A s \in Drivers : Cardinality({d \in Clients : Matches(d, s)}) <= MAX_SENSOR_CONNECTIONS

VARIABLES
  entry,    (* list[s].entry: nr, and api, status and rate by slot        *)
  access,   (* access[d]: the slot of client d at each driver it is at    *)
  hw,       (* what the driver does: on, delay, closed                    *)
  rv,       (* what the last call returned                                *)
  acted,    (* history: the driver accepted its last activate             *)
  paced,    (* history: the driver accepted its last set_delay            *)
  wants,    (* history: the clients whose last activate was an enable     *)
  heard     (* history: who the step before passed whose data to          *)

wrapperVars == <<entry, access, hw, rv, acted, paced, wants, heard>>

NoClient == "none"

Silence == [from |-> 0, to |-> {}]

\* Every constructor has run: sensors_wrapper_register reset each entry.
WrapperInit ==
  /\ entry = [s \in Drivers |-> [nr |-> 0,
                                 api |-> [c \in Slots |-> NoClient],
                                 status |-> [c \in Slots |-> {}],
                                 rate |-> [c \in Slots |-> NO_RATE]]]
  /\ access = [d \in Clients |-> <<>>]
  /\ hw = [s \in Drivers |-> [on |-> FALSE, delay |-> NO_RATE, closed |-> FALSE]]
  /\ rv = 0
  /\ acted = [s \in Drivers |-> TRUE]
  /\ paced = [s \in Drivers |-> TRUE]
  /\ wants = {}
  /\ heard = Silence

(***************************************************************************)
(* The list manipulation routines, on one entry.                           *)
(***************************************************************************)

Used(e) == 1..e.nr

list_get_status(e, flag) == Cardinality({c \in Used(e) : flag \in e.status[c]})

list_get_rate(e) ==
  LET asked == {e.rate[c] : c \in Used(e)} \ {NO_RATE}
  IN  IF asked = {} THEN NO_RATE ELSE Min(asked)

list_set_status(e, c, flag) == [e EXCEPT !.status[c] = @ \cup {flag}]
\* Mutated form: the flag is never cleared.
keep_status(e, c, flag) == e

list_clear_status(e, c, flag) == [e EXCEPT !.status[c] = @ \ {flag}]
list_set_rate(e, c, ns) == [e EXCEPT !.rate[c] = ns]

(***************************************************************************)
(* sensors_wrapper_init                                                    *)
(***************************************************************************)

At(d) == DOMAIN access[d]
Attached(d, k) == \E s \in At(d) : Type[s] = Match[d][k]
Inited(s) == list_get_status(entry[s], "INIT") > 0

\* The drivers the k-th match can settle on, and whether every match up to
\* the k-th finds one.
Found(d, k, init_ok) == {s \in Drivers : Type[s] = Match[d][k] /\ (Inited(s) \/ s \in init_ok)}
Reached(d, k, init_ok) ==
  \A j \in 1..k : Attached(d, j) \/ Found(d, j, init_ok) # {}

\* The drivers the scan attaches client d to: the first found of each match.
Picks(d, init_ok) ==
  {Min(Found(d, k, init_ok)) :
     k \in {j \in DOMAIN Match[d] : ~Attached(d, j) /\ Reached(d, j, init_ok)}}

\* Mutated form: entry->nr is not incremented.
attachUncounted(e, d) ==
  [list_set_status(e, e.nr + 1, "INIT") EXCEPT !.api[e.nr + 1] = d]

attach(e, d) ==
  [list_set_status(e, e.nr + 1, "INIT") EXCEPT !.api[e.nr + 1] = d, !.nr = e.nr + 1]

sensors_wrapper_init(d, init_ok) ==
  LET picks == Picks(d, init_ok)
  IN  /\ access' = [access EXCEPT ![d] =
                      [s \in At(d) \cup picks |->
                         IF s \in At(d) THEN access[d][s] ELSE entry[s].nr + 1]]
      /\ entry' = [s \in Drivers |-> IF s \in picks THEN attach(entry[s], d) ELSE entry[s]]
      \* A client that had all its matches already matches nothing and fails.
      /\ rv' = IF picks # {} /\ Reached(d, Len(Match[d]), init_ok) THEN 0 ELSE -1
      /\ heard' = Silence
      /\ UNCHANGED <<hw, acted, paced, wants>>

(***************************************************************************)
(* sensors_wrapper_activate                                                *)
(***************************************************************************)

\* The entry of driver s after client d was enabled or disabled.
Activated(d, s, enable) ==
  LET c == access[d][s]
  IN  IF enable THEN list_set_status(entry[s], c, "ACTIVE")
      ELSE list_set_rate(list_clear_status(entry[s], c, "ACTIVE"), c, NO_RATE)

\* Mutated forms: a disable leaves the driver at the rate it had; the active
\* clients are counted after the enable too, or not at all.
RepacedNever(d, s, enable) == FALSE
SwitchedLate(d, s, enable) == list_get_status(Activated(d, s, enable), "ACTIVE") = 0
SwitchedAlways(d, s, enable) == TRUE

\* Whether the driver's set_delay is called, and its activate. An enable
\* counts the active clients before it, a disable those after it.
Repaced(d, s, enable) ==
  LET new == list_get_rate(Activated(d, s, enable))
  IN  ~enable /\ new # NO_RATE /\ new # list_get_rate(entry[s])
Switched(d, s, enable) ==
  list_get_status(IF enable THEN entry[s] ELSE Activated(d, s, enable), "ACTIVE") = 0

\* The client's last match that called a driver: its result is returned.
Last(d, called) ==
  CHOOSE s \in called :
    \A t \in called : \A j, k \in DOMAIN Match[d] :
      Match[d][j] = Type[s] /\ Match[d][k] = Type[t] => k <= j

sensors_wrapper_activate(d, enable, act_ok, rate_ok) ==
  LET repaced == {s \in At(d) : Repaced(d, s, enable)}
      switched == {s \in At(d) : Switched(d, s, enable)}
      last == Last(d, repaced \cup switched)
  IN  /\ entry' = [s \in Drivers |-> IF s \in At(d) THEN Activated(d, s, enable) ELSE entry[s]]
      /\ hw' = [s \in Drivers |->
                  [hw[s] EXCEPT
                     !.on = IF s \in switched \cap act_ok THEN enable ELSE @,
                     !.delay = IF s \in repaced \cap rate_ok
                               THEN list_get_rate(Activated(d, s, enable)) ELSE @]]
      /\ acted' = [s \in Drivers |-> IF s \in switched THEN s \in act_ok ELSE acted[s]]
      /\ paced' = [s \in Drivers |-> IF s \in repaced THEN s \in rate_ok ELSE paced[s]]
      /\ rv' = IF repaced \cup switched = {} THEN 0
               ELSE IF last \in (IF last \in switched THEN act_ok ELSE rate_ok) THEN 0 ELSE -1
      /\ wants' = IF enable THEN wants \cup {d} ELSE wants \ {d}
      /\ heard' = Silence
      /\ UNCHANGED access

(***************************************************************************)
(* sensors_wrapper_set_delay                                               *)
(***************************************************************************)

Delayed(d, s, ns) == list_set_rate(entry[s], access[d][s], ns)

sensors_wrapper_set_delay(d, ns, rate_ok) ==
  LET delayed == {s \in At(d) : list_get_rate(Delayed(d, s, ns)) # list_get_rate(entry[s])}
  IN  /\ entry' = [s \in Drivers |-> IF s \in At(d) THEN Delayed(d, s, ns) ELSE entry[s]]
      /\ hw' = [s \in Drivers |-> IF s \in delayed \cap rate_ok
                                  THEN [hw[s] EXCEPT !.delay = list_get_rate(Delayed(d, s, ns))]
                                  ELSE hw[s]]
      /\ paced' = [s \in Drivers |-> IF s \in delayed THEN s \in rate_ok ELSE paced[s]]
      /\ rv' = IF delayed = {} \/ Last(d, delayed) \in rate_ok THEN 0 ELSE -1
      /\ heard' = Silence
      /\ UNCHANGED <<access, acted, wants>>

(***************************************************************************)
(* sensors_wrapper_close                                                   *)
(***************************************************************************)

Closed(d, s) ==
  list_set_rate(list_set_status(entry[s], access[d][s], "CLOSE"), access[d][s], NO_RATE)

\* The last client of a driver to close closes it; CLOSE is never cleared.
sensors_wrapper_close(d) ==
  /\ entry' = [s \in Drivers |-> IF s \in At(d) THEN Closed(d, s) ELSE entry[s]]
  /\ hw' = [s \in Drivers |->
              IF s \in At(d) /\ list_get_status(Closed(d, s), "CLOSE") = entry[s].nr
              THEN [hw[s] EXCEPT !.on = FALSE, !.closed = TRUE] ELSE hw[s]]
  /\ heard' = Silence
  /\ UNCHANGED <<access, rv, acted, paced, wants>>

(***************************************************************************)
(* sensors_wrapper_data: a running driver's thread, wrapper_mutex held,    *)
(* hands a sample to every active client of its entry.                     *)
(***************************************************************************)

sensors_wrapper_data(s) ==
  /\ hw[s].on
  /\ heard' = [from |-> s, to |-> {entry[s].api[c] :
                 c \in {c \in Used(entry[s]) : "ACTIVE" \in entry[s].status[c]}}]
  /\ UNCHANGED <<entry, access, hw, rv, acted, paced, wants>>

\* The drivers that accept a call of client d, whatever they were before.
Accepting(d) == {Drivers \ refusing : refusing \in SUBSET (Unreliable \cap {s \in Drivers : Matches(d, s)})}

\* The HAL calls a client's init, then the rest; nothing after its close.
Open(d) == \A s \in At(d) : "CLOSE" \notin entry[s].status[access[d][s]]

WrapperNext ==
  \/ \E d \in Clients : Open(d) /\
       \/ \E init_ok \in Accepting(d) : sensors_wrapper_init(d, init_ok)
       \/ \E enable \in BOOLEAN : \E act_ok, rate_ok \in Accepting(d) :
            sensors_wrapper_activate(d, enable, act_ok, rate_ok)
       \/ \E ns \in Rates \cup {NO_RATE} : \E rate_ok \in Accepting(d) :
            sensors_wrapper_set_delay(d, ns, rate_ok)
       \/ sensors_wrapper_close(d)
  \/ \E s \in Drivers : sensors_wrapper_data(s)

WrapperSpec == WrapperInit /\ [][WrapperNext]_wrapperVars

(***************************************************************************)
(* Properties.                                                             *)
(***************************************************************************)

(* Every variable has its type.                                            *)
WrapperTypes ==
  /\ entry \in [Drivers -> [nr : 0..MAX_SENSOR_CONNECTIONS,
                            api : [Slots -> Clients \cup {NoClient}],
                            status : [Slots -> SUBSET {"CLOSE", "INIT", "ACTIVE"}],
                            rate : [Slots -> Rates \cup {NO_RATE}]]]
  /\ DOMAIN access = Clients
  /\ \A d \in Clients : access[d] \in [At(d) -> Slots] /\ At(d) \subseteq Drivers
  /\ hw \in [Drivers -> [on : BOOLEAN, delay : Rates \cup {NO_RATE}, closed : BOOLEAN]]
  /\ rv \in {0, -1}
  /\ acted \in [Drivers -> BOOLEAN] /\ paced \in [Drivers -> BOOLEAN]
  /\ wants \subseteq Clients
  /\ heard \in [from : Drivers \cup {0}, to : SUBSET Clients]

(* The two records of an attachment agree: slot c of entry s is client d's *)
(* exactly when d's access field says so, and a client has at most one     *)
(* driver per match. list_set_* index one array by the other's numbers.    *)
AttachedBothWays ==
  /\ \A s \in Drivers : \A c \in Slots : \A d \in Clients :
       (c \in Used(entry[s]) /\ entry[s].api[c] = d) <=> (s \in At(d) /\ access[d][s] = c)
  /\ \A d \in Clients : \A s, t \in At(d) : Type[s] = Type[t] => s = t

(* A driver that accepted its last activate runs exactly when some client  *)
(* attached to it is enabled (and it has not been closed).                 *)
RunsWhileWanted ==
  \A s \in Drivers : acted[s] /\ ~hw[s].closed =>
    (hw[s].on <=> \E d \in wants : s \in At(d) /\ "ACTIVE" \in entry[s].status[access[d][s]])

(* Whatever fails, no step turns a driver off, short of its close, while   *)
(* some client of it is active after the step.                             *)
StopsOnlyUnused ==
  [][\A s \in Drivers : hw[s].on /\ ~hw'[s].on /\ ~hw'[s].closed
       => \A c \in 1..entry'[s].nr : "ACTIVE" \notin entry'[s].status[c]]_wrapperVars

(* A driver that accepted its last set_delay, and none of whose clients    *)
(* has closed, runs at the smallest delay its clients have asked for.      *)
AtFastestRate ==
  \A s \in Drivers :
    /\ paced[s] /\ list_get_status(entry[s], "CLOSE") = 0
    /\ list_get_rate(entry[s]) # NO_RATE
    => hw[s].delay = list_get_rate(entry[s])

(* Data goes to the clients the HAL enabled last, and to each of them that *)
(* was attached to the driver when it was enabled: none hears a driver it  *)
(* shares with others through another's slot.                              *)
HeardByWanting ==
  \A s \in Drivers : heard.from = s =>
    heard.to = {d \in wants : s \in At(d) /\ "ACTIVE" \in entry[s].status[access[d][s]]}

=============================================================================
