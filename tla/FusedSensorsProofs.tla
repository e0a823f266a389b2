-------------------------- MODULE FusedSensorsProofs --------------------------
(***************************************************************************)
(* Theorems about FusedSensors, for any drivers, clients, matches, rates   *)
(* and failures, and whichever of the fused modules is taken.              *)
(***************************************************************************)
EXTENDS FusedSensors, SensorsWrapperProofs, SequenceTheorems

(***************************************************************************)
(* The calls of the wrapper, by what they do to the slots of each client.  *)
(***************************************************************************)

ActiveAt(d, s) == "ACTIVE" \in entry[s].status[access[d][s]]
CloseAt(d, s) == "CLOSE" \in entry[s].status[access[d][s]]
RateAt(d, s) == entry[s].rate[access[d][s]]

\* A step that leaves the slot of client d at driver s as it is.
Kept(d, s) == /\ ActiveAt(d, s)' <=> ActiveAt(d, s)
              /\ CloseAt(d, s)' <=> CloseAt(d, s)
              /\ RateAt(d, s)' = RateAt(d, s)

(* A call of one client leaves the slots of the others.                    *)
LEMMA TouchOthers ==
  ASSUME AttachInv, NEW d \in Clients, Touches(d)
  PROVE  /\ \A e \in Clients : At(e)' = At(e)
         /\ \A e \in Clients \ {d} : \A s \in At(e) : Kept(e, s)
<1>1. access' = access
  BY DEF Touches
<1>2. \A e \in Clients : At(e)' = At(e)
  BY <1>1 DEF At
<1>3. ASSUME NEW e \in Clients \ {d}, NEW s \in At(e)
      PROVE  Kept(e, s)
  <2>1. /\ s \in Drivers /\ access[e][s] \in Slots /\ entry[s].api[access[e][s]] = e
        /\ s \in At(d) => entry[s].api[access[d][s]] = d
    BY <1>3 DEF AttachInv
  <2>2. CASE s \notin At(d)
    <3>1. entry'[s] = entry[s]
      BY <2>1, <2>2 DEF Touches
    <3>2. QED
      BY <1>1, <3>1 DEF Kept, ActiveAt, CloseAt, RateAt
  <2>3. CASE s \in At(d)
    <3>1. access[e][s] \in Slots \ {access[d][s]}
      BY <1>3, <2>1, <2>3
    <3>2. /\ entry'[s].status[access[e][s]] = entry[s].status[access[e][s]]
          /\ entry'[s].rate[access[e][s]] = entry[s].rate[access[e][s]]
      BY <2>3, <3>1 DEF Touches
    <3>3. QED
      BY <1>1, <3>2 DEF Kept, ActiveAt, CloseAt, RateAt
  <2>4. QED
    BY <2>2, <2>3
<1>4. QED
  BY <1>2, <1>3

LEMMA InitSlots ==
  ASSUME WrapperInv, NEW d \in Clients, NEW init_ok, sensors_wrapper_init(d, init_ok)
  PROVE  /\ WrapperInv' /\ hw' = hw /\ paced' = paced /\ wants' = wants
         /\ \A e \in Clients \ {d} : At(e)' = At(e)
         /\ At(d) \subseteq At(d)'
         /\ \A e \in Clients : \A s \in At(e) : Kept(e, s)
         /\ \A s \in At(d)' \ At(d) : ~ActiveAt(d, s)' /\ ~CloseAt(d, s)' /\ RateAt(d, s)' = NO_RATE
<1> DEFINE picks == Picks(d, init_ok)
<1>1. WrapperInv' /\ hw' = hw /\ paced' = paced /\ wants' = wants
  BY InitPreserves DEF sensors_wrapper_init
<1>2. AttachInv /\ \A s \in picks : s \in Drivers /\ s \notin At(d) /\ Matches(d, s)
  BY PicksNew DEF WrapperInv
<1>3. access = [e \in Clients |-> access[e]]
  BY <1>2 DEF AttachInv
<1>4. access' = [access EXCEPT ![d] =
         [s \in At(d) \cup picks |-> IF s \in At(d) THEN access[d][s] ELSE entry[s].nr + 1]]
  BY DEF sensors_wrapper_init
<1> HIDE DEF picks
<1>5. /\ \A e \in Clients \ {d} : access'[e] = access[e]
      /\ access'[d] = [s \in At(d) \cup picks |-> IF s \in At(d) THEN access[d][s] ELSE entry[s].nr + 1]
  BY <1>3, <1>4
<1>6. /\ \A e \in Clients \ {d} : At(e)' = At(e)
      /\ At(d)' = At(d) \cup picks
  BY <1>5 DEF At
<1>7. \A s \in Drivers : IF s \in picks
                         THEN entry'[s] = attach(entry[s], d) ELSE entry'[s] = entry[s]
  BY DEF sensors_wrapper_init, picks
<1>8. ASSUME NEW s \in picks
      PROVE  LET c == entry[s].nr + 1
             IN  /\ c \in Slots /\ c \notin Used(entry[s])
                 /\ entry[s].status[c] = {} /\ entry[s].rate[c] = NO_RATE
                 /\ entry'[s].rate = entry[s].rate
                 /\ entry'[s].status[c] = {"INIT"}
                 /\ \A k \in Slots \ {c} : entry'[s].status[k] = entry[s].status[k]
  <2> DEFINE c == entry[s].nr + 1
  <2>1. entry[s] \in Entry /\ c \in Slots /\ entry'[s] = attach(entry[s], d)
    BY <1>2, <1>7, <1>8, SlotLeft DEF AttachInv
  <2>2. c \notin Used(entry[s])
    BY <2>1 DEF Used, Entry
  <2>3. entry[s].status[c] = {} /\ entry[s].rate[c] = NO_RATE
    BY <1>2, <1>8, <2>1, <2>2 DEF AttachInv
  <2>4. LET f == attach(entry[s], d)
        IN  /\ f \in Entry /\ f.nr = c /\ f.rate = entry[s].rate
            /\ f.api[c] = d /\ f.status[c] = entry[s].status[c] \cup {"INIT"}
            /\ \A k \in Slots \ {c} : f.api[k] = entry[s].api[k] /\ f.status[k] = entry[s].status[k]
    BY <2>1, AttachEntry, Zenon
  <2> HIDE DEF c
  <2>5. entry'[s].status[c] = {"INIT"}
    BY <2>1, <2>3, <2>4
  <2>6. QED
    BY <2>1, <2>2, <2>3, <2>4, <2>5 DEF c
<1>9. ASSUME NEW e \in Clients, NEW s \in At(e)
      PROVE  Kept(e, s)
  <2>1. s \in Drivers /\ access[e][s] \in Slots /\ access[e][s] \in Used(entry[s])
    BY <1>2, <1>9 DEF AttachInv
  <2>2. access'[e][s] = access[e][s]
    BY <1>5, <1>9
  <2>3. /\ entry'[s].status[access[e][s]] = entry[s].status[access[e][s]]
        /\ entry'[s].rate[access[e][s]] = entry[s].rate[access[e][s]]
    <3>1. CASE s \in picks
      BY <1>8, <2>1, <3>1
    <3>2. CASE s \notin picks
      BY <1>7, <2>1, <3>2
    <3>3. QED
      BY <3>1, <3>2
  <2>4. QED
    BY <2>2, <2>3 DEF Kept, ActiveAt, CloseAt, RateAt
<1>10. ASSUME NEW s \in At(d)' \ At(d)
       PROVE  ~ActiveAt(d, s)' /\ ~CloseAt(d, s)' /\ RateAt(d, s)' = NO_RATE
  <2>1. s \in picks /\ access'[d][s] = entry[s].nr + 1
    BY <1>5, <1>6, <1>10
  <2>2. entry'[s].status[access'[d][s]] = {"INIT"} /\ entry'[s].rate[access'[d][s]] = NO_RATE
    BY <1>8, <2>1
  <2>3. QED
    BY <2>2 DEF ActiveAt, CloseAt, RateAt
<1>11. QED
  BY <1>1, <1>6, <1>9, <1>10

LEMMA ActivateSlots ==
  ASSUME WrapperInv, NEW d \in Clients, NEW enable \in BOOLEAN, NEW act_ok, NEW rate_ok,
         sensors_wrapper_activate(d, enable, act_ok, rate_ok)
  PROVE  /\ WrapperInv'
         /\ wants' = IF enable THEN wants \cup {d} ELSE wants \ {d}
         /\ \A s \in Drivers : hw'[s].closed = hw[s].closed
         /\ \A e \in Clients : At(e)' = At(e)
         /\ \A e \in Clients \ {d} : \A s \in At(e) : Kept(e, s)
         /\ \A s \in At(d) : /\ ActiveAt(d, s)' <=> enable
                             /\ CloseAt(d, s)' <=> CloseAt(d, s)
                             /\ RateAt(d, s)' = IF enable THEN RateAt(d, s) ELSE NO_RATE
<1>1. AttachInv /\ hw \in [Drivers -> [on : BOOLEAN, delay : RateSet, closed : BOOLEAN]]
  BY DEF WrapperInv, TypeInv
<1>2. AttachInv /\ Touches(d) /\ access' = access
  BY <1>1, ActivateTouches DEF Touches
<1>3. WrapperInv'
  BY ActivatePreserves
<1>4. \A s \in At(d) :
        /\ entry'[s] = Activated(d, s, enable)
        /\ entry'[s].status[access[d][s]] =
             IF enable THEN entry[s].status[access[d][s]] \cup {"ACTIVE"}
             ELSE entry[s].status[access[d][s]] \ {"ACTIVE"}
        /\ entry'[s].rate[access[d][s]] =
             IF enable THEN entry[s].rate[access[d][s]] ELSE NO_RATE
  BY <1>2, ActivateTouches
<1>5. ASSUME NEW s \in At(d)
      PROVE  /\ ActiveAt(d, s)' <=> enable
             /\ CloseAt(d, s)' <=> CloseAt(d, s)
             /\ RateAt(d, s)' = IF enable THEN RateAt(d, s) ELSE NO_RATE
  <2>1. access'[d][s] = access[d][s]
    BY <1>2
  <2>2. CASE enable
    <3>1. /\ entry'[s].status[access[d][s]] = entry[s].status[access[d][s]] \cup {"ACTIVE"}
          /\ entry'[s].rate[access[d][s]] = entry[s].rate[access[d][s]]
      BY <1>4, <2>2
    <3>2. QED
      BY <2>1, <2>2, <3>1 DEF ActiveAt, CloseAt, RateAt
  <2>3. CASE ~enable
    <3>1. /\ entry'[s].status[access[d][s]] = entry[s].status[access[d][s]] \ {"ACTIVE"}
          /\ entry'[s].rate[access[d][s]] = NO_RATE
      BY <1>4, <2>3
    <3>2. QED
      BY <2>1, <2>3, <3>1 DEF ActiveAt, CloseAt, RateAt
  <2>4. QED
    BY <2>2, <2>3
<1>6. /\ wants' = IF enable THEN wants \cup {d} ELSE wants \ {d}
      /\ \A s \in Drivers : hw'[s].closed = hw[s].closed
  BY <1>1 DEF sensors_wrapper_activate
<1>7. QED
  BY <1>1, <1>2, <1>3, <1>5, <1>6, TouchOthers

LEMMA DelaySlots ==
  ASSUME WrapperInv, NEW d \in Clients, NEW ns \in RateSet, NEW rate_ok,
         sensors_wrapper_set_delay(d, ns, rate_ok)
  PROVE  /\ WrapperInv' /\ wants' = wants
         /\ \A s \in Drivers : hw'[s].closed = hw[s].closed
         /\ \A e \in Clients : At(e)' = At(e)
         /\ \A e \in Clients \ {d} : \A s \in At(e) : Kept(e, s)
         /\ \A s \in At(d) : /\ ActiveAt(d, s)' <=> ActiveAt(d, s)
                             /\ CloseAt(d, s)' <=> CloseAt(d, s)
                             /\ RateAt(d, s)' = ns
<1>1. AttachInv /\ hw \in [Drivers -> [on : BOOLEAN, delay : RateSet, closed : BOOLEAN]]
  BY DEF WrapperInv, TypeInv
<1>2. Touches(d) /\ access' = access
  BY <1>1, DelayTouches DEF Touches
<1>3. WrapperInv'
  BY DelayPreserves
<1>4. \A s \in At(d) : entry'[s] = Delayed(d, s, ns) /\ entry'[s].status = entry[s].status
  BY <1>1, DelayTouches
<1>5. \A s \in At(d) : s \in Drivers /\ entry[s] \in Entry /\ access[d][s] \in Slots
  BY <1>1 DEF AttachInv
<1>6. ASSUME NEW s \in At(d)
      PROVE  entry'[s].rate[access[d][s]] = ns
  <2>1. entry'[s].rate = [entry[s].rate EXCEPT ![access[d][s]] = ns]
    BY <1>4, <1>5 DEF Delayed, list_set_rate, Entry
  <2>2. entry[s].rate \in [Slots -> RateSet]
    BY <1>5 DEF Entry
  <2>3. QED
    BY <1>5, <2>1, <2>2
<1>7. \A s \in At(d) : /\ ActiveAt(d, s)' <=> ActiveAt(d, s)
                       /\ CloseAt(d, s)' <=> CloseAt(d, s)
                       /\ RateAt(d, s)' = ns
  BY <1>2, <1>4, <1>6 DEF ActiveAt, CloseAt, RateAt
<1>8. /\ wants' = wants
      /\ \A s \in Drivers : hw'[s].closed = hw[s].closed
  BY <1>1 DEF sensors_wrapper_set_delay
<1>9. QED
  BY <1>1, <1>2, <1>3, <1>7, <1>8, TouchOthers

(* A close closes the drivers all of whose clients have closed.            *)
LEMMA CloseSlots ==
  ASSUME WrapperInv, NEW d \in Clients, sensors_wrapper_close(d)
  PROVE  /\ WrapperInv' /\ wants' = wants /\ paced' = paced
         /\ \A s \in Drivers :
              hw'[s].closed <=> \/ hw[s].closed
                                \/ /\ s \in At(d)
                                   /\ \A e \in Clients : s \in At(e) => CloseAt(e, s)'
         /\ \A e \in Clients : At(e)' = At(e)
         /\ \A e \in Clients \ {d} : \A s \in At(e) : Kept(e, s)
         /\ \A s \in At(d) : CloseAt(d, s)' /\ (ActiveAt(d, s)' <=> ActiveAt(d, s))
<1>1. AttachInv /\ hw \in [Drivers -> [on : BOOLEAN, delay : RateSet, closed : BOOLEAN]]
  BY DEF WrapperInv, TypeInv
<1>2. Touches(d) /\ access' = access
  BY <1>1, CloseTouches DEF Touches
<1>3. WrapperInv' /\ AttachInv'
  BY ClosePreserves DEF WrapperInv
<1>4. \A s \in At(d) : entry'[s].status[access[d][s]] = entry[s].status[access[d][s]] \cup {"CLOSE"}
  BY <1>1, CloseTouches
<1>5. \A s \in At(d) : CloseAt(d, s)' /\ (ActiveAt(d, s)' <=> ActiveAt(d, s))
  BY <1>2, <1>4 DEF ActiveAt, CloseAt
<1>6. wants' = wants /\ paced' = paced
  BY DEF sensors_wrapper_close
<1>7. \A s \in Drivers :
        hw'[s].closed <=> hw[s].closed \/ (s \in At(d) /\ list_get_status(entry'[s], "CLOSE") = entry'[s].nr)
  <2>1. \A s \in At(d) : entry'[s] = Closed(d, s) /\ entry'[s].nr = entry[s].nr
    BY <1>1, <1>2 DEF sensors_wrapper_close, Touches, AttachInv
  <2>2. \A s \in Drivers :
          hw'[s] = IF s \in At(d) /\ list_get_status(Closed(d, s), "CLOSE") = entry[s].nr
                   THEN [hw[s] EXCEPT !.on = FALSE, !.closed = TRUE] ELSE hw[s]
    BY DEF sensors_wrapper_close
  <2>3. ASSUME NEW s \in Drivers
        PROVE  hw'[s].closed
                 <=> hw[s].closed \/ (s \in At(d) /\ list_get_status(entry'[s], "CLOSE") = entry'[s].nr)
    <3>1. hw[s] \in [on : BOOLEAN, delay : RateSet, closed : BOOLEAN]
      BY <1>1
    <3>2. CASE s \in At(d) /\ list_get_status(Closed(d, s), "CLOSE") = entry[s].nr
      BY <2>1, <2>2, <3>1, <3>2
    <3>3. CASE ~(s \in At(d) /\ list_get_status(Closed(d, s), "CLOSE") = entry[s].nr)
      BY <2>1, <2>2, <3>1, <3>3
    <3>4. QED
      BY <3>2, <3>3
  <2>4. QED
    BY <2>3
<1>8. ASSUME NEW s \in Drivers
      PROVE  list_get_status(entry'[s], "CLOSE") = entry'[s].nr
               <=> \A e \in Clients : s \in At(e) => CloseAt(e, s)'
  <2> DEFINE U == Used(entry'[s])
             S == {c \in U : "CLOSE" \in entry'[s].status[c]}
  <2>1. entry'[s] \in Entry
    BY <1>3 DEF AttachInv
  <2>2. IsFiniteSet(U) /\ Cardinality(U) = entry'[s].nr
    <3>1. entry'[s].nr \in Nat
      BY <2>1 DEF Entry
    <3>2. \A n \in Nat : IsFiniteSet(1..n) /\ Cardinality(1..n) = n
      <4>1. ASSUME NEW n \in Nat
            PROVE  IsFiniteSet(1..n) /\ Cardinality(1..n) = IF 1 > n THEN 0 ELSE n - 1 + 1
        <5>1. 1 \in Int /\ n \in Int
          OBVIOUS
        <5>2. QED
          BY ONLY <5>1, FS_Interval
      <4>2. QED
        BY ONLY <4>1
    <3>3. QED
      BY <3>1, <3>2 DEF Used
  <2>3. Cardinality(S) = Cardinality(U) <=> S = U
    BY <2>2, FS_Subset
  <2>4. S = U <=> \A e \in Clients : s \in At(e) => CloseAt(e, s)'
    <3>1. \A e \in Clients : s \in At(e) =>
            /\ access'[e][s] \in U /\ (CloseAt(e, s)' <=> access'[e][s] \in S)
      BY <1>2, <1>3 DEF AttachInv, At, CloseAt
    <3>2. \A c \in U : \E e \in Clients : s \in At(e) /\ access'[e][s] = c
      BY <1>2, <1>3 DEF AttachInv, At
    <3> HIDE DEF U
    <3>3. QED
      BY <3>1, <3>2
  <2>5. QED
    BY <2>2, <2>3, <2>4 DEF list_get_status
<1>9. \A s \in Drivers :
        hw'[s].closed <=> \/ hw[s].closed
                          \/ /\ s \in At(d)
                             /\ \A e \in Clients : s \in At(e) => CloseAt(e, s)'
  BY <1>7, <1>8
<1>10. QED
  BY <1>1, <1>2, <1>3, <1>5, <1>6, <1>9, TouchOthers

(* A step that calls nobody keeps the wrapper as it is.                    *)
LEMMA ApartPreserves == ASSUME WrapperInv, Apart
                        PROVE  /\ WrapperInv'
                               /\ \A d : At(d)' = At(d) /\ \A s : Kept(d, s)
<1>1. /\ entry' = entry /\ access' = access /\ hw' = hw /\ rv' = rv
      /\ acted' = acted /\ paced' = paced /\ wants' = wants /\ heard' = Silence
  BY DEF Apart
<1>2. AttachInv'
  BY <1>1, SameAttach DEF WrapperInv
<1>3. TypeInv' /\ ActiveInv' /\ RunInv' /\ RateInv'
  BY <1>1 DEF WrapperInv, TypeInv, ActiveInv, RunInv, RateInv, Active, NoneClosed
<1>4. HeardInv'
  BY <1>1, SilenceHeard
<1>5. \A d : At(d)' = At(d) /\ \A s : Kept(d, s)
  BY <1>1 DEF At, Kept, ActiveAt, CloseAt, RateAt
<1>6. QED
  BY <1>2, <1>3, <1>4, <1>5 DEF WrapperInv

(***************************************************************************)
(* The calls under way: what is left of each.                              *)
(***************************************************************************)

Opening == {<<"plain_init", "wrapper_init", "AKM_Init">>, <<"wrapper_init", "AKM_Init">>, <<"AKM_Init">>,
            <<"plain_init", "Initialization", "wrapper_init">>, <<"Initialization", "wrapper_init">>,
            <<"plain_init", "wrapper_init">>, <<"wrapper_init">>}

Joining == {<<"set">>}                                   \* others are on
Starting == {<<"set", "AKM_Start", "activate">>, <<"set", "activate">>}
Started == {<<"AKM_Start", "activate">>, <<"activate">>}
Leaving == {<<"request_none", "clear">>, <<"clear">>}    \* others stay on
Stopping == {<<"request_none", "clear", "AKM_Stop", "deactivate">>, <<"clear", "AKM_Stop", "deactivate">>,
             <<"request_none", "clear", "deactivate">>, <<"clear", "deactivate">>}
Stopped == {<<"AKM_Stop", "deactivate">>, <<"deactivate">>}
Pacing == {<<"request">>, <<"default_rate">>, <<"limited_rate">>}
Fusing == Joining \cup Starting \cup Started \cup Leaving \cup Stopping \cup Stopped \cup Pacing

PlainCalls == {<<"plain_activate">>, <<"plain_deactivate">>, <<"plain_set_delay">>}

Todo == call.todo

\* The close steps left: the module's are there only if it is off.
Off == enable_mask = {} /\ lib # "none"
Closing ==
  /\ Todo \in Seq({"plain_close", "AKM_Release", "wrapper_close"})
  /\ \A j \in 1..Len(Todo) : (Todo[j] = "plain_close" => j = 1) /\ (Todo[j] # "plain_close" => Off)

CallInv ==
  /\ kind \in Kinds
  /\ call = [todo |-> call.todo, sensor |-> call.sensor, ns |-> call.ns]
  /\ session \in {"new", "open", "closed"}
  /\ lib \in {"none", "stopped", "running", "released"}
  /\ call.sensor \in Sensors \cup {"plain", None} /\ call.ns \in RateSet
  /\ session = "new" => Rest /\ wants = {} /\ lib = "none" /\ want = {}
  /\ session = "open" => Todo \in {<<>>} \cup Opening \cup Fusing \cup PlainCalls
  /\ session = "closed" => Closing
  /\ Todo \in Fusing => call.sensor \in Sensors /\ lib # "none"
  /\ Todo \in Opening => lib = "none" /\ wants = {} /\ want = {}
  /\ lib = "none" => enable_mask = {} /\ kind \notin wants
  /\ Todo \in Pacing \cup {<<"plain_set_delay">>} => call.ns \in Rates
  /\ Todo \in {<<"set", "activate">>, <<"clear", "deactivate">>, <<"request_none", "clear", "deactivate">>}
       => kind \notin Chips
  /\ Todo # <<>> /\ Todo[1] = "request" => kind \in Akm
  /\ Todo # <<>> /\ Todo[1] = "request_none" => kind \in Akm
  /\ Todo = <<"default_rate">> => kind = "inemo"
  /\ Todo = <<"limited_rate">> => kind = "ecompass"

\* The mask, the client of the wrapper and the library, at each point of a call.
LibFollows == kind \in Chips => (lib = "running" <=> enable_mask # {})
MaskInv ==
  /\ Todo \notin Started \cup Stopped => (kind \in wants <=> enable_mask # {})
  /\ Todo \notin Started \cup Stopped /\ session # "closed" => LibFollows
  /\ session = "closed" /\ kind \in Chips /\ enable_mask # {} => lib = "running"
  /\ Todo \in Joining => enable_mask # {}
  /\ Todo \in Starting => enable_mask = {}
  /\ Todo \in Started => enable_mask # {} /\ kind \notin wants
  /\ Todo = <<"activate">> => LibFollows
  /\ Todo \in Leaving => enable_mask \ {call.sensor} # {}
  /\ Todo \in Stopping => enable_mask \ {call.sensor} = {}
  /\ Todo \in Stopped => enable_mask = {}
  /\ Todo = <<"deactivate">> => LibFollows

\* What the framework wants, and the events it gets.
WantInv ==
  /\ want \subseteq Sensors \cup {"plain"} /\ enable_mask \subseteq want \cap Sensors
  /\ unheard \subseteq Sensors
  /\ Todo \in Joining \cup Starting => call.sensor \in want
  /\ late \subseteq Sensors \ want
  /\ wants \subseteq {kind, "plain"}
  /\ Todo \notin {<<"plain_activate">>, <<"plain_deactivate">>} => ("plain" \in want <=> "plain" \in wants)
  /\ Todo = <<"plain_activate">> => "plain" \in want

EventInv ==
  /\ data = [todo |-> data.todo, hold |-> data.hold, ran |-> data.ran]
  /\ data.todo \in Seq(AndroidSensors) /\ data.ran \in BOOLEAN
  /\ data.hold \in Sensors \cup {None} /\ data.hold \notin late
  /\ strayed = {}
  /\ threshold_counter \in 0..FRC_TRIGGER
  /\ exist \subseteq Types /\ fresh \subseteq Types
  /\ kind = "inemo" => exist = fresh
  /\ kind = "akm6d" => exist \subseteq fresh
  /\ Fuses => fresh \subseteq Matched(kind)

SlotInv ==
  /\ \A d \in Clients \ {kind, "plain"} : At(d) = {}
  /\ \A d \in {kind, "plain"} : \A s \in At(d) : ActiveAt(d, s) <=> d \in wants

CloseInv ==
  /\ session # "closed" => \A d \in {kind, "plain"} : \A s \in At(d) : ~CloseAt(d, s)
  /\ \A s \in Drivers :
       hw[s].closed <=> /\ s \in At(kind) \cup At("plain")
                        /\ \A d \in {kind, "plain"} : s \in At(d) => CloseAt(d, s)
  /\ session = "closed" =>
       /\ (Todo # <<>> /\ Todo[1] = "plain_close") \/ (\A s \in At("plain") : CloseAt("plain", s))
       /\ \A s \in At(kind) : CloseAt(kind, s) => Off
       /\ Off => (Todo # <<>> /\ Todo[Len(Todo)] = "wrapper_close") \/ \A s \in At(kind) : CloseAt(kind, s)

PaceInv ==
  /\ delay_requests \in [Sensors -> RateSet]
  /\ kind \in Akm /\ Todo # <<>> /\ Todo[1] = "clear" => delay_requests[call.sensor] = NO_RATE
  /\ session # "closed" => \A s \in At(kind) :
       /\ kind \in Akm => RateAt(kind, s) = Fastest(enable_mask \ unheard, delay_requests)
       /\ kind = "inemo" => RateAt(kind, s) \in {NO_RATE, rate_ns}
       /\ kind = "ecompass" => RateAt(kind, s) <= COMPASS_DELAY

FusedInv == WrapperInv /\ CallInv /\ MaskInv /\ WantInv /\ EventInv /\ SlotInv /\ CloseInv /\ PaceInv

(***************************************************************************)
(* The steps of the calls.                                                 *)
(***************************************************************************)

Shapes == {<<>>} \cup Opening \cup Fusing \cup PlainCalls

(* What is left of a call after its next step.                             *)
LEMMA FusedSteps ==
  ASSUME NEW t \in Shapes, t # <<>>
  PROVE  /\ Head(t) = "set" =>
              \/ t = <<"set">> /\ Tail(t) = <<>>
              \/ t = <<"set", "AKM_Start", "activate">> /\ Tail(t) = <<"AKM_Start", "activate">>
              \/ t = <<"set", "activate">> /\ Tail(t) = <<"activate">>
         /\ Head(t) = "AKM_Start" => t = <<"AKM_Start", "activate">> /\ Tail(t) = <<"activate">>
         /\ Head(t) = "activate" => t = <<"activate">> /\ Tail(t) = <<>>
         /\ Head(t) = "request_none" =>
              \/ t = <<"request_none", "clear">> /\ Tail(t) = <<"clear">>
              \/ t = <<"request_none", "clear", "AKM_Stop", "deactivate">> /\ Tail(t) = <<"clear", "AKM_Stop", "deactivate">>
              \/ t = <<"request_none", "clear", "deactivate">> /\ Tail(t) = <<"clear", "deactivate">>
         /\ Head(t) = "clear" =>
              \/ t = <<"clear">> /\ Tail(t) = <<>>
              \/ t = <<"clear", "AKM_Stop", "deactivate">> /\ Tail(t) = <<"AKM_Stop", "deactivate">>
              \/ t = <<"clear", "deactivate">> /\ Tail(t) = <<"deactivate">>
         /\ Head(t) = "AKM_Stop" => t = <<"AKM_Stop", "deactivate">> /\ Tail(t) = <<"deactivate">>
         /\ Head(t) = "deactivate" => t = <<"deactivate">> /\ Tail(t) = <<>>
         /\ Head(t) = "request" => t = <<"request">> /\ Tail(t) = <<>>
         /\ Head(t) = "default_rate" => t = <<"default_rate">> /\ Tail(t) = <<>>
         /\ Head(t) = "limited_rate" => t = <<"limited_rate">> /\ Tail(t) = <<>>
<1>1. Head(t) = "set" =>
       \/ t = <<"set">> /\ Tail(t) = <<>>
       \/ t = <<"set", "AKM_Start", "activate">> /\ Tail(t) = <<"AKM_Start", "activate">>
       \/ t = <<"set", "activate">> /\ Tail(t) = <<"activate">>
  <2>1. Head(t) = "set" => t \in {<<"set">>, <<"set", "AKM_Start", "activate">>, <<"set", "activate">>}
    BY DEF Shapes, Opening, Fusing, PlainCalls, Joining, Starting, Started, Leaving, Stopping, Stopped, Pacing
  <2>2. /\ Tail(<<"set">>) = <<>>
        /\ Tail(<<"set", "AKM_Start", "activate">>) = <<"AKM_Start", "activate">>
        /\ Tail(<<"set", "activate">>) = <<"activate">>
    OBVIOUS
  <2>3. QED
    BY <2>1, <2>2
<1>2. Head(t) = "AKM_Start" => t = <<"AKM_Start", "activate">> /\ Tail(t) = <<"activate">>
  <2>1. Head(t) = "AKM_Start" => t = <<"AKM_Start", "activate">>
    BY DEF Shapes, Opening, Fusing, PlainCalls, Joining, Starting, Started, Leaving, Stopping, Stopped, Pacing
  <2>2. Tail(<<"AKM_Start", "activate">>) = <<"activate">>
    OBVIOUS
  <2>3. QED
    BY <2>1, <2>2
<1>3. Head(t) = "activate" => t = <<"activate">> /\ Tail(t) = <<>>
  <2>1. Head(t) = "activate" => t = <<"activate">>
    BY DEF Shapes, Opening, Fusing, PlainCalls, Joining, Starting, Started, Leaving, Stopping, Stopped, Pacing
  <2>2. Tail(<<"activate">>) = <<>>
    OBVIOUS
  <2>3. QED
    BY <2>1, <2>2
<1>4. Head(t) = "request_none" =>
       \/ t = <<"request_none", "clear">> /\ Tail(t) = <<"clear">>
       \/ t = <<"request_none", "clear", "AKM_Stop", "deactivate">> /\ Tail(t) = <<"clear", "AKM_Stop", "deactivate">>
       \/ t = <<"request_none", "clear", "deactivate">> /\ Tail(t) = <<"clear", "deactivate">>
  <2>1. Head(t) = "request_none" => t \in {<<"request_none", "clear">>, <<"request_none", "clear", "AKM_Stop", "deactivate">>, <<"request_none", "clear", "deactivate">>}
    BY DEF Shapes, Opening, Fusing, PlainCalls, Joining, Starting, Started, Leaving, Stopping, Stopped, Pacing
  <2>2. /\ Tail(<<"request_none", "clear">>) = <<"clear">>
        /\ Tail(<<"request_none", "clear", "AKM_Stop", "deactivate">>) = <<"clear", "AKM_Stop", "deactivate">>
        /\ Tail(<<"request_none", "clear", "deactivate">>) = <<"clear", "deactivate">>
    OBVIOUS
  <2>3. QED
    BY <2>1, <2>2
<1>5. Head(t) = "clear" =>
       \/ t = <<"clear">> /\ Tail(t) = <<>>
       \/ t = <<"clear", "AKM_Stop", "deactivate">> /\ Tail(t) = <<"AKM_Stop", "deactivate">>
       \/ t = <<"clear", "deactivate">> /\ Tail(t) = <<"deactivate">>
  <2>1. Head(t) = "clear" => t \in {<<"clear">>, <<"clear", "AKM_Stop", "deactivate">>, <<"clear", "deactivate">>}
    BY DEF Shapes, Opening, Fusing, PlainCalls, Joining, Starting, Started, Leaving, Stopping, Stopped, Pacing
  <2>2. /\ Tail(<<"clear">>) = <<>>
        /\ Tail(<<"clear", "AKM_Stop", "deactivate">>) = <<"AKM_Stop", "deactivate">>
        /\ Tail(<<"clear", "deactivate">>) = <<"deactivate">>
    OBVIOUS
  <2>3. QED
    BY <2>1, <2>2
<1>6. Head(t) = "AKM_Stop" => t = <<"AKM_Stop", "deactivate">> /\ Tail(t) = <<"deactivate">>
  <2>1. Head(t) = "AKM_Stop" => t = <<"AKM_Stop", "deactivate">>
    BY DEF Shapes, Opening, Fusing, PlainCalls, Joining, Starting, Started, Leaving, Stopping, Stopped, Pacing
  <2>2. Tail(<<"AKM_Stop", "deactivate">>) = <<"deactivate">>
    OBVIOUS
  <2>3. QED
    BY <2>1, <2>2
<1>7. Head(t) = "deactivate" => t = <<"deactivate">> /\ Tail(t) = <<>>
  <2>1. Head(t) = "deactivate" => t = <<"deactivate">>
    BY DEF Shapes, Opening, Fusing, PlainCalls, Joining, Starting, Started, Leaving, Stopping, Stopped, Pacing
  <2>2. Tail(<<"deactivate">>) = <<>>
    OBVIOUS
  <2>3. QED
    BY <2>1, <2>2
<1>8. Head(t) = "request" => t = <<"request">> /\ Tail(t) = <<>>
  <2>1. Head(t) = "request" => t = <<"request">>
    BY DEF Shapes, Opening, Fusing, PlainCalls, Joining, Starting, Started, Leaving, Stopping, Stopped, Pacing
  <2>2. Tail(<<"request">>) = <<>>
    OBVIOUS
  <2>3. QED
    BY <2>1, <2>2
<1>9. Head(t) = "default_rate" => t = <<"default_rate">> /\ Tail(t) = <<>>
  <2>1. Head(t) = "default_rate" => t = <<"default_rate">>
    BY DEF Shapes, Opening, Fusing, PlainCalls, Joining, Starting, Started, Leaving, Stopping, Stopped, Pacing
  <2>2. Tail(<<"default_rate">>) = <<>>
    OBVIOUS
  <2>3. QED
    BY <2>1, <2>2
<1>10. Head(t) = "limited_rate" => t = <<"limited_rate">> /\ Tail(t) = <<>>
  <2>1. Head(t) = "limited_rate" => t = <<"limited_rate">>
    BY DEF Shapes, Opening, Fusing, PlainCalls, Joining, Starting, Started, Leaving, Stopping, Stopped, Pacing
  <2>2. Tail(<<"limited_rate">>) = <<>>
    OBVIOUS
  <2>3. QED
    BY <2>1, <2>2
<1>11. QED
  BY <1>1, <1>2, <1>3, <1>4, <1>5, <1>6, <1>7, <1>8, <1>9, <1>10, Zenon

LEMMA OtherSteps ==
  ASSUME NEW t \in Shapes, t # <<>>
  PROVE  /\ Head(t) = "plain_activate" => t = <<"plain_activate">> /\ Tail(t) = <<>>
         /\ Head(t) = "plain_deactivate" => t = <<"plain_deactivate">> /\ Tail(t) = <<>>
         /\ Head(t) = "plain_set_delay" => t = <<"plain_set_delay">> /\ Tail(t) = <<>>
         /\ Head(t) = "plain_init" =>
              \/ t = <<"plain_init", "wrapper_init", "AKM_Init">> /\ Tail(t) = <<"wrapper_init", "AKM_Init">>
              \/ t = <<"plain_init", "Initialization", "wrapper_init">> /\ Tail(t) = <<"Initialization", "wrapper_init">>
              \/ t = <<"plain_init", "wrapper_init">> /\ Tail(t) = <<"wrapper_init">>
         /\ Head(t) = "wrapper_init" =>
              \/ t = <<"wrapper_init", "AKM_Init">> /\ Tail(t) = <<"AKM_Init">>
              \/ t = <<"wrapper_init">> /\ Tail(t) = <<>>
         /\ Head(t) = "AKM_Init" => t = <<"AKM_Init">> /\ Tail(t) = <<>>
         /\ Head(t) = "Initialization" => t = <<"Initialization", "wrapper_init">> /\ Tail(t) = <<"wrapper_init">>
         /\ Head(t) \notin {"AKM_Release", "plain_close", "wrapper_close"}
<1>1. Head(t) = "plain_activate" => t = <<"plain_activate">> /\ Tail(t) = <<>>
  <2>1. Head(t) = "plain_activate" => t = <<"plain_activate">>
    BY DEF Shapes, Opening, Fusing, PlainCalls, Joining, Starting, Started, Leaving, Stopping, Stopped, Pacing
  <2>2. Tail(<<"plain_activate">>) = <<>>
    OBVIOUS
  <2>3. QED
    BY <2>1, <2>2
<1>2. Head(t) = "plain_deactivate" => t = <<"plain_deactivate">> /\ Tail(t) = <<>>
  <2>1. Head(t) = "plain_deactivate" => t = <<"plain_deactivate">>
    BY DEF Shapes, Opening, Fusing, PlainCalls, Joining, Starting, Started, Leaving, Stopping, Stopped, Pacing
  <2>2. Tail(<<"plain_deactivate">>) = <<>>
    OBVIOUS
  <2>3. QED
    BY <2>1, <2>2
<1>3. Head(t) = "plain_set_delay" => t = <<"plain_set_delay">> /\ Tail(t) = <<>>
  <2>1. Head(t) = "plain_set_delay" => t = <<"plain_set_delay">>
    BY DEF Shapes, Opening, Fusing, PlainCalls, Joining, Starting, Started, Leaving, Stopping, Stopped, Pacing
  <2>2. Tail(<<"plain_set_delay">>) = <<>>
    OBVIOUS
  <2>3. QED
    BY <2>1, <2>2
<1>4. Head(t) = "plain_init" =>
       \/ t = <<"plain_init", "wrapper_init", "AKM_Init">> /\ Tail(t) = <<"wrapper_init", "AKM_Init">>
       \/ t = <<"plain_init", "Initialization", "wrapper_init">> /\ Tail(t) = <<"Initialization", "wrapper_init">>
       \/ t = <<"plain_init", "wrapper_init">> /\ Tail(t) = <<"wrapper_init">>
  <2>1. Head(t) = "plain_init" => t \in {<<"plain_init", "wrapper_init", "AKM_Init">>, <<"plain_init", "Initialization", "wrapper_init">>, <<"plain_init", "wrapper_init">>}
    BY DEF Shapes, Opening, Fusing, PlainCalls, Joining, Starting, Started, Leaving, Stopping, Stopped, Pacing
  <2>2. /\ Tail(<<"plain_init", "wrapper_init", "AKM_Init">>) = <<"wrapper_init", "AKM_Init">>
        /\ Tail(<<"plain_init", "Initialization", "wrapper_init">>) = <<"Initialization", "wrapper_init">>
        /\ Tail(<<"plain_init", "wrapper_init">>) = <<"wrapper_init">>
    OBVIOUS
  <2>3. QED
    BY <2>1, <2>2
<1>5. Head(t) = "wrapper_init" =>
       \/ t = <<"wrapper_init", "AKM_Init">> /\ Tail(t) = <<"AKM_Init">>
       \/ t = <<"wrapper_init">> /\ Tail(t) = <<>>
  <2>1. Head(t) = "wrapper_init" => t \in {<<"wrapper_init", "AKM_Init">>, <<"wrapper_init">>}
    BY DEF Shapes, Opening, Fusing, PlainCalls, Joining, Starting, Started, Leaving, Stopping, Stopped, Pacing
  <2>2. /\ Tail(<<"wrapper_init", "AKM_Init">>) = <<"AKM_Init">>
        /\ Tail(<<"wrapper_init">>) = <<>>
    OBVIOUS
  <2>3. QED
    BY <2>1, <2>2
<1>6. Head(t) = "AKM_Init" => t = <<"AKM_Init">> /\ Tail(t) = <<>>
  <2>1. Head(t) = "AKM_Init" => t = <<"AKM_Init">>
    BY DEF Shapes, Opening, Fusing, PlainCalls, Joining, Starting, Started, Leaving, Stopping, Stopped, Pacing
  <2>2. Tail(<<"AKM_Init">>) = <<>>
    OBVIOUS
  <2>3. QED
    BY <2>1, <2>2
<1>7. Head(t) = "Initialization" => t = <<"Initialization", "wrapper_init">> /\ Tail(t) = <<"wrapper_init">>
  <2>1. Head(t) = "Initialization" => t = <<"Initialization", "wrapper_init">>
    BY DEF Shapes, Opening, Fusing, PlainCalls, Joining, Starting, Started, Leaving, Stopping, Stopped, Pacing
  <2>2. Tail(<<"Initialization", "wrapper_init">>) = <<"wrapper_init">>
    OBVIOUS
  <2>3. QED
    BY <2>1, <2>2
<1>8. Head(t) \notin {"AKM_Release", "plain_close", "wrapper_close"}
  BY DEF Shapes, Opening, Fusing, PlainCalls, Joining, Starting, Started, Leaving, Stopping, Stopped, Pacing
<1>9. QED
  BY <1>1, <1>2, <1>3, <1>4, <1>5, <1>6, <1>7, <1>8, Zenon

LEMMA DoneCall ==
  ASSUME CallInv, Done
  PROVE  /\ Todo # <<>> /\ Todo' = Tail(Todo)
         /\ call' = [todo |-> call'.todo, sensor |-> call'.sensor, ns |-> call'.ns]
         /\ Todo' = <<>> => call'.sensor = None /\ call'.ns = NO_RATE
         /\ Todo' # <<>> => call'.sensor = call.sensor /\ call'.ns = call.ns
<1>1. /\ call = [todo |-> call.todo, sensor |-> call.sensor, ns |-> call.ns]
      /\ Todo # <<>>
      /\ call' = IF Tail(call.todo) = <<>> THEN NoCall ELSE [call EXCEPT !.todo = Tail(@)]
  BY DEF CallInv, Done, Todo, Rest
<1>2. CASE Tail(Todo) = <<>>
  BY <1>1, <1>2 DEF Todo, NoCall
<1>3. CASE Tail(Todo) # <<>>
  <2>1. call' = [todo |-> Tail(call.todo), sensor |-> call.sensor, ns |-> call.ns]
    BY <1>1, <1>3 DEF Todo
  <2>2. QED
    BY <1>1, <1>3, <2>1 DEF Todo
<1>4. QED
  BY <1>2, <1>3

(* The sensors of the modules.                                             *)
LEMMA SensorNames == ASSUME CallInv
                     PROVE  /\ "plain" \notin Sensors /\ None \notin Sensors
                            /\ Sensors \subseteq AndroidSensors
                            /\ kind \in Clients /\ kind # "plain" /\ "plain" \in Clients
BY FusedAssumption DEF FusedAssumption, CallInv, Sensors, AndroidSensors, None,
   ak896x, ak897x, ak0991x, akm6d, inemo, ecompass

(* A sensor without a request does not count for the rate.                 *)
LEMMA FastestWithout ==
  ASSUME NEW M, NEW R, NEW i, R[i] = NO_RATE
  PROVE  Fastest(M \cup {i}, R) = Fastest(M, R) /\ Fastest(M \ {i}, R) = Fastest(M, R)
<1>1. /\ {R[j] : j \in M \cup {i}} \ {NO_RATE} = {R[j] : j \in M} \ {NO_RATE}
      /\ {R[j] : j \in M \ {i}} \ {NO_RATE} = {R[j] : j \in M} \ {NO_RATE}
  OBVIOUS
<1>2. QED
  BY <1>1 DEF Fastest

LEMMA FastestType ==
  ASSUME NEW M, NEW D, M \subseteq D, NEW R \in [D -> RateSet]
  PROVE  Fastest(M, R) \in RateSet
<1> DEFINE asked == {R[i] : i \in M} \ {NO_RATE}
<1>1. asked \subseteq Rates
  BY DEF RateSet
<1>2. asked \in SUBSET Nat
  BY <1>1, WrapperAssumption DEF WrapperAssumption
<1>3. asked # {} => Min(asked) \in asked
  BY <1>2, MinIn
<1>4. QED
  BY <1>1, <1>3 DEF Fastest, RateSet

LEMMA SetPreserves ==
  ASSUME FusedInv, OwnStep, Do("set")
  PROVE  FusedInv'
<1>0. /\ WrapperInv /\ CallInv /\ MaskInv /\ WantInv /\ EventInv /\ SlotInv /\ CloseInv /\ PaceInv
  BY DEF FusedInv
<1>1. /\ Done /\ Apart
      /\ enable_mask' = enable_mask \cup {call.sensor}
      /\ unheard' = IF call.sensor \in enable_mask \/ delay_requests[call.sensor] = NO_RATE
                    THEN unheard ELSE unheard \cup {call.sensor}
      /\ UNCHANGED <<kind, session, delay_requests, exist, threshold_counter, data, late, fresh, strayed, lib, want>>
  BY DEF OwnStep, Do
<1>2. session = "open" /\ Todo \in Shapes
  BY <1>0, <1>1, DoneCall DEF CallInv, Closing, Do, Todo, Shapes, Rest
<1>3. \/ Todo = <<"set">> /\ Todo' = <<>> /\ Todo \in Joining
      \/ Todo = <<"set", "AKM_Start", "activate">> /\ Todo' = <<"AKM_Start", "activate">> /\ Todo \in Starting
      \/ Todo = <<"set", "activate">> /\ Todo' = <<"activate">> /\ Todo \in Starting
  BY <1>0, <1>1, <1>2, DoneCall, FusedSteps DEF Do, Todo, Starting, Joining
<1>4. WrapperInv' /\ \A d : At(d)' = At(d) /\ \A s : Kept(d, s)
  BY <1>0, <1>1, ApartPreserves
<1>5. /\ kind' = kind /\ session' = session /\ lib' = lib /\ want' = want /\ wants' = wants
      /\ hw' = hw /\ paced' = paced /\ data' = data /\ late' = late /\ strayed' = strayed
      /\ exist' = exist /\ fresh' = fresh /\ threshold_counter' = threshold_counter
      /\ delay_requests' = delay_requests
      /\ Sensors' = Sensors
  BY <1>1 DEF Apart, Sensors
<1>6. call.sensor \in Sensors /\ lib # "none"
  BY <1>0, <1>3 DEF CallInv, Fusing, Joining, Starting
<1> USE DEF Opening, Fusing, PlainCalls, Joining, Starting, Started, Leaving, Stopping, Stopped, Pacing
<1>7. CallInv'
  <2>1. /\ kind \in Kinds /\ session \in {"new", "open", "closed"}
        /\ lib \in {"none", "stopped", "running", "released"}
    BY <1>0 DEF CallInv
  <2>2. CASE Todo' = <<>>
    BY <1>0, <1>1, <1>2, <1>5, <1>6, <2>1, <2>2, DoneCall DEF CallInv, Rest, Todo, RateSet
  <2>3. CASE Todo' = <<"AKM_Start", "activate">>
    BY <1>0, <1>1, <1>2, <1>5, <1>6, <2>1, <2>3, DoneCall DEF CallInv, Rest, Todo, RateSet
  <2>4. CASE Todo' = <<"activate">>
    BY <1>0, <1>1, <1>2, <1>5, <1>6, <2>1, <2>4, DoneCall DEF CallInv, Rest, Todo, RateSet
  <2>5. QED
    BY <1>3, <2>2, <2>3, <2>4
<1>8. MaskInv'
  BY <1>0, <1>1, <1>2, <1>3, <1>5, <1>6, DoneCall DEF MaskInv, CallInv, LibFollows
<1>9. WantInv'
  BY <1>0, <1>1, <1>2, <1>3, <1>5, <1>6, DoneCall DEF WantInv, CallInv
<1>10. EventInv'
  BY <1>0, <1>5 DEF EventInv, Fuses
<1>11. SlotInv'
  BY <1>0, <1>4, <1>5 DEF SlotInv, Kept
<1>12. CloseInv'
  BY <1>0, <1>2, <1>4, <1>5 DEF CloseInv, Kept
<1>13. PaceInv'
  <2>1. Fastest(enable_mask \ unheard, delay_requests)' = Fastest(enable_mask \ unheard, delay_requests)
    <3>1. CASE call.sensor \in enable_mask \/ delay_requests[call.sensor] # NO_RATE
      <4>1. enable_mask' \ unheard' = enable_mask \ unheard
        BY <1>1, <3>1
      <4>2. QED
        BY <1>5, <4>1
    <3>2. CASE call.sensor \notin enable_mask /\ delay_requests[call.sensor] = NO_RATE
      <4>1. \/ enable_mask' \ unheard' = enable_mask \ unheard
            \/ enable_mask' \ unheard' = (enable_mask \ unheard) \cup {call.sensor}
        BY <1>1, <3>2
      <4>2. Fastest((enable_mask \ unheard) \cup {call.sensor}, delay_requests)
              = Fastest(enable_mask \ unheard, delay_requests)
        BY <3>2, FastestWithout
      <4>3. QED
        BY <1>5, <4>1, <4>2
    <3>3. QED
      BY <3>1, <3>2
  <2>2. QED
    BY <1>0, <1>2, <1>3, <1>4, <1>5, <2>1 DEF PaceInv, Kept
<1>14. QED
  BY <1>4, <1>7, <1>8, <1>9, <1>10, <1>11, <1>12, <1>13 DEF FusedInv

(* Clearing the bit is the last step of a disable that leaves others on.   *)
LEMMA ClearPreserves ==
  ASSUME FusedInv, OwnStep, Do("clear")
  PROVE  FusedInv'
<1>0. /\ WrapperInv /\ CallInv /\ MaskInv /\ WantInv /\ EventInv /\ SlotInv /\ CloseInv /\ PaceInv
  BY DEF FusedInv
<1>1. /\ Done /\ Apart
      /\ enable_mask' = enable_mask \ {call.sensor}
      /\ unheard' = unheard \ {call.sensor}
      /\ want' = IF Todo' = <<>> THEN want \ {call.sensor} ELSE want
      /\ UNCHANGED <<kind, session, delay_requests, exist, threshold_counter, data, late, fresh, strayed, lib>>
  BY <1>0, DoneCall DEF OwnStep, Do, Todo
<1>2. session = "open" /\ Todo \in Shapes
  BY <1>0, <1>1, DoneCall DEF CallInv, Closing, Do, Todo, Shapes, Rest
<1>3. \/ Todo = <<"clear">> /\ Todo' = <<>> /\ Todo \in Leaving
      \/ Todo = <<"clear", "AKM_Stop", "deactivate">> /\ Todo' = <<"AKM_Stop", "deactivate">> /\ Todo \in Stopping
      \/ Todo = <<"clear", "deactivate">> /\ Todo' = <<"deactivate">> /\ Todo \in Stopping
  BY <1>0, <1>1, <1>2, DoneCall, FusedSteps DEF Do, Todo, Leaving, Stopping
<1>4. WrapperInv' /\ \A d : At(d)' = At(d) /\ \A s : Kept(d, s)
  BY <1>0, <1>1, ApartPreserves
<1>5. /\ kind' = kind /\ session' = session /\ lib' = lib /\ wants' = wants
      /\ hw' = hw /\ paced' = paced /\ data' = data /\ late' = late /\ strayed' = strayed
      /\ exist' = exist /\ fresh' = fresh /\ threshold_counter' = threshold_counter
      /\ delay_requests' = delay_requests
      /\ Sensors' = Sensors
  BY <1>1 DEF Apart, Sensors
<1>6. call.sensor \in Sensors /\ lib # "none" /\ call.sensor # "plain"
  BY <1>0, <1>3, SensorNames DEF CallInv, Fusing, Leaving, Stopping
<1> USE DEF Opening, Fusing, PlainCalls, Joining, Starting, Started, Leaving, Stopping, Stopped, Pacing
<1>7. CallInv'
  <2>1. /\ kind \in Kinds /\ session \in {"new", "open", "closed"}
        /\ lib \in {"none", "stopped", "running", "released"}
    BY <1>0 DEF CallInv
  <2>2. CASE Todo' = <<>>
    BY <1>0, <1>1, <1>2, <1>5, <1>6, <2>1, <2>2, DoneCall DEF CallInv, Rest, Todo, RateSet
  <2>3. CASE Todo' = <<"AKM_Stop", "deactivate">>
    BY <1>0, <1>1, <1>2, <1>5, <1>6, <2>1, <2>3, DoneCall DEF CallInv, Rest, Todo, RateSet
  <2>4. CASE Todo' = <<"deactivate">>
    BY <1>0, <1>1, <1>2, <1>5, <1>6, <2>1, <2>4, DoneCall DEF CallInv, Rest, Todo, RateSet
  <2>5. QED
    BY <1>3, <2>2, <2>3, <2>4
<1>8. MaskInv'
  BY <1>0, <1>1, <1>2, <1>3, <1>5, <1>6, DoneCall DEF MaskInv, CallInv, LibFollows
<1>9. WantInv'
  BY <1>0, <1>1, <1>2, <1>3, <1>5, <1>6, DoneCall DEF WantInv, CallInv
<1>10. EventInv'
  BY <1>0, <1>5 DEF EventInv, Fuses
<1>11. SlotInv'
  BY <1>0, <1>4, <1>5 DEF SlotInv, Kept
<1>12. CloseInv'
  BY <1>0, <1>2, <1>4, <1>5 DEF CloseInv, Kept
<1>13. PaceInv'
  <2>1. kind \in Akm =>
          Fastest(enable_mask \ unheard, delay_requests)' = Fastest(enable_mask \ unheard, delay_requests)
    <3>1. enable_mask' \ unheard' = (enable_mask \ unheard) \ {call.sensor}
      BY <1>1
    <3>2. kind \in Akm => delay_requests[call.sensor] = NO_RATE
      BY <1>0, <1>3 DEF PaceInv
    <3>3. QED
      BY <1>5, <3>1, <3>2, FastestWithout
  <2>2. QED
    BY <1>0, <1>2, <1>3, <1>4, <1>5, <2>1 DEF PaceInv, Kept
<1>14. QED
  BY <1>4, <1>7, <1>8, <1>9, <1>10, <1>11, <1>12, <1>13 DEF FusedInv

(* AKM_Start comes before the client is enabled, AKM_Stop before it is     *)
(* disabled, AKM_Release before it closes.                                 *)
LEMMA LibraryPreserves ==
  ASSUME FusedInv, OwnStep, Do("AKM_Start") \/ Do("AKM_Stop")
  PROVE  FusedInv'
<1>0. /\ WrapperInv /\ CallInv /\ MaskInv /\ WantInv /\ EventInv /\ SlotInv /\ CloseInv /\ PaceInv
  BY DEF FusedInv
<1>1. /\ Done /\ Apart
      /\ lib' = IF Do("AKM_Start") THEN "running" ELSE "stopped"
      /\ UNCHANGED <<kind, session, delay_requests, exist, threshold_counter, data, late, fresh, strayed,
                     enable_mask, unheard, want>>
  BY DEF OwnStep, Do
<1>2. session = "open" /\ Todo \in Shapes
  BY <1>0, <1>1, DoneCall DEF CallInv, Closing, Do, Todo, Shapes, Rest
<1>3. \/ /\ Todo = <<"AKM_Start", "activate">> /\ Todo' = <<"activate">>
         /\ Todo \in Started /\ lib' = "running"
      \/ /\ Todo = <<"AKM_Stop", "deactivate">> /\ Todo' = <<"deactivate">>
         /\ Todo \in Stopped /\ lib' = "stopped"
  BY <1>0, <1>1, <1>2, DoneCall, FusedSteps DEF Do, Todo, Started, Stopped
<1>4. WrapperInv' /\ \A d : At(d)' = At(d) /\ \A s : Kept(d, s)
  BY <1>0, <1>1, ApartPreserves
<1>5. /\ kind' = kind /\ session' = session /\ want' = want /\ wants' = wants
      /\ hw' = hw /\ paced' = paced /\ data' = data /\ late' = late /\ strayed' = strayed
      /\ exist' = exist /\ fresh' = fresh /\ threshold_counter' = threshold_counter
      /\ delay_requests' = delay_requests /\ enable_mask' = enable_mask /\ unheard' = unheard
      /\ Sensors' = Sensors
  BY <1>1 DEF Apart, Sensors
<1>6. call.sensor \in Sensors /\ lib # "none"
  BY <1>0, <1>3 DEF CallInv, Fusing
<1> USE DEF Opening, Fusing, PlainCalls, Joining, Starting, Started, Leaving, Stopping, Stopped, Pacing
<1>7. CallInv'
  <2>1. kind \in Kinds /\ session \in {"new", "open", "closed"}
    BY <1>0 DEF CallInv
  <2>2. CASE Todo' = <<"activate">>
    BY <1>0, <1>1, <1>2, <1>3, <1>5, <1>6, <2>1, <2>2, DoneCall DEF CallInv, Rest, Todo, RateSet
  <2>3. CASE Todo' = <<"deactivate">>
    BY <1>0, <1>1, <1>2, <1>3, <1>5, <1>6, <2>1, <2>3, DoneCall DEF CallInv, Rest, Todo, RateSet
  <2>4. QED
    BY <1>3, <2>2, <2>3
<1>8. MaskInv'
  BY <1>0, <1>1, <1>2, <1>3, <1>5, <1>6, DoneCall DEF MaskInv, CallInv, LibFollows
<1>9. WantInv'
  BY <1>0, <1>1, <1>2, <1>3, <1>5, <1>6, DoneCall DEF WantInv, CallInv
<1>10. EventInv'
  BY <1>0, <1>5 DEF EventInv, Fuses
<1>11. SlotInv'
  BY <1>0, <1>4, <1>5 DEF SlotInv, Kept
<1>12. CloseInv'
  BY <1>0, <1>2, <1>4, <1>5 DEF CloseInv, Kept
<1>13. PaceInv'
  <2>1. Fastest(enable_mask \ unheard, delay_requests)' = Fastest(enable_mask \ unheard, delay_requests)
    BY <1>5
  <2>2. Todo'[1] # "clear"
    BY <1>3
  <2>3. QED
    BY <1>0, <1>2, <1>4, <1>5, <2>1, <2>2 DEF PaceInv, Kept
<1>14. QED
  BY <1>4, <1>7, <1>8, <1>9, <1>10, <1>11, <1>12, <1>13 DEF FusedInv

(* A library whose init fails ends the open of the module: it is not used. *)
LEMMA LibraryInitPreserves ==
  ASSUME FusedInv, OwnStep, Do("AKM_Init") \/ Do("Initialization")
  PROVE  FusedInv'
<1>0. /\ WrapperInv /\ CallInv /\ MaskInv /\ WantInv /\ EventInv /\ SlotInv /\ CloseInv /\ PaceInv
  BY DEF FusedInv
<1>1. /\ Apart /\ Todo # <<>>
      /\ \/ Done /\ lib' = IF Tail(Todo) = <<>> THEN "stopped" ELSE lib
         \/ call' = NoCall /\ lib' = lib
      /\ UNCHANGED <<kind, session, delay_requests, exist, threshold_counter, data, late, fresh, strayed,
                     enable_mask, unheard, want>>
  BY DEF OwnStep, Do, Todo
<1>2. session = "open" /\ Todo \in Shapes
  BY <1>0, <1>1 DEF CallInv, Closing, Do, Todo, Shapes, Rest
<1>3. Todo \in Opening /\ Tail(Todo) \in {<<>>, <<"wrapper_init">>}
  BY <1>0, <1>1, <1>2, OtherSteps DEF Do, Todo, Opening
<1>4. /\ Todo' \in {<<>>, <<"wrapper_init">>} /\ lib' \in {"none", "stopped"}
      /\ Todo' # <<>> => lib' = "none" /\ call'.sensor = call.sensor /\ call'.ns = call.ns
      /\ Todo' = <<>> => call'.sensor = None /\ call'.ns = NO_RATE
      /\ call' = [todo |-> call'.todo, sensor |-> call'.sensor, ns |-> call'.ns]
  <2>1. lib = "none"
    BY <1>0, <1>3 DEF CallInv
  <2>2. CASE Done
    BY <1>0, <1>1, <1>3, <2>1, <2>2, DoneCall DEF NoCall, Todo
  <2>3. CASE call' = NoCall /\ lib' = lib
    BY <2>1, <2>3 DEF NoCall, Todo
  <2>4. QED
    BY <1>1, <2>2, <2>3
<1>5. WrapperInv' /\ \A d : At(d)' = At(d) /\ \A s : Kept(d, s)
  BY <1>0, <1>1, ApartPreserves
<1>6. /\ kind' = kind /\ session' = session /\ want' = want /\ wants' = wants
      /\ hw' = hw /\ paced' = paced /\ data' = data /\ late' = late /\ strayed' = strayed
      /\ exist' = exist /\ fresh' = fresh /\ threshold_counter' = threshold_counter
      /\ delay_requests' = delay_requests /\ enable_mask' = enable_mask /\ unheard' = unheard
      /\ Sensors' = Sensors
  BY <1>1 DEF Apart, Sensors
<1>7. wants = {} /\ want = {} /\ enable_mask = {} /\ kind \in Kinds
  BY <1>0, <1>3 DEF CallInv
<1> USE DEF Opening, Fusing, PlainCalls, Joining, Starting, Started, Leaving, Stopping, Stopped, Pacing
<1>8. CallInv'
  <2>1. CASE Todo' = <<>>
    BY <1>0, <1>2, <1>4, <1>6, <1>7, <2>1 DEF CallInv, Rest, Todo, RateSet
  <2>2. CASE Todo' = <<"wrapper_init">>
    BY <1>0, <1>2, <1>4, <1>6, <1>7, <2>2 DEF CallInv, Rest, Todo, RateSet
  <2>3. QED
    BY <1>4, <2>1, <2>2
<1>9. MaskInv'
  BY <1>0, <1>2, <1>4, <1>6, <1>7 DEF MaskInv, LibFollows
<1>10. WantInv'
  BY <1>0, <1>2, <1>4, <1>6, <1>7 DEF WantInv
<1>11. EventInv'
  BY <1>0, <1>6 DEF EventInv, Fuses
<1>12. SlotInv'
  BY <1>0, <1>5, <1>6 DEF SlotInv, Kept
<1>13. CloseInv'
  BY <1>0, <1>2, <1>5, <1>6 DEF CloseInv, Kept
<1>14. PaceInv'
  <2>1. Fastest(enable_mask \ unheard, delay_requests)' = Fastest(enable_mask \ unheard, delay_requests)
    BY <1>6
  <2>2. Todo' # <<>> => Todo'[1] # "clear"
    BY <1>4
  <2>3. QED
    BY <1>0, <1>2, <1>5, <1>6, <2>1, <2>2 DEF PaceInv, Kept
<1>15. QED
  BY <1>5, <1>8, <1>9, <1>10, <1>11, <1>12, <1>13, <1>14 DEF FusedInv

(***************************************************************************)
(* The steps of the close.                                                 *)
(***************************************************************************)

LEMMA ClosingSteps ==
  ASSUME Closing, Todo # <<>>, Todo' = Tail(Todo), Off' <=> Off
  PROVE  /\ Closing'
         /\ Head(Todo) = Todo[1]
         /\ Todo' # <<>> => Todo'[1] # "plain_close" /\ Todo'[Len(Todo')] = Todo[Len(Todo)]
         /\ Todo' = <<>> => Todo[Len(Todo)] = Todo[1]
<1>1. /\ Todo \in Seq({"plain_close", "AKM_Release", "wrapper_close"})
      /\ \A j \in 1..Len(Todo) : (Todo[j] = "plain_close" => j = 1) /\ (Todo[j] # "plain_close" => Off)
  BY DEF Closing
<1>2. /\ Tail(Todo) \in Seq({"plain_close", "AKM_Release", "wrapper_close"})
      /\ Len(Todo) \in Nat /\ Len(Todo) > 0 /\ Len(Tail(Todo)) = Len(Todo) - 1
      /\ \A j \in 1..Len(Tail(Todo)) : Tail(Todo)[j] = Todo[j + 1]
      /\ Head(Todo) = Todo[1]
  BY <1>1
<1>3. \A j \in 1..Len(Todo') : Todo'[j] # "plain_close" /\ Off'
  BY <1>1, <1>2
<1>4. Closing'
  BY <1>2, <1>3 DEF Closing
<1>5. ASSUME Todo' # <<>>
      PROVE  Todo'[1] # "plain_close" /\ Todo'[Len(Todo')] = Todo[Len(Todo)]
  <2> DEFINE n == Len(Tail(Todo))
  <2>1. n \in 1..n /\ n + 1 = Len(Todo) /\ 1 \in 1..n
    BY <1>2, <1>5
  <2>2. Tail(Todo)[n] = Todo[n + 1]
    BY <1>2, <2>1
  <2>3. Tail(Todo)[n] = Todo[Len(Todo)]
    BY <2>1, <2>2
  <2>4. Todo' = Tail(Todo)
    OBVIOUS
  <2>5. Todo'[Len(Todo')] = Todo[Len(Todo)]
    BY <2>3, <2>4
  <2>6. Todo'[1] # "plain_close"
    BY <1>3, <2>1, <2>4
  <2>7. QED
    BY <2>5, <2>6
<1>6. Todo' = <<>> => Len(Todo) = 1
  <2>1. Tail(Todo) = <<>> => Len(Tail(Todo)) = 0
    BY EmptySeq
  <2>2. QED
    BY <1>2, <2>1
<1>7. QED
  BY <1>2, <1>4, <1>5, <1>6

LEMMA ClosingApart ==
  ASSUME NEW t \in Seq({"plain_close", "AKM_Release", "wrapper_close"})
  PROVE  /\ t \notin Opening \cup Fusing \cup PlainCalls
         /\ t # <<>> => t[1] \in {"plain_close", "AKM_Release", "wrapper_close"}
<1>1. t # <<>> => t[1] \in {"plain_close", "AKM_Release", "wrapper_close"}
  OBVIOUS
<1>2. \A u \in Opening \cup Fusing \cup PlainCalls :
        u # <<>> /\ u[1] \notin {"plain_close", "AKM_Release", "wrapper_close"}
  BY DEF Opening, Fusing, PlainCalls, Joining, Starting, Started, Leaving, Stopping, Stopped, Pacing
<1>3. QED
  BY <1>1, <1>2

LEMMA ClosingPreserves ==
  ASSUME FusedInv, session = "closed", Done,
         UNCHANGED <<kind, session, delay_requests, exist, threshold_counter, data, late, fresh, strayed,
                     enable_mask, unheard, want, wants, paced>>,
         lib' = lib \/ (Off /\ lib' = "released"),
         WrapperInv', \A e \in Clients : At(e)' = At(e),
         \A e \in {kind, "plain"} : \A s \in At(e) : ActiveAt(e, s)' <=> ActiveAt(e, s),
         CloseInv'
  PROVE  FusedInv'
<1>0. /\ WrapperInv /\ CallInv /\ MaskInv /\ WantInv /\ EventInv /\ SlotInv /\ CloseInv /\ PaceInv
  BY DEF FusedInv
<1>1. /\ kind' = kind /\ session' = "closed" /\ want' = want /\ wants' = wants
      /\ paced' = paced /\ data' = data /\ late' = late /\ strayed' = strayed
      /\ exist' = exist /\ fresh' = fresh /\ threshold_counter' = threshold_counter
      /\ delay_requests' = delay_requests /\ enable_mask' = enable_mask /\ unheard' = unheard
      /\ Sensors' = Sensors
  BY DEF Sensors
<1>2. /\ Todo # <<>> /\ Todo' = Tail(Todo)
      /\ call' = [todo |-> call'.todo, sensor |-> call'.sensor, ns |-> call'.ns]
      /\ Todo' = <<>> => call'.sensor = None /\ call'.ns = NO_RATE
      /\ Todo' # <<>> => call'.sensor = call.sensor /\ call'.ns = call.ns
  BY <1>0, DoneCall
<1>3. /\ lib' \in {"none", "stopped", "running", "released"}
      /\ lib' = "none" <=> lib = "none"
      /\ enable_mask # {} => lib' = lib
      /\ Off' <=> Off
  BY <1>0, <1>1 DEF CallInv, Off
<1>4. Closing /\ Closing'
  BY <1>0, <1>2, <1>3, ClosingSteps DEF CallInv
<1>5. /\ Todo \notin Opening \cup Fusing \cup PlainCalls
      /\ Todo' \notin Opening \cup Fusing \cup PlainCalls
      /\ Todo' # <<>> => Todo'[1] \in {"plain_close", "AKM_Release", "wrapper_close"}
  BY <1>4, ClosingApart DEF Closing
<1>6. CallInv'
  <2>1. kind \in Kinds /\ call.sensor \in Sensors \cup {"plain", None} /\ call.ns \in RateSet
        /\ (lib = "none" => enable_mask = {} /\ kind \notin wants)
    BY <1>0 DEF CallInv
  <2>2. Todo' # <<"plain_set_delay">> /\ Todo' \notin Fusing /\ Todo' \notin Opening
    BY <1>5 DEF PlainCalls
  <2>3. /\ Todo' \notin Pacing
        /\ Todo' \notin {<<"set", "activate">>, <<"clear", "deactivate">>, <<"request_none", "clear", "deactivate">>}
        /\ Todo' # <<"default_rate">> /\ Todo' # <<"limited_rate">>
    BY <2>2 DEF Fusing, Pacing, Starting, Stopping
  <2>4. call'.sensor \in Sensors \cup {"plain", None} /\ call'.ns \in RateSet
    BY <1>2, <2>1 DEF RateSet
  <2>5. Todo' # <<>> => Todo'[1] # "request" /\ Todo'[1] # "request_none"
    BY <1>5
  <2>6. QED
    BY <1>1, <1>2, <1>3, <1>4, <2>1, <2>2, <2>3, <2>4, <2>5 DEF CallInv
<1>7. MaskInv'
  BY <1>0, <1>1, <1>3, <1>5 DEF MaskInv, Fusing
<1>8. WantInv'
  BY <1>0, <1>1, <1>5 DEF WantInv, Fusing, PlainCalls
<1>9. EventInv'
  BY <1>0, <1>1 DEF EventInv, Fuses
<1>10. SlotInv'
  BY <1>0, <1>1, SensorNames DEF SlotInv
<1>11. PaceInv'
  BY <1>0, <1>1, <1>5 DEF PaceInv
<1>12. QED
  BY <1>6, <1>7, <1>8, <1>9, <1>10, <1>11 DEF FusedInv

(* These steps come in the close alone, the module's only if it is off.    *)
LEMMA ClosingOnly ==
  ASSUME CallInv, Todo # <<>>, Head(Todo) \in {"AKM_Release", "plain_close", "wrapper_close"}
  PROVE  session = "closed" /\ Closing /\ Head(Todo) = Todo[1] /\ (Todo[1] # "plain_close" => Off)
<1>1. session # "new" /\ session # "open"
  BY OtherSteps DEF CallInv, Shapes, Rest, Todo
<1>2. session = "closed" /\ Closing
  BY <1>1 DEF CallInv
<1>3. Head(Todo) = Todo[1] /\ Len(Todo) \in Nat /\ Len(Todo) > 0
  BY <1>2 DEF Closing
<1>4. QED
  BY <1>2, <1>3 DEF Closing

LEMMA ReleasePreserves ==
  ASSUME FusedInv, OwnStep, Do("AKM_Release")
  PROVE  FusedInv'
<1>0. /\ WrapperInv /\ CallInv /\ CloseInv
  BY DEF FusedInv
<1>1. /\ Done /\ Apart /\ lib' = "released"
      /\ UNCHANGED <<kind, session, delay_requests, exist, threshold_counter, data, late, fresh, strayed,
                     enable_mask, unheard, want>>
      /\ Todo # <<>> /\ Head(Todo) = "AKM_Release"
  BY DEF OwnStep, Do, Todo
<1>2. session = "closed" /\ Closing /\ Todo[1] = "AKM_Release" /\ Off
  BY <1>0, <1>1, ClosingOnly
<1>3. WrapperInv' /\ \A d : At(d)' = At(d) /\ \A s : Kept(d, s)
  BY <1>0, <1>1, ApartPreserves
<1>4. /\ kind' = kind /\ session' = session /\ paced' = paced /\ wants' = wants /\ hw' = hw
      /\ Todo' = Tail(Todo) /\ (Off' <=> Off)
  BY <1>0, <1>1, <1>2, DoneCall DEF Apart, Off
<1>5. /\ Todo' # <<>> => Todo'[Len(Todo')] = Todo[Len(Todo)]
      /\ Todo' = <<>> => Todo[Len(Todo)] = Todo[1]
  BY <1>1, <1>2, <1>4, ClosingSteps
<1>6. CloseInv'
  BY <1>0, <1>2, <1>3, <1>4, <1>5 DEF CloseInv, Kept
<1>7. QED
  BY <1>1, <1>2, <1>3, <1>4, <1>6, ClosingPreserves DEF Kept

LEMMA ModuleClosePreserves ==
  ASSUME FusedInv, WrapperStep, Do("wrapper_close")
  PROVE  FusedInv'
<1>0. /\ WrapperInv /\ CallInv /\ SlotInv /\ CloseInv
  BY DEF FusedInv
<1>1. /\ Done /\ sensors_wrapper_close(kind) /\ lib' = lib
      /\ UNCHANGED <<kind, session, delay_requests, exist, threshold_counter, data, late, fresh, strayed,
                     enable_mask, unheard, want>>
      /\ Todo # <<>> /\ Head(Todo) = "wrapper_close"
  BY DEF WrapperStep, Do, Todo
<1>2. session = "closed" /\ Closing /\ Todo[1] = "wrapper_close" /\ Off
  BY <1>0, <1>1, ClosingOnly
<1>3. /\ kind \in Clients /\ kind # "plain" /\ "plain" \in Clients
      /\ \A d \in Clients \ {kind, "plain"} : At(d) = {}
  BY <1>0, SensorNames DEF SlotInv
<1>4. /\ WrapperInv' /\ wants' = wants /\ paced' = paced
      /\ \A s \in Drivers :
           hw'[s].closed <=> \/ hw[s].closed
                             \/ /\ s \in At(kind)
                                /\ \A e \in Clients : s \in At(e) => CloseAt(e, s)'
      /\ \A e \in Clients : At(e)' = At(e)
      /\ \A e \in Clients \ {kind} : \A s \in At(e) : Kept(e, s)
      /\ \A s \in At(kind) : CloseAt(kind, s)' /\ (ActiveAt(kind, s)' <=> ActiveAt(kind, s))
  BY <1>0, <1>1, <1>3, CloseSlots
<1>5. /\ kind' = kind /\ session' = session /\ (Off' <=> Off) /\ Todo' = Tail(Todo)
      /\ \A s \in At("plain") : Kept("plain", s)
  BY <1>0, <1>1, <1>3, <1>4, DoneCall DEF Off
<1>6. CloseInv'
  <2>1. \A s \in At("plain") : CloseAt("plain", s)
    BY <1>0, <1>2 DEF CloseInv
  <2>2. ASSUME NEW s \in Drivers
        PROVE  hw'[s].closed <=> /\ s \in At(kind) \cup At("plain")
                                 /\ \A d \in {kind, "plain"} : s \in At(d) => CloseAt(d, s)'
    <3>1. hw[s].closed <=> /\ s \in At(kind) \cup At("plain")
                           /\ \A d \in {kind, "plain"} : s \in At(d) => CloseAt(d, s)
      BY <1>0 DEF CloseInv
    <3>2. \A e \in Clients : s \in At(e) => e \in {kind, "plain"}
      BY <1>3
    <3>3. QED
      BY <1>3, <1>4, <1>5, <2>1, <3>1, <3>2 DEF Kept
  <2>3. QED
    BY <1>2, <1>3, <1>4, <1>5, <2>1, <2>2 DEF CloseInv, Kept
<1>7. \A e \in {kind, "plain"} : \A s \in At(e) : ActiveAt(e, s)' <=> ActiveAt(e, s)
  BY <1>4, <1>5 DEF Kept
<1>8. QED
  BY <1>1, <1>2, <1>4, <1>6, <1>7, ClosingPreserves

LEMMA PlainClosePreserves ==
  ASSUME FusedInv, PlainStep, Do("plain_close")
  PROVE  FusedInv'
<1>0. /\ WrapperInv /\ CallInv /\ SlotInv /\ CloseInv
  BY DEF FusedInv
<1>1. /\ Done /\ sensors_wrapper_close("plain") /\ lib' = lib
      /\ UNCHANGED <<kind, session, delay_requests, exist, threshold_counter, data, late, fresh, strayed,
                     enable_mask, unheard, want>>
      /\ Todo # <<>> /\ Head(Todo) = "plain_close"
  BY DEF PlainStep, Do, Todo, ownVars
<1>2. session = "closed" /\ Closing /\ Todo[1] = "plain_close"
  BY <1>0, <1>1, ClosingOnly
<1>3. /\ kind \in Clients /\ kind # "plain" /\ "plain" \in Clients
      /\ \A d \in Clients \ {kind, "plain"} : At(d) = {}
  BY <1>0, SensorNames DEF SlotInv
<1>4. /\ WrapperInv' /\ wants' = wants /\ paced' = paced
      /\ \A s \in Drivers :
           hw'[s].closed <=> \/ hw[s].closed
                             \/ /\ s \in At("plain")
                                /\ \A e \in Clients : s \in At(e) => CloseAt(e, s)'
      /\ \A e \in Clients : At(e)' = At(e)
      /\ \A e \in Clients \ {"plain"} : \A s \in At(e) : Kept(e, s)
      /\ \A s \in At("plain") : CloseAt("plain", s)' /\ (ActiveAt("plain", s)' <=> ActiveAt("plain", s))
  BY <1>0, <1>1, <1>3, CloseSlots
<1>5. /\ kind' = kind /\ session' = session /\ (Off' <=> Off) /\ Todo' = Tail(Todo)
      /\ \A s \in At(kind) : Kept(kind, s)
  BY <1>0, <1>1, <1>3, <1>4, DoneCall DEF Off
<1>6. CloseInv'
  <2>1. /\ Todo' # <<>> => Todo'[Len(Todo')] = Todo[Len(Todo)]
        /\ Todo' = <<>> => Todo[Len(Todo)] = Todo[1]
    BY <1>1, <1>2, <1>5, ClosingSteps
  <2>2. ASSUME NEW s \in Drivers
        PROVE  hw'[s].closed <=> /\ s \in At(kind) \cup At("plain")
                                 /\ \A d \in {kind, "plain"} : s \in At(d) => CloseAt(d, s)'
    <3>1. hw[s].closed <=> /\ s \in At(kind) \cup At("plain")
                           /\ \A d \in {kind, "plain"} : s \in At(d) => CloseAt(d, s)
      BY <1>0 DEF CloseInv
    <3>2. \A e \in Clients : s \in At(e) => e \in {kind, "plain"}
      BY <1>3
    <3>3. QED
      BY <1>3, <1>4, <1>5, <3>1, <3>2 DEF Kept
  <2>3. QED
    BY <1>0, <1>2, <1>3, <1>4, <1>5, <2>1, <2>2 DEF CloseInv, Kept
<1>7. \A e \in {kind, "plain"} : \A s \in At(e) : ActiveAt(e, s)' <=> ActiveAt(e, s)
  BY <1>4, <1>5 DEF Kept
<1>8. QED
  BY <1>1, <1>2, <1>4, <1>6, <1>7, ClosingPreserves

(***************************************************************************)
(* The module's calls to the wrapper.                                      *)
(***************************************************************************)

LEMMA RateFacts == /\ rate_ns \in Rates /\ COMPASS_DELAY \in Rates
                   /\ \A r \in Rates : r \in Nat
                   /\ NO_RATE \in RateSet /\ NO_RATE <= COMPASS_DELAY
<1>1. rate_ns \in Rates /\ COMPASS_DELAY \in Rates /\ \A r \in Rates : r \in Nat
  BY FusedAssumption, WrapperAssumption DEF FusedAssumption, WrapperAssumption
<1>2. NO_RATE <= COMPASS_DELAY
  BY <1>1 DEF NO_RATE
<1>3. QED
  BY <1>1, <1>2 DEF RateSet

(* A request asks for the smallest delay that an enabled sensor asks for.  *)
LEMMA PacePreserves ==
  ASSUME FusedInv, PaceStep
  PROVE  FusedInv'
<1>0. /\ WrapperInv /\ CallInv /\ MaskInv /\ WantInv /\ EventInv /\ SlotInv /\ CloseInv /\ PaceInv
  BY DEF FusedInv
<1>1. /\ Done
      /\ UNCHANGED <<kind, session, enable_mask, exist, threshold_counter, lib, data, want, late, fresh, strayed>>
      /\ Do("request") \/ Do("request_none") \/ Do("default_rate") \/ Do("limited_rate")
  BY DEF PaceStep
<1>2. session = "open" /\ Todo \in Shapes
  BY <1>0, <1>1, DoneCall DEF CallInv, Closing, Do, Todo, Shapes, Rest
<1>3. \/ Todo = <<"request">> /\ Todo' = <<>> /\ Do("request")
      \/ Todo = <<"default_rate">> /\ Todo' = <<>> /\ Do("default_rate")
      \/ Todo = <<"limited_rate">> /\ Todo' = <<>> /\ Do("limited_rate")
      \/ Todo = <<"request_none", "clear">> /\ Todo' = <<"clear">> /\ Do("request_none")
      \/ /\ Todo = <<"request_none", "clear", "AKM_Stop", "deactivate">>
         /\ Todo' = <<"clear", "AKM_Stop", "deactivate">> /\ Do("request_none")
      \/ /\ Todo = <<"request_none", "clear", "deactivate">>
         /\ Todo' = <<"clear", "deactivate">> /\ Do("request_none")
  BY <1>0, <1>1, <1>2, DoneCall, FusedSteps DEF Do, Todo
<1>4. /\ Todo \in Fusing /\ call.sensor \in Sensors /\ lib # "none"
      /\ Todo' = <<>> => call.ns \in Rates
      /\ Do("request") => kind \in Akm
      /\ Do("request_none") => kind \in Akm
      /\ Do("default_rate") => kind = "inemo"
      /\ Do("limited_rate") => kind = "ecompass"
  <2>1. Todo \in Fusing /\ (Todo' = <<>> => Todo \in Pacing)
    <3>1. Todo' = <<>> => Todo \in Pacing
      BY <1>3 DEF Pacing
    <3>2. Todo \in Leaving \cup Stopping \cup Pacing
      BY <1>3 DEF Leaving, Stopping, Pacing
    <3>3. QED
      BY <3>1, <3>2 DEF Fusing
  <2>2. Todo # <<>> /\ Todo[1] = Head(Todo)
    BY <1>3
  <2>3. /\ Do("request") => Todo[1] = "request"
        /\ Do("request_none") => Todo[1] = "request_none"
    BY <2>2 DEF Do, Todo
  <2>4. /\ Do("default_rate") => Todo = <<"default_rate">>
        /\ Do("limited_rate") => Todo = <<"limited_rate">>
    BY <1>1, <1>2, FusedSteps DEF Do, Todo
  <2>5. QED
    BY <1>0, <2>1, <2>2, <2>3, <2>4 DEF CallInv
<1>5. /\ kind' = kind /\ session' = session /\ want' = want /\ lib' = lib
      /\ data' = data /\ late' = late /\ strayed' = strayed
      /\ exist' = exist /\ fresh' = fresh /\ threshold_counter' = threshold_counter
      /\ enable_mask' = enable_mask
      /\ Sensors' = Sensors
  BY <1>1 DEF Sensors
<1>6. delay_requests \in [Sensors -> RateSet] /\ enable_mask \subseteq Sensors /\ unheard \subseteq Sensors
  BY <1>0 DEF PaceInv, WantInv
<1>7. \E v \in RateSet :
        /\ \E rate_ok : sensors_wrapper_set_delay(kind, v, rate_ok)
        /\ delay_requests' \in [Sensors -> RateSet] /\ unheard' \subseteq Sensors
        /\ kind \in Akm => unheard' = {} /\ v = Fastest(enable_mask, delay_requests')
        /\ kind = "inemo" => v = rate_ns
        /\ kind = "ecompass" => v <= COMPASS_DELAY
        /\ Do("request_none") => delay_requests'[call.sensor] = NO_RATE
  <2>1. CASE Do("request") \/ Do("request_none")
    <3> DEFINE ns == IF Do("request") THEN call.ns ELSE NO_RATE
               v == requested(call.sensor, ns)
    <3>1. /\ delay_requests' = [delay_requests EXCEPT ![call.sensor] = ns]
          /\ unheard' = {}
          /\ \E rate_ok : sensors_wrapper_set_delay(kind, v, rate_ok)
      BY <2>1 DEF PaceStep, Do
    <3>2. ns \in RateSet
      BY <1>3, <1>4, RateFacts DEF RateSet, Do
    <3>3. delay_requests' \in [Sensors -> RateSet] /\ (Do("request_none") => delay_requests'[call.sensor] = NO_RATE)
      BY <1>4, <1>6, <3>1, <3>2 DEF Do
    <3>4. v = Fastest(enable_mask, delay_requests') /\ v \in RateSet
      BY <1>6, <3>1, <3>3, FastestType DEF requested
    <3>5. kind # "inemo" /\ kind # "ecompass"
      BY <1>4, <2>1 DEF Akm
    <3>6. QED
      BY <1>6, <3>1, <3>3, <3>4, <3>5
  <2>2. CASE Do("default_rate")
    <3>1. /\ \E rate_ok : sensors_wrapper_set_delay(kind, rate_ns, rate_ok)
          /\ delay_requests' = delay_requests /\ unheard' = unheard
      BY <2>2 DEF PaceStep, Do
    <3>2. rate_ns \in RateSet /\ kind = "inemo" /\ kind \notin Akm /\ ~Do("request_none")
      BY <1>4, <2>2, RateFacts DEF RateSet, Akm, Do
    <3>3. QED
      BY <1>6, <3>1, <3>2
  <2>3. CASE Do("limited_rate")
    <3>1. /\ \E rate_ok : sensors_wrapper_set_delay(kind, limited(call.ns), rate_ok)
          /\ delay_requests' = delay_requests /\ unheard' = unheard
      BY <2>3 DEF PaceStep, Do
    <3>2. kind = "ecompass" /\ kind \notin Akm /\ ~Do("request_none") /\ call.ns \in Rates
      BY <1>3, <1>4, <2>3 DEF Akm, Do
    <3>3. limited(call.ns) \in RateSet /\ limited(call.ns) <= COMPASS_DELAY
      BY <3>2, RateFacts DEF limited, RateSet
    <3>4. QED
      BY <1>6, <3>1, <3>2, <3>3
  <2>4. QED
    BY <1>1, <2>1, <2>2, <2>3
<1>8. PICK v \in RateSet :
        /\ \E rate_ok : sensors_wrapper_set_delay(kind, v, rate_ok)
        /\ delay_requests' \in [Sensors -> RateSet] /\ unheard' \subseteq Sensors
        /\ kind \in Akm => unheard' = {} /\ v = Fastest(enable_mask, delay_requests')
        /\ kind = "inemo" => v = rate_ns
        /\ kind = "ecompass" => v <= COMPASS_DELAY
        /\ Do("request_none") => delay_requests'[call.sensor] = NO_RATE
  BY <1>7
<1>8a. PICK rate_ok : sensors_wrapper_set_delay(kind, v, rate_ok)
  BY <1>8
<1>9. kind \in Clients /\ kind # "plain" /\ "plain" \in Clients
  BY <1>0, SensorNames DEF SlotInv
<1>10. /\ WrapperInv' /\ wants' = wants
       /\ \A s \in Drivers : hw'[s].closed = hw[s].closed
       /\ \A e \in Clients : At(e)' = At(e)
       /\ \A e \in Clients \ {kind} : \A s \in At(e) : Kept(e, s)
       /\ \A s \in At(kind) : /\ ActiveAt(kind, s)' <=> ActiveAt(kind, s)
                              /\ CloseAt(kind, s)' <=> CloseAt(kind, s)
                              /\ RateAt(kind, s)' = v
  BY <1>0, <1>5, <1>8a, <1>9, DelaySlots
<1> USE DEF Opening, Fusing, PlainCalls, Joining, Starting, Started, Leaving, Stopping, Stopped, Pacing
<1>11. CallInv'
  <2>1. /\ kind \in Kinds /\ session \in {"new", "open", "closed"}
        /\ lib \in {"none", "stopped", "running", "released"}
    BY <1>0 DEF CallInv
  <2>2. CASE Todo' = <<>>
    BY <1>0, <1>1, <1>2, <1>4, <1>5, <1>10, <2>1, <2>2, DoneCall DEF CallInv, Rest, Todo, RateSet
  <2>3. CASE Todo' = <<"clear">>
    BY <1>0, <1>1, <1>2, <1>4, <1>5, <1>10, <2>1, <2>3, DoneCall DEF CallInv, Rest, Todo, RateSet
  <2>4. CASE Todo' = <<"clear", "AKM_Stop", "deactivate">>
    BY <1>0, <1>1, <1>2, <1>4, <1>5, <1>10, <2>1, <2>4, DoneCall DEF CallInv, Rest, Todo, RateSet
  <2>5. CASE Todo' = <<"clear", "deactivate">> /\ Todo = <<"request_none", "clear", "deactivate">>
    BY <1>0, <1>1, <1>2, <1>4, <1>5, <1>10, <2>1, <2>5, DoneCall DEF CallInv, Rest, Todo, RateSet
  <2>6. QED
    BY <1>3, <2>2, <2>3, <2>4, <2>5
<1>12. MaskInv'
  <2>1. /\ LibFollows' <=> LibFollows
        /\ kind' = kind /\ wants' = wants /\ enable_mask' = enable_mask
        /\ session = "open" /\ session' = "open" /\ lib' = lib
    BY <1>2, <1>5, <1>10 DEF LibFollows
  <2>2. Todo' # <<>> => call'.sensor = call.sensor
    BY <1>0, <1>1, <1>3, DoneCall
  <2>3. CASE Todo' = <<>>
    BY <1>0, <1>3, <2>1, <2>3 DEF MaskInv
  <2>4. CASE Todo' = <<"clear">>
    BY <1>0, <1>3, <2>1, <2>2, <2>4 DEF MaskInv
  <2>5. CASE Todo' = <<"clear", "AKM_Stop", "deactivate">>
    BY <1>0, <1>3, <2>1, <2>2, <2>5 DEF MaskInv
  <2>6. CASE /\ Todo = <<"request_none", "clear", "deactivate">>
             /\ Todo' = <<"clear", "deactivate">>
    BY <1>0, <2>1, <2>2, <2>6 DEF MaskInv
  <2>7. QED
    BY <1>3, <2>3, <2>4, <2>5, <2>6
<1>13. WantInv'
  BY <1>0, <1>2, <1>3, <1>5, <1>8, <1>10 DEF WantInv
<1>14. EventInv'
  BY <1>0, <1>5 DEF EventInv, Fuses
<1>15. SlotInv'
  BY <1>0, <1>5, <1>9, <1>10 DEF SlotInv, Kept
<1>16. CloseInv'
  BY <1>0, <1>2, <1>5, <1>9, <1>10 DEF CloseInv, Kept
<1>17. PaceInv'
  <2>1. kind \in Akm => Fastest(enable_mask \ unheard, delay_requests)' = v
    <3>1. kind \in Akm => enable_mask' \ unheard' = enable_mask
      BY <1>5, <1>8
    <3>2. QED
      BY <1>8, <3>1
  <2>2. Todo' # <<>> /\ Todo'[1] = "clear" => delay_requests'[call'.sensor] = NO_RATE
    BY <1>0, <1>1, <1>3, <1>8, DoneCall
  <2>3. QED
    BY <1>2, <1>5, <1>8, <1>9, <1>10, <2>1, <2>2 DEF PaceInv
<1>18. QED
  BY <1>10, <1>11, <1>12, <1>13, <1>14, <1>15, <1>16, <1>17 DEF FusedInv

LEMMA FastestNone == ASSUME NEW R
                     PROVE  Fastest({}, R) = NO_RATE
<1>1. {R[i] : i \in {}} \ {NO_RATE} = {}
  OBVIOUS
<1>2. QED
  BY <1>1 DEF Fastest

(* A client joins its drivers before anything is enabled.                  *)
LEMMA JoinPreserves ==
  ASSUME WrapperInv, CallInv, SlotInv, CloseInv, PaceInv,
         NEW d \in Clients, d = kind \/ d = "plain", NEW init_ok, sensors_wrapper_init(d, init_ok),
         session = "open", wants = {}, enable_mask = {},
         UNCHANGED <<kind, session, enable_mask, delay_requests, unheard>>,
         Todo' # <<>> => Todo'[1] # "clear"
  PROVE  WrapperInv' /\ wants' = wants /\ SlotInv' /\ CloseInv' /\ PaceInv'
<1>1. /\ WrapperInv' /\ hw' = hw /\ paced' = paced /\ wants' = wants
      /\ \A e \in Clients \ {d} : At(e)' = At(e)
      /\ At(d) \subseteq At(d)'
      /\ \A e \in Clients : \A s \in At(e) : Kept(e, s)
      /\ \A s \in At(d)' \ At(d) : ~ActiveAt(d, s)' /\ ~CloseAt(d, s)' /\ RateAt(d, s)' = NO_RATE
  BY InitSlots
<1>2. /\ kind' = kind /\ session' = session /\ enable_mask' = enable_mask
      /\ delay_requests' = delay_requests /\ unheard' = unheard /\ Sensors' = Sensors
      /\ kind \in Clients /\ kind # "plain" /\ "plain" \in Clients
  BY SensorNames DEF Sensors
<1>3. \A e \in {kind, "plain"} : \A s \in At(e)' :
        \/ s \in At(e) /\ Kept(e, s)
        \/ ~ActiveAt(e, s)' /\ ~CloseAt(e, s)' /\ RateAt(e, s)' = NO_RATE
  BY <1>1, <1>2
<1>4. SlotInv'
  <2>1. \A e \in {kind, "plain"} : \A s \in At(e)' : ~ActiveAt(e, s)'
    BY <1>3 DEF SlotInv, Kept
  <2>2. \A e \in Clients \ {kind, "plain"} : At(e)' = {}
    BY <1>1 DEF SlotInv
  <2>3. QED
    BY <1>1, <1>2, <2>1, <2>2 DEF SlotInv
<1>5. CloseInv'
  <2>1. \A e \in {kind, "plain"} : \A s \in At(e)' : ~CloseAt(e, s)'
    BY <1>3 DEF CloseInv, Kept
  <2>2. \A s \in Drivers : ~hw[s].closed
    BY DEF CloseInv
  <2>3. QED
    BY <1>1, <1>2, <2>1, <2>2 DEF CloseInv
<1>6. PaceInv'
  <2>1. /\ Fastest(enable_mask \ unheard, delay_requests) = NO_RATE
        /\ Fastest(enable_mask \ unheard, delay_requests)' = NO_RATE
    <3>1. enable_mask \ unheard = {}
      OBVIOUS
    <3>2. QED
      BY <1>2, <3>1, FastestNone
  <2>2. NO_RATE <= COMPASS_DELAY
    BY RateFacts
  <2>3. ASSUME NEW s \in At(kind)'
        PROVE  /\ kind \in Akm => RateAt(kind, s)' = NO_RATE
               /\ kind = "inemo" => RateAt(kind, s)' \in {NO_RATE, rate_ns}
               /\ kind = "ecompass" => RateAt(kind, s)' <= COMPASS_DELAY
    BY <1>3, <2>1, <2>2, <2>3 DEF PaceInv, Kept
  <2>4. QED
    BY <1>2, <2>1, <2>3 DEF PaceInv
<1>7. QED
  BY <1>1, <1>4, <1>5, <1>6

(* Whatever the drivers refuse, nobody is enabled when the client joins.   *)
LEMMA ModuleInitPreserves ==
  ASSUME FusedInv, WrapperStep, Do("wrapper_init")
  PROVE  FusedInv'
<1>0. /\ WrapperInv /\ CallInv /\ MaskInv /\ WantInv /\ EventInv /\ SlotInv /\ CloseInv /\ PaceInv
  BY DEF FusedInv
<1>1. PICK init_ok : sensors_wrapper_init(kind, init_ok)
  BY DEF WrapperStep, Do
<1>2. /\ Todo # <<>>
      /\ lib' = IF rv' = 0 /\ Tail(Todo) = <<>> THEN "stopped" ELSE lib
      /\ IF rv' = 0 THEN Done ELSE call' = NoCall
      /\ UNCHANGED <<kind, session, enable_mask, delay_requests, exist, threshold_counter, data,
                     want, late, unheard, fresh, strayed>>
  BY DEF WrapperStep, Do, Todo
<1>3. session = "open" /\ Todo \in Shapes
  BY <1>0, <1>2 DEF CallInv, Closing, Do, Todo, Shapes, Rest
<1>4. Todo \in Opening /\ Tail(Todo) \in {<<>>, <<"AKM_Init">>}
  BY <1>0, <1>2, <1>3, OtherSteps DEF Do, Todo, Opening
<1>5. wants = {} /\ want = {} /\ enable_mask = {} /\ kind \in Kinds /\ lib = "none"
  BY <1>0, <1>4 DEF CallInv
<1>6. /\ Todo' \in {<<>>, <<"AKM_Init">>} /\ lib' \in {"none", "stopped"}
      /\ Todo' # <<>> => lib' = "none" /\ call'.sensor = call.sensor /\ call'.ns = call.ns
      /\ Todo' = <<>> => call'.sensor = None /\ call'.ns = NO_RATE
      /\ call' = [todo |-> call'.todo, sensor |-> call'.sensor, ns |-> call'.ns]
  <2>1. CASE rv' = 0
    BY <1>0, <1>2, <1>4, <1>5, <2>1, DoneCall DEF Todo
  <2>2. CASE rv' # 0
    BY <1>2, <1>5, <2>2 DEF NoCall, Todo
  <2>3. QED
    BY <2>1, <2>2
<1>7. /\ kind' = kind /\ session' = session /\ want' = want
      /\ data' = data /\ late' = late /\ strayed' = strayed
      /\ exist' = exist /\ fresh' = fresh /\ threshold_counter' = threshold_counter
      /\ delay_requests' = delay_requests /\ enable_mask' = enable_mask /\ unheard' = unheard
      /\ Sensors' = Sensors
  BY <1>2 DEF Sensors
<1>8. WrapperInv' /\ wants' = wants /\ SlotInv' /\ CloseInv' /\ PaceInv'
  <2>1. Todo' # <<>> => Todo'[1] # "clear"
    BY <1>6
  <2>2. kind \in Clients
    BY <1>0, SensorNames
  <2>3. QED
    BY <1>0, <1>1, <1>2, <1>3, <1>5, <1>7, <2>1, <2>2, JoinPreserves
<1> USE DEF Opening, Fusing, PlainCalls, Joining, Starting, Started, Leaving, Stopping, Stopped, Pacing
<1>9. CallInv'
  <2>1. CASE Todo' = <<>>
    BY <1>0, <1>3, <1>5, <1>6, <1>7, <1>8, <2>1 DEF CallInv, Rest, Todo, RateSet
  <2>2. CASE Todo' = <<"AKM_Init">>
    BY <1>0, <1>3, <1>5, <1>6, <1>7, <1>8, <2>2 DEF CallInv, Rest, Todo, RateSet
  <2>3. QED
    BY <1>6, <2>1, <2>2
<1>10. MaskInv'
  BY <1>0, <1>3, <1>5, <1>6, <1>7, <1>8 DEF MaskInv, LibFollows
<1>11. WantInv'
  BY <1>0, <1>3, <1>5, <1>6, <1>7, <1>8 DEF WantInv
<1>12. EventInv'
  BY <1>0, <1>7 DEF EventInv, Fuses
<1>13. QED
  BY <1>8, <1>9, <1>10, <1>11, <1>12 DEF FusedInv

LEMMA PlainInitPreserves ==
  ASSUME FusedInv, PlainStep, Do("plain_init")
  PROVE  FusedInv'
<1>0. /\ WrapperInv /\ CallInv /\ MaskInv /\ WantInv /\ EventInv /\ SlotInv /\ CloseInv /\ PaceInv
  BY DEF FusedInv
<1>1. PICK init_ok : sensors_wrapper_init("plain", init_ok)
  BY DEF PlainStep, Do
<1>2. /\ Done
      /\ UNCHANGED <<kind, session, enable_mask, delay_requests, exist, threshold_counter, lib, data,
                     want, late, unheard, fresh, strayed>>
  BY DEF PlainStep, Do, ownVars
<1>3. session = "open" /\ Todo \in Shapes
  BY <1>0, <1>2, DoneCall DEF CallInv, Closing, Do, Todo, Shapes, Rest
<1>4. /\ Todo \in Opening
      /\ Todo' \in {<<"wrapper_init", "AKM_Init">>, <<"Initialization", "wrapper_init">>, <<"wrapper_init">>}
  BY <1>0, <1>2, <1>3, DoneCall, OtherSteps DEF Do, Todo, Opening
<1>5. wants = {} /\ want = {} /\ enable_mask = {} /\ kind \in Kinds /\ lib = "none"
  BY <1>0, <1>4 DEF CallInv
<1>6. /\ call'.sensor = call.sensor /\ call'.ns = call.ns
      /\ call' = [todo |-> call'.todo, sensor |-> call'.sensor, ns |-> call'.ns]
  BY <1>0, <1>2, <1>4, DoneCall
<1>7. /\ kind' = kind /\ session' = session /\ want' = want /\ lib' = lib
      /\ data' = data /\ late' = late /\ strayed' = strayed
      /\ exist' = exist /\ fresh' = fresh /\ threshold_counter' = threshold_counter
      /\ delay_requests' = delay_requests /\ enable_mask' = enable_mask /\ unheard' = unheard
      /\ Sensors' = Sensors
  BY <1>2 DEF Sensors
<1>8. WrapperInv' /\ wants' = wants /\ SlotInv' /\ CloseInv' /\ PaceInv'
  <2>1. Todo' # <<>> => Todo'[1] # "clear"
    BY <1>4
  <2>2. "plain" \in Clients
    BY <1>0, SensorNames
  <2>3. QED
    BY <1>0, <1>1, <1>2, <1>3, <1>5, <1>7, <2>1, <2>2, JoinPreserves
<1> USE DEF Opening, Fusing, PlainCalls, Joining, Starting, Started, Leaving, Stopping, Stopped, Pacing
<1>9. CallInv'
  <2>1. CASE Todo' = <<"wrapper_init", "AKM_Init">>
    BY <1>0, <1>3, <1>5, <1>6, <1>7, <1>8, <2>1 DEF CallInv, Rest, Todo, RateSet
  <2>2. CASE Todo' = <<"Initialization", "wrapper_init">>
    BY <1>0, <1>3, <1>5, <1>6, <1>7, <1>8, <2>2 DEF CallInv, Rest, Todo, RateSet
  <2>3. CASE Todo' = <<"wrapper_init">>
    BY <1>0, <1>3, <1>5, <1>6, <1>7, <1>8, <2>3 DEF CallInv, Rest, Todo, RateSet
  <2>4. QED
    BY <1>4, <2>1, <2>2, <2>3
<1>10. MaskInv'
  BY <1>0, <1>3, <1>4, <1>5, <1>6, <1>7, <1>8 DEF MaskInv, LibFollows
<1>11. WantInv'
  BY <1>0, <1>3, <1>4, <1>5, <1>6, <1>7, <1>8 DEF WantInv
<1>12. EventInv'
  BY <1>0, <1>7 DEF EventInv, Fuses
<1>13. QED
  BY <1>8, <1>9, <1>10, <1>11, <1>12 DEF FusedInv

(* The client is enabled with the first sensor, disabled with the last.    *)
LEMMA ModuleActivatePreserves ==
  ASSUME FusedInv, WrapperStep, Do("activate") \/ Do("deactivate")
  PROVE  FusedInv'
<1>0. /\ WrapperInv /\ CallInv /\ MaskInv /\ WantInv /\ EventInv /\ SlotInv /\ CloseInv /\ PaceInv
  BY DEF FusedInv
<1> DEFINE enable == Do("activate")
<1>1. /\ Done
      /\ want' = IF enable THEN want ELSE want \ {call.sensor}
      /\ UNCHANGED <<kind, session, enable_mask, delay_requests, exist, threshold_counter, lib, data,
                     late, unheard, fresh, strayed>>
      /\ \E act_ok, rate_ok : sensors_wrapper_activate(kind, enable, act_ok, rate_ok)
  BY DEF WrapperStep, Do
<1>2. session = "open" /\ Todo \in Shapes
  BY <1>0, <1>1, DoneCall DEF CallInv, Closing, Do, Todo, Shapes, Rest
<1>3. \/ Todo = <<"activate">> /\ Todo' = <<>> /\ enable /\ Todo \in Started
      \/ Todo = <<"deactivate">> /\ Todo' = <<>> /\ ~enable /\ Todo \in Stopped
  BY <1>0, <1>1, <1>2, DoneCall, FusedSteps DEF Do, Todo, Started, Stopped
<1>4. call.sensor \in Sensors /\ lib # "none" /\ call.sensor # "plain"
  BY <1>0, <1>3, SensorNames DEF CallInv, Fusing
<1>5. /\ kind' = kind /\ session' = session /\ lib' = lib
      /\ data' = data /\ late' = late /\ strayed' = strayed
      /\ exist' = exist /\ fresh' = fresh /\ threshold_counter' = threshold_counter
      /\ delay_requests' = delay_requests /\ enable_mask' = enable_mask /\ unheard' = unheard
      /\ Sensors' = Sensors
  BY <1>1 DEF Sensors
<1>6. /\ kind \in Clients /\ kind # "plain" /\ "plain" \in Clients
  BY <1>0, SensorNames DEF SlotInv
<1>7. PICK act_ok, rate_ok : sensors_wrapper_activate(kind, enable, act_ok, rate_ok)
  BY <1>1
<1>8. enable \in BOOLEAN
  BY DEF Do
<1> HIDE DEF enable
<1>9. /\ WrapperInv'
      /\ wants' = IF enable THEN wants \cup {kind} ELSE wants \ {kind}
      /\ \A s \in Drivers : hw'[s].closed = hw[s].closed
      /\ \A e \in Clients : At(e)' = At(e)
      /\ \A e \in Clients \ {kind} : \A s \in At(e) : Kept(e, s)
      /\ \A s \in At(kind) : /\ ActiveAt(kind, s)' <=> enable
                             /\ CloseAt(kind, s)' <=> CloseAt(kind, s)
                             /\ RateAt(kind, s)' = IF enable THEN RateAt(kind, s) ELSE NO_RATE
  BY <1>0, <1>5, <1>6, <1>7, <1>8, ActivateSlots
<1> USE DEF Opening, Fusing, PlainCalls, Joining, Starting, Started, Leaving, Stopping, Stopped, Pacing
<1>10. CallInv'
  BY <1>0, <1>1, <1>2, <1>3, <1>4, <1>5, <1>9, DoneCall DEF CallInv, Rest, Todo, RateSet
<1>11. MaskInv'
  BY <1>0, <1>2, <1>3, <1>4, <1>5, <1>9 DEF MaskInv, LibFollows
<1>12. WantInv'
  <2>1. CASE enable
    BY <1>0, <1>1, <1>3, <1>5, <1>6, <1>9, <2>1 DEF WantInv
  <2>2. CASE ~enable
    <3>1. enable_mask = {}
      BY <1>0, <1>3, <2>2 DEF MaskInv
    <3>2. QED
      BY <1>0, <1>1, <1>3, <1>4, <1>5, <1>6, <1>9, <2>2, <3>1 DEF WantInv
  <2>3. QED
    BY <2>1, <2>2
<1>13. EventInv'
  BY <1>0, <1>5 DEF EventInv, Fuses
<1>14. SlotInv'
  BY <1>0, <1>5, <1>6, <1>9 DEF SlotInv, Kept
<1>15. CloseInv'
  BY <1>0, <1>2, <1>5, <1>6, <1>9 DEF CloseInv, Kept
<1>16. PaceInv'
  <2>1. Fastest(enable_mask \ unheard, delay_requests)' = Fastest(enable_mask \ unheard, delay_requests)
    BY <1>5
  <2>2. ~enable => Fastest(enable_mask \ unheard, delay_requests) = NO_RATE
    <3>1. ~enable => enable_mask \ unheard = {}
      BY <1>0, <1>3 DEF MaskInv
    <3>2. QED
      BY <3>1, FastestNone
  <2>3. NO_RATE <= COMPASS_DELAY
    BY RateFacts
  <2>4. QED
    BY <1>0, <1>2, <1>3, <1>5, <1>6, <1>9, <2>1, <2>2, <2>3 DEF PaceInv
<1>17. QED
  BY <1>9, <1>10, <1>11, <1>12, <1>13, <1>14, <1>15, <1>16 DEF FusedInv

LEMMA PlainActivatePreserves ==
  ASSUME FusedInv, PlainStep, Do("plain_activate") \/ Do("plain_deactivate")
  PROVE  FusedInv'
<1>0. /\ WrapperInv /\ CallInv /\ MaskInv /\ WantInv /\ EventInv /\ SlotInv /\ CloseInv /\ PaceInv
  BY DEF FusedInv
<1> DEFINE enable == Do("plain_activate")
<1>1. /\ Done
      /\ want' = IF Do("plain_deactivate") THEN want \ {"plain"} ELSE want
      /\ UNCHANGED <<kind, session, enable_mask, delay_requests, exist, threshold_counter, lib, data,
                     late, unheard, fresh, strayed>>
      /\ \E act_ok, rate_ok : sensors_wrapper_activate("plain", enable, act_ok, rate_ok)
  BY DEF PlainStep, Do, ownVars
<1>2. session = "open" /\ Todo \in Shapes
  BY <1>0, <1>1, DoneCall DEF CallInv, Closing, Do, Todo, Shapes, Rest
<1>3. \/ Todo = <<"plain_activate">> /\ Todo' = <<>> /\ enable /\ want' = want
      \/ Todo = <<"plain_deactivate">> /\ Todo' = <<>> /\ ~enable /\ want' = want \ {"plain"}
  BY <1>0, <1>1, <1>2, DoneCall, OtherSteps DEF Do, Todo
<1>4. "plain" \notin Sensors
  BY <1>0, SensorNames
<1>5. /\ kind' = kind /\ session' = session /\ lib' = lib
      /\ data' = data /\ late' = late /\ strayed' = strayed
      /\ exist' = exist /\ fresh' = fresh /\ threshold_counter' = threshold_counter
      /\ delay_requests' = delay_requests /\ enable_mask' = enable_mask /\ unheard' = unheard
      /\ Sensors' = Sensors
  BY <1>1 DEF Sensors
<1>6. /\ kind \in Clients /\ kind # "plain" /\ "plain" \in Clients
  BY <1>0, SensorNames DEF SlotInv
<1>7. PICK act_ok, rate_ok : sensors_wrapper_activate("plain", enable, act_ok, rate_ok)
  BY <1>1
<1>8. enable \in BOOLEAN
  BY DEF Do
<1> HIDE DEF enable
<1>9. /\ WrapperInv'
      /\ wants' = IF enable THEN wants \cup {"plain"} ELSE wants \ {"plain"}
      /\ \A s \in Drivers : hw'[s].closed = hw[s].closed
      /\ \A e \in Clients : At(e)' = At(e)
      /\ \A e \in Clients \ {"plain"} : \A s \in At(e) : Kept(e, s)
      /\ \A s \in At("plain") : /\ ActiveAt("plain", s)' <=> enable
                                /\ CloseAt("plain", s)' <=> CloseAt("plain", s)
                                /\ RateAt("plain", s)' = IF enable THEN RateAt("plain", s) ELSE NO_RATE
  BY <1>0, <1>6, <1>7, <1>8, ActivateSlots
<1> USE DEF Opening, Fusing, PlainCalls, Joining, Starting, Started, Leaving, Stopping, Stopped, Pacing
<1>10. CallInv'
  BY <1>0, <1>1, <1>2, <1>3, <1>4, <1>5, <1>6, <1>9, DoneCall DEF CallInv, Rest, Todo, RateSet
<1>11. MaskInv'
  BY <1>0, <1>2, <1>3, <1>4, <1>5, <1>6, <1>9 DEF MaskInv, LibFollows
<1>12. WantInv'
  BY <1>0, <1>3, <1>4, <1>5, <1>6, <1>9 DEF WantInv
<1>13. EventInv'
  BY <1>0, <1>5 DEF EventInv, Fuses
<1>14. SlotInv'
  BY <1>0, <1>5, <1>6, <1>9 DEF SlotInv, Kept
<1>15. CloseInv'
  BY <1>0, <1>2, <1>5, <1>6, <1>9 DEF CloseInv, Kept
<1>16. PaceInv'
  <2>1. Fastest(enable_mask \ unheard, delay_requests)' = Fastest(enable_mask \ unheard, delay_requests)
    BY <1>5
  <2>2. QED
    BY <1>0, <1>2, <1>3, <1>5, <1>6, <1>9, <2>1 DEF PaceInv, Kept
<1>17. QED
  BY <1>9, <1>10, <1>11, <1>12, <1>13, <1>14, <1>15, <1>16 DEF FusedInv

LEMMA PlainDelayPreserves ==
  ASSUME FusedInv, PlainStep, Do("plain_set_delay")
  PROVE  FusedInv'
<1>0. /\ WrapperInv /\ CallInv /\ MaskInv /\ WantInv /\ EventInv /\ SlotInv /\ CloseInv /\ PaceInv
  BY DEF FusedInv
<1>1. /\ Done /\ \E rate_ok : sensors_wrapper_set_delay("plain", call.ns, rate_ok)
      /\ UNCHANGED <<kind, session, enable_mask, delay_requests, exist, threshold_counter, lib, data, want,
                     late, unheard, fresh, strayed>>
  BY DEF PlainStep, Do, ownVars
<1>2. session = "open" /\ Todo \in Shapes
  BY <1>0, <1>1, DoneCall DEF CallInv, Closing, Do, Todo, Shapes, Rest
<1>3. Todo = <<"plain_set_delay">> /\ Todo' = <<>>
  BY <1>0, <1>1, <1>2, DoneCall, OtherSteps DEF Do, Todo
<1>4. call.ns \in RateSet
  BY <1>0 DEF CallInv
<1>5. /\ kind' = kind /\ session' = session /\ lib' = lib /\ want' = want
      /\ data' = data /\ late' = late /\ strayed' = strayed
      /\ exist' = exist /\ fresh' = fresh /\ threshold_counter' = threshold_counter
      /\ delay_requests' = delay_requests /\ enable_mask' = enable_mask /\ unheard' = unheard
      /\ Sensors' = Sensors
  BY <1>1 DEF Sensors
<1>6. /\ kind \in Clients /\ kind # "plain" /\ "plain" \in Clients
  BY <1>0, SensorNames DEF SlotInv
<1>7. PICK v \in RateSet : v = call.ns
  BY <1>4
<1>8. PICK rate_ok : sensors_wrapper_set_delay("plain", v, rate_ok)
  BY <1>1, <1>7
<1>9. /\ WrapperInv' /\ wants' = wants
      /\ \A s \in Drivers : hw'[s].closed = hw[s].closed
      /\ \A e \in Clients : At(e)' = At(e)
      /\ \A e \in Clients \ {"plain"} : \A s \in At(e) : Kept(e, s)
      /\ \A s \in At("plain") : /\ ActiveAt("plain", s)' <=> ActiveAt("plain", s)
                                /\ CloseAt("plain", s)' <=> CloseAt("plain", s)
                                /\ RateAt("plain", s)' = v
  BY <1>0, <1>6, <1>8, DelaySlots
<1> USE DEF Opening, Fusing, PlainCalls, Joining, Starting, Started, Leaving, Stopping, Stopped, Pacing
<1>10. CallInv'
  BY <1>0, <1>1, <1>2, <1>3, <1>5, <1>6, <1>9, DoneCall DEF CallInv, Rest, Todo, RateSet
<1>11. MaskInv'
  BY <1>0, <1>2, <1>3, <1>5, <1>9 DEF MaskInv, LibFollows
<1>12. WantInv'
  BY <1>0, <1>3, <1>5, <1>9 DEF WantInv
<1>13. EventInv'
  BY <1>0, <1>5 DEF EventInv, Fuses
<1>14. SlotInv'
  BY <1>0, <1>5, <1>6, <1>9 DEF SlotInv, Kept
<1>15. CloseInv'
  BY <1>0, <1>2, <1>5, <1>6, <1>9 DEF CloseInv, Kept
<1>16. PaceInv'
  <2>1. Fastest(enable_mask \ unheard, delay_requests)' = Fastest(enable_mask \ unheard, delay_requests)
    BY <1>5
  <2>2. QED
    BY <1>0, <1>2, <1>3, <1>5, <1>6, <1>9, <2>1 DEF PaceInv, Kept
<1>17. QED
  BY <1>9, <1>10, <1>11, <1>12, <1>13, <1>14, <1>15, <1>16 DEF FusedInv

(***************************************************************************)
(* The data callbacks.                                                     *)
(***************************************************************************)

(* A sample reaches the module only while its client is enabled, and from  *)
(* a driver of a type it asks for.                                         *)
LEMMA HeardKind ==
  ASSUME WrapperInv, NEW s \in Drivers, sensors_wrapper_data(s), kind \in heard'.to
  PROVE  kind \in wants /\ s \in At(kind) /\ Type[s] \in Matched(kind)
<1>1. heard'.to = {entry[s].api[c] : c \in Active(s)}
  BY DEF sensors_wrapper_data, Active
<1>2. PICK c \in Active(s) : entry[s].api[c] = kind
  BY <1>1
<1>3. kind \in wants /\ s \in At(kind)
  BY <1>2, ActiveClients
<1>4. kind \in Clients /\ Matches(kind, s)
  BY <1>3 DEF WrapperInv, TypeInv, AttachInv
<1>5. QED
  BY <1>3, <1>4 DEF Matches, Matched

(* What the callback of each module makes of a sample.                     *)
LEMMA CallbackResult ==
  ASSUME CallInv, EventInv, NEW t \in Types, t \in Matched(kind), NEW ok \in BOOLEAN, NEW cal \in BOOLEAN
  PROVE  LET after == callback(t, ok, cal)
         IN  /\ after.exist \subseteq exist \cup {t}
             /\ after.counter \in 0..FRC_TRIGGER
             /\ after.todo \in Seq(AndroidSensors)
             /\ kind = "inemo" /\ after.todo = <<>> => after.exist = exist \cup {t}
             /\ Fuses /\ after.todo # <<>> => after.exist = {} /\ exist \cup {t} = Matched(kind)
<1> DEFINE after == callback(t, ok, cal)
<1>1. /\ threshold_counter \in 0..FRC_TRIGGER /\ counted \in 0..FRC_TRIGGER
      /\ FRC_TRIGGER \in Nat
  BY FusedAssumption DEF FusedAssumption, EventInv, counted
<1>2. /\ <<>> \in Seq(AndroidSensors)
      /\ <<"MAGNETIC", "ORIENTATION">> \in Seq(AndroidSensors)
      /\ <<"MAGNETIC", "MAGNETIC_UNCALIB">> \in Seq(AndroidSensors)
      /\ <<"ORIENTATION">> \in Seq(AndroidSensors)
      /\ <<"GRAVITY", "LINEAR_ACCELERATION", "ROTATION_VECTOR", "ORIENTATION", "MAGNETIC">> \in Seq(AndroidSensors)
      /\ <<"ORIENTATION", "MAGNETIC">> \in Seq(AndroidSensors)
  <2>1. {"MAGNETIC", "ORIENTATION", "MAGNETIC_UNCALIB", "GRAVITY", "LINEAR_ACCELERATION", "ROTATION_VECTOR"}
          \subseteq AndroidSensors
    BY DEF AndroidSensors, ak896x, ak897x, ak0991x, akm6d, inemo, ecompass
  <2>2. QED
    BY <2>1
<1>3. CASE kind = "ak896x"
  <2>1. after = ak896xna_compass_data(t, ok, cal)
    BY <1>3, Zenon DEF callback
  <2>2. QED
    BY <1>1, <1>2, <1>3, <2>1 DEF ak896xna_compass_data, Ignored, Fuses
<1>4. CASE kind = "ak897x"
  <2>1. after = ak897xna_compass_data(t, ok, cal)
    BY <1>4, Zenon DEF callback
  <2>2. QED
    BY <1>1, <1>2, <1>4, <2>1 DEF ak897xna_compass_data, Ignored, Fuses
<1>5. CASE kind = "ak0991x"
  <2>1. after = ak0991xna_compass_data(t, ok)
    BY <1>5, Zenon DEF callback
  <2>2. QED
    BY <1>1, <1>2, <1>5, <2>1 DEF ak0991xna_compass_data, Ignored, Fuses
<1>6. CASE kind = "akm6d"
  <2>1. after = akm6d_sensors_data(t, ok)
    BY <1>6, Zenon DEF callback
  <2>2. Matched(kind) = {"acc", "mag"} /\ exist \subseteq fresh /\ fresh \subseteq Matched(kind)
    BY <1>6, FusedAssumption DEF FusedAssumption, CallInv, EventInv, Fuses
  <2> DEFINE up == exist \cup IF ok \/ t = "mag" THEN {t} ELSE {}
  <2>3. up \subseteq exist \cup {t} /\ (up = {"acc", "mag"} => up \subseteq exist \cup {t})
    OBVIOUS
  <2>4. CASE up = {"acc", "mag"}
    <3>1. after = [exist |-> {}, counter |-> threshold_counter, todo |-> <<"ORIENTATION">>]
      BY <2>1, <2>4 DEF akm6d_sensors_data, Ignored
    <3>2. exist \cup {t} = Matched(kind)
      <4>1. t \in {"acc", "mag"}
        BY <2>2
      <4>2. QED
        BY <2>2, <2>3, <2>4, <4>1
    <3>3. QED
      BY <1>1, <1>2, <1>6, <3>1, <3>2
  <2>5. CASE up # {"acc", "mag"}
    <3>1. after = [exist |-> up, counter |-> threshold_counter, todo |-> <<>>]
      BY <2>1, <2>5 DEF akm6d_sensors_data, Ignored
    <3>2. QED
      BY <1>1, <1>2, <1>6, <2>3, <3>1
  <2>6. QED
    BY <2>4, <2>5
<1>7. CASE kind = "inemo"
  <2>1. after = inemo_data(t)
    BY <1>7, Zenon DEF callback
  <2>2. Matched(kind) = {"acc", "mag", "gyr"}
    BY <1>7, FusedAssumption DEF FusedAssumption, CallInv
  <2>3. QED
    BY <1>1, <1>2, <1>7, <2>1, <2>2 DEF inemo_data, Ignored
<1>8. CASE kind = "ecompass"
  <2>1. after = ecompass_data(t, ok)
    BY <1>8, Zenon DEF callback
  <2>2. QED
    BY <1>1, <1>2, <1>8, <2>1 DEF ecompass_data, Ignored, Fuses
<1>9. QED
  BY <1>3, <1>4, <1>5, <1>6, <1>7, <1>8, FusedAssumption DEF FusedAssumption, CallInv

(* A step of the callback leaves all but its data as it is.                *)
LEMMA DataStepPreserves ==
  ASSUME FusedInv, WrapperInv', EventInv',
         UNCHANGED <<entry, access, hw, paced, wants>>,
         UNCHANGED <<kind, call, session, enable_mask, delay_requests, lib, want, unheard>>,
         late' \subseteq Sensors \ want
  PROVE  FusedInv'
<1>0. /\ WrapperInv /\ CallInv /\ MaskInv /\ WantInv /\ EventInv /\ SlotInv /\ CloseInv /\ PaceInv
  BY DEF FusedInv
<1>1. /\ kind' = kind /\ call' = call /\ session' = session /\ enable_mask' = enable_mask
      /\ delay_requests' = delay_requests /\ lib' = lib /\ want' = want /\ unheard' = unheard
      /\ entry' = entry /\ access' = access /\ hw' = hw /\ paced' = paced /\ wants' = wants
  OBVIOUS
<1>2. Sensors' = Sensors /\ Todo' = Todo /\ (Off' <=> Off) /\ (Closing' <=> Closing) /\ (LibFollows' <=> LibFollows)
  BY <1>1 DEF Sensors, Todo, Off, Closing, LibFollows
<1>3. \A d : At(d)' = At(d) /\ \A s : Kept(d, s)
  BY <1>1 DEF At, Kept, ActiveAt, CloseAt, RateAt
<1>4. CallInv'
  BY <1>0, <1>1, <1>2 DEF CallInv, Rest
<1>5. MaskInv' /\ WantInv'
  BY <1>0, <1>1, <1>2 DEF MaskInv, WantInv
<1>6. SlotInv' /\ CloseInv'
  BY <1>0, <1>1, <1>2, <1>3 DEF SlotInv, CloseInv, Kept
<1>7. PaceInv'
  <2>1. Fastest(enable_mask \ unheard, delay_requests)' = Fastest(enable_mask \ unheard, delay_requests)
    BY <1>1
  <2>2. QED
    BY <1>0, <1>1, <1>2, <1>3, <2>1 DEF PaceInv, Kept
<1>8. QED
  BY <1>4, <1>5, <1>6, <1>7 DEF FusedInv

(* A sample is taken only while the module's client is enabled, and then   *)
(* the library runs unless a call is under way.                            *)
LEMMA SamplePreserves ==
  ASSUME FusedInv, NEW s \in Drivers, Sample(s)
  PROVE  FusedInv'
<1>0. /\ WrapperInv /\ CallInv /\ MaskInv /\ WantInv /\ EventInv
  BY DEF FusedInv
<1>1. /\ sensors_wrapper_data(s)
      /\ UNCHANGED <<entry, access, hw, paced, wants>>
      /\ UNCHANGED <<kind, call, session, enable_mask, delay_requests, lib, want, late, unheard>>
  BY DEF Sample, sensors_wrapper_data
<1>2. WrapperInv'
  BY <1>0, <1>1, DataPreserves
<1>3. late' \subseteq Sensors \ want
  BY <1>0, <1>1 DEF WantInv
<1>4. EventInv'
  <2>1. CASE kind \notin heard'.to
    <3>1. UNCHANGED <<exist, threshold_counter, data, fresh, strayed>>
      BY <2>1 DEF Sample
    <3>2. exist' = exist /\ threshold_counter' = threshold_counter /\ data' = data /\ fresh' = fresh
          /\ strayed' = strayed /\ kind' = kind /\ late' = late /\ Sensors' = Sensors
      BY <1>1, <3>1 DEF Sensors
    <3>3. QED
      BY <1>0, <3>2 DEF EventInv, Fuses
  <2>2. CASE kind \in heard'.to
    <3>1. PICK ok \in BOOLEAN, cal \in BOOLEAN :
            LET after == callback(Type[s], ok, cal)
            IN  /\ exist' = after.exist
                /\ threshold_counter' = after.counter
                /\ data' = [todo |-> after.todo, hold |-> None, ran |-> Fuses /\ after.todo # <<>>]
                /\ fresh' = IF Fuses /\ after.todo = <<>> THEN fresh \cup {Type[s]} ELSE {}
                /\ strayed' = IF kind \in Chips /\ lib # "running" /\ Rest
                              THEN strayed \cup {"stopped"} ELSE strayed
      BY <2>2 DEF Sample
    <3> DEFINE after == callback(Type[s], ok, cal)
    <3>2. kind \in wants /\ Type[s] \in Matched(kind) /\ Type[s] \in Types
      BY <1>0, <1>1, <2>2, HeardKind DEF Types
    <3>3. /\ after.exist \subseteq exist \cup {Type[s]}
          /\ after.counter \in 0..FRC_TRIGGER
          /\ after.todo \in Seq(AndroidSensors)
          /\ kind = "inemo" /\ after.todo = <<>> => after.exist = exist \cup {Type[s]}
          /\ Fuses /\ after.todo # <<>> => after.exist = {} /\ exist \cup {Type[s]} = Matched(kind)
      BY <1>0, <3>2, CallbackResult
    <3>4. kind \in Chips /\ Rest => lib = "running"
      <4>1. Rest => Todo \notin Started \cup Stopped
        BY DEF Rest, Todo, Started, Stopped
      <4>2. Rest => enable_mask # {} /\ (session # "closed" => LibFollows)
        BY <1>0, <3>2, <4>1 DEF MaskInv
      <4>3. QED
        BY <1>0, <4>2 DEF MaskInv, LibFollows
    <3>5. strayed' = {}
      BY <1>0, <3>1, <3>4 DEF EventInv
    <3> HIDE DEF after
    <3>6. /\ exist' = after.exist /\ threshold_counter' = after.counter
          /\ data' = [todo |-> after.todo, hold |-> None, ran |-> Fuses /\ after.todo # <<>>]
          /\ fresh' = IF Fuses /\ after.todo = <<>> THEN fresh \cup {Type[s]} ELSE {}
      BY <3>1 DEF after
    <3>7. /\ data'.todo = after.todo /\ data'.hold = None
          /\ data' = [todo |-> data'.todo, hold |-> data'.hold, ran |-> data'.ran]
          /\ data'.ran \in BOOLEAN
      BY <3>6 DEF Fuses
    <3>8. kind' = kind /\ late' = late /\ Sensors' = Sensors /\ (Fuses' <=> Fuses)
      BY <1>1 DEF Sensors, Fuses
    <3>9. None \notin late
      BY <1>0, SensorNames DEF WantInv
    <3>10. exist' \subseteq Types /\ fresh' \subseteq Types
      BY <1>0, <3>2, <3>3, <3>6 DEF EventInv
    <3>11. /\ kind = "inemo" => exist' = fresh'
           /\ kind = "akm6d" => exist' \subseteq fresh'
           /\ Fuses => fresh' \subseteq Matched(kind)
      <4>1. CASE Fuses /\ after.todo = <<>>
        BY <1>0, <3>2, <3>3, <3>6, <4>1 DEF EventInv
      <4>2. CASE Fuses /\ after.todo # <<>>
        BY <3>3, <3>6, <4>2
      <4>3. QED
        BY <4>1, <4>2 DEF Fuses
    <3>12. Matched(kind)' = Matched(kind)
      BY <3>8
    <3>13. QED
      BY <3>3, <3>5, <3>6, <3>7, <3>8, <3>9, <3>10, <3>11, <3>12 DEF EventInv
  <2>3. QED
    BY <2>1, <2>2
<1>5. QED
  BY <1>1, <1>2, <1>3, <1>4, DataStepPreserves

(* The callback holds an event only for a sensor whose bit it saw set: the *)
(* framework wanted it, and it is not late.                                *)
LEMMA LookPreserves ==
  ASSUME FusedInv, Look
  PROVE  FusedInv'
<1>0. /\ WrapperInv /\ CallInv /\ WantInv /\ EventInv
  BY DEF FusedInv
<1>1. /\ Apart /\ data.todo # <<>>
      /\ UNCHANGED <<kind, call, session, ownVars, want, late, unheard, fresh, strayed>>
      /\ \E h \in {Head(data.todo), None} :
           /\ h # None => bit(h)
           /\ data' = [data EXCEPT !.todo = Tail(@), !.ran = FALSE, !.hold = h]
  <2>1. PICK got \in BOOLEAN :
          data' = [data EXCEPT !.todo = Tail(@), !.ran = FALSE,
                               !.hold = IF bit(Head(data.todo)) /\ got THEN Head(data.todo) ELSE None]
    BY DEF Look
  <2> DEFINE h == IF bit(Head(data.todo)) /\ got THEN Head(data.todo) ELSE None
  <2>2. h \in {Head(data.todo), None} /\ (h # None => bit(h))
    OBVIOUS
  <2>3. data' = [data EXCEPT !.todo = Tail(@), !.ran = FALSE, !.hold = h]
    BY <2>1
  <2>4. QED
    BY <2>2, <2>3 DEF Look
<1>2. WrapperInv'
  BY <1>0, <1>1, ApartPreserves
<1>3. PICK h \in {Head(data.todo), None} :
        /\ h # None => bit(h)
        /\ data' = [data EXCEPT !.todo = Tail(@), !.ran = FALSE, !.hold = h]
  BY <1>1
<1>4. data' = [todo |-> Tail(data.todo), hold |-> h, ran |-> FALSE]
  BY <1>0, <1>3 DEF EventInv
<1>5. h \in Sensors \cup {None} /\ h \notin late
  BY <1>0, <1>3, SensorNames DEF WantInv, bit
<1>6. Tail(data.todo) \in Seq(AndroidSensors)
  BY <1>0, <1>1 DEF EventInv
<1>7. /\ kind' = kind /\ late' = late /\ strayed' = strayed /\ exist' = exist /\ fresh' = fresh
      /\ threshold_counter' = threshold_counter /\ Sensors' = Sensors
  BY <1>1 DEF Sensors, ownVars
<1>8. EventInv'
  BY <1>0, <1>4, <1>5, <1>6, <1>7 DEF EventInv, Fuses
<1>9. QED
  BY <1>0, <1>1, <1>2, <1>8, DataStepPreserves DEF Apart, ownVars, WantInv

(* The bit may have been cleared since: the event is late, but the first.  *)
LEMMA PutPreserves ==
  ASSUME FusedInv, Put
  PROVE  FusedInv'
<1>0. /\ WrapperInv /\ CallInv /\ WantInv /\ EventInv
  BY DEF FusedInv
<1>1. /\ Apart /\ data.hold # None
      /\ data' = [data EXCEPT !.hold = None]
      /\ late' = IF data.hold \in want THEN late ELSE late \cup {data.hold}
      /\ strayed' = IF data.hold \in late \ want THEN strayed \cup {"late twice"} ELSE strayed
      /\ UNCHANGED <<kind, call, session, ownVars, want, unheard, fresh>>
  BY DEF Put
<1>2. WrapperInv'
  BY <1>0, <1>1, ApartPreserves
<1>3. data' = [todo |-> data.todo, hold |-> None, ran |-> data.ran]
  BY <1>0, <1>1 DEF EventInv
<1>4. data.hold \in Sensors /\ strayed' = strayed
  BY <1>0, <1>1 DEF EventInv
<1>5. late' \subseteq Sensors \ want /\ None \notin late'
  BY <1>0, <1>1, <1>4, SensorNames DEF WantInv
<1>6. /\ kind' = kind /\ exist' = exist /\ fresh' = fresh
      /\ threshold_counter' = threshold_counter /\ Sensors' = Sensors
  BY <1>1 DEF Sensors, ownVars
<1>7. EventInv'
  BY <1>0, <1>3, <1>4, <1>5, <1>6 DEF EventInv, Fuses
<1>8. QED
  BY <1>1, <1>2, <1>5, <1>7, DataStepPreserves DEF Apart, ownVars

(***************************************************************************)
(* The calls of the HAL.                                                   *)
(***************************************************************************)

(* A call begins with no call under way and touches the module only.       *)
LEMMA BeginPreserves ==
  ASSUME FusedInv, NEW todo, NEW i, NEW ns, Begin(todo, i, ns), session # "closed",
         late' \subseteq late,
         kind \in Akm /\ todo # <<>> => todo[1] # "clear"
  PROVE  /\ call' = [todo |-> todo, sensor |-> i, ns |-> ns] /\ Todo' = todo
         /\ Rest /\ Todo = <<>> /\ Sensors' = Sensors /\ (Off' <=> Off)
         /\ WrapperInv' /\ EventInv' /\ SlotInv' /\ (session' # "closed" => CloseInv') /\ PaceInv'
         /\ \A d : At(d)' = At(d) /\ \A s : Kept(d, s)
<1>0. /\ WrapperInv /\ CallInv /\ WantInv /\ EventInv /\ SlotInv /\ CloseInv /\ PaceInv
  BY DEF FusedInv
<1>1. /\ Rest /\ Apart /\ call' = [todo |-> todo, sensor |-> i, ns |-> ns]
      /\ UNCHANGED <<kind, enable_mask, delay_requests, exist, threshold_counter, lib,
                     data, unheard, fresh, strayed>>
  BY DEF Begin, ownVars
<1>2. /\ Todo' = todo /\ Todo = <<>> /\ Sensors' = Sensors /\ (Off' <=> Off)
  BY <1>1 DEF Todo, Rest, Sensors, Off
<1>3. WrapperInv' /\ \A d : At(d)' = At(d) /\ \A s : Kept(d, s)
  BY <1>0, <1>1, ApartPreserves
<1>4. /\ kind' = kind /\ hw' = hw /\ paced' = paced /\ wants' = wants
      /\ data' = data /\ strayed' = strayed /\ exist' = exist /\ fresh' = fresh
      /\ threshold_counter' = threshold_counter /\ delay_requests' = delay_requests
      /\ enable_mask' = enable_mask /\ unheard' = unheard
  BY <1>1 DEF Apart
<1>5. EventInv'
  BY <1>0, <1>2, <1>4 DEF EventInv, Fuses
<1>6. SlotInv'
  BY <1>0, <1>3, <1>4 DEF SlotInv, Kept
<1>7. session' # "closed" => CloseInv'
  BY <1>0, <1>3, <1>4 DEF CloseInv, Kept
<1>8. PaceInv'
  <2>1. Fastest(enable_mask \ unheard, delay_requests)' = Fastest(enable_mask \ unheard, delay_requests)
    BY <1>4
  <2>2. kind \in Akm => ~(Todo' # <<>> /\ Todo'[1] = "clear")
    BY <1>2
  <2>3. QED
    BY <1>0, <1>2, <1>3, <1>4, <2>1, <2>2 DEF PaceInv, Kept
<1>9. QED
  BY <1>1, <1>2, <1>3, <1>5, <1>6, <1>7, <1>8

(* The concatenations the modules' calls are made of.                      *)
LEMMA ConcatTuples ==
  ASSUME NEW a, NEW b, NEW c
  PROVE  /\ <<a>> \o <<b>> = <<a, b>>
         /\ <<a>> \o <<b, c>> = <<a, b, c>>
<1> DEFINE S == {a, b, c}
<1>1. <<a>> \o <<b>> = <<a, b>>
  <2> DEFINE s == <<a>>
             t == <<b>>
             u == <<a, b>>
  <2>1. s \in Seq(S) /\ t \in Seq(S) /\ u \in Seq(S)
    OBVIOUS
  <2>2. Len(s) = 1 /\ Len(t) = 1 /\ Len(u) = 2
    OBVIOUS
  <2>3. u[1] = s[1] /\ u[2] = t[1]
    OBVIOUS
  <2> HIDE DEF S, s, t, u
  <2>4. /\ s \o t \in Seq(S) /\ Len(s \o t) = Len(s) + Len(t)
        /\ \A i \in 1..Len(s) + Len(t) : (s \o t)[i] = IF i <= Len(s) THEN s[i] ELSE t[i - Len(s)]
    BY <2>1, ConcatProperties, Zenon
  <2>5. \A i \in 1..2 : (s \o t)[i] = u[i]
    BY <2>2, <2>3, <2>4
  <2>6. s \o t = u
    BY <2>1, <2>2, <2>4, <2>5, SeqEqual
  <2>7. QED
    BY <2>6 DEF s, t, u
<1>2. <<a>> \o <<b, c>> = <<a, b, c>>
  <2> DEFINE s == <<a>>
             t == <<b, c>>
             u == <<a, b, c>>
  <2>1. s \in Seq(S) /\ t \in Seq(S) /\ u \in Seq(S)
    OBVIOUS
  <2>2. Len(s) = 1 /\ Len(t) = 2 /\ Len(u) = 3
    OBVIOUS
  <2>3. u[1] = s[1] /\ u[2] = t[1] /\ u[3] = t[2]
    OBVIOUS
  <2> HIDE DEF S, s, t, u
  <2>4. /\ s \o t \in Seq(S) /\ Len(s \o t) = Len(s) + Len(t)
        /\ \A i \in 1..Len(s) + Len(t) : (s \o t)[i] = IF i <= Len(s) THEN s[i] ELSE t[i - Len(s)]
    BY <2>1, ConcatProperties, Zenon
  <2>5. \A i \in 1..3 : (s \o t)[i] = u[i]
    BY <2>2, <2>3, <2>4
  <2>6. s \o t = u
    BY <2>1, <2>2, <2>4, <2>5, SeqEqual
  <2>7. QED
    BY <2>6 DEF s, t, u
<1>3. QED
  BY <1>1, <1>2

LEMMA ConcatPairs ==
  ASSUME NEW a, NEW b, NEW c, NEW d
  PROVE  <<a, b>> \o <<c, d>> = <<a, b, c, d>>
<1> DEFINE S == {a, b, c, d}
<1>1. <<a, b>> \o <<c, d>> = <<a, b, c, d>>
  <2> DEFINE s == <<a, b>>
             t == <<c, d>>
             u == <<a, b, c, d>>
  <2>1. s \in Seq(S) /\ t \in Seq(S) /\ u \in Seq(S)
    OBVIOUS
  <2>2. Len(s) = 2 /\ Len(t) = 2 /\ Len(u) = 4
    OBVIOUS
  <2>3. u[1] = s[1] /\ u[2] = s[2] /\ u[3] = t[1] /\ u[4] = t[2]
    OBVIOUS
  <2> HIDE DEF S, s, t, u
  <2>4. /\ s \o t \in Seq(S) /\ Len(s \o t) = Len(s) + Len(t)
        /\ \A i \in 1..Len(s) + Len(t) : (s \o t)[i] = IF i <= Len(s) THEN s[i] ELSE t[i - Len(s)]
    BY <2>1, ConcatProperties, Zenon
  <2>5. \A i \in 1..4 : (s \o t)[i] = u[i]
    BY <2>2, <2>3, <2>4
  <2>6. s \o t = u
    BY <2>1, <2>2, <2>4, <2>5, SeqEqual
  <2>7. QED
    BY <2>6 DEF s, t, u
<1>2. QED
  BY <1>1

(* The steps of the calls, by module.                                      *)
LEMMA CallSteps ==
  ASSUME CallInv, NEW i, NEW enable \in BOOLEAN
  PROVE  /\ init \in {<<"wrapper_init", "AKM_Init">>, <<"wrapper_init">>, <<"Initialization", "wrapper_init">>}
         /\ activate(i, enable) =
              IF enable
              THEN IF enable_mask # {} THEN <<"set">>
                   ELSE IF kind \in Chips THEN <<"set", "AKM_Start", "activate">>
                   ELSE <<"set", "activate">>
              ELSE IF kind \in Akm
              THEN IF Others(i) THEN <<"request_none", "clear">>
                   ELSE IF kind \in Chips THEN <<"request_none", "clear", "AKM_Stop", "deactivate">>
                   ELSE <<"request_none", "clear", "deactivate">>
              ELSE IF Others(i) THEN <<"clear">> ELSE <<"clear", "deactivate">>
         /\ \/ set_delay = <<"request">> /\ kind \in Akm
            \/ set_delay = <<"default_rate">> /\ kind = "inemo"
            \/ set_delay = <<"limited_rate">> /\ kind = "ecompass"
         /\ close = IF enable_mask # {} THEN <<>>
                    ELSE IF kind \in Chips THEN <<"AKM_Release", "wrapper_close">>
                    ELSE <<"wrapper_close">>
<1> USE DEF Akm, Chips
<1>1. CASE kind = "ak896x"
  <2>1. /\ init = ak896x_init /\ activate(i, enable) = ak896x_activate(i, enable)
        /\ set_delay = ak896x_delay /\ close = ak896x_close
    BY <1>1, Zenon DEF init, activate, set_delay, close
  <2>2. QED
    BY <1>1, <2>1 DEF ak896x_init, ak896x_activate, ak896x_delay, ak896x_close
<1>2. CASE kind = "ak897x"
  <2>1. /\ init = ak897x_init /\ activate(i, enable) = ak897x_activate(i, enable)
        /\ set_delay = ak897x_delay /\ close = ak897x_close
    BY <1>2, Zenon DEF init, activate, set_delay, close
  <2>2. activate(i, enable) =
          IF enable THEN IF enable_mask # {} THEN <<"set">> ELSE <<"set", "AKM_Start", "activate">>
          ELSE IF Others(i) THEN <<"request_none", "clear">>
               ELSE <<"request_none", "clear", "AKM_Stop", "deactivate">>
    <3>1. /\ <<"set">> \o <<>> = <<"set">>
          /\ <<"request_none", "clear">> \o <<>> = <<"request_none", "clear">>
      OBVIOUS
    <3>2. <<"set">> \o <<"AKM_Start", "activate">> = <<"set", "AKM_Start", "activate">>
      BY ConcatTuples
    <3>3. <<"request_none", "clear">> \o <<"AKM_Stop", "deactivate">>
            = <<"request_none", "clear", "AKM_Stop", "deactivate">>
      BY ConcatPairs
    <3>4. QED
      BY <2>1, <3>1, <3>2, <3>3 DEF ak897x_activate
  <2>3. QED
    BY <1>2, <2>1, <2>2 DEF ak897x_init, ak897x_delay, ak897x_close
<1>3. CASE kind = "ak0991x"
  <2>1. /\ init = ak0991x_init /\ activate(i, enable) = ak0991x_activate(i, enable)
        /\ set_delay = ak0991x_delay /\ close = ak0991x_close
    BY <1>3, Zenon DEF init, activate, set_delay, close
  <2>2. QED
    BY <1>3, <2>1 DEF ak0991x_init, ak0991x_activate, ak0991x_delay, ak0991x_close
<1>4. CASE kind = "akm6d"
  <2>1. /\ init = akm6d_init /\ activate(i, enable) = akm6d_activate(i, enable)
        /\ set_delay = akm6d_delay /\ close = akm6d_close
    BY <1>4, Zenon DEF init, activate, set_delay, close
  <2>2. QED
    BY <1>4, <2>1 DEF akm6d_init, akm6d_activate, akm6d_delay, akm6d_close
<1>5. CASE kind = "inemo"
  <2>1. /\ init = inemo_init /\ activate(i, enable) = inemo_activate(i, enable)
        /\ set_delay = inemo_delay /\ close = inemo_close
    BY <1>5, Zenon DEF init, activate, set_delay, close
  <2>2. QED
    BY <1>5, <2>1 DEF inemo_init, inemo_activate, inemo_delay, inemo_close
<1>6. CASE kind = "ecompass"
  <2>1. /\ init = ecompass_init /\ activate(i, enable) = ecompass_activate(i, enable)
        /\ set_delay = ecompass_delay /\ close = ecompass_close
    BY <1>6, Zenon DEF init, activate, set_delay, close
  <2>2. QED
    BY <1>6, <2>1 DEF ecompass_init, ecompass_activate, ecompass_delay, ecompass_close
<1>7. QED
  BY <1>1, <1>2, <1>3, <1>4, <1>5, <1>6, FusedAssumption DEF FusedAssumption, CallInv

LEMMA OpenPreserves ==
  ASSUME FusedInv, hal_open
  PROVE  FusedInv'
<1>0. /\ WrapperInv /\ CallInv /\ MaskInv /\ WantInv /\ EventInv /\ SlotInv /\ CloseInv /\ PaceInv
  BY DEF FusedInv
<1> DEFINE todo == <<"plain_init">> \o init
<1>1. /\ session = "new" /\ session' = "open" /\ Begin(todo, None, NO_RATE)
      /\ want' = want /\ late' = late
  BY DEF hal_open
<1>2. todo \in {<<"plain_init", "wrapper_init", "AKM_Init">>, <<"plain_init", "wrapper_init">>,
                <<"plain_init", "Initialization", "wrapper_init">>}
  <2>1. init \in {<<"wrapper_init", "AKM_Init">>, <<"wrapper_init">>, <<"Initialization", "wrapper_init">>}
    BY <1>0, CallSteps
  <2>2. /\ <<"plain_init">> \o <<"wrapper_init", "AKM_Init">> = <<"plain_init", "wrapper_init", "AKM_Init">>
        /\ <<"plain_init">> \o <<"wrapper_init">> = <<"plain_init", "wrapper_init">>
        /\ <<"plain_init">> \o <<"Initialization", "wrapper_init">>
             = <<"plain_init", "Initialization", "wrapper_init">>
    BY ConcatTuples
  <2>3. QED
    BY <2>1, <2>2
<1> HIDE DEF todo
<1>3. todo[1] # "clear"
  BY <1>2
<1>4. /\ call' = [todo |-> todo, sensor |-> None, ns |-> NO_RATE] /\ Todo' = todo
      /\ Todo = <<>> /\ Sensors' = Sensors
      /\ WrapperInv' /\ EventInv' /\ SlotInv' /\ CloseInv' /\ PaceInv'
  BY <1>1, <1>3, BeginPreserves
<1>5. /\ kind' = kind /\ lib' = lib /\ enable_mask' = enable_mask /\ unheard' = unheard /\ wants' = wants
  BY <1>1 DEF Begin, ownVars, Apart
<1>6. wants = {} /\ want = {} /\ lib = "none" /\ enable_mask = {} /\ kind \in Kinds
  BY <1>0, <1>1 DEF CallInv
<1> USE DEF Opening, Fusing, PlainCalls, Joining, Starting, Started, Leaving, Stopping, Stopped, Pacing
<1>7. CallInv'
  <2>1. /\ call'.todo = todo /\ call'.sensor = None /\ call'.ns = NO_RATE
    BY <1>4
  <2>2. CASE todo = <<"plain_init", "wrapper_init", "AKM_Init">>
    BY <1>1, <1>4, <1>5, <1>6, <2>1, <2>2 DEF CallInv, Rest, Todo, RateSet
  <2>3. CASE todo = <<"plain_init", "wrapper_init">>
    BY <1>1, <1>4, <1>5, <1>6, <2>1, <2>3 DEF CallInv, Rest, Todo, RateSet
  <2>4. CASE todo = <<"plain_init", "Initialization", "wrapper_init">>
    BY <1>1, <1>4, <1>5, <1>6, <2>1, <2>4 DEF CallInv, Rest, Todo, RateSet
  <2>5. QED
    BY <1>2, <2>2, <2>3, <2>4
<1>8. MaskInv'
  BY <1>1, <1>2, <1>4, <1>5, <1>6 DEF MaskInv, LibFollows
<1>9. WantInv'
  BY <1>0, <1>1, <1>2, <1>4, <1>5, <1>6 DEF WantInv
<1>10. QED
  BY <1>4, <1>7, <1>8, <1>9 DEF FusedInv

(* The steps of an enable or a disable are chosen by the mask as it is     *)
(* when the call begins: nobody else changes it until the call is over.    *)
LEMMA ActivateCallPreserves ==
  ASSUME FusedInv, hal_activate
  PROVE  FusedInv'
<1>0. /\ WrapperInv /\ CallInv /\ MaskInv /\ WantInv /\ EventInv /\ SlotInv /\ CloseInv /\ PaceInv
  BY DEF FusedInv
<1>1. PICK i \in (Sensors \cap Asked[kind]) \cup {"plain"}, enable \in BOOLEAN :
        /\ IF i = "plain" THEN session = "open" ELSE Usable
        /\ Begin(IF i # "plain" THEN activate(i, enable)
                 ELSE IF enable THEN <<"plain_activate">> ELSE <<"plain_deactivate">>, i, NO_RATE)
        /\ want' = IF enable THEN want \cup {i} ELSE want
        /\ late' = IF enable THEN late \ {i} ELSE late
        /\ UNCHANGED session
  BY DEF hal_activate
<1> DEFINE todo == IF i # "plain" THEN activate(i, enable)
                   ELSE IF enable THEN <<"plain_activate">> ELSE <<"plain_deactivate">>
<1>2. /\ session = "open" /\ session' = session /\ (i # "plain" => lib # "none" /\ i \in Sensors)
      /\ Begin(todo, i, NO_RATE)
  BY <1>1 DEF Usable
<1>3. \/ todo = <<"plain_activate">> /\ i = "plain" /\ enable
      \/ todo = <<"plain_deactivate">> /\ i = "plain" /\ ~enable
      \/ todo = <<"set">> /\ i # "plain" /\ enable /\ enable_mask # {}
      \/ /\ todo = <<"set", "AKM_Start", "activate">> /\ i # "plain" /\ enable
         /\ enable_mask = {} /\ kind \in Chips
      \/ /\ todo = <<"set", "activate">> /\ i # "plain" /\ enable
         /\ enable_mask = {} /\ kind \notin Chips
      \/ todo = <<"request_none", "clear">> /\ i # "plain" /\ ~enable /\ Others(i) /\ kind \in Akm
      \/ /\ todo = <<"request_none", "clear", "AKM_Stop", "deactivate">> /\ i # "plain" /\ ~enable
         /\ ~Others(i) /\ kind \in Akm
      \/ /\ todo = <<"request_none", "clear", "deactivate">> /\ i # "plain" /\ ~enable
         /\ ~Others(i) /\ kind \in Akm \ Chips
      \/ todo = <<"clear">> /\ i # "plain" /\ ~enable /\ Others(i) /\ kind \notin Akm
      \/ todo = <<"clear", "deactivate">> /\ i # "plain" /\ ~enable /\ ~Others(i) /\ kind \notin Akm
  <2>1. activate(i, enable) =
              IF enable
              THEN IF enable_mask # {} THEN <<"set">>
                   ELSE IF kind \in Chips THEN <<"set", "AKM_Start", "activate">>
                   ELSE <<"set", "activate">>
              ELSE IF kind \in Akm
              THEN IF Others(i) THEN <<"request_none", "clear">>
                   ELSE IF kind \in Chips THEN <<"request_none", "clear", "AKM_Stop", "deactivate">>
                   ELSE <<"request_none", "clear", "deactivate">>
              ELSE IF Others(i) THEN <<"clear">> ELSE <<"clear", "deactivate">>
    BY <1>0, CallSteps
  <2>2. QED
    BY <2>1, Zenon
<1> HIDE DEF todo
<1>4. kind \in Akm /\ todo # <<>> => todo[1] # "clear"
  BY <1>3
<1>5. /\ call' = [todo |-> todo, sensor |-> i, ns |-> NO_RATE] /\ Todo' = todo
      /\ Todo = <<>> /\ Sensors' = Sensors
      /\ WrapperInv' /\ EventInv' /\ SlotInv' /\ CloseInv' /\ PaceInv'
  <2>1. late' \subseteq late
    BY <1>1
  <2>2. QED
    BY <1>2, <1>4, <2>1, BeginPreserves
<1>6. /\ kind' = kind /\ lib' = lib /\ enable_mask' = enable_mask /\ unheard' = unheard /\ wants' = wants
  BY <1>2 DEF Begin, ownVars, Apart
<1>7. "plain" \notin Sensors /\ kind \in Kinds /\ (kind \in Chips => kind \in Akm)
      /\ lib \in {"none", "stopped", "running", "released"}
      /\ (lib = "none" => enable_mask = {} /\ kind \notin wants)
  BY <1>0, SensorNames DEF CallInv, Chips, Akm
<1> USE DEF Opening, Fusing, PlainCalls, Joining, Starting, Started, Leaving, Stopping, Stopped, Pacing
<1>8. todo \in Fusing \cup PlainCalls
  BY <1>3
<1>9. CallInv'
  <2>1. /\ call'.todo = todo /\ call'.sensor = i /\ call'.ns = NO_RATE
        /\ i \in Sensors \cup {"plain", None} /\ NO_RATE \in RateSet
    BY <1>2, <1>5, RateFacts
  <2>2. /\ todo \in Fusing => i \in Sensors /\ lib # "none"
        /\ todo \notin Opening /\ todo \notin Pacing \cup {<<"plain_set_delay">>}
        /\ todo # <<"default_rate">> /\ todo # <<"limited_rate">>
    <3>1. todo # <<>> /\ todo[1] \in {"plain_activate", "plain_deactivate", "set", "request_none", "clear"}
      BY <1>3
    <3>2. \A u \in Opening \cup Pacing \cup {<<"plain_set_delay">>} :
            u[1] \notin {"plain_activate", "plain_deactivate", "set", "request_none", "clear"}
      OBVIOUS
    <3>3. <<"default_rate">> \in Pacing /\ <<"limited_rate">> \in Pacing
      OBVIOUS
    <3>4. i = "plain" => todo \in PlainCalls
      BY <1>3
    <3>5. \A u \in PlainCalls : u \notin Fusing
      <4>1. \A u \in PlainCalls : u[1] \in {"plain_activate", "plain_deactivate", "plain_set_delay"}
        OBVIOUS
      <4>2. \A u \in Fusing : u[1] \notin {"plain_activate", "plain_deactivate", "plain_set_delay"}
        OBVIOUS
      <4>3. QED
        BY <4>1, <4>2, Zenon
    <3> HIDE DEF Opening, Fusing, PlainCalls, Joining, Starting, Started, Leaving, Stopping, Stopped, Pacing
    <3>6. QED
      BY <1>2, <3>1, <3>2, <3>3, <3>4, <3>5
  <2> HIDE DEF Opening, Fusing, PlainCalls, Joining, Starting, Started, Leaving, Stopping, Stopped, Pacing
  <2>3. /\ todo \in {<<"set", "activate">>, <<"clear", "deactivate">>, <<"request_none", "clear", "deactivate">>}
             => kind \notin Chips
        /\ todo # <<>> /\ todo[1] = "request_none" => kind \in Akm
        /\ todo[1] # "request"
    <3>1. todo = <<"set", "activate">> => kind \notin Chips
      BY <1>3
    <3>2. todo = <<"clear", "deactivate">> => kind \notin Chips
      BY <1>3, <1>7
    <3>3. todo = <<"request_none", "clear", "deactivate">> => kind \notin Chips
      BY <1>3
    <3>4. todo[1] = "request_none" => kind \in Akm
      BY <1>3
    <3>5. todo[1] # "request"
      BY <1>3
    <3>6. QED
      BY <3>1, <3>2, <3>3, <3>4, <3>5
  <2>4. QED
    BY <1>2, <1>5, <1>6, <1>7, <1>8, <2>1, <2>2, <2>3 DEF CallInv, Todo
<1>10. MaskInv'
  <2>1. (kind \in wants <=> enable_mask # {}) /\ LibFollows
    BY <1>0, <1>2, <1>5 DEF MaskInv
  <2>2. todo \notin Started \cup Stopped
    BY <1>3
  <2>3. /\ todo \in Joining => enable_mask # {}
        /\ todo \in Starting => enable_mask = {}
        /\ todo \in Leaving => enable_mask \ {i} # {}
        /\ todo \in Stopping => enable_mask \ {i} = {}
    BY <1>3 DEF Others
  <2>4. call'.sensor = i
    BY <1>5
  <2>5. todo # <<"activate">> /\ todo # <<"deactivate">>
    BY <1>3
  <2> HIDE DEF Opening, Fusing, PlainCalls, Joining, Starting, Started, Leaving, Stopping, Stopped, Pacing
  <2>6. QED
    BY <1>2, <1>5, <1>6, <2>1, <2>2, <2>3, <2>4, <2>5 DEF MaskInv, LibFollows
<1>11. WantInv'
  <2>1. call'.sensor = i
    BY <1>5
  <2>2. todo \in Joining \cup Starting => enable
    BY <1>3
  <2>3. "plain" \in want <=> "plain" \in wants
    BY <1>0, <1>5 DEF WantInv
  <2>4. /\ todo \notin {<<"plain_activate">>, <<"plain_deactivate">>} => i # "plain"
        /\ todo = <<"plain_activate">> => i = "plain" /\ enable
    BY <1>3
  <2>5. want' = (IF enable THEN want \cup {i} ELSE want) /\ late' = IF enable THEN late \ {i} ELSE late
    BY <1>1
  <2> HIDE DEF Opening, Fusing, PlainCalls, Joining, Starting, Started, Leaving, Stopping, Stopped, Pacing
  <2>6. QED
    BY <1>0, <1>2, <1>5, <1>6, <1>7, <2>1, <2>2, <2>3, <2>4, <2>5 DEF WantInv
<1>12. QED
  BY <1>5, <1>9, <1>10, <1>11 DEF FusedInv

LEMMA DelayCallPreserves ==
  ASSUME FusedInv, hal_set_delay
  PROVE  FusedInv'
<1>0. /\ WrapperInv /\ CallInv /\ MaskInv /\ WantInv /\ EventInv /\ SlotInv /\ CloseInv /\ PaceInv
  BY DEF FusedInv
<1>1. PICK i \in (Sensors \cap Asked[kind]) \cup {"plain"}, ns \in Rates :
        /\ IF i = "plain" THEN session = "open" ELSE Usable
        /\ Begin(IF i = "plain" THEN <<"plain_set_delay">> ELSE set_delay, i, ns)
        /\ UNCHANGED <<want, late, session>>
  BY DEF hal_set_delay
<1> DEFINE todo == IF i = "plain" THEN <<"plain_set_delay">> ELSE set_delay
<1>2. /\ session = "open" /\ session' = session /\ (i # "plain" => lib # "none" /\ i \in Sensors)
      /\ Begin(todo, i, ns) /\ want' = want /\ late' = late
  BY <1>1 DEF Usable
<1>3. \/ todo = <<"plain_set_delay">> /\ i = "plain"
      \/ todo = <<"request">> /\ i # "plain" /\ kind \in Akm
      \/ todo = <<"default_rate">> /\ i # "plain" /\ kind = "inemo"
      \/ todo = <<"limited_rate">> /\ i # "plain" /\ kind = "ecompass"
  <2>1. \/ set_delay = <<"request">> /\ kind \in Akm
        \/ set_delay = <<"default_rate">> /\ kind = "inemo"
        \/ set_delay = <<"limited_rate">> /\ kind = "ecompass"
    BY <1>0, CallSteps
  <2>2. QED
    BY <2>1, Zenon
<1> HIDE DEF todo
<1>4. todo # <<>> /\ todo[1] # "clear" /\ todo[1] # "request_none" /\ (todo[1] = "request" => kind \in Akm)
  BY <1>3
<1>5. /\ call' = [todo |-> todo, sensor |-> i, ns |-> ns] /\ Todo' = todo
      /\ Todo = <<>> /\ Sensors' = Sensors
      /\ WrapperInv' /\ EventInv' /\ SlotInv' /\ CloseInv' /\ PaceInv'
  BY <1>2, <1>4, BeginPreserves
<1>6. /\ kind' = kind /\ lib' = lib /\ enable_mask' = enable_mask /\ unheard' = unheard /\ wants' = wants
  BY <1>2 DEF Begin, ownVars, Apart
<1>7. /\ kind \in Kinds /\ lib \in {"none", "stopped", "running", "released"}
      /\ (lib = "none" => enable_mask = {} /\ kind \notin wants)
  BY <1>0 DEF CallInv
<1> USE DEF Opening, Fusing, PlainCalls, Joining, Starting, Started, Leaving, Stopping, Stopped, Pacing
<1>8. /\ todo \in Fusing \cup PlainCalls
      /\ todo \notin Opening \cup Joining \cup Starting \cup Started \cup Leaving \cup Stopping \cup Stopped
      /\ todo \notin {<<"plain_activate">>, <<"plain_deactivate">>, <<"activate">>, <<"deactivate">>}
      /\ i = "plain" => todo \notin Fusing
      /\ todo \notin {<<"set", "activate">>, <<"clear", "deactivate">>, <<"request_none", "clear", "deactivate">>}
  BY <1>3
<1>9. /\ todo = <<"default_rate">> => kind = "inemo"
      /\ todo = <<"limited_rate">> => kind = "ecompass"
  BY <1>3
<1> HIDE DEF Opening, Fusing, PlainCalls, Joining, Starting, Started, Leaving, Stopping, Stopped, Pacing
<1>10. CallInv'
  <2>1. /\ call'.todo = todo /\ call'.sensor = i /\ call'.ns = ns
        /\ i \in Sensors \cup {"plain", None} /\ ns \in RateSet /\ ns \in Rates
    BY <1>2, <1>5 DEF RateSet
  <2>2. QED
    BY <1>2, <1>4, <1>5, <1>6, <1>7, <1>8, <1>9, <2>1 DEF CallInv, Todo
<1>11. MaskInv'
  <2>1. (kind \in wants <=> enable_mask # {}) /\ LibFollows
    BY <1>0, <1>2, <1>5 DEF MaskInv, Started, Stopped
  <2>2. QED
    BY <1>2, <1>5, <1>6, <1>8, <2>1 DEF MaskInv, LibFollows
<1>12. WantInv'
  <2>1. "plain" \in want <=> "plain" \in wants
    BY <1>0, <1>5 DEF WantInv
  <2>2. QED
    BY <1>0, <1>2, <1>5, <1>6, <1>8, <2>1 DEF WantInv
<1>13. QED
  BY <1>5, <1>10, <1>11, <1>12 DEF FusedInv

(* A module has a sensor at least, and not too many to count.              *)
LEMMA SensorCount == ASSUME CallInv
                     PROVE  Cardinality(Sensors) \in Nat \ {0}
<1> DEFINE A == {"MAGNETIC"} \cup {"ORIENTATION"}
           B == (A \cup {"GRAVITY"}) \cup {"LINEAR_ACCELERATION"}
           C == (B \cup {"ROTATION_VECTOR"}) \cup {"MAGNETIC_UNCALIB"}
<1>1. IsFiniteSet(A) /\ IsFiniteSet(B) /\ IsFiniteSet(C)
  <2>1. \A x : IsFiniteSet({x})
    BY FS_Singleton
  <2>2. \A S, x : IsFiniteSet(S) => IsFiniteSet(S \cup {x})
    BY FS_AddElement
  <2>3. QED
    BY <2>1, <2>2, Zenon
<1>2. Sensors \subseteq C /\ Sensors # {}
  BY FusedAssumption DEF FusedAssumption, CallInv, Sensors, ak896x, ak897x, ak0991x, akm6d, inemo, ecompass
<1> HIDE DEF C
<1>3. IsFiniteSet(Sensors)
  BY <1>1, <1>2, FS_Subset
<1>4. QED
  BY <1>2, <1>3, FS_CardinalityType, FS_EmptySet

(* The close of each sensor of a module that is off ends with the close of *)
(* its client; that of one that is on does nothing.                        *)
LEMMA RepeatedClose ==
  ASSUME CallInv, NEW n \in Nat \ {0}
  PROVE  LET r == Repeated(close, n)
         IN  /\ r \in Seq({"AKM_Release", "wrapper_close"})
             /\ enable_mask # {} => r = <<>>
             /\ enable_mask = {} => r # <<>> /\ r[Len(r)] = "wrapper_close"
<1> DEFINE S == {"AKM_Release", "wrapper_close"}
           r == Repeated(close, n)
<1>1. close = IF enable_mask # {} THEN <<>>
              ELSE IF kind \in Chips THEN <<"AKM_Release", "wrapper_close">>
              ELSE <<"wrapper_close">>
  <2>1. TRUE \in BOOLEAN
    OBVIOUS
  <2>2. QED
    BY <2>1, CallSteps
<1>2. CASE enable_mask # {}
  <2>1. n * Len(close) = 0
    BY <1>1, <1>2
  <2>2. r = [k \in 1..0 |-> close[1 + ((k - 1) % Len(close))]]
    BY <2>1 DEF Repeated
  <2>3. r = <<>>
    BY <2>2
  <2>4. QED
    BY <1>2, <2>3
<1>3. CASE enable_mask = {} /\ kind \in Chips
  <2>1. close = <<"AKM_Release", "wrapper_close">> /\ Len(close) = 2 /\ n * 2 \in Nat \ {0}
    BY <1>1, <1>3
  <2>2. r = [k \in 1..(n * 2) |-> close[1 + ((k - 1) % 2)]]
    BY <2>1 DEF Repeated
  <2>3. \A k \in 1..(n * 2) : (k - 1) % 2 \in {0, 1}
    OBVIOUS
  <2>4. r \in Seq(S) /\ Len(r) = n * 2
    BY <2>1, <2>2, <2>3
  <2>5. r[n * 2] = close[2]
    <3>1. (n * 2 - 1) % 2 = 1 /\ n * 2 \in 1..(n * 2)
      OBVIOUS
    <3>2. QED
      BY <2>2, <3>1
  <2>6. r # <<>>
    BY <2>1, <2>4
  <2>7. QED
    BY <1>3, <2>1, <2>4, <2>5, <2>6
<1>4. CASE enable_mask = {} /\ kind \notin Chips
  <2>1. close = <<"wrapper_close">> /\ Len(close) = 1 /\ n * 1 = n
    BY <1>1, <1>4
  <2>2. r = [k \in 1..n |-> close[1 + ((k - 1) % 1)]]
    BY <2>1 DEF Repeated
  <2>3. \A k \in 1..n : (k - 1) % 1 = 0
    OBVIOUS
  <2>4. r \in Seq(S) /\ Len(r) = n /\ \A k \in 1..n : r[k] = "wrapper_close"
    BY <2>1, <2>2, <2>3
  <2>5. r # <<>>
    BY <2>4
  <2>6. QED
    BY <1>4, <2>4, <2>5
<1>5. QED
  BY <1>2, <1>3, <1>4

LEMMA CloseCallPreserves ==
  ASSUME FusedInv, hal_close
  PROVE  FusedInv'
<1>0. /\ WrapperInv /\ CallInv /\ MaskInv /\ WantInv /\ EventInv /\ SlotInv /\ CloseInv /\ PaceInv
  BY DEF FusedInv
<1> DEFINE rest == IF Usable THEN Repeated(close, Cardinality(Sensors)) ELSE <<>>
           todo == <<"plain_close">> \o rest
           Ends == {"plain_close", "AKM_Release", "wrapper_close"}
<1>1. /\ session = "open" /\ session' = "closed" /\ Begin(todo, None, NO_RATE)
      /\ want' = want /\ late' = late
  BY DEF hal_close
<1>2. /\ rest \in Seq({"AKM_Release", "wrapper_close"})
      /\ rest # <<>> => Off
      /\ Off => rest # <<>> /\ rest[Len(rest)] = "wrapper_close"
  <2>1. CASE Usable
    <3>1. LET r == Repeated(close, Cardinality(Sensors))
          IN  /\ r \in Seq({"AKM_Release", "wrapper_close"})
              /\ enable_mask # {} => r = <<>>
              /\ enable_mask = {} => r # <<>> /\ r[Len(r)] = "wrapper_close"
      BY <1>0, SensorCount, RepeatedClose
    <3>2. QED
      BY <2>1, <3>1 DEF Off, Usable
  <2>2. CASE ~Usable
    BY <1>1, <2>2 DEF Off, Usable
  <2>3. QED
    BY <2>1, <2>2
<1> HIDE DEF rest
<1>3. /\ todo \in Seq(Ends) /\ Len(todo) = 1 + Len(rest) /\ todo[1] = "plain_close"
      /\ \A j \in 2..Len(todo) : todo[j] = rest[j - 1]
  <2>1. <<"plain_close">> \in Seq(Ends) /\ rest \in Seq(Ends) /\ Len(<<"plain_close">>) = 1
        /\ <<"plain_close">>[1] = "plain_close"
    BY <1>2
  <2> DEFINE one == <<"plain_close">>
  <2> HIDE DEF one, Ends
  <2>2. /\ one \o rest \in Seq(Ends) /\ Len(one \o rest) = Len(one) + Len(rest)
        /\ \A j \in 1..Len(one) + Len(rest) :
             (one \o rest)[j] = IF j <= Len(one) THEN one[j] ELSE rest[j - Len(one)]
    BY <2>1, ConcatProperties, Zenon DEF one
  <2>3. Len(one) = 1 /\ one[1] = "plain_close" /\ Len(rest) \in Nat
    BY <1>2, <2>1 DEF one
  <2>4. /\ Len(one \o rest) = 1 + Len(rest) /\ (one \o rest)[1] = "plain_close"
        /\ \A j \in 2..Len(one \o rest) : (one \o rest)[j] = rest[j - 1]
    BY <2>2, <2>3
  <2>5. QED
    BY <2>2, <2>4 DEF one
<1>4. Len(rest) \in Nat /\ \A j \in 1..Len(rest) : rest[j] \in {"AKM_Release", "wrapper_close"}
  BY <1>2
<1>5. \A j \in 1..Len(todo) : (todo[j] = "plain_close" => j = 1) /\ (todo[j] # "plain_close" => Off)
  <2> SUFFICES ASSUME NEW j \in 1..Len(todo), j # 1
               PROVE  todo[j] # "plain_close" /\ Off
    BY <1>3
  <2>1. j \in 2..Len(todo) /\ j - 1 \in 1..Len(rest)
    BY <1>3, <1>4
  <2>2. todo[j] \in {"AKM_Release", "wrapper_close"}
    BY <1>3, <1>4, <2>1
  <2>3. rest # <<>>
    BY <2>1
  <2>4. QED
    BY <1>2, <2>2, <2>3
<1>6. Off => todo[Len(todo)] = "wrapper_close"
  <2>1. Off => Len(rest) > 0
    BY <1>2, <1>4, EmptySeq
  <2>2. Off => Len(todo) \in 2..Len(todo) /\ Len(todo) - 1 = Len(rest)
    BY <1>3, <1>4, <2>1
  <2>3. QED
    BY <1>2, <1>3, <2>2
<1>7. todo # <<>>
  BY <1>3, <1>4
<1> HIDE DEF todo
<1>8. /\ call' = [todo |-> todo, sensor |-> None, ns |-> NO_RATE] /\ Todo' = todo
      /\ Todo = <<>> /\ Sensors' = Sensors /\ (Off' <=> Off)
      /\ WrapperInv' /\ EventInv' /\ SlotInv' /\ PaceInv'
      /\ \A d : At(d)' = At(d) /\ \A s : Kept(d, s)
  BY <1>1, <1>3, BeginPreserves
<1>9. /\ kind' = kind /\ lib' = lib /\ enable_mask' = enable_mask /\ unheard' = unheard
      /\ wants' = wants /\ hw' = hw
  BY <1>1 DEF Begin, ownVars, Apart
<1>10. Closing'
  BY <1>3, <1>5, <1>8 DEF Closing
<1>11. /\ todo \notin Opening \cup Fusing \cup PlainCalls
  BY <1>3, ClosingApart
<1>12. CallInv'
  <2>1. /\ call'.todo = todo /\ call'.sensor = None /\ call'.ns = NO_RATE /\ NO_RATE \in RateSet
    BY <1>8, RateFacts
  <2>2. todo \notin Pacing \cup {<<"plain_set_delay">>}
    BY <1>11 DEF Fusing, PlainCalls
  <2>3. /\ todo \notin {<<"set", "activate">>, <<"clear", "deactivate">>, <<"request_none", "clear", "deactivate">>}
        /\ todo # <<"default_rate">> /\ todo # <<"limited_rate">>
    BY <1>11 DEF Fusing, Pacing, Starting, Stopping
  <2>4. QED
    BY <1>0, <1>1, <1>3, <1>8, <1>9, <1>10, <1>11, <2>1, <2>2, <2>3 DEF CallInv, Todo
<1>13. MaskInv'
  <2>1. (kind \in wants <=> enable_mask # {}) /\ LibFollows
    BY <1>0, <1>1, <1>8 DEF MaskInv, Started, Stopped
  <2>2. QED
    BY <1>1, <1>8, <1>9, <1>11, <2>1 DEF MaskInv, LibFollows, Fusing, Started, Stopped
<1>14. WantInv'
  <2>1. "plain" \in want <=> "plain" \in wants
    BY <1>0, <1>8 DEF WantInv
  <2>2. QED
    BY <1>0, <1>1, <1>8, <1>9, <1>11, <2>1 DEF WantInv, Fusing, PlainCalls
<1>15. CloseInv'
  <2>1. \A d \in {kind, "plain"} : \A s \in At(d) : ~CloseAt(d, s)
    BY <1>0, <1>1 DEF CloseInv
  <2>2. \A s \in Drivers :
          hw'[s].closed <=> /\ s \in At(kind)' \cup At("plain")'
                            /\ \A d \in {kind, "plain"} : s \in At(d)' => CloseAt(d, s)'
    BY <1>0, <1>8, <1>9 DEF CloseInv, Kept
  <2>3. Todo' # <<>> /\ Todo'[1] = "plain_close" /\ (Off => Todo'[Len(Todo')] = "wrapper_close")
    BY <1>3, <1>6, <1>7, <1>8
  <2>4. \A s \in At(kind)' : ~CloseAt(kind, s)'
    BY <1>8, <1>9, <2>1 DEF Kept
  <2>5. QED
    BY <1>1, <1>8, <1>9, <2>2, <2>3, <2>4 DEF CloseInv
<1>16. QED
  BY <1>8, <1>12, <1>13, <1>14, <1>15 DEF FusedInv

(***************************************************************************)
(* The invariant.                                                          *)
(***************************************************************************)

LEMMA FusedInit == ASSUME Init
                   PROVE  FusedInv
<1>1. /\ WrapperInit /\ kind \in Kinds /\ call = [todo |-> <<>>, sensor |-> None, ns |-> NO_RATE]
      /\ session = "new" /\ enable_mask = {} /\ delay_requests = [i \in Sensors |-> NO_RATE]
      /\ exist = {} /\ threshold_counter = 0 /\ lib = "none"
      /\ data = [todo |-> <<>>, hold |-> None, ran |-> FALSE]
      /\ want = {} /\ late = {} /\ unheard = {} /\ fresh = {} /\ strayed = {}
  BY DEF Init, NoCall
<1>2. WrapperInv /\ wants = {} /\ \A s \in Drivers : ~hw[s].closed
  BY <1>1, InitHolds DEF WrapperInit
<1>3. \A d \in Clients : At(d) = {}
  BY <1>1 DEF WrapperInit, At
<1>4. Todo = <<>> /\ call.sensor = None /\ call.ns = NO_RATE /\ NO_RATE \in RateSet /\ Rest
  BY <1>1, RateFacts DEF Todo, Rest
<1> USE DEF Opening, Fusing, PlainCalls, Joining, Starting, Started, Leaving, Stopping, Stopped, Pacing
<1>5. CallInv
  BY <1>1, <1>2, <1>4 DEF CallInv, Todo
<1>6. kind \in Clients /\ "plain" \in Clients
  BY <1>5, SensorNames
<1>7. MaskInv
  BY <1>1, <1>2, <1>4 DEF MaskInv, LibFollows
<1>8. WantInv
  BY <1>1, <1>2, <1>4 DEF WantInv
<1>9. EventInv
  <2>1. FRC_TRIGGER \in Nat /\ <<>> \in Seq(AndroidSensors)
    BY FusedAssumption DEF FusedAssumption
  <2>2. QED
    BY <1>1, <2>1 DEF EventInv
<1>10. SlotInv /\ CloseInv
  BY <1>1, <1>2, <1>3, <1>6 DEF SlotInv, CloseInv
<1>11. PaceInv
  BY <1>1, <1>3, <1>4, <1>6 DEF PaceInv
<1>12. QED
  BY <1>2, <1>5, <1>7, <1>8, <1>9, <1>10, <1>11 DEF FusedInv

LEMMA FusedStutter == ASSUME FusedInv, UNCHANGED vars
                      PROVE  FusedInv'
<1>1. WrapperInv' /\ UNCHANGED wrapperVars
  BY StutterPreserves DEF FusedInv, vars
<1>2. /\ UNCHANGED <<entry, access, hw, paced, wants>>
      /\ UNCHANGED <<kind, call, session, enable_mask, delay_requests, lib, want, unheard>>
      /\ UNCHANGED <<late, data, strayed, exist, fresh, threshold_counter>>
  BY DEF vars, wrapperVars, ownVars
<1>3. Sensors' = Sensors
  BY <1>2 DEF Sensors
<1>4. EventInv'
  BY <1>2, <1>3 DEF FusedInv, EventInv, Fuses
<1>5. late' \subseteq Sensors \ want
  BY <1>2 DEF FusedInv, WantInv
<1>6. QED
  BY <1>1, <1>2, <1>4, <1>5, DataStepPreserves

LEMMA FusedStep == ASSUME FusedInv, [Next]_vars
                   PROVE  FusedInv'
<1>1. CASE hal_open \/ hal_activate \/ hal_set_delay \/ hal_close
  BY <1>1, OpenPreserves, ActivateCallPreserves, DelayCallPreserves, CloseCallPreserves
<1>2. CASE OwnStep
  <2>1. \/ Do("set") \/ Do("clear") \/ Do("AKM_Release")
        \/ Do("AKM_Start") \/ Do("AKM_Stop")
        \/ Do("AKM_Init") \/ Do("Initialization")
    BY <1>2 DEF OwnStep
  <2>2. QED
    BY <1>2, <2>1, SetPreserves, ClearPreserves, ReleasePreserves, LibraryPreserves, LibraryInitPreserves
<1>3. CASE PaceStep
  BY <1>3, PacePreserves
<1>4. CASE WrapperStep
  <2>1. Do("wrapper_init") \/ Do("activate") \/ Do("deactivate") \/ Do("wrapper_close")
    BY <1>4 DEF WrapperStep
  <2>2. QED
    BY <1>4, <2>1, ModuleInitPreserves, ModuleActivatePreserves, ModuleClosePreserves
<1>5. CASE PlainStep
  <2>1. Do("plain_init") \/ Do("plain_activate") \/ Do("plain_deactivate") \/ Do("plain_set_delay") \/ Do("plain_close")
    BY <1>5 DEF PlainStep
  <2>2. QED
    BY <1>5, <2>1, PlainInitPreserves, PlainActivatePreserves, PlainDelayPreserves, PlainClosePreserves
<1>6. ASSUME NEW s \in Drivers, Sample(s)
      PROVE  FusedInv'
  BY <1>6, SamplePreserves
<1>7. CASE Look \/ Put
  BY <1>7, LookPreserves, PutPreserves
<1>8. CASE UNCHANGED vars
  BY <1>8, FusedStutter
<1>9. QED
  BY <1>1, <1>2, <1>3, <1>4, <1>5, <1>6, <1>7, <1>8 DEF Next

(* The inductive invariant: the calls under way, the mask, the client of   *)
(* the wrapper and the library go together, in whatever order the steps of *)
(* the calls, the samples and the refusals of the drivers come.            *)
THEOREM FusedInvariant == Spec => []FusedInv
<1>1. Init => FusedInv
  BY FusedInit
<1>2. FusedInv /\ [Next]_vars => FusedInv'
  BY FusedStep
<1>3. QED
  BY <1>1, <1>2, PTL DEF Spec

LEMMA CallTypes == \A t \in {<<>>} \cup Opening \cup Fusing \cup PlainCalls : t \in Seq(Steps)
<1>1. \A t \in Opening : t \in Seq(Steps)
  <2>1. {"AKM_Init", "Initialization", "plain_init", "wrapper_init"} \subseteq Steps
    BY DEF Steps
  <2>2. /\ <<"plain_init", "wrapper_init", "AKM_Init">> \in Seq(Steps)
        /\ <<"wrapper_init", "AKM_Init">> \in Seq(Steps)
        /\ <<"AKM_Init">> \in Seq(Steps)
        /\ <<"plain_init", "Initialization", "wrapper_init">> \in Seq(Steps)
        /\ <<"Initialization", "wrapper_init">> \in Seq(Steps)
        /\ <<"plain_init", "wrapper_init">> \in Seq(Steps)
        /\ <<"wrapper_init">> \in Seq(Steps)
    BY <2>1
  <2>3. QED
    BY <2>2, Zenon DEF Opening
<1>2. \A t \in Joining : t \in Seq(Steps)
  <2>1. {"set"} \subseteq Steps
    BY DEF Steps
  <2>2. <<"set">> \in Seq(Steps)
    BY <2>1
  <2>3. QED
    BY <2>2, Zenon DEF Joining
<1>3. \A t \in Starting : t \in Seq(Steps)
  <2>1. {"AKM_Start", "activate", "set"} \subseteq Steps
    BY DEF Steps
  <2>2. /\ <<"set", "AKM_Start", "activate">> \in Seq(Steps)
        /\ <<"set", "activate">> \in Seq(Steps)
    BY <2>1
  <2>3. QED
    BY <2>2, Zenon DEF Starting
<1>4. \A t \in Started : t \in Seq(Steps)
  <2>1. {"AKM_Start", "activate"} \subseteq Steps
    BY DEF Steps
  <2>2. /\ <<"AKM_Start", "activate">> \in Seq(Steps)
        /\ <<"activate">> \in Seq(Steps)
    BY <2>1
  <2>3. QED
    BY <2>2, Zenon DEF Started
<1>5. \A t \in Leaving : t \in Seq(Steps)
  <2>1. {"clear", "request_none"} \subseteq Steps
    BY DEF Steps
  <2>2. /\ <<"request_none", "clear">> \in Seq(Steps)
        /\ <<"clear">> \in Seq(Steps)
    BY <2>1
  <2>3. QED
    BY <2>2, Zenon DEF Leaving
<1>6. \A t \in Stopping : t \in Seq(Steps)
  <2>1. {"AKM_Stop", "clear", "deactivate", "request_none"} \subseteq Steps
    BY DEF Steps
  <2>2. /\ <<"request_none", "clear", "AKM_Stop", "deactivate">> \in Seq(Steps)
        /\ <<"clear", "AKM_Stop", "deactivate">> \in Seq(Steps)
        /\ <<"request_none", "clear", "deactivate">> \in Seq(Steps)
        /\ <<"clear", "deactivate">> \in Seq(Steps)
    BY <2>1
  <2>3. QED
    BY <2>2, Zenon DEF Stopping
<1>7. \A t \in Stopped : t \in Seq(Steps)
  <2>1. {"AKM_Stop", "deactivate"} \subseteq Steps
    BY DEF Steps
  <2>2. /\ <<"AKM_Stop", "deactivate">> \in Seq(Steps)
        /\ <<"deactivate">> \in Seq(Steps)
    BY <2>1
  <2>3. QED
    BY <2>2, Zenon DEF Stopped
<1>8. \A t \in Pacing : t \in Seq(Steps)
  <2>1. {"default_rate", "limited_rate", "request"} \subseteq Steps
    BY DEF Steps
  <2>2. /\ <<"request">> \in Seq(Steps)
        /\ <<"default_rate">> \in Seq(Steps)
        /\ <<"limited_rate">> \in Seq(Steps)
    BY <2>1
  <2>3. QED
    BY <2>2, Zenon DEF Pacing
<1>9. \A t \in PlainCalls : t \in Seq(Steps)
  <2>1. {"plain_activate", "plain_deactivate", "plain_set_delay"} \subseteq Steps
    BY DEF Steps
  <2>2. /\ <<"plain_activate">> \in Seq(Steps)
        /\ <<"plain_deactivate">> \in Seq(Steps)
        /\ <<"plain_set_delay">> \in Seq(Steps)
    BY <2>1
  <2>3. QED
    BY <2>2, Zenon DEF PlainCalls
<1>10. <<>> \in Seq(Steps)
  OBVIOUS
<1>11. QED
  BY <1>1, <1>2, <1>3, <1>4, <1>5, <1>6, <1>7, <1>8, <1>9, <1>10, Zenon DEF Fusing

(* The shared drivers follow the fused sensors: the client is enabled      *)
(* exactly while some bit of the mask is set, a driver that accepted its   *)
(* last activate runs exactly while a sensor it serves is enabled, and the *)
(* close closes the drivers that nobody left on.                           *)
THEOREM FusedDriversFollow == Spec => []DriversFollow
<1>1. FusedInv => DriversFollow
  <2> SUFFICES ASSUME FusedInv
               PROVE  DriversFollow
    OBVIOUS
  <2>0. /\ WrapperInv /\ CallInv /\ MaskInv /\ WantInv /\ EventInv /\ SlotInv /\ CloseInv /\ PaceInv
    BY DEF FusedInv
  <2>1. /\ kind \in Clients /\ "plain" \in Clients /\ kind # "plain" /\ Sensors \subseteq AndroidSensors
        /\ "plain" \notin Sensors
    BY <2>0, SensorNames
  <2>2. Rest => Todo = <<>> /\ Todo \notin Started \cup Stopped
    BY DEF Rest, Todo, Started, Stopped
  <2>3. TypeOK
    <3>1. call.todo \in Seq(Steps)
      <4>1. CASE session = "closed"
        <5>1. {"plain_close", "AKM_Release", "wrapper_close"} \subseteq Steps
          BY DEF Steps
        <5>2. QED
          BY <2>0, <4>1, <5>1 DEF CallInv, Closing, Todo
      <4>2. CASE session # "closed"
        <5>1. Todo \in {<<>>} \cup Opening \cup Fusing \cup PlainCalls
          BY <2>0, <4>2 DEF CallInv, Rest, Todo
        <5>2. QED
          BY <5>1, CallTypes DEF Todo
      <4>3. QED
        BY <4>1, <4>2
    <3>2. /\ kind \in Kinds
          /\ call.sensor \in AndroidSensors \cup {"plain", None} /\ call.ns \in Rates \cup {NO_RATE}
          /\ session \in {"new", "open", "closed"}
          /\ lib \in {"none", "stopped", "running", "released"}
      BY <2>0, <2>1 DEF CallInv, RateSet
    <3>3. enable_mask \subseteq Sensors /\ delay_requests \in [Sensors -> Rates \cup {NO_RATE}]
      BY <2>0 DEF WantInv, PaceInv, RateSet
    <3>4. /\ exist \subseteq Types /\ fresh \subseteq Types /\ threshold_counter \in 0..FRC_TRIGGER
          /\ data.hold \in AndroidSensors \cup {None} /\ data.ran \in BOOLEAN
      BY <2>0, <2>1 DEF EventInv
    <3>5. want \subseteq Sensors \cup {"plain"} /\ late \subseteq Sensors /\ unheard \subseteq Sensors
      BY <2>0 DEF WantInv
    <3>6. strayed \subseteq {"late twice", "stopped"}
      BY <2>0, Zenon DEF EventInv
    <3>7. QED
      BY <3>1, <3>2, <3>3, <3>4, <3>5, <3>6, Zenon DEF TypeOK
  <2>4. ClientFollowsMask
    BY <2>0, <2>2 DEF ClientFollowsMask, MaskInv
  <2>5. DriversFollowSensors
    <3> SUFFICES ASSUME Rest, session = "open", NEW s \in Drivers, acted[s]
                 PROVE  hw[s].on <=> \/ s \in At(kind) /\ enable_mask # {}
                                     \/ s \in At("plain") /\ "plain" \in want
      BY DEF DriversFollowSensors
    <3>1. ~hw[s].closed
      BY <2>0 DEF CloseInv
    <3>2. hw[s].on <=> Active(s) # {}
      BY <2>0, <3>1 DEF WrapperInv, RunInv
    <3>3. kind \in wants <=> enable_mask # {}
      BY <2>0, <2>2 DEF MaskInv
    <3>4. "plain" \in wants <=> "plain" \in want
      BY <2>0, <2>2 DEF WantInv
    <3>5. ASSUME NEW c \in Active(s)
          PROVE  \E d \in wants \cap {kind, "plain"} : s \in At(d)
      <4>1. entry[s].api[c] \in wants /\ s \in At(entry[s].api[c])
        BY <2>0, ActiveClients
      <4>2. QED
        BY <2>0, <4>1 DEF WantInv
    <3>6. ASSUME NEW d \in wants \cap {kind, "plain"}, s \in At(d)
          PROVE  Active(s) # {}
      <4>1. "ACTIVE" \in entry[s].status[access[d][s]]
        BY <2>0, <3>6 DEF SlotInv, ActiveAt
      <4>2. QED
        BY <2>0, <3>6, <4>1, ActiveClients
    <3>7. QED
      BY <3>2, <3>3, <3>4, <3>5, <3>6
  <2>6. ClosedWhenIdle
    <3> SUFFICES ASSUME Rest, session = "closed", NEW s \in Drivers
                 PROVE  hw[s].closed <=> /\ s \in At(kind) \cup At("plain")
                                         /\ s \in At(kind) => lib # "none" /\ enable_mask = {}
      BY DEF ClosedWhenIdle
    <3>1. /\ \A t \in At("plain") : CloseAt("plain", t)
          /\ \A t \in At(kind) : CloseAt(kind, t) <=> Off
      BY <2>0, <2>2 DEF CloseInv
    <3>2. hw[s].closed <=> /\ s \in At(kind) \cup At("plain")
                           /\ \A d \in {kind, "plain"} : s \in At(d) => CloseAt(d, s)
      BY <2>0 DEF CloseInv
    <3>3. QED
      BY <3>1, <3>2 DEF Off
  <2>7. QED
    BY <2>3, <2>4, <2>5, <2>6 DEF DriversFollow
<1>2. QED
  BY <1>1, FusedInvariant, PTL

(* A driver that accepted its last set_delay is no slower than the fastest *)
(* of the sensors that have asked for a rate, among those enabled when the *)
(* last request was made, whatever the drivers refused before that.        *)
THEOREM FusedPacedForAll == Spec => []PacedForAll
<1>1. FusedInv => PacedForAll
  <2> SUFFICES ASSUME FusedInv, Rest, session = "open", NEW s \in At(kind)
               PROVE  /\ kind \in Akm => RateAt(kind, s) = Fastest(enable_mask \ unheard, delay_requests)
                      /\ kind = "inemo" => RateAt(kind, s) \in {NO_RATE, rate_ns}
                      /\ kind = "ecompass" => RateAt(kind, s) <= COMPASS_DELAY
                      /\ RateAt(kind, s) # NO_RATE /\ paced[s]
                           => hw[s].delay # NO_RATE /\ hw[s].delay <= RateAt(kind, s)
    BY DEF PacedForAll, RateAt
  <2>0. /\ WrapperInv /\ CallInv /\ SlotInv /\ CloseInv /\ PaceInv
    BY DEF FusedInv
  <2>1. kind \in Clients /\ AttachInv /\ s \in Drivers /\ access[kind][s] \in Used(entry[s])
    BY <2>0, SensorNames DEF WrapperInv, AttachInv
  <2>2. ASSUME RateAt(kind, s) # NO_RATE, paced[s]
        PROVE  hw[s].delay # NO_RATE /\ hw[s].delay <= RateAt(kind, s)
    <3> DEFINE asked == {entry[s].rate[c] : c \in Used(entry[s])} \ {NO_RATE}
    <3>1. RateAt(kind, s) \in asked
      BY <2>1, <2>2 DEF RateAt
    <3>2. asked \in SUBSET Nat
      <4>1. entry[s] \in Entry /\ Used(entry[s]) \subseteq Slots
        BY <2>1, SlotLeft DEF AttachInv
      <4>2. asked \subseteq Rates
        BY <4>1 DEF Entry, RateSet
      <4>3. QED
        BY <4>2, WrapperAssumption DEF WrapperAssumption
    <3>3. Min(asked) \in asked /\ Min(asked) <= RateAt(kind, s)
      BY <3>1, <3>2, MinIn
    <3>4. list_get_rate(entry[s]) = Min(asked) /\ Min(asked) # NO_RATE
      BY <3>1, <3>3 DEF list_get_rate
    <3>5. NoneClosed(s)
      <4>1. \A c \in Used(entry[s]) : entry[s].api[c] \in {kind, "plain"}
        BY <2>0, <2>1 DEF AttachInv, SlotInv
      <4>2. \A c \in Used(entry[s]) :
              s \in At(entry[s].api[c]) /\ access[entry[s].api[c]][s] = c
        BY <2>1 DEF AttachInv
      <4>3. \A d \in {kind, "plain"} : s \in At(d) => "CLOSE" \notin entry[s].status[access[d][s]]
        BY <2>0 DEF CloseInv, CloseAt
      <4>4. QED
        BY <4>1, <4>2, <4>3 DEF NoneClosed
    <3>6. hw[s].delay = list_get_rate(entry[s])
      BY <2>0, <2>1, <2>2, <3>4, <3>5 DEF WrapperInv, RateInv
    <3>7. QED
      BY <3>3, <3>4, <3>6
  <2>3. QED
    BY <2>0, <2>2 DEF PaceInv
<1>2. QED
  BY <1>1, FusedInvariant, PTL

(* No sensor gets two events after its disable, and the library no sample  *)
(* while it is stopped, though the callback reads the mask unlocked.       *)
THEOREM FusedNothingStray == Spec => []NothingStray
<1>1. FusedInv => NothingStray
  <2> SUFFICES ASSUME FusedInv
               PROVE  NothingStray
    OBVIOUS
  <2>1. strayed = {} /\ MaskInv
    BY DEF FusedInv, EventInv
  <2>2. Rest /\ session = "open" => LibFollows
    BY <2>1 DEF MaskInv, Rest, Todo, Started, Stopped
  <2>3. QED
    BY <2>1, <2>2 DEF NothingStray, OneLateEvent, LibraryFollowsMask, LibFollows
<1>2. QED
  BY <1>1, FusedInvariant, PTL

(* A run of a fusing engine has a new sample of each of its types: the     *)
(* types that have come since the last run, with this one, are all.        *)
THEOREM FusedNoSampleTwice == Spec => NoSampleTwice
<1>1. ASSUME FusedInv, [Next]_vars
      PROVE  [\A s \in Drivers :
                Fuses /\ ~data.ran /\ data'.ran /\ heard'.from = s
                  => fresh \cup {Type[s]} = Matched(kind)]_vars
  <2> SUFFICES ASSUME Next, NEW s \in Drivers, Fuses, ~data.ran, data'.ran, heard'.from = s
               PROVE  fresh \cup {Type[s]} = Matched(kind)
    BY <1>1
  <2>0. /\ WrapperInv /\ CallInv /\ EventInv
    BY <1>1 DEF FusedInv
  <2>1. ASSUME data' = data
        PROVE  FALSE
    BY <2>1
  <2>2. ASSUME NEW t \in Drivers, Sample(t)
        PROVE  fresh \cup {Type[s]} = Matched(kind)
    <3>1. sensors_wrapper_data(t) /\ heard'.from = t
      BY <2>2 DEF Sample, sensors_wrapper_data
    <3>2. kind \in heard'.to
      BY <2>1, <2>2 DEF Sample
    <3>3. PICK ok \in BOOLEAN, cal \in BOOLEAN :
            data' = [todo |-> callback(Type[t], ok, cal).todo, hold |-> None,
                     ran |-> Fuses /\ callback(Type[t], ok, cal).todo # <<>>]
      BY <2>2, <3>2 DEF Sample
    <3>4. callback(Type[t], ok, cal).todo # <<>>
      BY <3>3
    <3>5. Type[t] \in Matched(kind) /\ Type[t] \in Types
      BY <2>0, <3>1, <3>2, HeardKind DEF Types
    <3>6. exist \cup {Type[t]} = Matched(kind)
      BY <2>0, <3>4, <3>5, CallbackResult
    <3>7. exist \subseteq fresh /\ fresh \subseteq Matched(kind)
      BY <2>0 DEF EventInv, Fuses
    <3>8. QED
      BY <3>1, <3>5, <3>6, <3>7
  <2>3. ASSUME Look \/ Put
        PROVE  FALSE
    <3>1. data = [todo |-> data.todo, hold |-> data.hold, ran |-> data.ran]
      BY <2>0 DEF EventInv
    <3>2. CASE Look
      BY <3>1, <3>2 DEF Look
    <3>3. CASE Put
      BY <3>1, <3>3 DEF Put
    <3>4. QED
      BY <2>3, <3>2, <3>3
  <2>4. QED
    BY <2>1, <2>2, <2>3 DEF Next, hal_open, hal_activate, hal_set_delay, hal_close, Begin,
       OwnStep, PaceStep, WrapperStep, PlainStep
<1>2. QED
  BY <1>1, FusedInvariant, PTL DEF Spec, NoSampleTwice

=============================================================================
