------------------------- MODULE SensorsWrapperProofs -------------------------
(***************************************************************************)
(* Theorems about SensorsWrapper, for any drivers, clients and rates.      *)
(***************************************************************************)
EXTENDS SensorsWrapper, FiniteSetTheorems, WellFoundedInduction, TLAPS

Flags == {"CLOSE", "INIT", "ACTIVE"}
RateSet == Rates \cup {NO_RATE}
Entry == [nr : Nat, api : [Slots -> Clients \cup {NoClient}],
          status : [Slots -> SUBSET Flags], rate : [Slots -> RateSet]]

(***************************************************************************)
(* Facts about the operators.                                              *)
(***************************************************************************)

Less == OpToRel(<, Nat)

(* A nonempty set of naturals has the minimum that Min returns.            *)
LEMMA MinIn == ASSUME NEW S \in SUBSET Nat, S # {}
               PROVE  Min(S) \in S /\ \A y \in S : Min(S) <= y
<1>1. IsWellFoundedOn(Less, Nat)
  BY NatLessThanWellFounded, Zenon DEF Less
<1>2. Less = {p \in Nat \X Nat : p[1] < p[2]}
  BY Zenon DEF Less, OpToRel
<1>3. PICK x \in S : \A y \in S : <<y, x>> \notin Less
  BY <1>1, WFMin, Zenon
<1>4. \A y \in S : x <= y
  <2> SUFFICES ASSUME NEW y \in S
               PROVE  x <= y
    OBVIOUS
  <2>1. ~(y < x)
    BY <1>2, <1>3
  <2>2. QED
    BY <2>1
<1>5. QED
  BY <1>3, <1>4 DEF Min

(* list_get_status counts nothing exactly when no used slot has the flag.  *)
LEMMA StatusZero == ASSUME NEW e \in Entry, NEW flag
                    PROVE  /\ list_get_status(e, flag) \in Nat
                           /\ list_get_status(e, flag) = 0
                                <=> \A c \in Used(e) : flag \notin e.status[c]
<1> DEFINE S == {c \in Used(e) : flag \in e.status[c]}
<1>1. IsFiniteSet(1..e.nr)
  BY FS_Interval DEF Entry
<1>2. IsFiniteSet(S)
  BY <1>1, FS_Subset DEF Used
<1>3. Cardinality(S) \in Nat /\ (Cardinality(S) = 0 <=> S = {})
  BY <1>2, FS_CardinalityType, FS_EmptySet
<1>4. QED
  BY <1>3 DEF list_get_status

(* list_get_rate looks at the rates in use and at nothing else.            *)
LEMMA RateOfUsed == ASSUME NEW e, NEW f, e.nr = f.nr,
                           \A c \in Used(e) : e.rate[c] = f.rate[c]
                    PROVE  list_get_rate(e) = list_get_rate(f)
<1>1. {e.rate[c] : c \in Used(e)} = {f.rate[c] : c \in Used(f)}
  BY DEF Used
<1>2. QED
  BY <1>1 DEF list_get_rate

(* It returns a rate some client asked for, or none.                       *)
LEMMA RateType == ASSUME NEW e \in Entry, Used(e) \subseteq Slots
                  PROVE  list_get_rate(e) \in RateSet
<1> DEFINE asked == {e.rate[c] : c \in Used(e)} \ {NO_RATE}
<1>1. asked \subseteq Rates
  BY DEF Entry, RateSet
<1>2. asked \in SUBSET Nat
  BY <1>1, WrapperAssumption DEF WrapperAssumption
<1>3. asked # {} => Min(asked) \in asked
  BY <1>2, MinIn
<1>4. QED
  BY <1>1, <1>3 DEF list_get_rate, RateSet

(* What the calls do to the entry of a driver: the slot of the client.     *)
LEMMA ActivatedEntry ==
  ASSUME NEW d, NEW s, NEW enable \in BOOLEAN, entry[s] \in Entry, access[d][s] \in Slots
  PROVE  LET e == Activated(d, s, enable)
             c == access[d][s]
         IN  /\ e \in Entry /\ e.nr = entry[s].nr /\ e.api = entry[s].api
             /\ \A k \in Slots \ {c} : e.status[k] = entry[s].status[k] /\ e.rate[k] = entry[s].rate[k]
             /\ e.status[c] = IF enable THEN entry[s].status[c] \cup {"ACTIVE"}
                              ELSE entry[s].status[c] \ {"ACTIVE"}
             /\ e.rate[c] = IF enable THEN entry[s].rate[c] ELSE NO_RATE
BY DEF Activated, list_set_status, list_clear_status, list_set_rate, Entry, Flags, RateSet

LEMMA DelayedEntry ==
  ASSUME NEW d, NEW s, NEW ns \in RateSet, entry[s] \in Entry, access[d][s] \in Slots
  PROVE  LET e == Delayed(d, s, ns)
         IN  /\ e \in Entry /\ e.nr = entry[s].nr /\ e.api = entry[s].api
             /\ e.status = entry[s].status
             /\ \A k \in Slots \ {access[d][s]} : e.rate[k] = entry[s].rate[k]
BY DEF Delayed, list_set_rate, Entry, Flags, RateSet

LEMMA ClosedEntry ==
  ASSUME NEW d, NEW s, entry[s] \in Entry, access[d][s] \in Slots
  PROVE  LET e == Closed(d, s)
             c == access[d][s]
         IN  /\ e \in Entry /\ e.nr = entry[s].nr /\ e.api = entry[s].api
             /\ \A k \in Slots \ {c} : e.status[k] = entry[s].status[k] /\ e.rate[k] = entry[s].rate[k]
             /\ e.status[c] = entry[s].status[c] \cup {"CLOSE"}
             /\ e.rate[c] = NO_RATE
BY DEF Closed, list_set_status, list_set_rate, Entry, Flags, RateSet

LEMMA AttachEntry ==
  ASSUME NEW e \in Entry, NEW d \in Clients, e.nr + 1 \in Slots
  PROVE  LET f == attach(e, d)
             c == e.nr + 1
         IN  /\ f \in Entry /\ f.nr = c /\ f.rate = e.rate
             /\ f.api[c] = d /\ f.status[c] = e.status[c] \cup {"INIT"}
             /\ \A k \in Slots \ {c} : f.api[k] = e.api[k] /\ f.status[k] = e.status[k]
<1> DEFINE c == e.nr + 1
           g == list_set_status(e, c, "INIT")
<1>1. /\ g \in Entry /\ g.nr = e.nr /\ g.rate = e.rate /\ g.api = e.api
      /\ g.status[c] = e.status[c] \cup {"INIT"}
      /\ \A k \in Slots \ {c} : g.status[k] = e.status[k]
  BY DEF list_set_status, Entry, Flags
<1>2. attach(e, d) = [g EXCEPT !.api[c] = d, !.nr = c]
  BY DEF attach
<1> DEFINE a == [g.api EXCEPT ![c] = d]
<1> HIDE DEF g
<1>3. /\ a \in [Slots -> Clients \cup {NoClient}] /\ a[c] = d
      /\ \A k \in Slots \ {c} : a[k] = e.api[k]
  BY <1>1 DEF Entry
<1>4. attach(e, d) = [nr |-> c, api |-> a, status |-> g.status, rate |-> g.rate]
  BY <1>1, <1>2 DEF Entry
<1> HIDE DEF a
<1>5. attach(e, d) \in Entry
  BY <1>1, <1>3, <1>4 DEF Entry
<1>6. QED
  BY <1>1, <1>3, <1>4, <1>5

(***************************************************************************)
(* The attachments.                                                        *)
(***************************************************************************)

Members(s) == {d \in Clients : s \in At(d)}

\* The records of each attachment agree, and the slots of an entry in use
\* are as many as its members; the others are as register left them.
AttachInv ==
  /\ entry \in [Drivers -> Entry]
  /\ access = [d \in Clients |-> access[d]]
  /\ \A d \in Clients : At(d) \subseteq Drivers /\ access[d] \in [At(d) -> Slots]
  /\ \A d \in Clients : \A s \in At(d) :
       /\ Matches(d, s)
       /\ access[d][s] \in Used(entry[s])
       /\ entry[s].api[access[d][s]] = d
  /\ \A d \in Clients : \A s, t \in At(d) : Type[s] = Type[t] => s = t
  /\ \A s \in Drivers : \A c \in Used(entry[s]) :
       /\ entry[s].api[c] \in Clients
       /\ s \in At(entry[s].api[c])
       /\ access[entry[s].api[c]][s] = c
  /\ \A s \in Drivers : entry[s].nr = Cardinality(Members(s))
  /\ \A s \in Drivers : \A c \in Slots \ Used(entry[s]) :
       entry[s].status[c] = {} /\ entry[s].rate[c] = NO_RATE

(* The slots in use fit the entry, and there is one for each client that   *)
(* matches and is not attached yet: the code does not check.               *)
LEMMA SlotLeft == ASSUME AttachInv, NEW s \in Drivers
                  PROVE  /\ IsFiniteSet(Members(s))
                         /\ Used(entry[s]) \subseteq Slots
                         /\ \A d \in Clients : Matches(d, s) /\ s \notin At(d)
                              => entry[s].nr + 1 \in Slots
<1> DEFINE M == {d \in Clients : Matches(d, s)}
<1>1. IsFiniteSet(Members(s)) /\ IsFiniteSet(M)
  BY WrapperAssumption, FS_Subset DEF WrapperAssumption, Members
<1>2. Cardinality(M) <= MAX_SENSOR_CONNECTIONS /\ Cardinality(M) \in Nat
  BY <1>1, WiringAssumption, FS_CardinalityType DEF WiringAssumption
<1>3. Members(s) \subseteq M
  BY DEF Members, AttachInv
<1>4. entry[s].nr \in Nat /\ entry[s].nr <= Cardinality(M)
  BY <1>1, <1>3, FS_Subset, FS_CardinalityType DEF AttachInv
<1>5. Used(entry[s]) \subseteq Slots
  BY <1>2, <1>4, WrapperAssumption DEF Used, Slots, WrapperAssumption
<1>6. ASSUME NEW d \in Clients, Matches(d, s), s \notin At(d)
      PROVE  entry[s].nr + 1 \in Slots
  <2>1. d \notin Members(s) /\ Members(s) \cup {d} \subseteq M
    BY <1>3, <1>6 DEF Members
  <2>2. Cardinality(Members(s) \cup {d}) = entry[s].nr + 1
    <3>1. Cardinality(Members(s) \cup {d}) = Cardinality(Members(s)) + 1
      BY <1>1, <2>1, FS_AddElement
    <3>2. QED
      BY <3>1 DEF AttachInv
  <2>3. entry[s].nr + 1 <= Cardinality(M)
    BY <1>1, <2>1, <2>2, FS_Subset
  <2>4. QED
    BY <1>2, <1>4, <2>3, WrapperAssumption DEF Slots, WrapperAssumption
<1>7. QED
  BY <1>1, <1>5, <1>6

(* The drivers init picks are new to the client, match it, and have types  *)
(* different from each other and from those it is attached to.             *)
LEMMA PicksNew ==
  ASSUME AttachInv, NEW d \in Clients, NEW init_ok
  PROVE  /\ \A s \in Picks(d, init_ok) : s \in Drivers /\ s \notin At(d) /\ Matches(d, s)
         /\ \A s, t \in At(d) \cup Picks(d, init_ok) : Type[s] = Type[t] => s = t
<1> DEFINE New == {j \in DOMAIN Match[d] : ~Attached(d, j) /\ Reached(d, j, init_ok)}
<1>1. \A k \in New : /\ Min(Found(d, k, init_ok)) \in Drivers
                     /\ Type[Min(Found(d, k, init_ok))] = Match[d][k]
  <2> SUFFICES ASSUME NEW k \in New
               PROVE  Min(Found(d, k, init_ok)) \in Found(d, k, init_ok)
    BY DEF Found
  <2>1. k \in 1..k
    BY WrapperAssumption DEF WrapperAssumption
  <2>2. Found(d, k, init_ok) # {}
    BY <2>1 DEF Reached
  <2>3. Found(d, k, init_ok) \in SUBSET Nat
    BY WrapperAssumption DEF WrapperAssumption, Found
  <2>4. QED
    BY <2>2, <2>3, MinIn
<1>2. Picks(d, init_ok) = {Min(Found(d, k, init_ok)) : k \in New}
  BY DEF Picks
<1>3. \A k \in New : \A s \in At(d) : Type[s] # Match[d][k]
  BY DEF Attached
<1>4. \A s \in Picks(d, init_ok) : s \in Drivers /\ s \notin At(d) /\ Matches(d, s)
  BY <1>1, <1>2, <1>3 DEF Matches
<1>5. ASSUME NEW s \in Picks(d, init_ok), NEW t \in Picks(d, init_ok), Type[s] = Type[t]
      PROVE  s = t
  BY <1>1, <1>2, <1>5, WiringAssumption DEF WiringAssumption
<1>6. ASSUME NEW s \in Picks(d, init_ok), NEW t \in At(d)
      PROVE  Type[s] # Type[t]
  BY <1>1, <1>2, <1>3
<1>7. QED
  BY <1>4, <1>5, <1>6 DEF AttachInv

(* init attaches the client to each driver it picks, in a slot of its own. *)
LEMMA InitAttach == ASSUME AttachInv, NEW d \in Clients, NEW init_ok,
                           sensors_wrapper_init(d, init_ok)
                    PROVE  AttachInv'
<1> USE DEF At, Used
<1> DEFINE picks == Picks(d, init_ok)
           slot(s) == entry[s].nr + 1
<1>1. \A s \in picks : s \in Drivers /\ s \notin At(d) /\ Matches(d, s) /\ slot(s) \in Slots
  BY PicksNew, SlotLeft
<1>2. \A s \in Drivers : IF s \in picks
                         THEN entry'[s] = attach(entry[s], d) ELSE entry'[s] = entry[s]
  BY DEF sensors_wrapper_init
<1>3. entry' = [s \in Drivers |-> entry'[s]]
  BY DEF sensors_wrapper_init
<1>4. \A s \in picks :
        /\ entry'[s] \in Entry /\ entry'[s].nr = slot(s) /\ entry'[s].rate = entry[s].rate
        /\ entry'[s].api[slot(s)] = d /\ entry'[s].status[slot(s)] = entry[s].status[slot(s)] \cup {"INIT"}
        /\ \A k \in Slots \ {slot(s)} : /\ entry'[s].api[k] = entry[s].api[k]
                                       /\ entry'[s].status[k] = entry[s].status[k]
  <2> SUFFICES ASSUME NEW s \in picks
               PROVE  /\ entry'[s] \in Entry /\ entry'[s].nr = slot(s) /\ entry'[s].rate = entry[s].rate
                      /\ entry'[s].api[slot(s)] = d
                      /\ entry'[s].status[slot(s)] = entry[s].status[slot(s)] \cup {"INIT"}
                      /\ \A k \in Slots \ {slot(s)} : /\ entry'[s].api[k] = entry[s].api[k]
                                                     /\ entry'[s].status[k] = entry[s].status[k]
    OBVIOUS
  <2>1. entry[s] \in Entry /\ slot(s) \in Slots /\ entry'[s] = attach(entry[s], d)
    BY <1>1, <1>2 DEF AttachInv
  <2> HIDE DEF picks
  <2>2. LET f == attach(entry[s], d)
            c == entry[s].nr + 1
        IN  /\ f \in Entry /\ f.nr = c /\ f.rate = entry[s].rate
            /\ f.api[c] = d /\ f.status[c] = entry[s].status[c] \cup {"INIT"}
            /\ \A k \in Slots \ {c} : f.api[k] = entry[s].api[k] /\ f.status[k] = entry[s].status[k]
    BY <2>1, AttachEntry, Zenon
  <2>3. QED
    BY <2>1, <2>2
<1>5. /\ access' = [access EXCEPT ![d] = access'[d]]
      /\ access'[d] = [s \in At(d) \cup picks |-> IF s \in At(d) THEN access[d][s] ELSE slot(s)]
  <2> DEFINE new == [s \in At(d) \cup picks |-> IF s \in At(d) THEN access[d][s] ELSE slot(s)]
  <2>1. access' = [access EXCEPT ![d] = new]
    BY Zenon DEF sensors_wrapper_init
  <2> HIDE DEF new
  <2>2. access'[d] = new
    BY <2>1 DEF AttachInv
  <2>3. QED
    BY <2>1, <2>2 DEF new
<1>6. /\ At(d)' = At(d) \cup picks
      /\ \A s \in At(d) : access'[d][s] = access[d][s]
      /\ \A s \in picks : access'[d][s] = slot(s)
  BY <1>1, <1>5 DEF At
<1>7. \A e \in Clients \ {d} : access'[e] = access[e] /\ At(e)' = At(e)
  BY <1>5 DEF AttachInv, At
<1>8. \A s \in Drivers : entry[s].nr \in Nat /\ Used(entry[s]) \subseteq Slots
  BY SlotLeft DEF AttachInv, Entry
<1>9. \A s \in picks : Used(entry'[s]) = Used(entry[s]) \cup {slot(s)} /\ slot(s) \notin Used(entry[s])
  BY <1>1, <1>4, <1>8 DEF Used
<1>10. (entry \in [Drivers -> Entry])'
  BY <1>2, <1>3, <1>4 DEF AttachInv
<1>11. (access = [e \in Clients |-> access[e]])'
  BY <1>5 DEF AttachInv
<1>12. (\A e \in Clients : At(e) \subseteq Drivers /\ access[e] \in [At(e) -> Slots])'
  <2>1. access'[d] \in [At(d)' -> Slots]
    BY <1>1, <1>5, <1>6 DEF AttachInv
  <2>2. QED
    BY <1>1, <1>6, <1>7, <2>1 DEF AttachInv
<1>13. (\A e \in Clients : \A s \in At(e) :
          /\ Matches(e, s)
          /\ access[e][s] \in Used(entry[s])
          /\ entry[s].api[access[e][s]] = e)'
  <2> SUFFICES ASSUME NEW e \in Clients, NEW s \in At(e)'
               PROVE  /\ Matches(e, s)
                      /\ access'[e][s] \in Used(entry'[s])
                      /\ entry'[s].api[access'[e][s]] = e
    BY DEF Matches
  <2>1. CASE e = d /\ s \in picks
    BY <1>1, <1>4, <1>6, <1>9, <2>1
  <2>2. CASE s \in At(e) /\ access'[e][s] = access[e][s]
    <3>1. s \in Drivers /\ access[e][s] \in Used(entry[s]) /\ entry[s].api[access[e][s]] = e
      BY <2>2 DEF AttachInv
    <3>2. CASE s \in picks
      <4>1. access[e][s] \in Slots \ {slot(s)}
        BY <1>8, <1>9, <3>1, <3>2
      <4>2. QED
        BY <1>4, <1>9, <2>2, <3>1, <3>2, <4>1 DEF AttachInv
    <3>3. CASE s \notin picks
      BY <1>2, <2>2, <3>1, <3>3 DEF AttachInv
    <3>4. QED
      BY <3>2, <3>3
  <2>3. QED
    BY <1>6, <1>7, <2>1, <2>2
<1>14. (\A e \in Clients : \A s, t \in At(e) : Type[s] = Type[t] => s = t)'
  BY <1>6, <1>7, PicksNew DEF AttachInv
<1>15. (\A s \in Drivers : \A c \in Used(entry[s]) :
          /\ entry[s].api[c] \in Clients
          /\ s \in At(entry[s].api[c])
          /\ access[entry[s].api[c]][s] = c)'
  <2> SUFFICES ASSUME NEW s \in Drivers, NEW c \in Used(entry'[s])
               PROVE  /\ entry'[s].api[c] \in Clients
                      /\ s \in DOMAIN access'[entry'[s].api[c]]
                      /\ access'[entry'[s].api[c]][s] = c
    OBVIOUS
  <2>1. CASE s \in picks /\ c = slot(s)
    BY <1>4, <1>6, <2>1
  <2>2. CASE c \in Used(entry[s]) /\ entry'[s].api[c] = entry[s].api[c]
    <3> DEFINE e == entry[s].api[c]
    <3>1. e \in Clients /\ s \in At(e) /\ access[e][s] = c
      BY <2>2 DEF AttachInv
    <3>2. s \in DOMAIN access'[e] /\ access'[e][s] = access[e][s]
      BY <1>6, <1>7, <3>1
    <3>3. QED
      BY <2>2, <3>1, <3>2
  <2>3. s \in picks /\ c # slot(s) => c \in Used(entry[s]) /\ entry'[s].api[c] = entry[s].api[c]
    BY <1>4, <1>8, <1>9
  <2>4. QED
    BY <1>2, <2>1, <2>2, <2>3
<1>16. (\A s \in Drivers : entry[s].nr = Cardinality(Members(s)))'
  <2> SUFFICES ASSUME NEW s \in Drivers
               PROVE  entry'[s].nr = Cardinality(Members(s)')
    OBVIOUS
  <2>1. CASE s \in picks
    <3>1. Members(s)' = Members(s) \cup {d} /\ d \notin Members(s)
      BY <1>1, <1>6, <1>7, <2>1 DEF Members
    <3>2. Cardinality(Members(s) \cup {d}) = Cardinality(Members(s)) + 1
      BY <3>1, SlotLeft, FS_AddElement
    <3>3. QED
      BY <1>4, <2>1, <3>1, <3>2 DEF AttachInv
  <2>2. CASE s \notin picks
    <3>1. Members(s)' = Members(s)
      BY <1>6, <1>7, <2>2 DEF Members
    <3>2. QED
      BY <1>2, <2>2, <3>1 DEF AttachInv
  <2>3. QED
    BY <2>1, <2>2
<1>17. (\A s \in Drivers : \A c \in Slots \ Used(entry[s]) :
          entry[s].status[c] = {} /\ entry[s].rate[c] = NO_RATE)'
  <2> SUFFICES ASSUME NEW s \in Drivers, NEW c \in Slots \ Used(entry'[s])
               PROVE  entry'[s].status[c] = {} /\ entry'[s].rate[c] = NO_RATE
    OBVIOUS
  <2>1. CASE s \in picks
    BY <1>4, <1>9, <2>1 DEF AttachInv
  <2>2. CASE s \notin picks
    BY <1>2, <2>2 DEF AttachInv
  <2>3. QED
    BY <2>1, <2>2
<1>18. QED
  BY <1>10, <1>11, <1>12, <1>13, <1>14, <1>15, <1>16, <1>17 DEF AttachInv

(***************************************************************************)
(* The calls that attach nothing: they change the slots of one client.     *)
(***************************************************************************)

Touches(d) ==
  /\ access' = access
  /\ entry' = [s \in Drivers |-> entry'[s]]
  /\ \A s \in Drivers \ At(d) : entry'[s] = entry[s]
  /\ \A s \in At(d) :
       /\ entry'[s] \in Entry /\ entry'[s].nr = entry[s].nr /\ entry'[s].api = entry[s].api
       /\ \A k \in Slots \ {access[d][s]} : /\ entry'[s].status[k] = entry[s].status[k]
                                           /\ entry'[s].rate[k] = entry[s].rate[k]

LEMMA TouchAttach == ASSUME AttachInv, NEW d \in Clients, Touches(d)
                     PROVE  AttachInv'
<1> USE DEF At, Used
<1>1. /\ access' = access
      /\ entry' \in [Drivers -> Entry]
  BY DEF Touches, AttachInv
<1>2. \A s \in Drivers : entry'[s].nr = entry[s].nr /\ entry'[s].api = entry[s].api
  BY DEF Touches
<1>3. \A s \in Drivers : Members(s)' = Members(s)
  BY <1>1 DEF Members
<1>4. \A s \in Drivers : \A c \in Slots \ Used(entry'[s]) :
        entry'[s].status[c] = {} /\ entry'[s].rate[c] = NO_RATE
  BY <1>2 DEF Touches, AttachInv
<1>5. \A s \in Drivers : entry'[s].nr = Cardinality(Members(s)')
  BY <1>2, <1>3 DEF AttachInv
<1>6. /\ (access = [e \in Clients |-> access[e]])'
      /\ (\A e \in Clients : At(e) \subseteq Drivers /\ access[e] \in [At(e) -> Slots])'
      /\ (\A e \in Clients : \A s, t \in At(e) : Type[s] = Type[t] => s = t)'
  BY <1>1 DEF AttachInv
<1>7. (\A e \in Clients : \A s \in At(e) :
         /\ Matches(e, s)
         /\ access[e][s] \in Used(entry[s])
         /\ entry[s].api[access[e][s]] = e)'
  BY <1>1, <1>2 DEF AttachInv, Matches
<1>8. (\A s \in Drivers : \A c \in Used(entry[s]) :
         /\ entry[s].api[c] \in Clients
         /\ s \in At(entry[s].api[c])
         /\ access[entry[s].api[c]][s] = c)'
  BY <1>1, <1>2 DEF AttachInv
<1>9. QED
  BY <1>1, <1>4, <1>5, <1>6, <1>7, <1>8 DEF AttachInv

LEMMA ActivateTouches ==
  ASSUME AttachInv, NEW d \in Clients, NEW enable \in BOOLEAN, NEW act_ok, NEW rate_ok,
         sensors_wrapper_activate(d, enable, act_ok, rate_ok)
  PROVE  /\ Touches(d)
         /\ \A s \in At(d) :
              /\ entry'[s] = Activated(d, s, enable)
              /\ entry'[s].status[access[d][s]] =
                   IF enable THEN entry[s].status[access[d][s]] \cup {"ACTIVE"}
                   ELSE entry[s].status[access[d][s]] \ {"ACTIVE"}
              /\ entry'[s].rate[access[d][s]] =
                   IF enable THEN entry[s].rate[access[d][s]] ELSE NO_RATE
<1>1. entry' = [s \in Drivers |-> IF s \in At(d) THEN Activated(d, s, enable) ELSE entry[s]]
  BY DEF sensors_wrapper_activate
<1>2. At(d) \subseteq Drivers
  BY DEF AttachInv
<1>3. ASSUME NEW s \in At(d)
      PROVE  /\ entry'[s] = Activated(d, s, enable)
             /\ entry'[s] \in Entry /\ entry'[s].nr = entry[s].nr /\ entry'[s].api = entry[s].api
             /\ \A k \in Slots \ {access[d][s]} : /\ entry'[s].status[k] = entry[s].status[k]
                                                 /\ entry'[s].rate[k] = entry[s].rate[k]
             /\ entry'[s].status[access[d][s]] =
                  IF enable THEN entry[s].status[access[d][s]] \cup {"ACTIVE"}
                  ELSE entry[s].status[access[d][s]] \ {"ACTIVE"}
             /\ entry'[s].rate[access[d][s]] =
                  IF enable THEN entry[s].rate[access[d][s]] ELSE NO_RATE
  <2>1. /\ entry[s] \in Entry /\ access[d][s] \in Slots /\ entry'[s] = Activated(d, s, enable)
        /\ enable \in BOOLEAN
    BY <1>1, <1>2, <1>3 DEF AttachInv
  <2>2. LET e == Activated(d, s, enable)
            c == access[d][s]
        IN  /\ e \in Entry /\ e.nr = entry[s].nr /\ e.api = entry[s].api
            /\ \A k \in Slots \ {c} : e.status[k] = entry[s].status[k] /\ e.rate[k] = entry[s].rate[k]
            /\ e.status[c] = IF enable THEN entry[s].status[c] \cup {"ACTIVE"}
                             ELSE entry[s].status[c] \ {"ACTIVE"}
            /\ e.rate[c] = IF enable THEN entry[s].rate[c] ELSE NO_RATE
    BY <2>1, ActivatedEntry
  <2>3. QED
    BY <2>1, <2>2
<1>4. Touches(d)
  <2>1. access' = access
    BY DEF sensors_wrapper_activate
  <2>2. /\ entry' = [s \in Drivers |-> entry'[s]]
        /\ \A s \in Drivers \ At(d) : entry'[s] = entry[s]
    BY <1>1
  <2>3. QED
    BY <1>3, <2>1, <2>2 DEF Touches
<1>5. QED
  BY <1>3, <1>4

LEMMA DelayTouches ==
  ASSUME AttachInv, NEW d \in Clients, NEW ns \in RateSet, NEW rate_ok,
         sensors_wrapper_set_delay(d, ns, rate_ok)
  PROVE  /\ Touches(d)
         /\ \A s \in At(d) : /\ entry'[s] = Delayed(d, s, ns)
                             /\ entry'[s].status = entry[s].status
<1>1. entry' = [s \in Drivers |-> IF s \in At(d) THEN Delayed(d, s, ns) ELSE entry[s]]
  BY DEF sensors_wrapper_set_delay
<1>2. At(d) \subseteq Drivers
  BY DEF AttachInv
<1>3. ASSUME NEW s \in At(d)
      PROVE  /\ entry'[s] = Delayed(d, s, ns)
             /\ entry'[s] \in Entry /\ entry'[s].nr = entry[s].nr /\ entry'[s].api = entry[s].api
             /\ entry'[s].status = entry[s].status
             /\ \A k \in Slots \ {access[d][s]} : entry'[s].rate[k] = entry[s].rate[k]
  <2>1. /\ entry[s] \in Entry /\ access[d][s] \in Slots /\ entry'[s] = Delayed(d, s, ns)
        /\ ns \in RateSet
    BY <1>1, <1>2, <1>3 DEF AttachInv
  <2>2. LET e == Delayed(d, s, ns)
        IN  /\ e \in Entry /\ e.nr = entry[s].nr /\ e.api = entry[s].api
            /\ e.status = entry[s].status
            /\ \A k \in Slots \ {access[d][s]} : e.rate[k] = entry[s].rate[k]
    BY <2>1, DelayedEntry
  <2>3. QED
    BY <2>1, <2>2
<1>4. Touches(d)
  <2>1. access' = access
    BY DEF sensors_wrapper_set_delay
  <2>2. /\ entry' = [s \in Drivers |-> entry'[s]]
        /\ \A s \in Drivers \ At(d) : entry'[s] = entry[s]
    BY <1>1
  <2>3. QED
    BY <1>3, <2>1, <2>2 DEF Touches
<1>5. QED
  BY <1>3, <1>4

LEMMA CloseTouches ==
  ASSUME AttachInv, NEW d \in Clients, sensors_wrapper_close(d)
  PROVE  /\ Touches(d)
         /\ \A s \in At(d) :
              entry'[s].status[access[d][s]] = entry[s].status[access[d][s]] \cup {"CLOSE"}
<1>1. entry' = [s \in Drivers |-> IF s \in At(d) THEN Closed(d, s) ELSE entry[s]]
  BY DEF sensors_wrapper_close
<1>2. At(d) \subseteq Drivers
  BY DEF AttachInv
<1>3. ASSUME NEW s \in At(d)
      PROVE  /\ entry'[s] \in Entry /\ entry'[s].nr = entry[s].nr /\ entry'[s].api = entry[s].api
             /\ \A k \in Slots \ {access[d][s]} : /\ entry'[s].status[k] = entry[s].status[k]
                                                 /\ entry'[s].rate[k] = entry[s].rate[k]
             /\ entry'[s].status[access[d][s]] = entry[s].status[access[d][s]] \cup {"CLOSE"}
  <2>1. entry[s] \in Entry /\ access[d][s] \in Slots /\ entry'[s] = Closed(d, s)
    BY <1>1, <1>2, <1>3 DEF AttachInv
  <2>2. LET e == Closed(d, s)
            c == access[d][s]
        IN  /\ e \in Entry /\ e.nr = entry[s].nr /\ e.api = entry[s].api
            /\ \A k \in Slots \ {c} : e.status[k] = entry[s].status[k] /\ e.rate[k] = entry[s].rate[k]
            /\ e.status[c] = entry[s].status[c] \cup {"CLOSE"}
            /\ e.rate[c] = NO_RATE
    BY <2>1, ClosedEntry, Zenon
  <2>3. QED
    BY <2>1, <2>2
<1>4. Touches(d)
  <2>1. access' = access
    BY DEF sensors_wrapper_close
  <2>2. /\ entry' = [s \in Drivers |-> entry'[s]]
        /\ \A s \in Drivers \ At(d) : entry'[s] = entry[s]
    BY <1>1
  <2>3. QED
    BY <1>3, <2>1, <2>2 DEF Touches
<1>5. QED
  BY <1>3, <1>4

(***************************************************************************)
(* Who is active, what the driver does, and who hears it, by the slots.    *)
(***************************************************************************)

Active(s) == {c \in Used(entry[s]) : "ACTIVE" \in entry[s].status[c]}
NoneClosed(s) == \A c \in Used(entry[s]) : "CLOSE" \notin entry[s].status[c]

TypeInv ==
  /\ hw \in [Drivers -> [on : BOOLEAN, delay : RateSet, closed : BOOLEAN]]
  /\ rv \in {0, -1}
  /\ acted \in [Drivers -> BOOLEAN] /\ paced \in [Drivers -> BOOLEAN]
  /\ wants \subseteq Clients

ActiveInv == \A s \in Drivers : \A c \in Active(s) : entry[s].api[c] \in wants

RunInv == \A s \in Drivers : acted[s] /\ ~hw[s].closed => (hw[s].on <=> Active(s) # {})

RateInv == \A s \in Drivers :
  paced[s] /\ NoneClosed(s) /\ list_get_rate(entry[s]) # NO_RATE
    => hw[s].delay = list_get_rate(entry[s])

HeardInv ==
  /\ heard \in [from : Drivers \cup {0}, to : SUBSET Clients]
  /\ \A s \in Drivers : heard.from = s => heard.to = {entry[s].api[c] : c \in Active(s)}

WrapperInv == AttachInv /\ TypeInv /\ ActiveInv /\ RunInv /\ RateInv /\ HeardInv

LEMMA SilenceHeard == ASSUME heard' = Silence
                      PROVE  HeardInv'
<1>1. \A s \in Drivers : s # 0
  BY WrapperAssumption DEF WrapperAssumption
<1>2. QED
  BY <1>1 DEF HeardInv, Silence

(* The counts of the code, on the slots in use.                            *)
LEMMA Counts == ASSUME AttachInv, NEW s \in Drivers
                PROVE  /\ list_get_status(entry[s], "ACTIVE") = 0 <=> Active(s) = {}
                       /\ list_get_status(entry[s], "CLOSE") = 0 <=> NoneClosed(s)
                       /\ list_get_rate(entry[s]) \in RateSet
<1>1. entry[s] \in Entry /\ Used(entry[s]) \subseteq Slots
  BY SlotLeft DEF AttachInv
<1>2. /\ list_get_status(entry[s], "ACTIVE") = 0
           <=> \A c \in Used(entry[s]) : "ACTIVE" \notin entry[s].status[c]
      /\ list_get_status(entry[s], "CLOSE") = 0
           <=> \A c \in Used(entry[s]) : "CLOSE" \notin entry[s].status[c]
  BY <1>1, StatusZero
<1>3. list_get_rate(entry[s]) \in RateSet
  BY <1>1, RateType
<1>4. QED
  BY <1>2, <1>3 DEF Active, NoneClosed

(* A new slot is inactive, open and without a rate.                        *)
LEMMA InitPreserves == ASSUME WrapperInv, NEW d \in Clients, NEW init_ok,
                              sensors_wrapper_init(d, init_ok)
                       PROVE  WrapperInv'
<1> DEFINE picks == Picks(d, init_ok)
<1>1. AttachInv'
  BY InitAttach DEF WrapperInv
<1>2. hw' = hw /\ acted' = acted /\ paced' = paced /\ wants' = wants /\ rv' \in {0, -1}
  BY DEF sensors_wrapper_init
<1>3. TypeInv'
  BY <1>2 DEF WrapperInv, TypeInv
<1>4. HeardInv'
  BY SilenceHeard DEF sensors_wrapper_init
<1>5. ASSUME NEW s \in Drivers
      PROVE  /\ Active(s)' = Active(s) /\ (NoneClosed(s)' <=> NoneClosed(s))
             /\ list_get_rate(entry'[s]) = list_get_rate(entry[s])
             /\ \A c \in Active(s) : entry'[s].api[c] = entry[s].api[c]
  <2>1. CASE s \notin picks
    <3>1. entry'[s] = entry[s]
      BY <2>1 DEF sensors_wrapper_init
    <3>2. QED
      BY <3>1 DEF Active, NoneClosed
  <2>2. CASE s \in picks
    <3> DEFINE c == entry[s].nr + 1
    <3>1. /\ entry[s] \in Entry /\ c \in Slots /\ Used(entry[s]) \subseteq Slots
          /\ entry'[s] = attach(entry[s], d)
      BY <2>2, PicksNew, SlotLeft DEF WrapperInv, AttachInv, sensors_wrapper_init
    <3>2. LET f == attach(entry[s], d)
          IN  /\ f \in Entry /\ f.nr = c /\ f.rate = entry[s].rate
              /\ f.api[c] = d /\ f.status[c] = entry[s].status[c] \cup {"INIT"}
              /\ \A k \in Slots \ {c} : f.api[k] = entry[s].api[k] /\ f.status[k] = entry[s].status[k]
      BY <3>1, AttachEntry
    <3>3. /\ entry'[s].nr = c /\ entry'[s].rate = entry[s].rate
          /\ entry'[s].status[c] = entry[s].status[c] \cup {"INIT"}
          /\ \A k \in Slots \ {c} : /\ entry'[s].api[k] = entry[s].api[k]
                                    /\ entry'[s].status[k] = entry[s].status[k]
      BY <3>1, <3>2
    <3>4. /\ c \notin Used(entry[s]) /\ Used(entry'[s]) = Used(entry[s]) \cup {c}
          /\ entry[s].nr \in Nat
      BY <3>1, <3>3 DEF Used, Entry
    <3>5. entry[s].status[c] = {} /\ entry[s].rate[c] = NO_RATE
      BY <3>1, <3>4 DEF WrapperInv, AttachInv
    <3>6. list_get_rate(entry'[s]) = list_get_rate(entry[s])
      <4>1. {entry'[s].rate[k] : k \in Used(entry'[s])} \ {NO_RATE}
              = {entry[s].rate[k] : k \in Used(entry[s])} \ {NO_RATE}
        BY <3>3, <3>4, <3>5
      <4>2. QED
        BY <4>1 DEF list_get_rate
    <3>7. \A k \in Used(entry[s]) : /\ entry'[s].status[k] = entry[s].status[k]
                                    /\ entry'[s].api[k] = entry[s].api[k]
      BY <3>1, <3>3, <3>4
    <3>8. entry'[s].status[c] = {"INIT"}
      BY <3>3, <3>5
    <3> HIDE DEF c
    <3>9. QED
      BY <3>4, <3>6, <3>7, <3>8 DEF Active, NoneClosed
  <2>3. QED
    BY <2>1, <2>2
<1>6. ActiveInv'
  BY <1>2, <1>5 DEF WrapperInv, ActiveInv
<1>7. RunInv'
  BY <1>2, <1>5 DEF WrapperInv, RunInv
<1>8. RateInv'
  BY <1>2, <1>5 DEF WrapperInv, RateInv
<1>9. QED
  BY <1>1, <1>3, <1>4, <1>6, <1>7, <1>8 DEF WrapperInv

(* Touching one client's slot leaves the others at a driver as they were.  *)
LEMMA TouchSlots ==
  ASSUME AttachInv, NEW d \in Clients, Touches(d), NEW s \in Drivers
  PROVE  /\ Used(entry'[s]) = Used(entry[s]) /\ Used(entry[s]) \subseteq Slots
         /\ entry'[s].api = entry[s].api
         /\ s \notin At(d) => entry'[s] = entry[s]
         /\ s \in At(d) => /\ access[d][s] \in Used(entry[s])
                           /\ entry[s].api[access[d][s]] = d
         /\ \A c \in Used(entry[s]) :
              /\ entry[s].api[c] = d <=> s \in At(d) /\ c = access[d][s]
              /\ entry[s].api[c] # d => /\ entry'[s].status[c] = entry[s].status[c]
                                        /\ entry'[s].rate[c] = entry[s].rate[c]
<1>1. Used(entry[s]) \subseteq Slots
  BY SlotLeft
<1>2. entry'[s].nr = entry[s].nr /\ entry'[s].api = entry[s].api
  BY DEF Touches
<1>3. s \in At(d) => access[d][s] \in Used(entry[s]) /\ entry[s].api[access[d][s]] = d
  BY DEF AttachInv
<1>4. \A c \in Used(entry[s]) : entry[s].api[c] = d <=> s \in At(d) /\ c = access[d][s]
  BY <1>3 DEF AttachInv
<1>5. s \notin At(d) => entry'[s] = entry[s]
  BY DEF Touches
<1>6. s \in At(d) => \A k \in Slots \ {access[d][s]} :
        entry'[s].status[k] = entry[s].status[k] /\ entry'[s].rate[k] = entry[s].rate[k]
  BY DEF Touches
<1>7. QED
  BY <1>1, <1>2, <1>3, <1>4, <1>5, <1>6 DEF Used

(* The counts after a step that touches a client's slots.                  *)
LEMMA CountsAfter ==
  ASSUME AttachInv, NEW d \in Clients, Touches(d), NEW s \in Drivers
  PROVE  /\ list_get_status(entry'[s], "ACTIVE") = 0 <=> Active(s)' = {}
         /\ list_get_status(entry'[s], "CLOSE") = 0 <=> NoneClosed(s)'
         /\ list_get_rate(entry'[s]) \in RateSet
<1>1. entry'[s] \in Entry /\ Used(entry'[s]) \subseteq Slots
  BY TouchAttach, TouchSlots DEF AttachInv
<1>2. /\ list_get_status(entry'[s], "ACTIVE") = 0
           <=> \A c \in Used(entry'[s]) : "ACTIVE" \notin entry'[s].status[c]
      /\ list_get_status(entry'[s], "CLOSE") = 0
           <=> \A c \in Used(entry'[s]) : "CLOSE" \notin entry'[s].status[c]
  BY <1>1, StatusZero
<1>3. list_get_rate(entry'[s]) \in RateSet
  BY <1>1, RateType
<1>4. QED
  BY <1>2, <1>3 DEF Active, NoneClosed

(* An enable or a disable switches the driver when the set of its active   *)
(* clients becomes nonempty or empty, and keeps it at the smallest rate.   *)
LEMMA ActivatePreserves ==
  ASSUME WrapperInv, NEW d \in Clients, NEW enable \in BOOLEAN, NEW act_ok, NEW rate_ok,
         sensors_wrapper_activate(d, enable, act_ok, rate_ok)
  PROVE  WrapperInv'
<1> DEFINE new(s) == list_get_rate(entry'[s])
           old(s) == list_get_rate(entry[s])
           switched(s) == s \in At(d) /\ Switched(d, s, enable)
           repaced(s) == s \in At(d) /\ Repaced(d, s, enable)
<1>1. AttachInv /\ Touches(d)
  BY ActivateTouches DEF WrapperInv
<1>2. AttachInv'
  BY <1>1, TouchAttach
<1>3. \A s \in At(d) :
        /\ s \in Drivers
        /\ entry'[s] = Activated(d, s, enable)
        /\ entry'[s].status[access[d][s]] =
             IF enable THEN entry[s].status[access[d][s]] \cup {"ACTIVE"}
             ELSE entry[s].status[access[d][s]] \ {"ACTIVE"}
        /\ entry'[s].rate[access[d][s]] =
             IF enable THEN entry[s].rate[access[d][s]] ELSE NO_RATE
  <2>1. At(d) \subseteq Drivers
    BY <1>1 DEF AttachInv
  <2>2. \A s \in At(d) :
          /\ entry'[s] = Activated(d, s, enable)
          /\ entry'[s].status[access[d][s]] =
               IF enable THEN entry[s].status[access[d][s]] \cup {"ACTIVE"}
               ELSE entry[s].status[access[d][s]] \ {"ACTIVE"}
          /\ entry'[s].rate[access[d][s]] =
               IF enable THEN entry[s].rate[access[d][s]] ELSE NO_RATE
    BY <1>1, ActivateTouches
  <2>3. QED
    BY <2>1, <2>2
<1>4. \A s \in Drivers : hw[s] \in [on : BOOLEAN, delay : RateSet, closed : BOOLEAN]
  BY DEF WrapperInv, TypeInv
<1>5. ASSUME NEW s \in Drivers
      PROVE  /\ hw'[s] \in [on : BOOLEAN, delay : RateSet, closed : BOOLEAN]
             /\ hw'[s].closed = hw[s].closed
             /\ hw'[s].on = IF switched(s) /\ s \in act_ok THEN enable ELSE hw[s].on
             /\ hw'[s].delay = IF repaced(s) /\ s \in rate_ok THEN new(s) ELSE hw[s].delay
  <2> DEFINE on == IF switched(s) /\ s \in act_ok THEN enable ELSE hw[s].on
             delay == IF repaced(s) /\ s \in rate_ok THEN new(s) ELSE hw[s].delay
  <2>1. hw'[s] = [hw[s] EXCEPT !.on = on, !.delay = delay]
    BY <1>3 DEF sensors_wrapper_activate
  <2>2. on \in BOOLEAN /\ delay \in RateSet
    <3>1. new(s) \in RateSet
      BY <1>1, CountsAfter
    <3>2. QED
      BY <1>4, <3>1
  <2> HIDE DEF on, delay
  <2>3. QED
    BY <1>4, <2>1, <2>2 DEF on, delay
<1>6. \A s \in Drivers : /\ acted'[s] = IF switched(s) THEN s \in act_ok ELSE acted[s]
                         /\ paced'[s] = IF repaced(s) THEN s \in rate_ok ELSE paced[s]
  BY <1>1 DEF sensors_wrapper_activate
<1>7. wants' = IF enable THEN wants \cup {d} ELSE wants \ {d}
  BY DEF sensors_wrapper_activate
<1>8. TypeInv'
  <2>1. hw' \in [Drivers -> [on : BOOLEAN, delay : RateSet, closed : BOOLEAN]]
    <3>1. hw' = [s \in Drivers |-> hw'[s]]
      BY DEF sensors_wrapper_activate
    <3>2. \A s \in Drivers : hw'[s] \in [on : BOOLEAN, delay : RateSet, closed : BOOLEAN]
      BY <1>5
    <3>3. QED
      BY <3>1, <3>2
  <2>2. acted' \in [Drivers -> BOOLEAN] /\ paced' \in [Drivers -> BOOLEAN]
    <3>1. acted \in [Drivers -> BOOLEAN] /\ paced \in [Drivers -> BOOLEAN]
      BY DEF WrapperInv, TypeInv
    <3>2. ASSUME NEW s \in Drivers
          PROVE  acted'[s] \in BOOLEAN /\ paced'[s] \in BOOLEAN
      <4>1. acted[s] \in BOOLEAN /\ paced[s] \in BOOLEAN
        BY <3>1
      <4>2. (s \in act_ok) \in BOOLEAN /\ (s \in rate_ok) \in BOOLEAN
        OBVIOUS
      <4>3. acted'[s] \in BOOLEAN
        BY <1>6, <4>1, <4>2, Zenon
      <4>4. paced'[s] \in BOOLEAN
        BY <1>6, <4>1, <4>2, Zenon
      <4>5. QED
        BY <4>3, <4>4
    <3>3. /\ acted' = [s \in Drivers |-> acted'[s]]
          /\ paced' = [s \in Drivers |-> paced'[s]]
      BY DEF sensors_wrapper_activate
    <3>4. QED
      BY <3>2, <3>3
  <2>3. rv' \in {0, -1}
    BY DEF sensors_wrapper_activate
  <2>4. wants' \subseteq Clients
    BY <1>7 DEF WrapperInv, TypeInv
  <2>5. QED
    BY <2>1, <2>2, <2>3, <2>4 DEF TypeInv
<1>9. HeardInv'
  BY SilenceHeard DEF sensors_wrapper_activate
<1>10. ASSUME NEW s \in Drivers
       PROVE  Active(s)' = IF s \in At(d)
                           THEN IF enable THEN Active(s) \cup {access[d][s]} ELSE Active(s) \ {access[d][s]}
                           ELSE Active(s)
  <2>1. /\ Used(entry'[s]) = Used(entry[s])
        /\ s \notin At(d) => entry'[s] = entry[s]
        /\ s \in At(d) => access[d][s] \in Used(entry[s])
        /\ \A c \in Used(entry[s]) : ~(s \in At(d) /\ c = access[d][s])
             => entry'[s].status[c] = entry[s].status[c]
    BY <1>1, TouchSlots
  <2>2. s \in At(d) => entry'[s].status[access[d][s]] =
                         IF enable THEN entry[s].status[access[d][s]] \cup {"ACTIVE"}
                         ELSE entry[s].status[access[d][s]] \ {"ACTIVE"}
    BY <1>3
  <2>3. QED
    BY <2>1, <2>2 DEF Active
<1>11. ActiveInv'
  <2> SUFFICES ASSUME NEW s \in Drivers, NEW c \in Active(s)'
               PROVE  entry'[s].api[c] \in wants'
    BY DEF ActiveInv
  <2>1. c \in Used(entry[s]) /\ entry'[s].api = entry[s].api
    BY <1>1, TouchSlots DEF Active
  <2>2. entry[s].api[c] = d <=> s \in At(d) /\ c = access[d][s]
    BY <1>1, <2>1, TouchSlots
  <2>3. CASE entry[s].api[c] = d
    BY <1>7, <1>10, <2>1, <2>2, <2>3
  <2>4. CASE entry[s].api[c] # d
    BY <1>7, <1>10, <2>1, <2>2, <2>4 DEF WrapperInv, ActiveInv
  <2>5. QED
    BY <2>3, <2>4
<1>12. RunInv'
  <2> SUFFICES ASSUME NEW s \in Drivers, acted'[s], ~hw'[s].closed
               PROVE  hw'[s].on <=> Active(s)' # {}
    BY DEF RunInv
  <2>1. CASE switched(s)
    <3>1. IF enable THEN Active(s) = {} ELSE Active(s)' = {}
      <4>1. IF enable THEN list_get_status(entry[s], "ACTIVE") = 0
            ELSE list_get_status(entry'[s], "ACTIVE") = 0
        BY <1>3, <2>1 DEF Switched
      <4>2. QED
        BY <1>1, <4>1, Counts, CountsAfter
    <3>2. s \in act_ok
      BY <1>6, <2>1
    <3>3. QED
      BY <1>5, <1>10, <2>1, <3>1, <3>2
  <2>2. CASE ~switched(s)
    <3>1. hw[s].on <=> Active(s) # {}
      BY <1>5, <1>6, <2>2 DEF WrapperInv, RunInv
    <3>2. s \in At(d) => IF enable THEN Active(s) # {} ELSE Active(s)' # {}
      <4>1. s \in At(d) => IF enable THEN list_get_status(entry[s], "ACTIVE") # 0
                           ELSE list_get_status(entry'[s], "ACTIVE") # 0
        BY <1>3, <2>2 DEF Switched
      <4>2. QED
        BY <1>1, <4>1, Counts, CountsAfter
    <3>3. QED
      BY <1>5, <1>10, <2>2, <3>1, <3>2
  <2>3. QED
    BY <2>1, <2>2
<1>13. RateInv'
  <2> SUFFICES ASSUME NEW s \in Drivers, paced'[s], NoneClosed(s)', new(s) # NO_RATE
               PROVE  hw'[s].delay = new(s)
    BY DEF RateInv
  <2>1. NoneClosed(s)
    <3>1. /\ Used(entry'[s]) = Used(entry[s])
          /\ \A c \in Used(entry[s]) : ~(s \in At(d) /\ c = access[d][s])
               => entry'[s].status[c] = entry[s].status[c]
      BY <1>1, TouchSlots
    <3>2. s \in At(d) => \/ "CLOSE" \in entry'[s].status[access[d][s]]
                         \/ "CLOSE" \notin entry[s].status[access[d][s]]
      BY <1>3
    <3>3. QED
      BY <3>1, <3>2 DEF NoneClosed
  <2>2. CASE repaced(s)
    BY <1>5, <1>6, <2>2
  <2>3. CASE ~repaced(s)
    <3>1. new(s) = old(s)
      <4>1. CASE s \notin At(d)
        BY <1>1, <4>1, TouchSlots
      <4>2. CASE s \in At(d) /\ ~enable
        BY <1>3, <2>3, <4>2 DEF Repaced
      <4>3. CASE s \in At(d) /\ enable
        <5>1. entry'[s].nr = entry[s].nr
          BY <1>1 DEF Touches
        <5>2. \A c \in Used(entry'[s]) : entry'[s].rate[c] = entry[s].rate[c]
          <6>1. /\ Used(entry'[s]) = Used(entry[s])
                /\ \A c \in Used(entry[s]) : c # access[d][s]
                     => entry'[s].rate[c] = entry[s].rate[c]
            BY <1>1, TouchSlots
          <6>2. entry'[s].rate[access[d][s]] = entry[s].rate[access[d][s]]
            BY <1>3, <4>3
          <6>3. QED
            BY <6>1, <6>2
        <5>3. QED
          BY <5>1, <5>2, RateOfUsed
      <4>4. QED
        BY <4>1, <4>2, <4>3
    <3>2. QED
      BY <1>5, <1>6, <2>1, <2>3, <3>1 DEF WrapperInv, RateInv
  <2>4. QED
    BY <2>2, <2>3
<1>14. QED
  BY <1>2, <1>8, <1>9, <1>11, <1>12, <1>13 DEF WrapperInv

(* set_delay passes the smallest rate on when it has changed.              *)
LEMMA DelayPreserves ==
  ASSUME WrapperInv, NEW d \in Clients, NEW ns \in RateSet, NEW rate_ok,
         sensors_wrapper_set_delay(d, ns, rate_ok)
  PROVE  WrapperInv'
<1> DEFINE new(s) == list_get_rate(entry'[s])
           old(s) == list_get_rate(entry[s])
           delayed(s) == s \in At(d) /\ new(s) # old(s)
<1>1. AttachInv /\ Touches(d)
  BY DelayTouches DEF WrapperInv
<1>2. AttachInv'
  BY <1>1, TouchAttach
<1>3. \A s \in At(d) : /\ entry'[s] = Delayed(d, s, ns)
                       /\ entry'[s].status = entry[s].status
  BY <1>1, DelayTouches
<1>4. \A s \in Drivers : hw[s] \in [on : BOOLEAN, delay : RateSet, closed : BOOLEAN]
  BY DEF WrapperInv, TypeInv
<1>5. ASSUME NEW s \in Drivers
      PROVE  /\ hw'[s] \in [on : BOOLEAN, delay : RateSet, closed : BOOLEAN]
             /\ hw'[s].closed = hw[s].closed /\ hw'[s].on = hw[s].on
             /\ hw'[s].delay = IF delayed(s) /\ s \in rate_ok THEN new(s) ELSE hw[s].delay
  <2> DEFINE delay == IF delayed(s) /\ s \in rate_ok THEN new(s) ELSE hw[s].delay
  <2>1. delay \in RateSet
    <3>1. new(s) \in RateSet
      BY <1>1, CountsAfter
    <3>2. QED
      BY <1>4, <3>1
  <2>2. hw'[s] = IF delayed(s) /\ s \in rate_ok THEN [hw[s] EXCEPT !.delay = new(s)] ELSE hw[s]
    BY <1>3 DEF sensors_wrapper_set_delay
  <2> HIDE DEF new
  <2>3. QED
    BY <1>4, <2>1, <2>2
<1>6. \A s \in Drivers : paced'[s] = IF delayed(s) THEN s \in rate_ok ELSE paced[s]
  BY <1>3 DEF sensors_wrapper_set_delay
<1>7. acted' = acted /\ wants' = wants
  BY DEF sensors_wrapper_set_delay
<1>8. TypeInv'
  <2>1. hw' \in [Drivers -> [on : BOOLEAN, delay : RateSet, closed : BOOLEAN]]
    <3>1. hw' = [s \in Drivers |-> hw'[s]]
      BY DEF sensors_wrapper_set_delay
    <3>2. \A s \in Drivers : hw'[s] \in [on : BOOLEAN, delay : RateSet, closed : BOOLEAN]
      BY <1>5
    <3>3. QED
      BY <3>1, <3>2
  <2>2. paced' \in [Drivers -> BOOLEAN]
    <3>1. ASSUME NEW s \in Drivers
          PROVE  paced'[s] \in BOOLEAN
      <4>1. paced[s] \in BOOLEAN
        BY DEF WrapperInv, TypeInv
      <4>2. (s \in rate_ok) \in BOOLEAN
        OBVIOUS
      <4>3. QED
        BY <1>6, <4>1, <4>2, Zenon
    <3>2. paced' = [s \in Drivers |-> paced'[s]]
      BY DEF sensors_wrapper_set_delay
    <3>3. QED
      BY <3>1, <3>2
  <2>3. rv' \in {0, -1}
    BY DEF sensors_wrapper_set_delay
  <2>4. QED
    BY <1>7, <2>1, <2>2, <2>3 DEF WrapperInv, TypeInv
<1>9. HeardInv'
  BY SilenceHeard DEF sensors_wrapper_set_delay
<1>10. ASSUME NEW s \in Drivers
       PROVE  /\ Used(entry'[s]) = Used(entry[s]) /\ entry'[s].api = entry[s].api
              /\ Active(s)' = Active(s) /\ (NoneClosed(s)' <=> NoneClosed(s))
  <2>1. /\ Used(entry'[s]) = Used(entry[s]) /\ entry'[s].api = entry[s].api
        /\ s \notin At(d) => entry'[s] = entry[s]
    BY <1>1, TouchSlots
  <2>2. entry'[s].status = entry[s].status
    BY <1>3, <2>1
  <2>3. QED
    BY <2>1, <2>2 DEF Active, NoneClosed
<1>11. ActiveInv'
  BY <1>7, <1>10 DEF WrapperInv, ActiveInv
<1>12. RunInv'
  BY <1>5, <1>7, <1>10 DEF WrapperInv, RunInv
<1>13. RateInv'
  <2> SUFFICES ASSUME NEW s \in Drivers, paced'[s], NoneClosed(s)', new(s) # NO_RATE
               PROVE  hw'[s].delay = new(s)
    BY DEF RateInv
  <2>1. CASE delayed(s)
    BY <1>5, <1>6, <2>1
  <2>2. CASE ~delayed(s)
    <3>1. new(s) = old(s)
      BY <1>1, <2>2 DEF Touches
    <3>2. QED
      BY <1>5, <1>6, <1>10, <2>2, <3>1 DEF WrapperInv, RateInv
  <2>3. QED
    BY <2>1, <2>2
<1>14. QED
  BY <1>2, <1>8, <1>9, <1>11, <1>12, <1>13 DEF WrapperInv

(* A close takes the client's drivers out of the promise on the delay, and *)
(* those it closes out of both.                                            *)
LEMMA ClosePreserves ==
  ASSUME WrapperInv, NEW d \in Clients, sensors_wrapper_close(d)
  PROVE  WrapperInv'
<1>1. AttachInv /\ Touches(d)
  BY CloseTouches DEF WrapperInv
<1>2. AttachInv'
  BY <1>1, TouchAttach
<1>3. \A s \in At(d) :
        entry'[s].status[access[d][s]] = entry[s].status[access[d][s]] \cup {"CLOSE"}
  BY <1>1, CloseTouches
<1>4. \A s \in Drivers : hw[s] \in [on : BOOLEAN, delay : RateSet, closed : BOOLEAN]
  BY DEF WrapperInv, TypeInv
<1>5. ASSUME NEW s \in Drivers
      PROVE  /\ hw'[s] \in [on : BOOLEAN, delay : RateSet, closed : BOOLEAN]
             /\ ~hw'[s].closed => hw'[s] = hw[s]
             /\ s \notin At(d) => hw'[s] = hw[s]
  BY <1>4 DEF sensors_wrapper_close
<1>6. acted' = acted /\ paced' = paced /\ wants' = wants /\ rv' = rv
  BY DEF sensors_wrapper_close
<1>7. TypeInv'
  <2>1. hw' = [s \in Drivers |-> hw'[s]]
    BY DEF sensors_wrapper_close
  <2>2. \A s \in Drivers : hw'[s] \in [on : BOOLEAN, delay : RateSet, closed : BOOLEAN]
    BY <1>5
  <2>3. QED
    BY <1>6, <2>1, <2>2 DEF WrapperInv, TypeInv
<1>8. HeardInv'
  BY SilenceHeard DEF sensors_wrapper_close
<1>9. ASSUME NEW s \in Drivers
      PROVE  /\ Used(entry'[s]) = Used(entry[s]) /\ entry'[s].api = entry[s].api
             /\ Active(s)' = Active(s)
             /\ s \in At(d) => ~NoneClosed(s)'
             /\ s \notin At(d) => entry'[s] = entry[s]
  <2>1. /\ Used(entry'[s]) = Used(entry[s]) /\ entry'[s].api = entry[s].api
        /\ s \notin At(d) => entry'[s] = entry[s]
        /\ s \in At(d) => access[d][s] \in Used(entry[s])
        /\ \A c \in Used(entry[s]) : ~(s \in At(d) /\ c = access[d][s])
             => entry'[s].status[c] = entry[s].status[c]
    BY <1>1, TouchSlots
  <2>2. s \in At(d) => entry'[s].status[access[d][s]] = entry[s].status[access[d][s]] \cup {"CLOSE"}
    BY <1>3
  <2>3. QED
    BY <2>1, <2>2 DEF Active, NoneClosed
<1>10. ActiveInv'
  BY <1>6, <1>9 DEF WrapperInv, ActiveInv
<1>11. RunInv'
  BY <1>5, <1>6, <1>9 DEF WrapperInv, RunInv
<1>12. RateInv'
  <2> SUFFICES ASSUME NEW s \in Drivers, paced'[s], NoneClosed(s)',
                      list_get_rate(entry'[s]) # NO_RATE
               PROVE  hw'[s].delay = list_get_rate(entry'[s])
    BY DEF RateInv
  <2>1. s \notin At(d) /\ entry'[s] = entry[s] /\ hw'[s] = hw[s]
    BY <1>5, <1>9
  <2>2. NoneClosed(s)
    BY <2>1 DEF NoneClosed
  <2>3. QED
    BY <1>6, <2>1, <2>2 DEF WrapperInv, RateInv
<1>13. QED
  BY <1>2, <1>7, <1>8, <1>10, <1>11, <1>12 DEF WrapperInv

(* The attachments stand on entry and access alone.                        *)
LEMMA SameAttach == ASSUME AttachInv, UNCHANGED <<entry, access>>
                    PROVE  AttachInv'
<1> USE DEF At, Used
<1>1. entry' = entry /\ access' = access
  OBVIOUS
<1>2. \A s \in Drivers : Members(s)' = Members(s)
  BY <1>1 DEF Members
<1>3. (\A s \in Drivers : entry[s].nr = Cardinality(Members(s)))'
  BY <1>1, <1>2 DEF AttachInv
<1>4. (\A d \in Clients : \A s \in At(d) :
         /\ Matches(d, s)
         /\ access[d][s] \in Used(entry[s])
         /\ entry[s].api[access[d][s]] = d)'
  BY <1>1 DEF AttachInv, Matches
<1>5. (\A s \in Drivers : \A c \in Used(entry[s]) :
         /\ entry[s].api[c] \in Clients
         /\ s \in At(entry[s].api[c])
         /\ access[entry[s].api[c]][s] = c)'
  BY <1>1 DEF AttachInv
<1>6. /\ (entry \in [Drivers -> Entry])'
      /\ (access = [d \in Clients |-> access[d]])'
      /\ (\A d \in Clients : At(d) \subseteq Drivers /\ access[d] \in [At(d) -> Slots])'
      /\ (\A d \in Clients : \A s, t \in At(d) : Type[s] = Type[t] => s = t)'
      /\ (\A s \in Drivers : \A c \in Slots \ Used(entry[s]) :
            entry[s].status[c] = {} /\ entry[s].rate[c] = NO_RATE)'
  BY <1>1 DEF AttachInv
<1>7. QED
  BY <1>3, <1>4, <1>5, <1>6 DEF AttachInv

(* A sample changes nothing but who heard it.                              *)
LEMMA DataPreserves ==
  ASSUME WrapperInv, NEW s \in Drivers, sensors_wrapper_data(s)
  PROVE  WrapperInv'
<1>1. /\ entry' = entry /\ access' = access /\ hw' = hw /\ rv' = rv
      /\ acted' = acted /\ paced' = paced /\ wants' = wants
  BY DEF sensors_wrapper_data
<1>2. AttachInv' /\ TypeInv' /\ ActiveInv' /\ RunInv' /\ RateInv'
  <2>1. AttachInv'
    BY <1>1, SameAttach DEF WrapperInv
  <2>2. TypeInv'
    BY <1>1 DEF WrapperInv, TypeInv
  <2>3. \A t \in Drivers : Active(t)' = Active(t) /\ (NoneClosed(t)' <=> NoneClosed(t))
    BY <1>1 DEF Active, NoneClosed
  <2>4. ActiveInv' /\ RunInv' /\ RateInv'
    BY <1>1, <2>3 DEF WrapperInv, ActiveInv, RunInv, RateInv
  <2>5. QED
    BY <2>1, <2>2, <2>4
<1>3. HeardInv'
  <2>1. heard' = [from |-> s, to |-> {entry[s].api[c] : c \in Active(s)}]
    BY DEF sensors_wrapper_data, Active
  <2>2. {entry[s].api[c] : c \in Active(s)} \subseteq Clients
    BY DEF WrapperInv, ActiveInv, TypeInv
  <2>3. Active(s)' = Active(s)
    BY <1>1 DEF Active
  <2>4. QED
    BY <1>1, <2>1, <2>2, <2>3 DEF HeardInv
<1>4. QED
  BY <1>2, <1>3 DEF WrapperInv

LEMMA StutterPreserves == ASSUME WrapperInv, UNCHANGED wrapperVars
                          PROVE  WrapperInv'
<1>1. /\ entry' = entry /\ access' = access /\ hw' = hw /\ rv' = rv
      /\ acted' = acted /\ paced' = paced /\ wants' = wants /\ heard' = heard
  BY DEF wrapperVars
<1>2. AttachInv'
  BY <1>1, SameAttach DEF WrapperInv
<1>3. TypeInv'
  BY <1>1 DEF WrapperInv, TypeInv
<1>4. \A s \in Drivers : Active(s)' = Active(s) /\ (NoneClosed(s)' <=> NoneClosed(s))
  BY <1>1 DEF Active, NoneClosed
<1>5. ActiveInv' /\ RunInv' /\ RateInv' /\ HeardInv'
  BY <1>1, <1>4 DEF WrapperInv, ActiveInv, RunInv, RateInv, HeardInv
<1>6. QED
  BY <1>2, <1>3, <1>5 DEF WrapperInv

(* Nobody is attached yet.                                                 *)
LEMMA InitHolds == ASSUME WrapperInit
                   PROVE  WrapperInv
<1> USE DEF At, Used
<1>1. /\ \A s \in Drivers : /\ entry[s] \in Entry /\ entry[s].nr = 0 /\ Used(entry[s]) = {}
                            /\ \A c \in Slots : /\ entry[s].status[c] = {}
                                                /\ entry[s].rate[c] = NO_RATE
      /\ entry = [s \in Drivers |-> entry[s]]
  BY DEF WrapperInit, Entry, RateSet
<1>2. /\ access = [d \in Clients |-> access[d]]
      /\ \A d \in Clients : At(d) = {} /\ access[d] \in [At(d) -> Slots]
  BY DEF WrapperInit
<1>3. \A s \in Drivers : Cardinality(Members(s)) = 0
  <2>1. \A s \in Drivers : Members(s) = {}
    BY <1>2 DEF Members
  <2>2. QED
    BY <2>1, FS_EmptySet
<1>4. AttachInv
  BY <1>1, <1>2, <1>3 DEF AttachInv
<1>5. \A s \in Drivers : Active(s) = {} /\ list_get_rate(entry[s]) = NO_RATE
  BY <1>1 DEF Active, list_get_rate
<1>6. TypeInv
  BY DEF WrapperInit, TypeInv, RateSet
<1>7. ActiveInv /\ RunInv /\ RateInv
  BY <1>5 DEF ActiveInv, RunInv, RateInv, WrapperInit
<1>8. HeardInv
  <2>1. \A s \in Drivers : s # 0
    BY WrapperAssumption DEF WrapperAssumption
  <2>2. QED
    BY <2>1 DEF HeardInv, WrapperInit, Silence
<1>9. QED
  BY <1>4, <1>6, <1>7, <1>8 DEF WrapperInv

(* The inductive invariant: it holds of every state of the specification.  *)
THEOREM WrapperInvariant == WrapperSpec => []WrapperInv
<1>1. WrapperInit => WrapperInv
  BY InitHolds
<1>2. WrapperInv /\ [WrapperNext]_wrapperVars => WrapperInv'
  <2> SUFFICES ASSUME WrapperInv, [WrapperNext]_wrapperVars
               PROVE  WrapperInv'
    OBVIOUS
  <2>1. ASSUME NEW d \in Clients, NEW init_ok \in Accepting(d), sensors_wrapper_init(d, init_ok)
        PROVE  WrapperInv'
    BY <2>1, InitPreserves
  <2>2. ASSUME NEW d \in Clients, NEW enable \in BOOLEAN,
               NEW act_ok \in Accepting(d), NEW rate_ok \in Accepting(d),
               sensors_wrapper_activate(d, enable, act_ok, rate_ok)
        PROVE  WrapperInv'
    BY <2>2, ActivatePreserves
  <2>3. ASSUME NEW d \in Clients, NEW ns \in Rates \cup {NO_RATE}, NEW rate_ok \in Accepting(d),
               sensors_wrapper_set_delay(d, ns, rate_ok)
        PROVE  WrapperInv'
    BY <2>3, DelayPreserves DEF RateSet
  <2>4. ASSUME NEW d \in Clients, sensors_wrapper_close(d)
        PROVE  WrapperInv'
    BY <2>4, ClosePreserves
  <2>5. ASSUME NEW s \in Drivers, sensors_wrapper_data(s)
        PROVE  WrapperInv'
    BY <2>5, DataPreserves
  <2>6. CASE UNCHANGED wrapperVars
    BY <2>6, StutterPreserves
  <2>7. QED
    BY <2>1, <2>2, <2>3, <2>4, <2>5, <2>6 DEF WrapperNext
<1>3. QED
  BY <1>1, <1>2, PTL DEF WrapperSpec

(* Every variable keeps its type, and no entry gets more clients than it   *)
(* has slots, though sensors_wrapper_init does not check.                  *)
THEOREM WrapperTypeOK == WrapperSpec => []WrapperTypes
<1>1. WrapperInv => WrapperTypes
  <2> SUFFICES ASSUME WrapperInv
               PROVE  WrapperTypes
    OBVIOUS
  <2>1. \A s \in Drivers : entry[s].nr \in 0..MAX_SENSOR_CONNECTIONS
    <3> SUFFICES ASSUME NEW s \in Drivers
                 PROVE  entry[s].nr \in 0..MAX_SENSOR_CONNECTIONS
      OBVIOUS
    <3>1. entry[s].nr \in Nat /\ 1..entry[s].nr \subseteq Slots
      BY SlotLeft DEF WrapperInv, AttachInv, Entry, Used
    <3>2. QED
      BY <3>1, WrapperAssumption DEF Slots, WrapperAssumption
  <2>2. entry \in [Drivers -> [nr : 0..MAX_SENSOR_CONNECTIONS,
                               api : [Slots -> Clients \cup {NoClient}],
                               status : [Slots -> SUBSET {"CLOSE", "INIT", "ACTIVE"}],
                               rate : [Slots -> Rates \cup {NO_RATE}]]]
    BY <2>1 DEF WrapperInv, AttachInv, Entry, Flags, RateSet
  <2>3. /\ DOMAIN access = Clients
        /\ \A d \in Clients : access[d] \in [At(d) -> Slots] /\ At(d) \subseteq Drivers
    BY DEF WrapperInv, AttachInv
  <2>4. /\ hw \in [Drivers -> [on : BOOLEAN, delay : Rates \cup {NO_RATE}, closed : BOOLEAN]]
        /\ rv \in {0, -1}
        /\ acted \in [Drivers -> BOOLEAN] /\ paced \in [Drivers -> BOOLEAN]
        /\ wants \subseteq Clients
        /\ heard \in [from : Drivers \cup {0}, to : SUBSET Clients]
    BY DEF WrapperInv, TypeInv, HeardInv, RateSet
  <2>5. QED
    BY <2>2, <2>3, <2>4 DEF WrapperTypes
<1>2. QED
  BY <1>1, WrapperInvariant, PTL

(* The list's record of an attachment and the client's agree, so that no   *)
(* call of a client ever touches the slot of another.                      *)
THEOREM WrapperAttachedBothWays == WrapperSpec => []AttachedBothWays
<1>1. WrapperInv => AttachedBothWays
  BY SlotLeft DEF WrapperInv, AttachInv, AttachedBothWays
<1>2. QED
  BY <1>1, WrapperInvariant, PTL

(* The slots that are active, seen from the clients.                       *)
LEMMA ActiveClients ==
  ASSUME WrapperInv, NEW s \in Drivers
  PROVE  /\ \A c \in Active(s) : LET d == entry[s].api[c]
              IN  d \in wants /\ s \in At(d) /\ access[d][s] = c
         /\ \A d \in wants : s \in At(d) /\ "ACTIVE" \in entry[s].status[access[d][s]]
              => access[d][s] \in Active(s) /\ entry[s].api[access[d][s]] = d
<1>1. \A c \in Active(s) : LET d == entry[s].api[c]
        IN  d \in wants /\ s \in At(d) /\ access[d][s] = c
  BY DEF WrapperInv, AttachInv, ActiveInv, Active
<1>2. \A d \in wants : s \in At(d) /\ "ACTIVE" \in entry[s].status[access[d][s]]
        => access[d][s] \in Active(s) /\ entry[s].api[access[d][s]] = d
  BY DEF WrapperInv, AttachInv, TypeInv, Active
<1>3. QED
  BY <1>1, <1>2

(* A driver runs exactly while some client attached to it is enabled,      *)
(* unless it refused the call that would have made it so.                  *)
THEOREM WrapperRunsWhileWanted == WrapperSpec => []RunsWhileWanted
<1>1. WrapperInv => RunsWhileWanted
  <2> SUFFICES ASSUME WrapperInv, NEW s \in Drivers, acted[s], ~hw[s].closed
               PROVE  hw[s].on <=> \E d \in wants :
                        s \in At(d) /\ "ACTIVE" \in entry[s].status[access[d][s]]
    BY DEF RunsWhileWanted
  <2>1. hw[s].on <=> Active(s) # {}
    BY DEF WrapperInv, RunInv
  <2>2. ASSUME NEW c \in Active(s)
        PROVE  \E d \in wants : s \in At(d) /\ "ACTIVE" \in entry[s].status[access[d][s]]
    BY ActiveClients DEF Active
  <2>3. ASSUME NEW d \in wants, s \in At(d), "ACTIVE" \in entry[s].status[access[d][s]]
        PROVE  Active(s) # {}
    BY <2>3, ActiveClients
  <2>4. QED
    BY <2>1, <2>2, <2>3
<1>2. QED
  BY <1>1, WrapperInvariant, PTL

(* A driver that accepted its last set_delay runs at the smallest delay    *)
(* its open clients have asked for, whatever calls came before.            *)
THEOREM WrapperAtFastestRate == WrapperSpec => []AtFastestRate
<1>1. WrapperInv => AtFastestRate
  BY Counts DEF WrapperInv, RateInv, AtFastestRate
<1>2. QED
  BY <1>1, WrapperInvariant, PTL

(* A sample goes to the enabled clients of its driver, and to no other.    *)
THEOREM WrapperHeardByWanting == WrapperSpec => []HeardByWanting
<1>1. WrapperInv => HeardByWanting
  <2> SUFFICES ASSUME WrapperInv, NEW s \in Drivers, heard.from = s
               PROVE  heard.to = {d \in wants : s \in At(d)
                                    /\ "ACTIVE" \in entry[s].status[access[d][s]]}
    BY DEF HeardByWanting
  <2>1. heard.to = {entry[s].api[c] : c \in Active(s)}
    BY DEF WrapperInv, HeardInv
  <2>2. QED
    BY <2>1, ActiveClients DEF Active
<1>2. QED
  BY <1>1, WrapperInvariant, PTL

(* No step turns a driver off while a client of it stays active, even one  *)
(* that some driver refuses part of: only its last user's disable does.    *)
THEOREM WrapperStopsOnlyUnused == WrapperSpec => StopsOnlyUnused
<1>1. ASSUME WrapperInv, [WrapperNext]_wrapperVars
      PROVE  [\A s \in Drivers : hw[s].on /\ ~hw'[s].on /\ ~hw'[s].closed
               => \A c \in 1..entry'[s].nr : "ACTIVE" \notin entry'[s].status[c]]_wrapperVars
  <2> SUFFICES ASSUME NEW s \in Drivers, hw[s].on, ~hw'[s].on, ~hw'[s].closed
               PROVE  \A c \in 1..entry'[s].nr : "ACTIVE" \notin entry'[s].status[c]
    OBVIOUS
  <2>1. ASSUME NEW d \in Clients, NEW enable \in BOOLEAN, NEW act_ok, NEW rate_ok,
               sensors_wrapper_activate(d, enable, act_ok, rate_ok)
        PROVE  \A c \in 1..entry'[s].nr : "ACTIVE" \notin entry'[s].status[c]
    <3>1. s \in At(d) /\ Switched(d, s, enable) /\ ~enable
      BY <1>1, <2>1 DEF sensors_wrapper_activate, WrapperInv, TypeInv
    <3>2. list_get_status(entry'[s], "ACTIVE") = 0
      BY <1>1, <2>1, <3>1 DEF sensors_wrapper_activate, Switched
    <3>3. AttachInv /\ Touches(d)
      BY <1>1, <2>1, ActivateTouches DEF WrapperInv
    <3>4. QED
      BY <3>2, <3>3, CountsAfter DEF Active, Used
  <2>2. ASSUME NEW d \in Clients, NEW init_ok, sensors_wrapper_init(d, init_ok)
        PROVE  FALSE
    BY <2>2 DEF sensors_wrapper_init
  <2>3. ASSUME NEW d \in Clients, NEW ns, NEW rate_ok, sensors_wrapper_set_delay(d, ns, rate_ok)
        PROVE  FALSE
    BY <1>1, <2>3 DEF sensors_wrapper_set_delay, WrapperInv, TypeInv
  <2>4. ASSUME NEW d \in Clients, sensors_wrapper_close(d)
        PROVE  FALSE
    BY <1>1, <2>4 DEF sensors_wrapper_close, WrapperInv, TypeInv
  <2>5. ASSUME NEW t \in Drivers, sensors_wrapper_data(t)
        PROVE  FALSE
    BY <2>5 DEF sensors_wrapper_data
  <2>6. CASE UNCHANGED wrapperVars
    BY <2>6 DEF wrapperVars
  <2>7. QED
    BY <1>1, <2>1, <2>2, <2>3, <2>4, <2>5, <2>6 DEF WrapperNext
<1>2. QED
  BY <1>1, WrapperInvariant, PTL DEF WrapperSpec, StopsOnlyUnused

=============================================================================
