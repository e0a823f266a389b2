------------------------- MODULE SharedDevicesProofs -------------------------
(***************************************************************************)
(* Theorems about SharedDevices, for any delays, packets and opens.        *)
(***************************************************************************)
EXTENDS SharedDevices, SequenceTheorems, TLAPS

(* The smaller, and the larger, of two numbers is one of them and bounds   *)
(* both.                                                                   *)
LEMMA MinMaxOfTwo ==
  ASSUME NEW a \in Int, NEW b \in Int
  PROVE  /\ Min({a, b}) \in {a, b} /\ Min({a, b}) <= a /\ Min({a, b}) <= b
         /\ Max({a, b}) \in {a, b} /\ Max({a, b}) >= a /\ Max({a, b}) >= b
<1>1. \E x \in {a, b} : \A y \in {a, b} : x <= y
  OBVIOUS
<1>2. \E x \in {a, b} : \A y \in {a, b} : x >= y
  OBVIOUS
<1>3. Min({a, b}) \in {a, b} /\ \A y \in {a, b} : Min({a, b}) <= y
  BY <1>1 DEF Min
<1>4. Max({a, b}) \in {a, b} /\ \A y \in {a, b} : Max({a, b}) >= y
  BY <1>2 DEF Max
<1>5. QED
  BY <1>3, <1>4

First == Head(Composition)

\* What is needed of the types: the records have their fields.
Hal(r) == r = [opens |-> r.opens, listed |-> r.listed, toInit |-> r.toInit, up |-> r.up, want |-> r.want,
               acc |-> r.acc]
Call(r) == r = [sensor |-> r.sensor, ns |-> r.ns, todo |-> r.todo, file |-> r.file]
Worker(r) == r = [mode |-> r.mode, open |-> r.open, threads |-> r.threads]
Comp(r) == r = [init |-> r.init, active |-> r.active, activated |-> r.activated]
Hist(r) == r = [left |-> r.left, lastAsk |-> r.lastAsk, idleAsk |-> r.idleAsk, late |-> r.late, odd |-> r.odd]

Records == Hal(hal) /\ Call(call) /\ Worker(worker) /\ Comp(comp) /\ Hist(hist)

(* As long as the first sensor is listed it has been found whenever it was *)
(* looked for, and then the worker was set up before anything used it: a   *)
(* sensor noted as init, one that may be called, a call under way, and one *)
(* that is come to after the first.                                        *)
SetUpInv ==
  First \in hal.listed =>
    /\ comp.init # {} \/ hal.up # {} \/ ~Rest => ~Unset
    /\ hal.toInit # {} /\ First \notin hal.toInit => ~Unset
    /\ ~Mpu => hal.up \subseteq comp.init

CrashInv == Records /\ SetUpInv

(* The first of either composition.                                        *)
LEMMA FirstIsFirst == First = Composition[1]
  BY DEF First, Composition, ak897x_compass, mpu3050_Gyro

(* Nothing is set up or called at first.                                   *)
LEMMA CrashInit == Init => CrashInv
  BY DEF Init, CrashInv, Records, Hal, Call, Worker, Comp, Hist, SetUpInv, Crashed, Rest, NoCall, Members, Composition, Mpu, First

(* An open comes to the first sensor first.                                *)
LEMMA OpenKeeps == ASSUME CrashInv, Open PROVE CrashInv'
<1> USE DEF CrashInv, Records, Hal
<1>1. /\ hal'.toInit = hal.listed /\ hal'.listed = hal.listed /\ hal'.up = hal.up
      /\ UNCHANGED <<kind, call, worker, comp, hist>>
  BY DEF Open
<1>2. Records'
  BY <1>1 DEF Open
<1>3. SetUpInv'
  BY <1>1 DEF SetUpInv, Crashed, Rest, Unset, Mpu, First, Composition
<1>4. QED
  BY <1>2, <1>3

(* The first sensor is found, and sets the worker up, or is dropped; when  *)
(* another is come to, the first has been.                                 *)
LEMMA InitSensorKeeps == ASSUME CrashInv, InitSensor PROVE CrashInv'
<1> USE DEF CrashInv
<1>1. PICK i \in DOMAIN Composition, found \in BOOLEAN :
        /\ Composition[i] \in hal.toInit /\ \A j \in 1..i - 1 : Composition[j] \notin hal.toInit
        /\ IF Mpu THEN found /\ mpu3050_init(Composition[i]) ELSE ak897x_init(Composition[i], found)
        /\ hal' = [hal EXCEPT !.toInit = @ \ {Composition[i]},
                              !.up = IF found THEN @ \cup {Composition[i]} ELSE @ \ {Composition[i]},
                              !.listed = IF found THEN @ ELSE @ \ {Composition[i]},
                              !.want = IF found THEN @ ELSE @ \ {Composition[i]}]
        /\ hist' = [hist EXCEPT !.odd = IF found THEN @ ELSE @ \cup {"missing"},
                                !.left = IF found THEN @ ELSE @ \cup (comp.active \cap {Composition[i]})]
  BY DEF InitSensor
<1> DEFINE m == Composition[i]
<1>2. m = First \/ First \notin hal.toInit
  <2>1. i \in Nat /\ i >= 1
    BY DEF Composition, ak897x_compass, mpu3050_Gyro
  <2>2. CASE i = 1
    BY <2>2, FirstIsFirst
  <2>3. CASE i # 1
    BY <1>1, <2>1, <2>3, FirstIsFirst
  <2>4. QED
    BY <2>2, <2>3
<1> HIDE DEF m
<1>3. /\ m \in hal.toInit
      /\ IF Mpu THEN found /\ mpu3050_init(m) ELSE ak897x_init(m, found)
      /\ hal' = [hal EXCEPT !.toInit = @ \ {m}, !.up = IF found THEN @ \cup {m} ELSE @ \ {m},
                            !.listed = IF found THEN @ ELSE @ \ {m}, !.want = IF found THEN @ ELSE @ \ {m}]
      /\ hist' = [hist EXCEPT !.odd = IF found THEN @ ELSE @ \cup {"missing"},
                              !.left = IF found THEN @ ELSE @ \cup (comp.active \cap {m})]
      /\ UNCHANGED <<kind, call, acc, reader>>
  BY <1>1 DEF m, InitSensor
<1>4. /\ hal'.toInit = hal.toInit \ {m} /\ hal'.up = IF found THEN hal.up \cup {m} ELSE hal.up \ {m}
      /\ hal'.listed = (IF found THEN hal.listed ELSE hal.listed \ {m})
      /\ ("crash" \in hist'.odd <=> "crash" \in hist.odd)
      /\ Hal(hal') /\ Hist(hist')
  <2> DEFINE up == IF found THEN hal.up \cup {m} ELSE hal.up \ {m}
             listed == IF found THEN hal.listed ELSE hal.listed \ {m}
             want == IF found THEN hal.want ELSE hal.want \ {m}
             odd == IF found THEN hist.odd ELSE hist.odd \cup {"missing"}
             left == IF found THEN hist.left ELSE hist.left \cup (comp.active \cap {m})
  <2>1. /\ hal' = [hal EXCEPT !.toInit = @ \ {m}, !.up = up, !.listed = listed, !.want = want]
        /\ hist' = [hist EXCEPT !.odd = odd, !.left = left]
    BY <1>3
  <2>2. "crash" \in odd <=> "crash" \in hist.odd
    OBVIOUS
  <2> HIDE DEF up, listed, want, odd, left
  <2>3. /\ Hal(hal') /\ hal'.toInit = hal.toInit \ {m} /\ hal'.up = up /\ hal'.listed = listed
        /\ Hist(hist') /\ hist'.odd = odd
    BY <2>1 DEF Records, Hal, Hist
  <2>4. QED
    BY <2>2, <2>3 DEF up, listed
<1>5. CASE Mpu
  <2>1. found /\ comp'.init = {m} /\ IF comp.init = {} THEN worker'.mode = "sleep" ELSE worker' = worker
    BY <1>3, <1>5 DEF mpu3050_init, Created, Records, Comp
  <2>2. Worker(worker') /\ Comp(comp')
    BY <1>3, <1>5 DEF mpu3050_init, Created, Records, Worker, Comp
  <2>3. SetUpInv'
    BY <1>2, <1>3, <1>4, <1>5, <2>1 DEF SetUpInv, Crashed, Rest, Unset, Mpu, First, Composition, None
  <2>4. QED
    BY <1>3, <1>4, <2>2, <2>3 DEF Records
<1>6. CASE ~Mpu
  <2>1. /\ comp'.init = comp.init \cup {m}
        /\ IF found /\ comp.init = {} THEN worker'.mode = "sleep" ELSE worker' = worker
    BY <1>3, <1>6 DEF ak897x_init, NoneInited, Created, Records, Comp
  <2>2. Worker(worker') /\ Comp(comp')
    BY <1>3, <1>6 DEF ak897x_init, NoneInited, Created, Records, Worker, Comp
  <2>3. SetUpInv'
    BY <1>2, <1>3, <1>4, <1>6, <2>1 DEF SetUpInv, Crashed, Rest, Unset, Mpu, First, Composition, None
  <2>4. QED
    BY <1>3, <1>4, <2>2, <2>3 DEF Records
<1>7. QED
  BY <1>5, <1>6

(* A call is made of a sensor that may be called.                          *)
LEMMA BeginKeeps == ASSUME CrashInv, Begin PROVE CrashInv'
<1> USE DEF CrashInv
<1>1. hal.up # {} /\ UNCHANGED <<kind, hal, worker, comp, hist>>
  BY DEF Begin
<1>2. Records'
  <2> DEFINE on(m) == activate(m, TRUE)
             off(m) == activate(m, FALSE)
             slow(m) == set_delay(m)
  <2>1. Call(call')
    <3>1. \E m, ns, todo : call' = [sensor |-> m, ns |-> ns, todo |-> todo, file |-> FALSE]
      <4>1. \E m \in hal.up : \/ call' = [NoCall EXCEPT !.sensor = m, !.todo = on(m)]
                             \/ call' = [NoCall EXCEPT !.sensor = m, !.todo = off(m)]
                             \/ \E ns : call' = [sensor |-> m, ns |-> ns, todo |-> slow(m), file |-> FALSE]
        BY DEF Begin
      <4> HIDE DEF on, off, slow
      <4>2. QED
        BY <4>1 DEF NoCall
    <3>2. QED
      BY <3>1 DEF Call
  <2>2. QED
    BY <1>1, <2>1 DEF Records
<1>3. SetUpInv'
  BY <1>1 DEF SetUpInv, Crashed, Rest, Unset, Mpu, First, Composition
<1>4. QED
  BY <1>2, <1>3

(* The next step of a call, or its end.                                    *)
LEMMA DoneKeeps == ASSUME Call(call), Done PROVE Call(call')
<1>1. CASE Tail(call.todo) = <<>>
  BY <1>1 DEF Done, Call, NoCall
<1>2. CASE Tail(call.todo) # <<>>
  <2> DEFINE todo == Tail(call.todo)
  <2>1. call' = [call EXCEPT !.todo = todo]
    BY <1>2 DEF Done
  <2> HIDE DEF todo
  <2>2. QED
    BY <2>1 DEF Call
<1>3. QED
  BY <1>1, <1>2

(* What the steps of a call have in common: the worker has been set up,    *)
(* and none undoes it.                                                     *)
LEMMA StepKeeps ==
  ASSUME CrashInv, Records', UNCHANGED kind, ~Rest,
         hal'.listed = hal.listed, hal'.toInit = hal.toInit, hal'.up = hal.up, comp'.init = comp.init,
         ~Unset => ~Unset'
  PROVE  CrashInv'
  BY DEF CrashInv, SetUpInv, Crashed, Rest, Mpu, First, Composition

(* activate's flag.                                                        *)
LEMMA FlagStepKeeps == ASSUME CrashInv, FlagStep PROVE CrashInv'
<1> USE DEF CrashInv
<1>1. ~Rest
  BY DEF FlagStep, Do, Rest
<1>2. Records'
  BY DoneKeeps DEF FlagStep, Records, Hal, Comp, Hist
<1>3. /\ hal'.listed = hal.listed /\ hal'.toInit = hal.toInit /\ hal'.up = hal.up /\ comp'.init = comp.init
      /\ hist'.odd = hist.odd /\ UNCHANGED <<kind, worker>>
  BY DEF FlagStep, Records
<1>4. QED
  BY <1>1, <1>2, <1>3, StepKeeps DEF Unset

(* A call through the worker crashes only before it is set up.             *)
LEMMA WorkerStepKeeps == ASSUME CrashInv, WorkerStep PROVE CrashInv'
<1> USE DEF CrashInv
<1>1. ~Rest
  BY DEF WorkerStep, Do, Rest
<1>2. Records'
  <2>1. Call(call')
    BY DoneKeeps DEF WorkerStep, Records
  <2>2. Worker(worker')
    BY DEF WorkerStep, Records, Worker
  <2>3. Hist(hist') /\ Hal(hal') /\ Comp(comp')
    BY DEF WorkerStep, Records, Alive, Crashes, Returned, Hist, Hal
  <2>4. QED
    BY <2>1, <2>2, <2>3 DEF Records
<1>3. hal'.listed = hal.listed /\ hal'.toInit = hal.toInit /\ hal'.up = hal.up /\ UNCHANGED <<kind, comp>>
  BY DEF WorkerStep, Returned, Records, Hal
<1>4. ~Unset => ~Unset' /\ UNCHANGED hist
  BY DEF WorkerStep, Alive, Unset, None, Records, Worker
<1>5. QED
  BY <1>1, <1>2, <1>3, <1>4, StepKeeps

(* ak897x.c's open, which may end the call.                                *)
LEMMA OpenStepKeeps == ASSUME CrashInv, OpenStep PROVE CrashInv'
<1> USE DEF CrashInv
<1>1. ~Rest
  BY DEF OpenStep, Do, Rest
<1>2. Records'
  BY DEF OpenStep, NoCall, Records, Hal, Call, Hist
<1>3. /\ hal'.listed = hal.listed /\ hal'.toInit = hal.toInit /\ hal'.up = hal.up /\ hist'.odd = hist.odd
      /\ UNCHANGED <<kind, worker, comp>>
  BY DEF OpenStep, Records, Hal, Hist
<1>4. QED
  BY <1>1, <1>2, <1>3, StepKeeps DEF Unset

(* A request to the accelerometer.                                         *)
LEMMA AccStepKeeps == ASSUME CrashInv, AccStep PROVE CrashInv'
<1> USE DEF CrashInv
<1>1. ~Rest
  BY DEF AccStep, Do, Rest
<1>2. Records'
  <2>1. Call(call') /\ Hal(hal') /\ Worker(worker') /\ Comp(comp')
    BY DoneKeeps DEF AccStep, Returned, Records, Hal
  <2>2. Hist(hist')
    BY DEF AccStep, Records, Hist
  <2>3. QED
    BY <2>1, <2>2 DEF Records
<1>3. /\ hal'.listed = hal.listed /\ hal'.toInit = hal.toInit /\ hal'.up = hal.up
      /\ UNCHANGED <<kind, worker, comp>>
  BY DEF AccStep, Returned, Records, Hal
<1>4. QED
  BY <1>1, <1>2, <1>3, StepKeeps DEF Unset

(* A call of the mpu3050's library.                                        *)
LEMMA LibStepKeeps == ASSUME CrashInv, LibStep PROVE CrashInv'
<1> USE DEF CrashInv
<1>1. ~Rest
  BY DEF LibStep, Do, Rest
<1>2. Records'
  <2>1. Call(call')
    <3>1. CASE Done
      BY <3>1, DoneKeeps DEF Records
    <3>2. CASE ~Done
      <4>1. PICK ok \in BOOLEAN : call' = [call EXCEPT !.todo = Tail(@), !.file = ok]
        BY <3>2 DEF LibStep
      <4>2. QED
        BY <4>1 DEF Records, Call
    <3>3. QED
      BY <3>1, <3>2
  <2>2. Comp(comp')
    <3> DEFINE activated == Do("activated")
    <3>1. comp' = comp \/ comp' = [comp EXCEPT !.activated = activated]
      BY DEF LibStep
    <3> HIDE DEF activated
    <3>2. QED
      BY <3>1 DEF Records, Comp
  <2>3. Hist(hist') /\ Hal(hal') /\ Worker(worker')
    BY DEF LibStep, Records, Hist
  <2>4. QED
    BY <2>1, <2>2, <2>3 DEF Records
<1>3. comp'.init = comp.init /\ hist'.odd \cap {"crash"} = hist.odd \cap {"crash"} /\ UNCHANGED <<kind, hal, worker>>
  <2>1. hist' = hist \/ \E ok \in BOOLEAN : hist' = [hist EXCEPT !.odd = IF ok THEN @ \ {"no file"} ELSE @ \cup {"no file"}]
    BY DEF LibStep
  <2>2. hist'.odd \cap {"crash"} = hist.odd \cap {"crash"}
    BY <2>1 DEF Records, Hist
  <2> DEFINE activated == Do("activated")
  <2>3. comp' = comp \/ comp' = [comp EXCEPT !.activated = activated]
    BY DEF LibStep
  <2> HIDE DEF activated
  <2>4. comp'.init = comp.init
    BY <2>3 DEF Records, Comp
  <2>5. QED
    BY <2>2, <2>4 DEF LibStep
<1>4. QED
  BY <1>1, <1>2, <1>3, StepKeeps DEF Unset

(* The worker of ak897x.c goes with the last sensor noted as init, and so  *)
(* with the last that may be called; that of mpu3050.c stays.              *)
LEMMA CloseKeeps == ASSUME CrashInv, Close PROVE CrashInv'
<1> USE DEF CrashInv
<1>1. PICK m \in hal.up :
        /\ IF Mpu THEN mpu3050_close(m) ELSE ak897x_close(m)
        /\ hal' = [hal EXCEPT !.up = @ \ {m}, !.want = @ \ {m}]
        /\ hist' = [hist EXCEPT !.left = @ \cup (comp.active \cap {m}), !.odd = @ \cup {"closed"}]
  BY DEF Close
<1>2. Rest /\ hal.toInit = {} /\ ~Crashed /\ UNCHANGED <<kind, call>>
  BY DEF Close, Free
<1>3. /\ hal'.listed = hal.listed /\ hal'.toInit = {} /\ hal'.up = hal.up \ {m}
      /\ ("crash" \in hist'.odd <=> "crash" \in hist.odd)
  BY <1>1, <1>2 DEF Records
<1>4. CASE Mpu
  <2>1. Records' /\ comp'.init = {} /\ worker' = worker
    BY <1>1, <1>2, <1>4 DEF mpu3050_close, Records, Hal, Hist, Comp
  <2>2. SetUpInv'
    BY <1>2, <1>3, <1>4, <2>1 DEF SetUpInv, Crashed, Rest, Unset, Mpu, First, Composition
  <2>3. QED
    BY <2>1, <2>2
<1>5. CASE ~Mpu
  <2>1. Records' /\ comp'.init = comp.init \ {m} /\ (comp.init \subseteq {m} \/ worker' = worker)
    <3>1. Hal(hal') /\ Hist(hist') /\ Call(call')
      BY <1>1, <1>2 DEF Records, Hal, Hist
    <3>2. Comp(comp') /\ comp'.init = comp.init \ {m}
      BY <1>1, <1>5 DEF ak897x_close, Records, Comp
    <3>3. Worker(worker') /\ (comp.init \subseteq {m} \/ worker' = worker)
      <4>1. CASE last(m)
        BY <1>1, <1>5, <4>1 DEF ak897x_close, last, Worker
      <4>2. CASE ~last(m)
        BY <1>1, <1>5, <4>2 DEF ak897x_close, Records
      <4>3. QED
        BY <4>1, <4>2
    <3>4. QED
      BY <3>1, <3>2, <3>3 DEF Records
  <2>2. SetUpInv'
    BY <1>2, <1>3, <1>5, <2>1 DEF SetUpInv, Crashed, Rest, Unset, Mpu, First, Composition
  <2>3. QED
    BY <2>1, <2>2
<1>6. QED
  BY <1>4, <1>5

(* Android's rate and the reader touch nothing that matters here.          *)
LEMMA OthersKeep ==
  ASSUME CrashInv, AndroidDelay \/ BeginRead \/ Look \/ Put \/ UNCHANGED vars
  PROVE  CrashInv'
<1> USE DEF CrashInv
<1>1. UNCHANGED <<kind, hal, call, worker, comp>>
  BY DEF AndroidDelay, BeginRead, Look, Put, vars
<1>2. Records' /\ ("crash" \in hist'.odd <=> "crash" \in hist.odd)
  <2>1. CASE Put
    BY <1>1, <2>1 DEF Put, Records, Hist
  <2>2. CASE ~Put
    BY <1>1, <2>2 DEF AndroidDelay, BeginRead, Look, vars, Records
  <2>3. QED
    BY <2>1, <2>2
<1>3. SetUpInv'
  BY <1>1, <1>2 DEF SetUpInv, Crashed, Rest, Unset, Mpu, First, Composition
<1>4. QED
  BY <1>2, <1>3

(* Every step keeps what the worker's users rest on.                      *)
LEMMA CrashKeeps == CrashInv /\ [Next]_vars => CrashInv'
<1> SUFFICES ASSUME CrashInv, [Next]_vars PROVE CrashInv'
  OBVIOUS
<1>1. CASE Open
  BY <1>1, OpenKeeps
<1>2. CASE InitSensor
  BY <1>2, InitSensorKeeps
<1>3. CASE Begin
  BY <1>3, BeginKeeps
<1>4. CASE FlagStep
  BY <1>4, FlagStepKeeps
<1>5. CASE WorkerStep
  BY <1>5, WorkerStepKeeps
<1>6. CASE OpenStep
  BY <1>6, OpenStepKeeps
<1>7. CASE AccStep
  BY <1>7, AccStepKeeps
<1>8. CASE LibStep
  BY <1>8, LibStepKeeps
<1>9. CASE Close
  BY <1>9, CloseKeeps
<1>10. CASE AndroidDelay \/ BeginRead \/ Look \/ Put \/ UNCHANGED vars
  BY <1>10, OthersKeep
<1>11. QED
  BY <1>1, <1>2, <1>3, <1>4, <1>5, <1>6, <1>7, <1>8, <1>9, <1>10 DEF Next

(***************************************************************************)
(* The rate of the accelerometer.                                          *)
(***************************************************************************)

Requests == [0..MAX_CLIENTS - 1 -> Nat]

RateInv ==
  /\ acc = [requests |-> acc.requests, handle |-> acc.handle, rate |-> acc.rate]
  /\ acc.requests \in Requests /\ acc.handle \in {-1, 1} /\ acc.rate \in Nat \cup {Unknown}
  /\ Call(call) /\ call.ns \in Nat
  /\ HandleIsRequest /\ AccServesAll

(* The delay written is minDelay at least, and no longer than a request    *)
(* or minDelay, whichever is longer; none is written for no request.       *)
LEMMA ConfigDelayServes ==
  ASSUME NEW requests \in Requests
  PROVE  /\ config_delay(requests) \in Nat /\ config_delay(requests) >= minDelay
         /\ \A i \in 0..MAX_CLIENTS - 1 :
              requests[i] > 0 => config_delay(requests) <= Max({requests[i], minDelay})
<1> DEFINE made == {requests[i] : i \in {j \in DOMAIN requests : requests[j] > 0}}
           least == Min(made \cup {requests[CLIENT_ANDROID]})
           a == requests[0]
           c == requests[1]
<1>1. a \in Nat /\ c \in Nat /\ DOMAIN requests = {0, 1}
  BY DEF Requests, MAX_CLIENTS
<1>2. minDelay \in Int /\ minDelay >= 0 /\ a \in Int /\ c \in Int
  BY <1>1 DEF minDelay
<1>3. made \cup {requests[CLIENT_ANDROID]} = IF c > 0 THEN {a, c} ELSE {a, a}
  BY <1>1 DEF CLIENT_ANDROID
<1> HIDE DEF made, a, c
<1>4. least \in {a, c} /\ least <= a /\ (c > 0 => least <= c)
  <2>1. CASE c > 0
    <3>1. least = Min({a, c})
      BY <1>3, <2>1
    <3>2. Min({a, c}) \in {a, c} /\ Min({a, c}) <= a /\ Min({a, c}) <= c
      BY <1>2, MinMaxOfTwo
    <3> HIDE DEF least
    <3>3. QED
      BY <3>1, <3>2
  <2>2. CASE ~(c > 0)
    <3>1. least = Min({a, a})
      BY <1>3, <2>2
    <3> HIDE DEF least
    <3>2. QED
      BY <1>1, <2>2, <3>1, MinMaxOfTwo
  <2>3. QED
    BY <2>1, <2>2
<1>5. config_delay(requests) = Max({minDelay, least})
  BY DEF config_delay, made
<1> HIDE DEF least
<1> DEFINE delay == config_delay(requests)
<1>6. delay \in {minDelay, least} /\ delay >= minDelay /\ least \in Nat
  <2>1. least \in Int /\ least \in Nat
    BY <1>1, <1>4
  <2>2. Max({minDelay, least}) \in {minDelay, least} /\ Max({minDelay, least}) >= minDelay
    BY <1>2, <2>1, MinMaxOfTwo
  <2>3. QED
    BY <1>5, <2>1, <2>2
<1> HIDE DEF delay
<1>7. Max({a, minDelay}) >= a /\ Max({a, minDelay}) >= minDelay /\ Max({a, minDelay}) \in Int
  BY <1>2, MinMaxOfTwo
<1>8. Max({c, minDelay}) >= c /\ Max({c, minDelay}) >= minDelay /\ Max({c, minDelay}) \in Int
  BY <1>2, MinMaxOfTwo
<1>9. delay <= Max({a, minDelay}) /\ (c > 0 => delay <= Max({c, minDelay}))
  <2> DEFINE x == Max({a, minDelay})
             y == Max({c, minDelay})
  <2> HIDE DEF x, y
  <2>1. x >= a /\ x >= minDelay /\ x \in Int /\ y >= c /\ y >= minDelay /\ y \in Int
    BY <1>7, <1>8 DEF x, y
  <2>2. delay <= x /\ (c > 0 => delay <= y)
    BY <1>1, <1>4, <1>2, <1>6, <2>1
  <2>3. QED
    BY <2>2 DEF x, y
<1>10. ASSUME NEW i \in 0..MAX_CLIENTS - 1, requests[i] > 0
       PROVE  delay <= Max({requests[i], minDelay})
  <2>1. i = 0 \/ i = 1
    BY DEF MAX_CLIENTS
  <2>2. CASE i = 0
    BY <1>9, <2>2 DEF a
  <2>3. CASE i = 1
    BY <1>9, <1>10, <2>3 DEF c
  <2>4. QED
    BY <2>1, <2>2, <2>3
<1>11. QED
  BY <1>1, <1>2, <1>6, <1>10 DEF delay

(* Whatever is stored for whichever of the two users, the rate written     *)
(* serves both of them.                                                    *)
LEMMA RequestedServes ==
  ASSUME NEW requests \in Requests, NEW handle \in {-1, 1}, handle = 1 <=> requests[1] # 0,
         Requested(requests, handle), UNCHANGED kind
  PROVE  /\ acc' = [requests |-> requests, handle |-> handle, rate |-> acc'.rate]
         /\ acc'.rate \in Nat \cup {Unknown} /\ HandleIsRequest' /\ AccServesAll'
<1> DEFINE delay == config_delay(requests)
           rate == IF Bma250 THEN bma250_rate(requests) ELSE bma150_rate(requests)
           longest(i) == Max({requests[i], minDelay})
<1>1. PICK ok \in BOOLEAN : acc' = [requests |-> requests, handle |-> handle, rate |-> IF ~ok THEN Unknown ELSE rate]
  BY DEF Requested
<1>2. delay \in Nat /\ delay >= 5000 /\ \A i \in 0..1 : requests[i] > 0 => delay <= longest(i)
  <2>1. 0..MAX_CLIENTS - 1 = 0..1 /\ minDelay = 5000
    BY DEF MAX_CLIENTS, minDelay
  <2>2. /\ delay \in Nat /\ delay >= minDelay
        /\ \A i \in 0..MAX_CLIENTS - 1 : requests[i] > 0 => delay <= longest(i)
    BY ConfigDelayServes
  <2> HIDE DEF delay, longest
  <2>3. QED
    BY <2>1, <2>2
<1>3. rate = IF Bma250 THEN delay \div 1000000 ELSE delay \div 1000
  BY DEF bma250_rate, bma150_rate
<1>4. \A i \in 0..1 : longest(i) \in Int
  <2>1. minDelay \in Int /\ \A i \in 0..1 : requests[i] \in Int
    BY DEF Requests, minDelay, MAX_CLIENTS
  <2>2. QED
    BY <2>1, MinMaxOfTwo
<1> HIDE DEF delay, rate, longest
<1>5. /\ rate \in Nat
      /\ Bma250 => rate * 1000000 <= delay
      /\ ~Bma250 => rate * 1000 <= delay /\ rate * 1000 >= 5000
  BY <1>2, <1>3
<1>6. acc'.requests = requests /\ acc'.handle = handle /\ acc'.rate \in {Unknown, rate}
  BY <1>1
<1>7. HandleIsRequest'
  BY <1>6 DEF HandleIsRequest
<1>8. AccServesAll'
  <2> SUFFICES ASSUME rate # Unknown, acc'.rate = rate
               PROVE  /\ \A i \in DOMAIN requests :
                           LET unit == IF Bma250 THEN 1000000 ELSE 1000
                           IN  requests[i] > 0 => rate * unit <= longest(i)
                      /\ ~Bma250 => rate * 1000 >= minDelay
    BY <1>6 DEF AccServesAll, Bma250, longest
  <2>1. DOMAIN requests = 0..1
    BY DEF Requests, MAX_CLIENTS
  <2>2. CASE Bma250
    BY <1>2, <1>4, <1>5, <2>1, <2>2
  <2>3. CASE ~Bma250
    BY <1>2, <1>4, <1>5, <2>1, <2>3 DEF minDelay
  <2>4. QED
    BY <2>2, <2>3
<1>9. QED
  BY <1>1, <1>5, <1>6, <1>7, <1>8

(* A request is stored in its slot.                                        *)
LEMMA SlotStored ==
  ASSUME NEW requests \in Requests, NEW slot \in {0, 1}, NEW ns \in Nat
  PROVE  /\ Stored(ns) \in Nat /\ [requests EXCEPT ![slot] = Stored(ns)] \in Requests
         /\ [requests EXCEPT ![slot] = Stored(ns)][slot] = Stored(ns)
         /\ [requests EXCEPT ![slot] = Stored(ns)][1 - slot] = requests[1 - slot]
<1>1. Stored(ns) \in Nat
  BY DEF Stored
<1>2. QED
  BY <1>1 DEF Requests, MAX_CLIENTS

(* Android's request leaves the compass's slot alone.                      *)
LEMMA AndroidServed == ASSUME RateInv, AndroidDelay PROVE RateInv'
<1>1. PICK ns \in Rates : fw_delay(ns)
  BY DEF AndroidDelay
<1> DEFINE requests == [acc.requests EXCEPT ![0] = Stored(ns)]
<1>2. requests \in Requests /\ requests[1] = acc.requests[1]
  BY SlotStored, SharedAssumption DEF RateInv, SharedAssumption
<1>3. Requested(requests, acc.handle)
  BY <1>1 DEF fw_delay, CLIENT_ANDROID
<1> HIDE DEF requests
<1>4. /\ acc' = [requests |-> requests, handle |-> acc.handle, rate |-> acc'.rate]
      /\ acc'.rate \in Nat \cup {Unknown} /\ HandleIsRequest' /\ AccServesAll'
  BY <1>2, <1>3, RequestedServes DEF AndroidDelay, RateInv, HandleIsRequest
<1>5. QED
  BY <1>2, <1>4 DEF RateInv, AndroidDelay

(* The compass stores a request in its slot with the handle, gives both    *)
(* back together, or does nothing; the slot is never taken without it.     *)
LEMMA CompassServed ==
  ASSUME RateInv, UNCHANGED kind, NEW ns \in Nat, request_acc_delay(ns)
  PROVE  /\ acc' = [requests |-> acc'.requests, handle |-> acc'.handle, rate |-> acc'.rate]
         /\ acc'.requests \in Requests /\ acc'.handle \in {-1, 1} /\ acc'.rate \in Nat \cup {Unknown}
         /\ HandleIsRequest' /\ AccServesAll'
         /\ WithAcc => acc'.requests[1] = Stored(ns)
<1> DEFINE requests == [acc.requests EXCEPT ![1] = Stored(ns)]
<1>1. Stored(ns) \in Nat /\ requests \in Requests /\ requests[1] = Stored(ns)
  BY SlotStored DEF RateInv
<1>2. VALID_HANDLE(acc.handle) <=> acc.handle = 1
  BY DEF VALID_HANDLE, CLIENT_ANDROID, MAX_CLIENTS, RateInv
<1>3. acc.handle = 1 <=> acc.requests[1] # 0
  BY DEF RateInv, HandleIsRequest
<1>4. \/ UNCHANGED acc /\ ~WithAcc
      \/ UNCHANGED acc /\ Stored(ns) = 0 /\ acc.requests[1] = 0
      \/ Stored(ns) = 0 /\ Requested(requests, -1)
      \/ Stored(ns) # 0 /\ Requested(requests, 1)
  <2>1. CASE ~WithAcc
    BY <2>1 DEF request_acc_delay, dummy_acc_delay
  <2>2. CASE WithAcc
    <3>1. request_delay(ns)
      BY <2>2 DEF request_acc_delay
    <3>2. CASE Stored(ns) = 0 /\ acc.handle = 1
      BY <1>2, <3>1, <3>2 DEF request_delay, handle_released
    <3>3. CASE Stored(ns) = 0 /\ acc.handle # 1
      BY <1>2, <1>3, <3>1, <3>3 DEF request_delay
    <3>4. CASE Stored(ns) # 0 /\ acc.handle = 1
      BY <1>2, <3>1, <3>4 DEF request_delay
    <3>5. CASE Stored(ns) # 0 /\ acc.handle # 1
      BY <1>2, <1>3, <3>1, <3>5 DEF request_delay
    <3>6. QED
      BY <3>2, <3>3, <3>4, <3>5
  <2>3. QED
    BY <2>1, <2>2
<1> HIDE DEF requests
<1>5. CASE /\ UNCHANGED acc
           /\ ~WithAcc \/ (Stored(ns) = 0 /\ acc.requests[1] = 0)
  BY <1>5 DEF RateInv, HandleIsRequest, AccServesAll, Bma250, Stored
<1>6. CASE Stored(ns) = 0 /\ Requested(requests, -1)
  <2>1. -1 \in {-1, 1} /\ (-1 = 1 <=> requests[1] # 0)
    BY <1>1, <1>6
  <2>2. /\ acc' = [requests |-> requests, handle |-> -1, rate |-> acc'.rate]
        /\ acc'.rate \in Nat \cup {Unknown} /\ HandleIsRequest' /\ AccServesAll'
    BY <1>1, <1>6, <2>1, RequestedServes
  <2>3. QED
    BY <1>1, <2>2
<1>7. CASE Stored(ns) # 0 /\ Requested(requests, 1)
  <2>1. 1 \in {-1, 1} /\ (1 = 1 <=> requests[1] # 0)
    BY <1>1, <1>7
  <2>2. /\ acc' = [requests |-> requests, handle |-> 1, rate |-> acc'.rate]
        /\ acc'.rate \in Nat \cup {Unknown} /\ HandleIsRequest' /\ AccServesAll'
    BY <1>1, <1>7, <2>1, RequestedServes
  <2>3. QED
    BY <1>1, <2>2
<1>8. QED
  BY <1>4, <1>5, <1>6, <1>7

(* The next step of a call, or its end, has its delay or none.             *)
LEMMA DoneDelay == ASSUME Call(call), call.ns \in Nat, Done PROVE Call(call') /\ call'.ns \in Nat
<1>1. Call(call')
  BY DoneKeeps
<1>2. call'.ns \in {0, call.ns}
  <2> DEFINE todo == Tail(call.todo)
  <2>1. call' = NoCall \/ call' = [call EXCEPT !.todo = todo]
    BY DEF Done
  <2> HIDE DEF todo
  <2>2. QED
    BY <2>1 DEF NoCall, Call
<1>3. QED
  BY <1>1, <1>2

(* Nothing is asked for at first.                                          *)
LEMMA RateInit == Init => RateInv
  BY DEF Init, RateInv, Requests, MAX_CLIENTS, Unknown, Call, NoCall, HandleIsRequest, AccServesAll

(* Every step keeps the requests, the handle and the rate in line.         *)
LEMMA RateKeeps == RateInv /\ [Next]_vars => RateInv'
<1> SUFFICES ASSUME RateInv, [Next]_vars PROVE RateInv'
  OBVIOUS
<1>1. CASE AndroidDelay
  BY <1>1, AndroidServed
<1>2. CASE AccStep
  <2>1. Call(call') /\ call'.ns \in Nat /\ UNCHANGED kind
    BY <1>2, DoneDelay DEF AccStep, RateInv
  <2>2. \E ns \in Nat : request_acc_delay(ns)
    BY <1>2 DEF AccStep, RateInv
  <2>3. QED
    BY <2>1, <2>2, CompassServed DEF RateInv
<1>3. CASE Begin
  <2>1. /\ UNCHANGED <<kind, acc>>
        /\ \E m, ns, todo : ns \in Nat /\ call' = [sensor |-> m, ns |-> ns, todo |-> todo, file |-> FALSE]
    <3> DEFINE on(m) == activate(m, TRUE)
               off(m) == activate(m, FALSE)
               slow(m) == set_delay(m)
    <3>1. /\ UNCHANGED <<kind, acc>>
          /\ \E m \in hal.up : \/ call' = [NoCall EXCEPT !.sensor = m, !.todo = on(m)]
                               \/ call' = [NoCall EXCEPT !.sensor = m, !.todo = off(m)]
                               \/ \E ns \in Nat : call' = [sensor |-> m, ns |-> ns, todo |-> slow(m), file |-> FALSE]
      BY <1>3, SharedAssumption DEF Begin, SharedAssumption
    <3> HIDE DEF on, off, slow
    <3>2. QED
      BY <3>1 DEF NoCall
  <2>2. Call(call') /\ call'.ns \in Nat
    BY <2>1 DEF Call
  <2>3. QED
    BY <2>1, <2>2 DEF RateInv, HandleIsRequest, AccServesAll, Bma250
<1>4. CASE Open \/ InitSensor \/ FlagStep \/ WorkerStep \/ OpenStep \/ LibStep \/ Close
           \/ BeginRead \/ Look \/ Put \/ UNCHANGED vars
  <2>1. UNCHANGED <<kind, acc>>
    <3>1. CASE Open \/ FlagStep \/ OpenStep \/ BeginRead \/ Look \/ Put \/ UNCHANGED vars
      BY <3>1 DEF Open, FlagStep, OpenStep, BeginRead, Look, Put, vars
    <3>2. CASE InitSensor
      BY <3>2 DEF InitSensor
    <3>3. CASE WorkerStep
      BY <3>3 DEF WorkerStep
    <3>4. CASE LibStep \/ Close
      BY <3>4 DEF LibStep, Close
    <3>5. QED
      BY <1>4, <3>1, <3>2, <3>3, <3>4
  <2>2. Call(call') /\ call'.ns \in Nat
    <3>1. CASE Done
      BY <3>1, DoneDelay DEF RateInv
    <3>2. CASE UNCHANGED call
      BY <3>2 DEF RateInv
    <3>3. CASE OpenStep
      <4> DEFINE todo == Tail(call.todo)
                 file == TRUE
      <4>1. call' = NoCall \/ call' = [call EXCEPT !.todo = todo, !.file = file]
        BY <3>3 DEF OpenStep
      <4> HIDE DEF todo, file
      <4>2. CASE call' = NoCall
        BY <4>2 DEF NoCall, Call
      <4>3. CASE call' = [call EXCEPT !.todo = todo, !.file = file]
        BY <4>3 DEF RateInv, Call
      <4>4. QED
        BY <4>1, <4>2, <4>3
    <3>4. CASE \E ok \in BOOLEAN : call' = [call EXCEPT !.todo = Tail(@), !.file = ok]
      BY <3>4 DEF RateInv, Call
    <3>5. CASE Open \/ InitSensor \/ Close \/ BeginRead \/ Look \/ Put \/ UNCHANGED vars
      <4>1. UNCHANGED call
        BY <3>5 DEF Open, InitSensor, Close, BeginRead, Look, Put, vars
      <4>2. QED
        BY <3>2, <4>1
    <3>6. CASE FlagStep \/ WorkerStep
      BY <3>1, <3>6 DEF FlagStep, WorkerStep
    <3>7. CASE LibStep
      BY <3>1, <3>4, <3>7 DEF LibStep
    <3>8. QED
      BY <1>4, <3>3, <3>5, <3>6, <3>7
  <2>3. QED
    BY <2>1, <2>2 DEF RateInv, HandleIsRequest, AccServesAll, Bma250
<1>5. QED
  BY <1>1, <1>2, <1>3, <1>4 DEF Next

(***************************************************************************)
(* Workers used before they are set up.                                    *)
(***************************************************************************)

(* Until its first init the accelerometer is asked for nothing. One that   *)
(* was never set up holds no request, but for the one that crashed.        *)
AccInv ==
  /\ IF WithAcc THEN hal.acc \in {"new", "ready", "missing", "dropped"} ELSE hal.acc = None
  /\ hal.acc = "new" => hal.toInit = {} /\ hal.up = {} /\ Rest
  /\ Bma250 /\ ~AccSetUp /\ ~Crashed => acc.requests[1] = 0
  /\ CrashesOnlyIfMissing

(* What AccInv says of a step that leaves the accelerometer alone.         *)
LEMMA AccLeft ==
  ASSUME AccInv, UNCHANGED <<kind, acc>>, hal'.acc = hal.acc, hal'.listed \subseteq hal.listed,
         hal.acc = "new" => hal'.toInit = {} /\ hal'.up = {} /\ Rest',
         Crashed' => Crashed \/ First \notin hal.listed, ~Crashed' => ~Crashed
  PROVE  AccInv'
<1>1. First' = First /\ Bma250' = Bma250 /\ WithAcc' = WithAcc /\ AccSetUp' = AccSetUp
  BY DEF First, Composition, Mpu, Bma250, WithAcc, AccSetUp
<1>2. CrashesOnlyIfMissing'
  BY <1>1 DEF AccInv, CrashesOnlyIfMissing, First
<1>3. QED
  BY <1>1, <1>2 DEF AccInv

(* The compass's request crashes only when the accelerometer was never     *)
(* found, and is stored before.                                            *)
LEMMA AccAsked == ASSUME CrashInv, RateInv, AccInv, AccStep PROVE AccInv'
<1>1. /\ ~Rest /\ ~Crashed /\ UNCHANGED kind
      /\ hal'.acc = hal.acc /\ hal'.listed = hal.listed
  BY DEF AccStep, Do, Rest, Returned, CrashInv, Records, Hal
<1>2. PICK ns \in Nat : request_acc_delay(ns) /\ hist'.odd = OddAfter(ns)
  <2>1. CASE Do("request_acc")
    <3>1. Do("request_acc") /\ ~Do("release_acc")
      BY <2>1 DEF Do
    <3>2. request_acc_delay(call.ns) /\ hist'.odd = OddAfter(call.ns)
      BY <3>1 DEF AccStep, CrashInv, Records, Hist
    <3>3. QED
      BY <3>2 DEF RateInv
  <2>2. CASE Do("release_acc")
    <3>1. Do("release_acc") /\ ~Do("request_acc")
      BY <2>2 DEF Do
    <3>2. request_acc_delay(0) /\ hist'.odd = OddAfter(0)
      BY <3>1 DEF AccStep, CrashInv, Records, Hist
    <3>3. QED
      BY <3>2
  <2>3. QED
    BY <2>1, <2>2 DEF AccStep
<1>3. WithAcc => acc'.requests[1] = Stored(ns)
  BY <1>1, <1>2, CompassServed
<1>4. First' = First /\ Bma250' = Bma250 /\ WithAcc' = WithAcc /\ AccSetUp' = AccSetUp
  BY <1>1 DEF First, Composition, Mpu, Bma250, WithAcc, AccSetUp
<1>5. Bma250 => WithAcc
  BY DEF Bma250, WithAcc
<1>6. hal.acc # "new"
  BY <1>1 DEF AccInv
<1>7. CASE Bma250 /\ ~AccSetUp
  <2>1. hal.acc = "missing" /\ acc.requests[1] = 0 /\ ~VALID_HANDLE(acc.handle)
    BY <1>1, <1>5, <1>6, <1>7 DEF AccInv, AccSetUp, RateInv, HandleIsRequest, VALID_HANDLE, CLIENT_ANDROID, MAX_CLIENTS
  <2>2. Crashed' <=> Stored(ns) # 0
    BY <1>1, <1>2, <1>7, <2>1 DEF Crashed, OddAfter, NullCall
  <2>3. acc'.requests[1] = Stored(ns)
    BY <1>3, <1>5, <1>7
  <2>4. QED
    BY <1>1, <1>4, <1>7, <2>1, <2>2, <2>3 DEF AccInv, CrashesOnlyIfMissing
<1>8. CASE ~(Bma250 /\ ~AccSetUp)
  <2>1. ~Crashed'
    BY <1>1, <1>2, <1>8 DEF Crashed, OddAfter, NullCall
  <2>2. QED
    BY <1>1, <1>4, <1>6, <1>8, <2>1 DEF AccInv, CrashesOnlyIfMissing
<1>9. QED
  BY <1>7, <1>8

(* What the library's steps note.                                          *)
LEMMA LibOdd ==
  ASSUME Records, LibStep
  PROVE  /\ hist'.left = hist.left /\ hist'.late = hist.late
         /\ \A x \in {"crash", "missing", "closed", "late twice"} : x \in hist'.odd <=> x \in hist.odd
<1>1. UNCHANGED hist \/ \E odd : hist' = [hist EXCEPT !.odd = odd] /\ odd \in {hist.odd \ {"no file"}, hist.odd \cup {"no file"}}
  BY Zenon DEF LibStep
<1>2. QED
  BY <1>1 DEF Records, Hist

(* Every step keeps what is known of the accelerometer's driver.           *)
LEMMA AccKeeps == CrashInv /\ RateInv /\ AccInv /\ [Next]_vars => AccInv'
<1> SUFFICES ASSUME CrashInv, RateInv, AccInv, [Next]_vars PROVE AccInv'
  OBVIOUS
<1> USE DEF CrashInv
<1>1. CASE Open
  <2>1. PICK found \in BOOLEAN :
          hal' = [hal EXCEPT !.opens = hal.opens + 1, !.toInit = hal.listed, !.acc = bma_input_init(found)]
    BY <1>1 DEF Open
  <2>2. /\ ~Crashed /\ UNCHANGED <<kind, call, acc, hist>> /\ hal'.listed = hal.listed
        /\ hal'.acc = bma_input_init(found)
    BY <1>1, <2>1 DEF Open, Free, Records, Hal
  <2>3. /\ IF WithAcc THEN hal'.acc \in {"ready", "missing", "dropped"} ELSE hal'.acc = None
        /\ hal'.acc \notin {"ready", "dropped"} => hal.acc \notin {"ready", "dropped"}
    BY <2>2 DEF bma_input_init, AccInv, None
  <2>4. ~Crashed' /\ (WithAcc' <=> WithAcc) /\ (Bma250' <=> Bma250) /\ (Bma250 => WithAcc)
    BY <2>2 DEF Crashed, WithAcc, Bma250
  <2>5. hal'.acc # "new"
    BY <2>3 DEF None
  <2>6. QED
    BY <2>2, <2>3, <2>4, <2>5 DEF AccInv, AccSetUp, CrashesOnlyIfMissing
<1>2. CASE InitSensor
  <2>1. /\ UNCHANGED <<kind, call, acc>> /\ hal.toInit # {}
        /\ hal'.acc = hal.acc /\ hal'.listed \subseteq hal.listed
        /\ "crash" \in hist'.odd <=> "crash" \in hist.odd
    BY <1>2 DEF InitSensor, Records, Hal, Hist
  <2>2. QED
    BY <2>1, AccLeft DEF AccInv, Crashed
<1>3. CASE Begin
  <2>1. UNCHANGED <<kind, hal, acc, hist>> /\ hal.up # {}
    BY <1>3 DEF Begin
  <2>2. QED
    BY <2>1, AccLeft DEF AccInv, Crashed
<1>4. CASE FlagStep
  <2>1. /\ UNCHANGED <<kind, acc>> /\ ~Rest /\ hal'.acc = hal.acc /\ hal'.listed = hal.listed
        /\ hist'.odd = hist.odd
    BY <1>4 DEF FlagStep, Do, Rest, Records, Hal, Hist
  <2>2. QED
    BY <2>1, AccLeft DEF AccInv, Crashed
<1>5. CASE WorkerStep
  <2>1. /\ UNCHANGED <<kind, acc>> /\ ~Rest /\ ~Crashed /\ hal'.acc = hal.acc /\ hal'.listed = hal.listed
        /\ hist' = hist \/ Unset
    BY <1>5 DEF WorkerStep, Do, Rest, Returned, Alive, Records, Hal
  <2>2. Unset => First \notin hal.listed
    BY <2>1 DEF SetUpInv
  <2>3. QED
    BY <2>1, <2>2, AccLeft DEF AccInv, Crashed
<1>6. CASE OpenStep
  <2>1. /\ UNCHANGED <<kind, acc>> /\ ~Rest /\ hal'.acc = hal.acc /\ hal'.listed = hal.listed
        /\ hist'.odd = hist.odd
    BY <1>6 DEF OpenStep, Do, Rest, Records, Hal, Hist
  <2>2. QED
    BY <2>1, AccLeft DEF AccInv, Crashed
<1>7. CASE AccStep
  BY <1>7, AccAsked
<1>8. CASE LibStep
  <2>1. /\ UNCHANGED <<kind, acc, hal>> /\ ~Rest
        /\ "crash" \in hist'.odd <=> "crash" \in hist.odd
    <3>1. "crash" \in hist'.odd <=> "crash" \in hist.odd
      BY <1>8, LibOdd
    <3>2. UNCHANGED <<kind, acc, hal>> /\ ~Rest
      BY <1>8 DEF LibStep, Do, Rest
    <3>3. QED
      BY <3>1, <3>2
  <2>2. QED
    BY <2>1, AccLeft DEF AccInv, Crashed
<1>9. CASE Close
  <2>1. /\ UNCHANGED <<kind, acc>> /\ hal.up # {} /\ hal'.acc = hal.acc /\ hal'.listed = hal.listed
        /\ "crash" \in hist'.odd <=> "crash" \in hist.odd
    BY <1>9 DEF Close, Records, Hal, Hist
  <2>2. QED
    BY <2>1, AccLeft DEF AccInv, Crashed
<1>10. CASE AndroidDelay
  <2>1. UNCHANGED <<kind, hal, call, hist>> /\ ~Crashed /\ AccSetUp
    BY <1>10 DEF AndroidDelay, Free, AccSetUp
  <2>2. ~Crashed' /\ AccSetUp' /\ Rest' = Rest /\ WithAcc' = WithAcc
    BY <2>1 DEF Crashed, AccSetUp, Rest, WithAcc
  <2>3. QED
    BY <2>1, <2>2 DEF AccInv, CrashesOnlyIfMissing
<1>11. CASE BeginRead \/ Look \/ Put \/ UNCHANGED vars
  <2>1. UNCHANGED <<kind, hal, call, acc>>
    BY <1>11 DEF BeginRead, Look, Put, vars
  <2>2. "crash" \in hist'.odd <=> "crash" \in hist.odd
    <3>1. CASE Put
      BY <3>1 DEF Put, Records, Hist
    <3>2. CASE ~Put
      BY <1>11, <3>2 DEF BeginRead, Look, vars
    <3>3. QED
      BY <3>1, <3>2
  <2>3. QED
    BY <2>1, <2>2, AccLeft DEF AccInv, Crashed, Rest
<1>12. QED
  BY <1>1, <1>2, <1>3, <1>4, <1>5, <1>6, <1>7, <1>8, <1>9, <1>10, <1>11 DEF Next

(* The first state.                                                        *)
LEMMA AccInit == Init => AccInv
  BY DEF Init, AccInv, WithAcc, AccSetUp, Bma250, Crashed, Rest, NoCall, MAX_CLIENTS, CrashesOnlyIfMissing, None

(* Whatever is missing, refused, closed and opened again, a worker is used *)
(* before it is set up, or after it was destroyed, only when the first     *)
(* sensor of the composition was not found, or the accelerometer of        *)
(* bma250_input.c never was and an orientation sensor asked it for a rate  *)
(* (ak897x.c:193, bma250_input.c:207).                                     *)
THEOREM SharedCrashesOnlyIfMissing == Spec => []CrashesOnlyIfMissing
<1>1. AccInv => CrashesOnlyIfMissing
  BY DEF AccInv
<1>2. QED
  BY CrashInit, CrashKeeps, RateInit, RateKeeps, AccInit, AccKeeps, <1>1, PTL DEF Spec

(***************************************************************************)
(* What is left to do of a call: of ak897x.c's enable, disable and delay.  *)
(***************************************************************************)

Enable1 == <<"active">>
Enable4 == <<"active", "open", "set_fd", "resume">>
Enable3 == <<"open", "set_fd", "resume">>
Enable2 == <<"set_fd", "resume">>
EnableLast == <<"resume">>
Disable1 == <<"inactive">>
Disable2 == <<"inactive", "release_acc">>
Disable3 == <<"inactive", "suspend", "set_fd">>
Disable4 == <<"inactive", "suspend", "set_fd", "release_acc">>
Stop2 == <<"suspend", "set_fd">>
Stop3 == <<"suspend", "set_fd", "release_acc">>
Unfile1 == <<"set_fd">>
Unfile2 == <<"set_fd", "release_acc">>
Release == <<"release_acc">>
Delay2 == <<"request_acc", "worker_delay">>
Delay1 == <<"worker_delay">>

(* Putting a few elements behind a sequence is appending each.             *)
LEMMA Joined ==
  ASSUME NEW S, NEW s \in Seq(S), NEW a \in S, NEW b \in S, NEW c \in S, NEW d \in S
  PROVE  /\ s \o <<a>> = Append(s, a)
         /\ s \o <<a, b>> = Append(Append(s, a), b)
         /\ s \o <<a, b, c>> = Append(Append(Append(s, a), b), c)
         /\ s \o <<a, b, c, d>> = Append(Append(Append(Append(s, a), b), c), d)
<1>1. \A t \in Seq(S), x \in S : t \o <<x>> = Append(t, x)
  BY AppendIsConcat
<1>2. ASSUME NEW t \in Seq(S), NEW x \in S
      PROVE  s \o Append(t, x) = Append(s \o t, x)
  <2>1. <<x>> \in Seq(S) /\ s \o t \in Seq(S)
    OBVIOUS
  <2>2. s \o (t \o <<x>>) = (s \o t) \o <<x>>
    BY <2>1, ConcatAssociative
  <2>3. QED
    BY <1>1, <2>1, <2>2
<1>3. /\ <<a>> \in Seq(S) /\ <<a, b>> \in Seq(S) /\ <<a, b, c>> \in Seq(S)
      /\ <<a, b>> = Append(<<a>>, b) /\ <<a, b, c>> = Append(<<a, b>>, c) /\ <<a, b, c, d>> = Append(<<a, b, c>>, d)
  OBVIOUS
<1>4. s \o <<a>> = Append(s, a)
  BY <1>1
<1>5. s \o <<a, b>> = Append(Append(s, a), b)
  BY <1>2, <1>3, <1>4, Zenon
<1>6. s \o <<a, b, c>> = Append(Append(Append(s, a), b), c)
  BY <1>2, <1>3, <1>5, Zenon
<1>7. s \o <<a, b, c, d>> = Append(Append(Append(Append(s, a), b), c), d)
  BY <1>2, <1>3, <1>6, Zenon
<1>8. QED
  BY <1>4, <1>5, <1>6, <1>7

(* The joins that make the steps of a call.                                *)
LEMMA JoinedSteps ==
  /\ \A a, b : <<a>> \o <<b>> = <<a, b>>
  /\ \A a, b, c : <<a>> \o <<b, c>> = <<a, b, c>>
  /\ \A a, b, c, d : <<a>> \o <<b, c, d>> = <<a, b, c, d>>
  /\ \A a, b, c, d : <<a, b, c>> \o <<d>> = <<a, b, c, d>>
  /\ \A a, b, c, d, e : <<a, b>> \o <<c, d, e>> = <<a, b, c, d, e>>
  /\ \A a, b, c, d, e, f : <<a, b>> \o <<c, d, e, f>> = <<a, b, c, d, e, f>>
  /\ \A a : <<a>> \o <<>> = <<a>>
  /\ \A a, b : <<a, b>> \o <<>> = <<a, b>>
  /\ \A a, b, c : <<a, b, c>> \o <<>> = <<a, b, c>>
  /\ \A a : <<>> \o <<a>> = <<a>>
<1>1. ASSUME NEW a, NEW b
      PROVE  <<a>> \o <<b>> = <<a, b>>
  <2>1. <<a>> \in Seq({a, b})
    OBVIOUS
  <2>2. <<a>> \o <<b>> = Append(<<a>>, b)
    BY <2>1, Joined
  <2>3. <<a, b>> = Append(<<a>>, b)
    OBVIOUS
  <2>4. QED
    BY ONLY <2>2, <2>3, Zenon
<1>2. ASSUME NEW a, NEW b, NEW c
      PROVE  <<a>> \o <<b, c>> = <<a, b, c>>
  <2>1. <<a>> \in Seq({a, b, c})
    OBVIOUS
  <2>2. <<a>> \o <<b, c>> = Append(Append(<<a>>, b), c)
    BY <2>1, Joined
  <2>3. <<a, b>> = Append(<<a>>, b)
    OBVIOUS
  <2>4. <<a, b, c>> = Append(<<a, b>>, c)
    OBVIOUS
  <2>5. QED
    BY ONLY <2>2, <2>3, <2>4, Zenon
<1>3. ASSUME NEW a, NEW b, NEW c, NEW d
      PROVE  <<a>> \o <<b, c, d>> = <<a, b, c, d>>
  <2>1. <<a>> \in Seq({a, b, c, d})
    OBVIOUS
  <2>2. <<a>> \o <<b, c, d>> = Append(Append(Append(<<a>>, b), c), d)
    BY <2>1, Joined
  <2>3. <<a, b>> = Append(<<a>>, b)
    OBVIOUS
  <2>4. <<a, b, c>> = Append(<<a, b>>, c)
    OBVIOUS
  <2>5. <<a, b, c, d>> = Append(<<a, b, c>>, d)
    OBVIOUS
  <2>6. QED
    BY ONLY <2>2, <2>3, <2>4, <2>5, Zenon
<1>4. ASSUME NEW a, NEW b, NEW c, NEW d
      PROVE  <<a, b, c>> \o <<d>> = <<a, b, c, d>>
  <2>1. <<a, b, c>> \in Seq({a, b, c, d})
    OBVIOUS
  <2>2. <<a, b, c>> \o <<d>> = Append(<<a, b, c>>, d)
    BY <2>1, Joined
  <2>3. <<a, b, c, d>> = Append(<<a, b, c>>, d)
    OBVIOUS
  <2>4. QED
    BY ONLY <2>2, <2>3, Zenon
<1>5. ASSUME NEW a, NEW b, NEW c, NEW d, NEW e
      PROVE  <<a, b>> \o <<c, d, e>> = <<a, b, c, d, e>>
  <2>1. <<a, b>> \in Seq({a, b, c, d, e})
    OBVIOUS
  <2>2. <<a, b>> \o <<c, d, e>> = Append(Append(Append(<<a, b>>, c), d), e)
    BY <2>1, Joined
  <2>3. <<a, b, c>> = Append(<<a, b>>, c)
    OBVIOUS
  <2>4. <<a, b, c, d>> = Append(<<a, b, c>>, d)
    OBVIOUS
  <2>5. <<a, b, c, d, e>> = Append(<<a, b, c, d>>, e)
    OBVIOUS
  <2>6. QED
    BY ONLY <2>2, <2>3, <2>4, <2>5, Zenon
<1>6. ASSUME NEW a, NEW b, NEW c, NEW d, NEW e, NEW f
      PROVE  <<a, b>> \o <<c, d, e, f>> = <<a, b, c, d, e, f>>
  <2>1. <<a, b>> \in Seq({a, b, c, d, e, f})
    OBVIOUS
  <2>2. <<a, b>> \o <<c, d, e, f>> = Append(Append(Append(Append(<<a, b>>, c), d), e), f)
    BY <2>1, Joined
  <2>3. <<a, b, c>> = Append(<<a, b>>, c)
    OBVIOUS
  <2>4. <<a, b, c, d>> = Append(<<a, b, c>>, d)
    OBVIOUS
  <2>5. <<a, b, c, d, e>> = Append(<<a, b, c, d>>, e)
    OBVIOUS
  <2>6. <<a, b, c, d, e, f>> = Append(<<a, b, c, d, e>>, f)
    OBVIOUS
  <2>7. QED
    BY ONLY <2>2, <2>3, <2>4, <2>5, <2>6, Zenon
<1>7. ASSUME NEW a PROVE <<a>> \o <<>> = <<a>> /\ <<>> \o <<a>> = <<a>>
  <2>1. <<a>> \in Seq({a})
    OBVIOUS
  <2>2. QED
    BY <2>1, ConcatEmptySeq, Zenon
<1>8. ASSUME NEW a, NEW b PROVE <<a, b>> \o <<>> = <<a, b>>
  <2>1. <<a, b>> \in Seq({a, b})
    OBVIOUS
  <2>2. QED
    BY <2>1, ConcatEmptySeq, Zenon
<1>9. ASSUME NEW a, NEW b, NEW c PROVE <<a, b, c>> \o <<>> = <<a, b, c>>
  <2>1. <<a, b, c>> \in Seq({a, b, c})
    OBVIOUS
  <2>2. QED
    BY <2>1, ConcatEmptySeq, Zenon
<1>10. QED
  BY <1>1, <1>2, <1>3, <1>4, <1>5, <1>6, <1>7, <1>8, <1>9, Zenon

(* The next step of each, and what is left then.                           *)
LEMMA NextSteps ==
  /\ Head(Enable1) = "active" /\ Tail(Enable1) = <<>> /\ Enable1 # <<>>
  /\ Head(Enable4) = "active" /\ Tail(Enable4) = Enable3 /\ Enable4 # <<>>
  /\ Head(Enable3) = "open" /\ Tail(Enable3) = Enable2 /\ Enable3 # <<>>
  /\ Head(Enable2) = "set_fd" /\ Tail(Enable2) = EnableLast /\ Enable2 # <<>>
  /\ Head(EnableLast) = "resume" /\ Tail(EnableLast) = <<>> /\ EnableLast # <<>>
  /\ Head(Disable1) = "inactive" /\ Tail(Disable1) = <<>> /\ Disable1 # <<>>
  /\ Head(Disable2) = "inactive" /\ Tail(Disable2) = Release /\ Disable2 # <<>>
  /\ Head(Disable3) = "inactive" /\ Tail(Disable3) = Stop2 /\ Disable3 # <<>>
  /\ Head(Disable4) = "inactive" /\ Tail(Disable4) = Stop3 /\ Disable4 # <<>>
  /\ Head(Stop2) = "suspend" /\ Tail(Stop2) = Unfile1 /\ Stop2 # <<>>
  /\ Head(Stop3) = "suspend" /\ Tail(Stop3) = Unfile2 /\ Stop3 # <<>>
  /\ Head(Unfile1) = "set_fd" /\ Tail(Unfile1) = <<>> /\ Unfile1 # <<>>
  /\ Head(Unfile2) = "set_fd" /\ Tail(Unfile2) = Release /\ Unfile2 # <<>>
  /\ Head(Release) = "release_acc" /\ Tail(Release) = <<>> /\ Release # <<>>
  /\ Head(Delay2) = "request_acc" /\ Tail(Delay2) = Delay1 /\ Delay2 # <<>>
  /\ Head(Delay1) = "worker_delay" /\ Tail(Delay1) = <<>> /\ Delay1 # <<>>
  BY DEF Enable1, Enable4, Enable3, Enable2, EnableLast, Disable1, Disable2, Disable3, Disable4,
         Stop2, Stop3, Unfile1, Unfile2, Release, Delay2, Delay1

(* The steps of each call of ak897x.c.                                     *)
LEMMA CompassCalls ==
  ASSUME NEW m
  PROVE  /\ ak897x_activate(m, TRUE) = IF worker.open THEN Enable1 ELSE Enable4
         /\ ak897x_activate(m, FALSE) =
              IF worker.open /\ still_active(m) = {}
              THEN IF released_with(m) THEN Disable4 ELSE Disable3
              ELSE IF released_with(m) THEN Disable2 ELSE Disable1
         /\ ak897x_set_delay(m) = IF m \in Orientations THEN Delay2 ELSE Delay1
<1>1. /\ \A a, b : <<a>> \o <<b>> = <<a, b>>
      /\ \A a, b, c : <<a>> \o <<b, c>> = <<a, b, c>>
      /\ \A a : <<a>> \o <<>> = <<a>>
  BY JoinedSteps, Zenon
<1>2. /\ \A a, b, c, d : <<a>> \o <<b, c, d>> = <<a, b, c, d>>
      /\ \A a : <<>> \o <<a>> = <<a>>
  BY JoinedSteps, Zenon
<1>3. \A a, b, c, d : <<a, b, c>> \o <<d>> = <<a, b, c, d>>
  BY JoinedSteps, Zenon
<1>4. \A a, b, c : <<a, b, c>> \o <<>> = <<a, b, c>>
  BY JoinedSteps, Zenon
<1>5. /\ <<"active">> \o <<>> = Enable1
      /\ <<"active">> \o <<"open", "set_fd", "resume">> = Enable4
  BY <1>1, <1>2, Zenon DEF Enable1, Enable4
<1>6. /\ <<"request_acc">> \o <<"worker_delay">> = Delay2
      /\ <<>> \o <<"worker_delay">> = Delay1
  BY <1>1, <1>2, Zenon DEF Delay1, Delay2
<1>7. <<"inactive">> \o <<"suspend", "set_fd">> = Disable3 /\ <<"inactive">> \o <<>> = Disable1
  BY <1>1, Zenon DEF Disable3, Disable1
<1>8. Disable3 \o <<"release_acc">> = Disable4
  BY <1>3, Zenon DEF Disable3, Disable4
<1>9. Disable3 \o <<>> = Disable3
  BY <1>4, Zenon DEF Disable3
<1>10. Disable1 \o <<"release_acc">> = Disable2 /\ Disable1 \o <<>> = Disable1
  BY <1>1, Zenon DEF Disable1, Disable2
<1>11. ak897x_activate(m, TRUE) = IF worker.open THEN Enable1 ELSE Enable4
  BY <1>5, Zenon DEF ak897x_activate
<1>12. ak897x_set_delay(m) = IF m \in Orientations THEN Delay2 ELSE Delay1
  BY <1>6, Zenon DEF ak897x_set_delay
<1>13. ak897x_activate(m, FALSE) = <<"inactive">>
       \o (IF worker.open /\ still_active(m) = {} THEN <<"suspend", "set_fd">> ELSE <<>>)
       \o (IF released_with(m) THEN <<"release_acc">> ELSE <<>>)
  BY DEF ak897x_activate
<1>14. ak897x_activate(m, FALSE) =
         (IF worker.open /\ still_active(m) = {} THEN Disable3 ELSE Disable1)
         \o (IF released_with(m) THEN <<"release_acc">> ELSE <<>>)
  <2>1. CASE worker.open /\ still_active(m) = {}
    BY <1>7, <1>13, <2>1, Zenon
  <2>2. CASE ~(worker.open /\ still_active(m) = {})
    BY <1>7, <1>13, <2>2, Zenon
  <2>3. QED
    BY <2>1, <2>2
<1>15. ak897x_activate(m, FALSE) =
         IF worker.open /\ still_active(m) = {}
         THEN IF released_with(m) THEN Disable4 ELSE Disable3
         ELSE IF released_with(m) THEN Disable2 ELSE Disable1
  BY ONLY <1>8, <1>9, <1>10, <1>14, Zenon
<1>16. QED
  BY <1>11, <1>12, <1>15

(***************************************************************************)
(* What the compass asks for.                                              *)
(***************************************************************************)

Oriented == comp.active \cap Orientations
Idle == Oriented = {} /\ acc.requests[1] # 0 => hist.idleAsk

\* Those that say nothing of the orientation sensors.
Plain == {<<>>, Enable1, Enable4, Enable3, Enable2, EnableLast, Stop2, Unfile1, Delay2, Delay1}

(* The request of the last delay is kept while an orientation sensor is    *)
(* enabled. A disable was begun with a release at its end exactly when no  *)
(* other orientation sensor was enabled; none is while it goes on.         *)
AskInv ==
  WithAcc =>
    /\ hist.lastAsk > 0 => Oriented # {} /\ acc.requests[1] = Stored(hist.lastAsk)
    /\ \/ call.todo \in Plain /\ Idle
       \/ call.todo \in {Disable1, Disable3} /\ Oriented \ {call.sensor} # {}
       \/ call.todo \in {Disable2, Disable4} /\ Oriented \ {call.sensor} = {}
       \/ call.todo \in {Stop3, Unfile2, Release} /\ Oriented = {}

(* What is left of a plain call is plain.                                  *)
LEMMA PlainGoesOn ==
  ASSUME NEW todo \in Plain, todo # <<>>
  PROVE  Tail(todo) \in Plain /\ Head(todo) \notin {"inactive", "release_acc"}
  BY NextSteps DEF Plain

(* A step's end leaves the rest of the call, for the same sensor.          *)
LEMMA DoneGoesOn ==
  ASSUME Call(call), Done
  PROVE  call'.todo = Tail(call.todo) /\ (call'.todo # <<>> => call'.sensor = call.sensor)
<1> DEFINE todo == Tail(call.todo)
<1>1. IF todo = <<>> THEN call' = NoCall ELSE call' = [call EXCEPT !.todo = todo]
  BY DEF Done
<1> HIDE DEF todo
<1>2. call'.todo = todo /\ (call'.todo # <<>> => call'.sensor = call.sensor)
  BY <1>1 DEF NoCall, Call
<1>3. QED
  BY <1>2 DEF todo

(* A step of the worker or the library changes nothing of this; only an    *)
(* open may end the call.                                                  *)
LEMMA AskOtherStep ==
  ASSUME AskInv, ~Rest, Head(call.todo) \notin {"active", "inactive", "request_acc", "release_acc"},
         call'.todo = Tail(call.todo) \/ (call'.todo = <<>> /\ Head(call.todo) = "open"),
         UNCHANGED <<kind, acc, comp>>, hist'.lastAsk = hist.lastAsk, hist'.idleAsk = hist.idleAsk
  PROVE  AskInv'
<1>1. SUFFICES ASSUME WithAcc PROVE AskInv'
  BY DEF AskInv, WithAcc
<1>2. hist'.lastAsk > 0 => Oriented' # {} /\ acc'.requests[1] = Stored(hist.lastAsk)'
  BY <1>1 DEF AskInv, Oriented, Stored, Bma250
<1>3. CASE call.todo \in Plain /\ Idle
  <2>1. call'.todo \in Plain
    BY <1>3, PlainGoesOn DEF Rest, Plain
  <2>2. Idle'
    BY <1>3 DEF Idle, Oriented
  <2>3. QED
    BY <1>2, <2>1, <2>2, Zenon DEF AskInv
<1>4. CASE call.todo \in {Stop3, Unfile2, Release} /\ Oriented = {}
  <2>1. call'.todo \in {Unfile2, Release}
    BY <1>4, NextSteps
  <2>2. Oriented' = {}
    BY <1>4 DEF Oriented
  <2>3. QED
    BY <1>2, <2>1, <2>2 DEF AskInv
<1>5. call.todo \notin {Disable1, Disable2, Disable3, Disable4}
  BY NextSteps
<1>6. QED
  BY <1>1, <1>3, <1>4, <1>5 DEF AskInv

(* The flag of a sensor: what a disable releases at its end is what it     *)
(* found when it began, for no other call writes a flag meanwhile.         *)
LEMMA AskFlagStep == ASSUME Records, AskInv, FlagStep PROVE AskInv'
<1>1. SUFFICES ASSUME WithAcc PROVE AskInv'
  BY DEF AskInv, FlagStep, WithAcc
<1> DEFINE m == call.sensor
           active == IF Do("active") THEN comp.active \cup {m} ELSE comp.active \ {m}
<1>2. /\ ~Rest /\ Head(call.todo) \in {"active", "inactive"} /\ (Do("active") <=> Head(call.todo) = "active")
      /\ UNCHANGED <<kind, acc>>
      /\ call'.todo = Tail(call.todo)
      /\ comp' = [comp EXCEPT !.active = active]
      /\ hist' = [hist EXCEPT !.left = @ \ {m}, !.late = @ \ {m},
                              !.lastAsk = IF active \cap Orientations = {} THEN 0 ELSE @]
  BY DoneGoesOn DEF FlagStep, Do, Rest, Records
<1> HIDE DEF active
<1>3. /\ Oriented' = active \cap Orientations /\ hist'.idleAsk = hist.idleAsk
      /\ hist'.lastAsk = IF active \cap Orientations = {} THEN 0 ELSE hist.lastAsk
  BY <1>2 DEF Oriented, Records, Comp, Hist
<1>4. hist'.lastAsk > 0 => Oriented' # {} /\ acc'.requests[1] = Stored(hist.lastAsk)'
  BY <1>1, <1>2, <1>3 DEF AskInv, Stored, Bma250
<1>5. CASE call.todo \in Plain /\ Idle
  <2>1. call'.todo \in Plain /\ Head(call.todo) = "active"
    BY <1>2, <1>5, PlainGoesOn DEF Rest
  <2>2. Idle'
    BY <1>2, <1>3, <1>5, <2>1 DEF Idle, Oriented, active
  <2>3. QED
    BY <1>4, <2>1, <2>2, Zenon DEF AskInv
<1>6. CASE call.todo \in {Disable1, Disable3} /\ Oriented \ {m} # {}
  <2>1. call'.todo \in Plain /\ Head(call.todo) = "inactive"
    BY <1>2, <1>6, NextSteps DEF Plain
  <2>2. Oriented' # {}
    BY <1>2, <1>3, <1>6, <2>1 DEF Oriented, active
  <2>3. QED
    BY <1>4, <2>1, <2>2, Zenon DEF AskInv, Idle
<1>7. CASE call.todo \in {Disable2, Disable4} /\ Oriented \ {m} = {}
  <2>1. call'.todo \in {Release, Stop3} /\ Head(call.todo) = "inactive"
    BY <1>2, <1>7, NextSteps
  <2>2. Oriented' = {}
    BY <1>2, <1>3, <1>7, <2>1 DEF Oriented, active
  <2>3. QED
    BY <1>4, <2>1, <2>2 DEF AskInv
<1>8. call.todo \notin {Stop3, Unfile2, Release}
  BY <1>2, NextSteps
<1>9. QED
  BY <1>1, <1>5, <1>6, <1>7, <1>8 DEF AskInv

(* A request is stored whatever was stored before; the release stores none.*)
LEMMA AskAccStep == ASSUME Records, RateInv, AskInv, AccStep PROVE AskInv'
<1>1. SUFFICES ASSUME WithAcc PROVE AskInv'
  BY DEF AskInv, AccStep, WithAcc
<1>2. ~Rest /\ call'.todo = Tail(call.todo) /\ UNCHANGED <<kind, comp>> /\ Oriented' = Oriented
  BY DoneGoesOn DEF AccStep, Do, Rest, Records, Oriented
<1>3. CASE Do("request_acc")
  <2>1. Head(call.todo) = "request_acc"
    BY <1>3 DEF Do
  <2>2. call.todo \in Plain /\ call'.todo \in Plain
    <3>1. call.todo \in Plain
      BY <1>1, <2>1, NextSteps DEF AskInv
    <3>2. QED
      BY <1>2, <3>1, PlainGoesOn DEF Rest
  <2>3. /\ request_acc_delay(call.ns)
        /\ hist' = IF comp.active \cap Orientations # {}
                   THEN [hist EXCEPT !.lastAsk = call.ns, !.idleAsk = call.ns > 0 /\ @, !.odd = OddAfter(call.ns)]
                   ELSE [hist EXCEPT !.idleAsk = call.ns > 0, !.odd = OddAfter(call.ns)]
    BY <1>3, <2>1 DEF AccStep, Do
  <2>4. acc'.requests[1] = Stored(call.ns)
    BY <1>1, <1>2, <2>3, CompassServed DEF RateInv
  <2>5. CASE Oriented # {}
    <3>1. hist'.lastAsk = call.ns
      BY <2>3, <2>5 DEF Oriented, Records, Hist
    <3>2. acc'.requests[1] = Stored(hist.lastAsk)' /\ Idle'
      BY <1>2, <2>4, <2>5, <3>1 DEF Stored, Bma250, Idle
    <3>3. QED
      BY <1>2, <2>2, <2>5, <3>1, <3>2 DEF AskInv
  <2>6. CASE Oriented = {}
    <3>1. hist'.lastAsk = hist.lastAsk /\ (hist'.idleAsk <=> call.ns > 0)
      BY <2>3, <2>6 DEF Oriented, Records, Hist
    <3>2. ~(hist.lastAsk > 0)
      BY <1>1, <2>6 DEF AskInv
    <3>3. Idle'
      BY <2>4, <3>1 DEF Idle, Stored, RateInv
    <3>4. QED
      BY <2>2, <3>1, <3>2, <3>3, Zenon DEF AskInv
  <2>7. QED
    BY <2>5, <2>6
<1>4. CASE Do("release_acc")
  <2>1. Head(call.todo) = "release_acc"
    BY <1>4 DEF Do
  <2>2. call.todo = Release /\ Oriented = {}
    BY <1>1, <1>2, <2>1, NextSteps, PlainGoesOn DEF AskInv, Rest
  <2>3. request_acc_delay(0) /\ hist' = [hist EXCEPT !.idleAsk = FALSE, !.odd = OddAfter(0)]
    BY <1>4, <2>1 DEF AccStep, Do
  <2>4. acc'.requests[1] = 0
    BY <1>1, <1>2, <2>3, CompassServed DEF RateInv, Stored
  <2>5. call'.todo \in Plain
    BY <1>2, <2>2, NextSteps DEF Plain
  <2>6. hist'.lastAsk = hist.lastAsk /\ ~(hist.lastAsk > 0)
    BY <1>1, <2>2, <2>3 DEF AskInv, Records, Hist
  <2>7. QED
    BY <2>4, <2>5, <2>6, Zenon DEF AskInv, Idle
<1>5. QED
  BY <1>3, <1>4 DEF AccStep

(* What a call begins with.                                                *)
LEMMA BegunCall ==
  ASSUME Begin
  PROVE  /\ Rest /\ hal.toInit = {} /\ ~Crashed /\ UNCHANGED <<kind, hal, worker, comp, lib, acc, reader, hist>>
         /\ \E m \in hal.up :
              call'.sensor = m /\ call'.todo \in {activate(m, TRUE), activate(m, FALSE), set_delay(m)}
         /\ call'.ns \in Rates \cup {0} /\ call'.file = FALSE
<1> DEFINE on(m) == activate(m, TRUE)
           off(m) == activate(m, FALSE)
           slow(m) == set_delay(m)
<1>1. \E m \in hal.up : \/ call' = [NoCall EXCEPT !.sensor = m, !.todo = on(m)]
                       \/ call' = [NoCall EXCEPT !.sensor = m, !.todo = off(m)]
                       \/ \E ns \in Rates \cup {0} : call' = [sensor |-> m, ns |-> ns, todo |-> slow(m), file |-> FALSE]
  BY DEF Begin
<1> HIDE DEF on, off, slow
<1>2. \E m \in hal.up, ns \in Rates \cup {0} :
        \E todo \in {on(m), off(m), slow(m)} : call' = [sensor |-> m, ns |-> ns, todo |-> todo, file |-> FALSE]
  BY <1>1 DEF NoCall
<1>3. /\ \E m \in hal.up : call'.sensor = m /\ call'.todo \in {on(m), off(m), slow(m)}
      /\ call'.ns \in Rates \cup {0} /\ call'.file = FALSE
  BY <1>2
<1>4. QED
  BY <1>3 DEF on, off, slow, Begin, Free

(* A call begins at rest: nothing is asked for without cause.              *)
LEMMA AskBegin == ASSUME Records, AskInv, Begin PROVE AskInv'
<1>1. SUFFICES ASSUME WithAcc PROVE AskInv'
  BY DEF AskInv, Begin, WithAcc
<1>2. Rest /\ UNCHANGED <<kind, comp, acc, hist>> /\ Oriented' = Oriented
  BY DEF Begin, Free, Oriented
<1>3. Idle
  BY <1>1, <1>2, NextSteps DEF AskInv, Rest
<1>4. PICK m \in hal.up :
        call'.sensor = m /\ call'.todo \in {activate(m, TRUE), activate(m, FALSE), set_delay(m)}
  BY BegunCall
<1>5. ~Mpu
  BY <1>1 DEF Mpu, WithAcc
<1>6. Idle'
  BY <1>2, <1>3, Zenon DEF Idle
<1>7. (hist.lastAsk > 0 => Oriented # {} /\ acc.requests[1] = Stored(hist.lastAsk))'
  <2>1. hist.lastAsk > 0 => Oriented # {} /\ acc.requests[1] = Stored(hist.lastAsk)
    BY <1>1 DEF AskInv
  <2>2. UNCHANGED Stored(hist.lastAsk)
    BY <1>2 DEF Stored, Bma250
  <2>3. QED
    BY <1>2, <2>1, <2>2
<1>8. CASE call'.todo = activate(m, TRUE) \/ call'.todo = set_delay(m)
  <2>1. call'.todo \in {Enable1, Enable4, Delay1, Delay2}
    BY <1>5, <1>8, CompassCalls DEF activate, set_delay
  <2>2. call'.todo \in Plain
    BY <1>4, <2>1 DEF Plain
  <2>3. QED
    BY <1>2, <1>6, <1>7, <2>2, Zenon DEF AskInv
<1>9. CASE call'.todo = activate(m, FALSE)
  <2>1. \/ call'.todo \in {Disable1, Disable3} /\ ~released_with(m)
        \/ call'.todo \in {Disable2, Disable4} /\ released_with(m)
    BY <1>5, <1>9, CompassCalls DEF activate
  <2>2. released_with(m) <=> Oriented \ {m} = {}
    BY DEF released_with, Others, Oriented
  <2>3. QED
    <3>1. \/ call'.todo \in {Disable1, Disable3} /\ Oriented' \ {call'.sensor} # {}
          \/ call'.todo \in {Disable2, Disable4} /\ Oriented' \ {call'.sensor} = {}
      BY <1>2, <1>4, <2>1, <2>2
    <3>2. QED
      BY <1>7, <3>1, Zenon DEF AskInv
<1>10. QED
  BY <1>4, <1>8, <1>9

(* The rest leave the requests of the compass alone.                       *)
LEMMA AskOthersKeep ==
  ASSUME Records, RateInv, AskInv, RateInv', Open \/ InitSensor \/ AndroidDelay \/ Close \/ BeginRead \/ Look \/ Put \/ UNCHANGED vars
  PROVE  AskInv'
<1>1. UNCHANGED <<kind, call>>
  <2>1. CASE InitSensor
    BY <2>1 DEF InitSensor
  <2>2. CASE Close
    BY <2>2 DEF Close
  <2>3. CASE Open \/ AndroidDelay \/ BeginRead \/ Look \/ Put \/ UNCHANGED vars
    BY <2>3 DEF Open, AndroidDelay, BeginRead, Look, Put, vars
  <2>4. QED
    BY <2>1, <2>2, <2>3
<1>2. hist'.lastAsk = hist.lastAsk /\ hist'.idleAsk = hist.idleAsk
  <2>1. CASE InitSensor
    BY <2>1 DEF InitSensor, Records, Hist
  <2>2. CASE Close
    BY <2>2 DEF Close, Records, Hist
  <2>3. CASE Put
    BY <2>3 DEF Put, Records, Hist
  <2>4. CASE Open \/ AndroidDelay \/ BeginRead \/ Look \/ UNCHANGED vars
    BY <2>4 DEF Open, AndroidDelay, BeginRead, Look, vars
  <2>5. QED
    BY <2>1, <2>2, <2>3, <2>4
<1>3. Oriented' = Oriented
  <2>1. comp'.active = comp.active
    <3>1. CASE InitSensor
      BY <3>1 DEF InitSensor, ak897x_init, mpu3050_init, Records, Comp
    <3>2. CASE Close
      BY <3>2 DEF Close, ak897x_close, mpu3050_close, Records, Comp
    <3>3. CASE Open \/ AndroidDelay \/ BeginRead \/ Look \/ Put \/ UNCHANGED vars
      BY <3>3 DEF Open, AndroidDelay, BeginRead, Look, Put, vars
    <3>4. QED
      BY <3>1, <3>2, <3>3
  <2>2. QED
    BY <2>1 DEF Oriented
<1>4. acc'.requests[1] = acc.requests[1]
  <2>1. CASE AndroidDelay
    <3>1. PICK ns \in Rates : fw_delay(ns)
      BY <2>1 DEF AndroidDelay
    <3> DEFINE requests == [acc.requests EXCEPT ![0] = Stored(ns)]
    <3>2. requests[1] = acc.requests[1]
      BY SlotStored, SharedAssumption DEF RateInv, SharedAssumption
    <3>3. Requested(requests, acc.handle)
      BY <3>1 DEF fw_delay, CLIENT_ANDROID
    <3> HIDE DEF requests
    <3>4. acc'.requests = requests
      BY <3>3 DEF Requested
    <3>5. QED
      BY <3>2, <3>4
  <2>2. CASE ~AndroidDelay
    <3>1. CASE InitSensor
      BY <3>1 DEF InitSensor
    <3>2. CASE Close
      BY <3>2 DEF Close
    <3>3. CASE Open \/ BeginRead \/ Look \/ Put \/ UNCHANGED vars
      BY <3>3 DEF Open, BeginRead, Look, Put, vars
    <3>4. QED
      BY <2>2, <3>1, <3>2, <3>3
  <2>3. QED
    BY <2>1, <2>2
<1>5. UNCHANGED <<Idle, Stored(hist.lastAsk), WithAcc>>
  BY <1>1, <1>2, <1>3, <1>4 DEF Idle, Stored, Bma250, WithAcc
<1>6. QED
  BY <1>1, <1>2, <1>3, <1>4, <1>5 DEF AskInv

(* Every step keeps the compass's request.                                 *)
LEMMA AskKeeps == CrashInv /\ RateInv /\ AskInv /\ [Next]_vars => AskInv'
<1> SUFFICES ASSUME CrashInv, RateInv, AskInv, [Next]_vars PROVE AskInv'
  OBVIOUS
<1>1. Records
  BY DEF CrashInv
<1>2. CASE WorkerStep
  <2>1. /\ ~Rest /\ Head(call.todo) \in {"set_fd", "resume", "suspend", "worker_delay", "open"} /\ Done
        /\ UNCHANGED <<kind, acc, comp>>
    BY <1>2 DEF WorkerStep, Do, Rest
  <2>2. hist'.lastAsk = hist.lastAsk /\ hist'.idleAsk = hist.idleAsk
    BY <1>1, <1>2 DEF WorkerStep, Alive, Crashes, Records, Hist
  <2>3. QED
    BY <1>1, <2>1, <2>2, AskOtherStep, DoneGoesOn DEF Records
<1>3. CASE OpenStep
  <2>1. ~Rest /\ Head(call.todo) = "open" /\ UNCHANGED <<kind, acc, comp>>
    BY <1>3 DEF OpenStep, Do, Rest
  <2>2. hist'.lastAsk = hist.lastAsk /\ hist'.idleAsk = hist.idleAsk
    BY <1>1, <1>3 DEF OpenStep, Records, Hist
  <2>3. call'.todo \in {<<>>, Tail(call.todo)}
    <3> DEFINE todo == Tail(call.todo)
    <3>1. call' = NoCall \/ call' = [call EXCEPT !.todo = todo, !.file = TRUE]
      BY <1>3 DEF OpenStep
    <3> HIDE DEF todo
    <3>2. call' = NoCall => call'.todo = <<>>
      BY DEF NoCall
    <3>3. \A file : call' = [call EXCEPT !.todo = todo, !.file = file] => call'.todo = todo
      BY <1>1 DEF Records, Call
    <3>4. call'.todo \in {<<>>, todo}
      BY <3>1, <3>2, <3>3
    <3>5. QED
      BY <3>4 DEF todo
  <2>4. QED
    BY <2>1, <2>2, <2>3, AskOtherStep
<1>4. CASE LibStep
  <2>1. /\ ~Rest /\ UNCHANGED <<kind, acc>>
        /\ Head(call.todo) \in {"lib_enable", "lib_disable", "lib_delay", "lib_open", "activated", "deactivated"}
    BY <1>4 DEF LibStep, Do, Rest
  <2>2. SUFFICES ASSUME WithAcc PROVE FALSE
    BY <2>1 DEF AskInv, WithAcc
  <2>3. QED
    BY <2>1, <2>2, NextSteps DEF AskInv, Plain, Rest
<1>5. CASE FlagStep \/ AccStep \/ Begin
  BY <1>1, <1>5, AskFlagStep, AskAccStep, AskBegin
<1>6. CASE Open \/ InitSensor \/ AndroidDelay \/ Close \/ BeginRead \/ Look \/ Put \/ UNCHANGED vars
  BY <1>1, <1>6, AskOthersKeep, RateKeeps
<1>7. QED
  BY <1>2, <1>3, <1>4, <1>5, <1>6 DEF Next

(* For any delays and order of the calls: the last delay asked for by an   *)
(* enabled orientation sensor stays with the accelerometer until the last  *)
(* of them is disabled, and with none enabled nothing stays but what a     *)
(* disabled one asked for since; and the rate written serves them all.     *)
THEOREM SharedRequestsServed == Spec => []RequestsServed
<1>1. Init => AskInv
  BY DEF Init, AskInv, Plain, NoCall, Idle, Oriented, MAX_CLIENTS
<1>2. RateInv /\ AskInv => RequestsServed
  BY NextSteps DEF RateInv, AskInv, RequestsServed, RequestWhileOriented, Rest, Idle, Oriented
<1>3. QED
  BY CrashInit, CrashKeeps, RateInit, RateKeeps, <1>1, AskKeeps, <1>2, PTL DEF Spec

(***************************************************************************)
(* The steps of the mpu3050's calls.                                       *)
(***************************************************************************)

Join2 == <<"lib_enable", "active">>
Join6 == <<"lib_enable", "active", "lib_open", "activated", "set_fd", "resume">>
Join5 == <<"active", "lib_open", "activated", "set_fd", "resume">>
Join4 == <<"lib_open", "activated", "set_fd", "resume">>
Join3 == <<"activated", "set_fd", "resume">>
Leave2 == <<"lib_disable", "inactive">>
Leave5 == <<"lib_disable", "inactive", "deactivated", "suspend", "set_fd">>
Leave4 == <<"inactive", "deactivated", "suspend", "set_fd">>
Leave3 == <<"deactivated", "suspend", "set_fd">>
LibDelay == <<"lib_delay">>

(* The next step of each, and what is left then.                           *)
LEMMA NextLibSteps ==
  /\ Head(Join2) = "lib_enable" /\ Tail(Join2) = Enable1 /\ Join2 # <<>>
  /\ Head(Join6) = "lib_enable" /\ Tail(Join6) = Join5 /\ Join6 # <<>>
  /\ Head(Join5) = "active" /\ Tail(Join5) = Join4 /\ Join5 # <<>>
  /\ Head(Join4) = "lib_open" /\ Tail(Join4) = Join3 /\ Join4 # <<>>
  /\ Head(Join3) = "activated" /\ Tail(Join3) = Enable2 /\ Join3 # <<>>
  /\ Head(Leave2) = "lib_disable" /\ Tail(Leave2) = Disable1 /\ Leave2 # <<>>
  /\ Head(Leave5) = "lib_disable" /\ Tail(Leave5) = Leave4 /\ Leave5 # <<>>
  /\ Head(Leave4) = "inactive" /\ Tail(Leave4) = Leave3 /\ Leave4 # <<>>
  /\ Head(Leave3) = "deactivated" /\ Tail(Leave3) = Stop2 /\ Leave3 # <<>>
  /\ Head(LibDelay) = "lib_delay" /\ Tail(LibDelay) = <<>> /\ LibDelay # <<>>
  BY DEF Join2, Join6, Join5, Join4, Join3, Leave2, Leave5, Leave4, Leave3, LibDelay,
         Enable1, Enable2, Disable1, Stop2

(* Those that begin with the same step are not the same.                   *)
LEMMA StepsDiffer ==
  /\ Enable1 # Join5 /\ Disable1 # Leave4 /\ Enable2 # Unfile1 /\ Join2 # Join6 /\ Leave2 # Leave5
  /\ Enable1 # Enable4 /\ Disable1 # Disable2 /\ Disable1 # Disable3 /\ Disable1 # Disable4 /\ Disable2 # Disable3
  /\ Disable2 # Disable4 /\ Enable2 # Unfile2 /\ Unfile1 # Unfile2 /\ Stop2 # Stop3
<1>1. /\ Len(Enable1) = 1 /\ Len(Join5) = 5 /\ Len(Disable1) = 1 /\ Len(Leave4) = 4 /\ Len(Join2) = 2 /\ Len(Join6) = 6
      /\ Len(Leave2) = 2 /\ Len(Leave5) = 5 /\ Len(Enable4) = 4 /\ Len(Disable2) = 2 /\ Len(Disable3) = 3 /\ Len(Disable4) = 4
      /\ Len(Enable2) = 2 /\ Len(Unfile1) = 1 /\ Len(Stop2) = 2 /\ Len(Stop3) = 3
  BY DEF Enable1, Join5, Disable1, Leave4, Join2, Join6, Leave2, Leave5, Enable4, Disable2, Disable3, Disable4,
         Enable2, Unfile1, Stop2, Stop3
<1>2. Unfile1 # Unfile2 /\ Enable2 # Unfile2
  BY NextSteps
<1>3. QED
  BY <1>1, <1>2

(* Each step of the mpu3050's calls that shares its name with another.     *)
LEMMA LibTodosDiffer ==
  /\ Enable1 \notin {<<>>, LibDelay, Join2, Join6, Join5, Join4, Join3, Enable2, EnableLast,
                      Leave2, Disable1, Leave5, Leave4, Leave3, Stop2, Unfile1}
  /\ Join5 \notin {<<>>, LibDelay, Join2, Enable1, Join6, Join4, Join3, Enable2, EnableLast,
                    Leave2, Disable1, Leave5, Leave4, Leave3, Stop2, Unfile1}
  /\ Disable1 \notin {<<>>, LibDelay, Join2, Enable1, Join6, Join5, Join4, Join3, Enable2,
                       EnableLast, Leave2, Leave5, Leave4, Leave3, Stop2, Unfile1}
  /\ Leave4 \notin {<<>>, LibDelay, Join2, Enable1, Join6, Join5, Join4, Join3, Enable2,
                     EnableLast, Leave2, Disable1, Leave5, Leave3, Stop2, Unfile1}
  /\ Enable2 \notin {<<>>, LibDelay, Join2, Enable1, Join6, Join5, Join4, Join3, EnableLast,
                      Leave2, Disable1, Leave5, Leave4, Leave3, Stop2, Unfile1}
  /\ Unfile1 \notin {<<>>, LibDelay, Join2, Enable1, Join6, Join5, Join4, Join3, Enable2,
                      EnableLast, Leave2, Disable1, Leave5, Leave4, Leave3, Stop2}
<1>1. Enable1 \notin {<<>>, LibDelay, Join2, Join6, Join5, Join4, Join3, Enable2, EnableLast,
                      Leave2, Disable1, Leave5, Leave4, Leave3, Stop2, Unfile1}
  BY NextSteps, NextLibSteps, StepsDiffer
<1>2. Join5 \notin {<<>>, LibDelay, Join2, Enable1, Join6, Join4, Join3, Enable2, EnableLast,
                    Leave2, Disable1, Leave5, Leave4, Leave3, Stop2, Unfile1}
  BY NextSteps, NextLibSteps, StepsDiffer
<1>3. Disable1 \notin {<<>>, LibDelay, Join2, Enable1, Join6, Join5, Join4, Join3, Enable2,
                       EnableLast, Leave2, Leave5, Leave4, Leave3, Stop2, Unfile1}
  BY NextSteps, NextLibSteps, StepsDiffer
<1>4. Leave4 \notin {<<>>, LibDelay, Join2, Enable1, Join6, Join5, Join4, Join3, Enable2,
                     EnableLast, Leave2, Disable1, Leave5, Leave3, Stop2, Unfile1}
  BY NextSteps, NextLibSteps, StepsDiffer
<1>5. Enable2 \notin {<<>>, LibDelay, Join2, Enable1, Join6, Join5, Join4, Join3, EnableLast,
                      Leave2, Disable1, Leave5, Leave4, Leave3, Stop2, Unfile1}
  BY NextSteps, NextLibSteps, StepsDiffer
<1>6. Unfile1 \notin {<<>>, LibDelay, Join2, Enable1, Join6, Join5, Join4, Join3, Enable2,
                      EnableLast, Leave2, Disable1, Leave5, Leave4, Leave3, Stop2}
  BY NextSteps, NextLibSteps, StepsDiffer
<1>7. QED
  BY <1>1, <1>2, <1>3, <1>4, <1>5, <1>6

(* A call that has such steps left is not over.                            *)
LEMMA StepsLeft ==
  <<>> \notin {Enable1, Enable4, Enable3, Enable2, EnableLast, Disable1, Disable2, Disable3, Disable4, Stop2, Stop3,
               Unfile1, Unfile2, Release, Delay1, Delay2, Join2, Join6, Join5, Join4, Join3, Leave2, Leave5, Leave4,
               Leave3, LibDelay}
  BY NextSteps, NextLibSteps

(* The steps of each call of mpu3050.c.                                    *)
LEMMA LibCalls ==
  ASSUME NEW m
  PROVE  /\ mpu3050_activate(m, TRUE) = IF comp.activated THEN Join2 ELSE Join6
         /\ mpu3050_activate(m, FALSE) = IF comp.activated /\ still_active(m) = {} THEN Leave5 ELSE Leave2
         /\ mpu3050_set_delay(m) = LibDelay
<1>1. /\ \A a, b : <<a, b>> \o <<>> = <<a, b>>
      /\ \A a, b, c, d, e : <<a, b>> \o <<c, d, e>> = <<a, b, c, d, e>>
  BY JoinedSteps, Zenon
<1>2. \A a, b, c, d, e, f : <<a, b>> \o <<c, d, e, f>> = <<a, b, c, d, e, f>>
  BY JoinedSteps, Zenon
<1>3. <<"lib_enable", "active">> \o <<>> = Join2 /\ <<"lib_disable", "inactive">> \o <<>> = Leave2
  BY <1>1, Zenon DEF Join2, Leave2
<1>4. <<"lib_enable", "active">> \o <<"lib_open", "activated", "set_fd", "resume">> = Join6
  <2>1. \A c, d, e, f : <<"lib_enable", "active">> \o <<c, d, e, f>> = <<"lib_enable", "active", c, d, e, f>>
    BY <1>2, Zenon
  <2>2. QED
    BY <2>1, Zenon DEF Join6
<1>5. <<"lib_disable", "inactive">> \o <<"deactivated", "suspend", "set_fd">> = Leave5
  BY <1>1, Zenon DEF Leave5
<1>6. mpu3050_activate(m, TRUE) = IF comp.activated THEN Join2 ELSE Join6
  BY <1>3, <1>4, Zenon DEF mpu3050_activate
<1>7. mpu3050_activate(m, FALSE) = IF comp.activated /\ still_active(m) = {} THEN Leave5 ELSE Leave2
  <2>1. CASE comp.activated /\ still_active(m) = {}
    BY <1>5, <2>1, Zenon DEF mpu3050_activate
  <2>2. CASE ~(comp.activated /\ still_active(m) = {})
    BY <1>3, <2>2, Zenon DEF mpu3050_activate
  <2>3. QED
    BY <2>1, <2>2
<1>8. QED
  BY <1>6, <1>7 DEF mpu3050_set_delay, LibDelay

(***************************************************************************)
(* What the steps have in common.                                          *)
(***************************************************************************)

CallStep == FlagStep \/ WorkerStep \/ OpenStep \/ AccStep \/ LibStep

(* The rest of a call after a step: for the same sensor, or none.          *)
LEMMA CallGoesOn ==
  ASSUME Call(call), CallStep
  PROVE  /\ ~Rest /\ ~Crashed
         /\ call'.todo = Tail(call.todo) \/ (call'.todo = <<>> /\ Head(call.todo) = "open")
         /\ call'.todo # <<>> => call'.sensor = call.sensor
         /\ call'.sensor \in {None, call.sensor} /\ call'.ns \in {0, call.ns} /\ call'.file \in BOOLEAN \cup {call.file}
         /\ Head(call.todo) \notin {"open", "lib_open"} => call'.file \in {FALSE, call.file} /\ (call'.todo # <<>> => call'.file = call.file)
<1> DEFINE todo == Tail(call.todo)
<1>1. ~Rest /\ ~Crashed
  BY DEF CallStep, FlagStep, WorkerStep, OpenStep, AccStep, LibStep, Do, Rest
<1>2. \/ call' = (IF todo = <<>> THEN NoCall ELSE [call EXCEPT !.todo = todo])
      \/ Head(call.todo) \in {"open", "lib_open"} /\ \E file \in BOOLEAN : call' = [call EXCEPT !.todo = todo, !.file = file]
      \/ Head(call.todo) = "open" /\ call' = NoCall
  <2>1. CASE FlagStep \/ WorkerStep \/ AccStep
    BY <2>1 DEF FlagStep, WorkerStep, AccStep, Done
  <2>2. CASE OpenStep
    BY <2>2 DEF OpenStep, Do
  <2>3. CASE LibStep
    BY <2>3 DEF LibStep, Done, Do
  <2>4. QED
    BY <2>1, <2>2, <2>3 DEF CallStep
<1> HIDE DEF todo
<1>3. CASE call' = (IF todo = <<>> THEN NoCall ELSE [call EXCEPT !.todo = todo])
  BY <1>1, <1>3 DEF NoCall, Call, todo
<1>4. CASE Head(call.todo) \in {"open", "lib_open"} /\ \E file \in BOOLEAN : call' = [call EXCEPT !.todo = todo, !.file = file]
  BY <1>1, <1>4 DEF Call, todo
<1>5. CASE Head(call.todo) = "open" /\ call' = NoCall
  BY <1>1, <1>5 DEF NoCall
<1>6. QED
  BY <1>2, <1>3, <1>4, <1>5

(* What a step of a call leaves alone.                                     *)
LEMMA CallEffect ==
  ASSUME Records, CallStep
  PROVE  /\ UNCHANGED <<kind, reader>>
         /\ hal'.opens = hal.opens /\ hal'.listed = hal.listed /\ hal'.toInit = hal.toInit /\ hal'.up = hal.up
         /\ hal'.want \in {hal.want, hal.want \cup {call.sensor}, hal.want \ {call.sensor}}
         /\ comp'.init = comp.init /\ worker'.threads = worker.threads
         /\ hist'.late \subseteq hist.late /\ hist'.left \subseteq hist.left \cup {call.sensor}
         /\ \A x \in {"missing", "closed", "late twice"} : x \in hist'.odd <=> x \in hist.odd
<1>1. UNCHANGED <<kind, reader>>
  BY DEF CallStep, FlagStep, WorkerStep, OpenStep, AccStep, LibStep
<1>2. /\ hal'.opens = hal.opens /\ hal'.listed = hal.listed /\ hal'.toInit = hal.toInit /\ hal'.up = hal.up
      /\ hal'.want \in {hal.want, hal.want \cup {call.sensor}, hal.want \ {call.sensor}}
  <2>1. \/ UNCHANGED hal
        \/ hal' = [hal EXCEPT !.want = hal.want \ {call.sensor}]
        \/ \E active \in BOOLEAN : hal' = [hal EXCEPT !.want = Now(active)]
    <3>1. Enabling \in BOOLEAN /\ Do("active") \in BOOLEAN
      BY DEF Enabling, Do
    <3>2. QED
      BY <3>1 DEF CallStep, FlagStep, WorkerStep, OpenStep, AccStep, LibStep, Returned
  <2>2. \A active \in BOOLEAN : Now(active) \in {hal.want, hal.want \cup {call.sensor}, hal.want \ {call.sensor}}
    BY DEF Now
  <2>3. QED
    BY <2>1, <2>2 DEF Records, Hal
<1>3. comp'.init = comp.init
  BY DEF CallStep, FlagStep, WorkerStep, OpenStep, AccStep, LibStep, Records, Comp
<1>4. worker'.threads = worker.threads
  BY DEF CallStep, FlagStep, WorkerStep, OpenStep, AccStep, LibStep, Records, Worker
<1>5. /\ hist'.late \subseteq hist.late /\ hist'.left \subseteq hist.left \cup {call.sensor}
      /\ \A x \in {"missing", "closed", "late twice"} : x \in hist'.odd <=> x \in hist.odd
  <2>1. CASE FlagStep
    BY <2>1 DEF FlagStep, Records, Hist
  <2>2. CASE WorkerStep
    BY <2>2 DEF WorkerStep, Alive, Crashes, Records, Hist
  <2>3. CASE OpenStep
    BY <2>3 DEF OpenStep, Records, Hist
  <2>4. CASE AccStep
    BY <2>4 DEF AccStep, OddAfter, Records, Hist
  <2>5. CASE LibStep
    BY <2>5, LibOdd
  <2>6. QED
    BY <2>1, <2>2, <2>3, <2>4, <2>5 DEF CallStep
<1>6. QED
  BY <1>1, <1>2, <1>3, <1>4, <1>5

(***************************************************************************)
(* The types.                                                              *)
(***************************************************************************)

TypeInv ==
  /\ kind \in Kinds
  /\ hal.opens \in 0..OPENS[kind] /\ hal.listed \subseteq Members /\ hal.toInit \subseteq hal.listed
  /\ hal.up \subseteq hal.listed /\ hal.want \subseteq hal.up
  /\ call.sensor \in Members \cup {None} /\ (~Rest => call.sensor \in hal.up /\ hal.toInit = {})
  /\ call.ns \in Rates \cup {0} /\ call.file \in BOOLEAN
  /\ worker.mode \in {None, "sleep", "run", "gone"} /\ worker.open \in BOOLEAN
  /\ comp.init \subseteq Members /\ comp.active \subseteq Members /\ comp.activated \in BOOLEAN
  /\ lib \subseteq Members
  /\ reader = [todo |-> reader.todo, put |-> reader.put]
  /\ reader.todo \in Seq(Members) /\ reader.put \in Members \cup {None}
  /\ hist.left \subseteq Members /\ hist.late \subseteq Members

(* The sensors of either composition.                                      *)
LEMMA MembersAre ==
  Members = IF Mpu THEN {"rotation_v", "linear_accl", "gravity", "gyro"}
                   ELSE {"orientation", "orientation_raw", "magnetic"}
<1>1. \A s : ToSet(s) = {s[i] : i \in DOMAIN s}
  BY DEF ToSet
<1>2. ToSet(mpu3050_Gyro) = {"rotation_v", "linear_accl", "gravity", "gyro"}
  BY <1>1 DEF mpu3050_Gyro
<1>3. ToSet(ak897x_compass) = {"orientation", "orientation_raw", "magnetic"}
  BY <1>1 DEF ak897x_compass
<1>4. QED
  BY <1>2, <1>3 DEF Members, Composition

(* The composition does not change.                                        *)
LEMMA MembersStay == ASSUME UNCHANGED kind PROVE Members' = Members /\ Mpu' = Mpu
  BY DEF Members, Composition, Mpu

\* The members of X, each once.
Lists(s, X) ==
  /\ s \in Seq(Members)
  /\ \A i, j \in 1..Len(s) : s[i] = s[j] => i = j
  /\ {s[i] : i \in 1..Len(s)} = X

(* A sensor that is enabled comes after those before it.                   *)
LEMMA GivenNext ==
  ASSUME NEW X, NEW s, Lists(s, X), NEW m \in Members, m \notin X
  PROVE  Lists(s \o given(m), X \cup (lib \cap {m}))
<1>1. CASE m \in lib
  <2>1. s \o given(m) = Append(s, m) /\ s \in Seq(Members)
    BY <1>1, AppendIsConcat DEF given, Lists
  <2>2. Lists(Append(s, m), X \cup {m})
    BY <2>1 DEF Lists
  <2>3. lib \cap {m} = {m}
    BY <1>1
  <2>4. QED
    BY <2>1, <2>2, <2>3
<1>2. CASE m \notin lib
  <2>1. s \o given(m) = s
    BY <1>2, ConcatEmptySeq DEF given, Lists
  <2>2. X \cup (lib \cap {m}) = X
    BY <1>2
  <2>3. QED
    BY <2>1, <2>2
<1>3. QED
  BY <1>1, <1>2

(* A packet of the mpu3050 gives an event of each sensor enabled, once.    *)
LEMMA ReadLists == ASSUME Mpu, lib \subseteq Members PROVE Lists(mpu3050_read, lib)
<1> DEFINE s1 == given("rotation_v")
           s2 == s1 \o given("linear_accl")
           s3 == s2 \o given("gravity")
           s4 == s3 \o given("gyro")
           X1 == {} \cup (lib \cap {"rotation_v"})
           X2 == X1 \cup (lib \cap {"linear_accl"})
           X3 == X2 \cup (lib \cap {"gravity"})
           X4 == X3 \cup (lib \cap {"gyro"})
<1>1. Members = {"rotation_v", "linear_accl", "gravity", "gyro"}
  BY MembersAre
<1>2. Lists(<<>>, {})
  BY DEF Lists
<1>3. Lists(s1, X1)
  <2>1. Lists(<<>> \o s1, X1)
    BY <1>1, <1>2, GivenNext
  <2>2. given("rotation_v") \in Seq(Members)
    <3>1. "rotation_v" \in Members
      BY <1>1
    <3>2. \A m \in Members : <<m>> \in Seq(Members) /\ <<>> \in Seq(Members)
      OBVIOUS
    <3>3. QED
      BY <3>1, <3>2, Zenon DEF given
  <2>3. <<>> \o s1 = s1
    BY <2>2, ConcatEmptySeq
  <2>4. QED
    BY <2>1, <2>3
<1>4. "linear_accl" \notin X1 /\ "gravity" \notin X2 /\ "gyro" \notin X3 /\ X4 = lib
  BY <1>1
<1> HIDE DEF s1, X1
<1>5. Lists(s2, X2)
  BY <1>1, <1>3, <1>4, GivenNext
<1> HIDE DEF s2, X2
<1>6. Lists(s3, X3)
  BY <1>1, <1>4, <1>5, GivenNext
<1> HIDE DEF s3, X3
<1>7. Lists(s4, X4)
  BY <1>1, <1>4, <1>6, GivenNext
<1>8. QED
  BY <1>4, <1>7 DEF mpu3050_read, s1, s2, s3

(* The compass looks at each of its sensors once.                          *)
LEMMA CompassLists == ASSUME ~Mpu PROVE Lists(ak897x_read, Members)
<1>1. Members = {"orientation", "orientation_raw", "magnetic"}
  BY MembersAre
<1>2. QED
  BY <1>1 DEF Lists, ak897x_read

(* A step of a call keeps the types.                                       *)
LEMMA TypeCall == ASSUME Records, TypeInv, CallStep PROVE TypeInv'
<1>1. /\ UNCHANGED <<kind, reader>> /\ Members' = Members
      /\ ~Rest /\ call.sensor \in hal.up /\ call.sensor \in Members
  BY CallEffect, CallGoesOn, MembersStay DEF TypeInv, Records
<1>2. /\ hal'.opens \in 0..OPENS[kind] /\ hal'.listed \subseteq Members /\ hal'.toInit \subseteq hal'.listed
      /\ hal'.up \subseteq hal'.listed /\ hal'.want \subseteq hal'.up
      /\ hist'.left \subseteq Members /\ hist'.late \subseteq Members
  BY <1>1, CallEffect DEF TypeInv
<1>3. /\ call'.sensor \in Members \cup {None} /\ (~Rest' => call'.sensor \in hal'.up /\ hal'.toInit = {})
      /\ call'.ns \in Rates \cup {0} /\ call'.file \in BOOLEAN
  BY <1>1, CallEffect, CallGoesOn DEF TypeInv, Records, Rest
<1>4. worker'.mode \in {None, "sleep", "run", "gone"} /\ worker'.open \in BOOLEAN
  BY DEF CallStep, FlagStep, WorkerStep, OpenStep, AccStep, LibStep, TypeInv, Records, Worker
<1>5. comp'.init \subseteq Members /\ comp'.active \subseteq Members /\ comp'.activated \in BOOLEAN
  <2>1. CASE FlagStep
    BY <1>1, <2>1 DEF FlagStep, TypeInv, Records, Comp
  <2>2. CASE LibStep
    <3>1. Do("activated") \in BOOLEAN
      BY DEF Do
    <3>2. UNCHANGED comp \/ \E on \in BOOLEAN : comp' = [comp EXCEPT !.activated = on]
      BY <2>2, <3>1 DEF LibStep
    <3>3. QED
      BY <3>2 DEF TypeInv, Records, Comp
  <2>3. CASE WorkerStep \/ OpenStep \/ AccStep
    BY <2>3 DEF WorkerStep, OpenStep, AccStep, TypeInv
  <2>4. QED
    BY <2>1, <2>2, <2>3 DEF CallStep
<1>6. lib' \subseteq Members
  BY <1>1 DEF CallStep, FlagStep, WorkerStep, OpenStep, AccStep, LibStep, TypeInv
<1>7. QED
  BY <1>1, <1>2, <1>3, <1>4, <1>5, <1>6 DEF TypeInv

(* What finding a sensor, or not, does to the list.                        *)
LEMMA InitEffect ==
  ASSUME Records, InitSensor
  PROVE  \E m \in hal.toInit, found \in BOOLEAN :
           /\ IF Mpu THEN found /\ mpu3050_init(m) ELSE ak897x_init(m, found)
           /\ hal'.opens = hal.opens /\ hal'.toInit = hal.toInit \ {m}
           /\ hal'.up = IF found THEN hal.up \cup {m} ELSE hal.up \ {m}
           /\ hal'.listed = IF found THEN hal.listed ELSE hal.listed \ {m}
           /\ hal'.want = IF found THEN hal.want ELSE hal.want \ {m}
           /\ hist'.odd = IF found THEN hist.odd ELSE hist.odd \cup {"missing"}
           /\ hist'.left = IF found THEN hist.left ELSE hist.left \cup (comp.active \cap {m})
           /\ hist'.late = hist.late
           /\ UNCHANGED <<kind, call, acc, reader>>
<1>1. PICK i \in DOMAIN Composition, found \in BOOLEAN :
        /\ Composition[i] \in hal.toInit
        /\ IF Mpu THEN found /\ mpu3050_init(Composition[i]) ELSE ak897x_init(Composition[i], found)
        /\ hal' = [hal EXCEPT !.toInit = @ \ {Composition[i]},
                              !.up = IF found THEN @ \cup {Composition[i]} ELSE @ \ {Composition[i]},
                              !.listed = IF found THEN @ ELSE @ \ {Composition[i]},
                              !.want = IF found THEN @ ELSE @ \ {Composition[i]}]
        /\ hist' = [hist EXCEPT !.odd = IF found THEN @ ELSE @ \cup {"missing"},
                                !.left = IF found THEN @ ELSE @ \cup (comp.active \cap {Composition[i]})]
  BY DEF InitSensor
<1> DEFINE m == Composition[i]
           toInit == hal.toInit \ {m}
           up == IF found THEN hal.up \cup {m} ELSE hal.up \ {m}
           listed == IF found THEN hal.listed ELSE hal.listed \ {m}
           want == IF found THEN hal.want ELSE hal.want \ {m}
           odd == IF found THEN hist.odd ELSE hist.odd \cup {"missing"}
           left == IF found THEN hist.left ELSE hist.left \cup (comp.active \cap {m})
<1>2. /\ hal' = [hal EXCEPT !.toInit = toInit, !.up = up, !.listed = listed, !.want = want]
      /\ hist' = [hist EXCEPT !.odd = odd, !.left = left]
  BY <1>1
<1>3. m \in hal.toInit /\ IF Mpu THEN found /\ mpu3050_init(m) ELSE ak897x_init(m, found)
  BY <1>1
<1> HIDE DEF toInit, up, listed, want, odd, left
<1>4. /\ hal'.opens = hal.opens /\ hal'.toInit = toInit /\ hal'.up = up /\ hal'.listed = listed /\ hal'.want = want
      /\ hist'.odd = odd /\ hist'.left = left /\ hist'.late = hist.late
  BY <1>2 DEF Records, Hal, Hist
<1>5. UNCHANGED <<kind, call, acc, reader>>
  BY DEF InitSensor
<1> HIDE DEF m
<1>6. QED
  BY <1>3, <1>4, <1>5 DEF toInit, up, listed, want, odd, left

(* What closing a sensor does.                                             *)
LEMMA CloseEffect ==
  ASSUME Records, Close
  PROVE  \E m \in hal.up :
           /\ IF Mpu THEN mpu3050_close(m) ELSE ak897x_close(m)
           /\ hal'.opens = hal.opens /\ hal'.toInit = hal.toInit /\ hal'.listed = hal.listed
           /\ hal'.up = hal.up \ {m} /\ hal'.want = hal.want \ {m}
           /\ hist'.odd = hist.odd \cup {"closed"} /\ hist'.left = hist.left \cup (comp.active \cap {m})
           /\ hist'.late = hist.late
           /\ Rest /\ hal.toInit = {} /\ ~Crashed /\ UNCHANGED <<kind, call, acc, reader>>
  BY DEF Close, Free, Records, Hal, Hist

(* What noting a sensor as init does to the records.                       *)
LEMMA NotedEffect ==
  ASSUME Records, NEW m, NEW found \in BOOLEAN,
         IF Mpu THEN found /\ mpu3050_init(m) ELSE ak897x_init(m, found)
  PROVE  /\ comp'.active = comp.active /\ comp'.activated = comp.activated
         /\ Mpu => /\ found /\ comp'.init = {m}
                   /\ IF comp.init = {} THEN Created /\ lib' = {} ELSE UNCHANGED <<worker, lib>>
         /\ ~Mpu => /\ comp'.init = comp.init \cup {m} /\ UNCHANGED lib
                    /\ IF found /\ comp.init = {} THEN Created ELSE UNCHANGED worker
  BY DEF Records, Comp, mpu3050_init, ak897x_init, NoneInited

(* What noting it no more does.                                            *)
LEMMA ClosedEffect ==
  ASSUME Records, NEW m, IF Mpu THEN mpu3050_close(m) ELSE ak897x_close(m)
  PROVE  /\ comp'.active = comp.active /\ comp'.activated = comp.activated /\ UNCHANGED lib
         /\ Mpu => comp'.init = {} /\ UNCHANGED worker
         /\ ~Mpu => /\ comp'.init = comp.init \ {m}
                    /\ IF comp.init \subseteq {m}
                       THEN worker' = [mode |-> "gone", open |-> FALSE, threads |-> worker.threads - 1] ELSE UNCHANGED worker
  BY DEF Records, Comp, mpu3050_close, ak897x_close, last

(* The reader goes through sensors of the composition.                     *)
LEMMA TypeReader == ASSUME Records, TypeInv, BeginRead \/ Look \/ Put PROVE TypeInv'
<1>1. UNCHANGED <<kind, hal, call, worker, comp, lib>> /\ Members' = Members
  BY MembersStay DEF BeginRead, Look, Put
<1>2. hist'.left = hist.left /\ hist'.late \subseteq Members
  <2>1. CASE Put
    <3>1. reader.put \in Members
      BY <2>1 DEF Put, TypeInv
    <3>2. UNCHANGED hist \/ (\E odd : hist' = [hist EXCEPT !.odd = odd]) \/ hist' = [hist EXCEPT !.late = @ \cup {reader.put}]
      BY <2>1 DEF Put
    <3>3. QED
      BY <3>1, <3>2 DEF TypeInv, Records, Hist
  <2>2. CASE ~Put
    BY <2>2 DEF BeginRead, Look, TypeInv
  <2>3. QED
    BY <2>1, <2>2
<1>3. /\ reader' = [todo |-> reader'.todo, put |-> reader'.put]
      /\ reader'.todo \in Seq(Members) /\ reader'.put \in Members \cup {None}
  <2>1. CASE BeginRead
    <3> DEFINE todo == IF Mpu THEN mpu3050_read ELSE ak897x_read
    <3>1. todo \in Seq(Members)
      BY ReadLists, CompassLists DEF Lists, TypeInv
    <3>2. reader' = [reader EXCEPT !.todo = todo]
      BY <2>1 DEF BeginRead
    <3> HIDE DEF todo
    <3>3. QED
      BY <3>1, <3>2 DEF TypeInv
  <2>2. CASE Look
    <3> DEFINE rest == Tail(reader.todo)
               put == IF asks_for(Head(reader.todo)) THEN Head(reader.todo) ELSE None
    <3>1. rest \in Seq(Members) /\ put \in Members \cup {None}
      BY <2>2 DEF Look, TypeInv
    <3>2. reader' = [todo |-> rest, put |-> put]
      BY <2>2 DEF Look
    <3> HIDE DEF rest, put
    <3>3. QED
      BY <3>1, <3>2
  <2>3. CASE Put
    BY <2>3 DEF Put, TypeInv
  <2>4. QED
    BY <2>1, <2>2, <2>3
<1>4. QED
  BY <1>1, <1>2, <1>3 DEF TypeInv, Rest

(* Every step keeps the types.                                             *)
LEMMA TypeKeeps == ASSUME Records, TypeInv, [Next]_vars PROVE TypeInv'
<1>1. CASE CallStep
  BY <1>1, TypeCall
<1>2. CASE BeginRead \/ Look \/ Put
  BY <1>2, TypeReader
<1>3. CASE Open
  <2>1. /\ hal'.opens = hal.opens + 1 /\ hal'.toInit = hal.listed /\ hal'.listed = hal.listed /\ hal'.up = hal.up
        /\ hal'.want = hal.want /\ Rest /\ hal.opens < OPENS[kind]
        /\ UNCHANGED <<kind, call, worker, comp, lib, acc, reader, hist>>
    BY <1>3 DEF Open, Free, Records, Hal
  <2>2. OPENS[kind] \in Nat
    BY SharedAssumption DEF SharedAssumption, TypeInv
  <2>3. QED
    BY <2>1, <2>2, MembersStay DEF TypeInv, Rest
<1>4. CASE InitSensor
  <2>1. PICK m \in hal.toInit, found \in BOOLEAN :
           /\ IF Mpu THEN found /\ mpu3050_init(m) ELSE ak897x_init(m, found)
           /\ hal'.opens = hal.opens /\ hal'.toInit = hal.toInit \ {m}
           /\ hal'.up = IF found THEN hal.up \cup {m} ELSE hal.up \ {m}
           /\ hal'.listed = IF found THEN hal.listed ELSE hal.listed \ {m}
           /\ hal'.want = IF found THEN hal.want ELSE hal.want \ {m}
           /\ hist'.left = IF found THEN hist.left ELSE hist.left \cup (comp.active \cap {m})
           /\ hist'.late = hist.late
           /\ UNCHANGED <<kind, call, acc, reader>>
    BY <1>4, InitEffect
  <2>2. m \in Members /\ Rest /\ Members' = Members
    BY <2>1, MembersStay DEF TypeInv
  <2>3. /\ comp'.init \subseteq Members /\ comp'.active = comp.active /\ comp'.activated = comp.activated
        /\ worker'.mode \in {None, "sleep", "run", "gone"} /\ worker'.open \in BOOLEAN /\ lib' \subseteq Members
    <3>1. /\ comp'.active = comp.active /\ comp'.activated = comp.activated
          /\ comp'.init \in {{m}, comp.init \cup {m}} /\ lib' \in {lib, {}} /\ (Created \/ UNCHANGED worker)
      BY <2>1, NotedEffect
    <3>2. Created => worker'.mode = "sleep" /\ worker'.open = FALSE
      BY DEF Created
    <3>3. QED
      BY <2>2, <3>1, <3>2 DEF TypeInv
  <2>4. QED
    BY <2>1, <2>2, <2>3 DEF TypeInv, Rest
<1>5. CASE Begin
  <2>1. PICK m \in hal.up : call'.sensor = m
    BY <1>5, BegunCall
  <2>2. QED
    BY <1>5, <2>1, BegunCall, MembersStay DEF TypeInv, Rest
<1>6. CASE Close
  <2>1. PICK m \in hal.up :
           /\ IF Mpu THEN mpu3050_close(m) ELSE ak897x_close(m)
           /\ hal'.opens = hal.opens /\ hal'.toInit = hal.toInit /\ hal'.listed = hal.listed
           /\ hal'.up = hal.up \ {m} /\ hal'.want = hal.want \ {m}
           /\ hist'.left = hist.left \cup (comp.active \cap {m}) /\ hist'.late = hist.late
           /\ Rest /\ UNCHANGED <<kind, call, acc, reader>>
    BY <1>6, CloseEffect
  <2>2. /\ comp'.init \subseteq Members /\ comp'.active = comp.active /\ comp'.activated = comp.activated
        /\ worker'.mode \in {None, "sleep", "run", "gone"} /\ worker'.open \in BOOLEAN /\ lib' \subseteq Members
    <3>1. /\ comp'.active = comp.active /\ comp'.activated = comp.activated /\ UNCHANGED lib
          /\ comp'.init \subseteq comp.init
          /\ UNCHANGED worker \/ (worker'.mode = "gone" /\ worker'.open = FALSE)
      BY <2>1, ClosedEffect
    <3>2. QED
      BY <3>1 DEF TypeInv
  <2>3. QED
    BY <2>1, <2>2, MembersStay DEF TypeInv, Rest
<1>7. CASE AndroidDelay \/ UNCHANGED vars
  <2>1. UNCHANGED <<kind, hal, call, worker, comp, lib, reader, hist>>
    BY <1>7 DEF AndroidDelay, vars
  <2>2. QED
    BY <2>1, MembersStay DEF TypeInv, Rest
<1>8. QED
  BY <1>1, <1>2, <1>3, <1>4, <1>5, <1>6, <1>7 DEF Next, CallStep

(***************************************************************************)
(* The threads.                                                            *)
(***************************************************************************)

(* An open that has sensors to come to, none of them noted as init yet,    *)
(* may still start a thread. A compass without a thread holds no sensor    *)
(* noted as init, or one that was missing: that one is never closed.       *)
ThreadInv ==
  /\ worker.threads \in Nat /\ worker.threads <= hal.opens
  /\ hal.toInit # {} /\ comp.init = {} => worker.threads < hal.opens
  /\ ~Mpu => /\ hal.up \subseteq comp.init /\ worker.threads <= 1
             /\ comp.init = {} => worker.threads = 0
             /\ worker.threads = 0 => comp.init = {} \/ ~(comp.init \subseteq hal.listed)
             /\ "missing" \notin hist.odd => comp.init \subseteq hal.up
  /\ Mpu /\ "closed" \notin hist.odd =>
       /\ worker.threads <= 1
       /\ comp.init = {} => worker.threads = 0 /\ hal.up = {}
       /\ comp.init # {} => hal.up # {}

(* Every step keeps the threads in line.                                   *)
LEMMA ThreadKeeps == ASSUME Records, TypeInv, ThreadInv, [Next]_vars PROVE ThreadInv'
<1>1. CASE CallStep
  <2>1. /\ hal'.opens = hal.opens /\ hal'.listed = hal.listed /\ hal'.toInit = hal.toInit /\ hal'.up = hal.up
        /\ comp'.init = comp.init /\ worker'.threads = worker.threads /\ Mpu' = Mpu
        /\ "missing" \in hist'.odd <=> "missing" \in hist.odd
        /\ "closed" \in hist'.odd <=> "closed" \in hist.odd
    BY <1>1, CallEffect, MembersStay
  <2>2. QED
    BY <2>1 DEF ThreadInv
<1>2. CASE Open
  <2>1. /\ hal'.opens = hal.opens + 1 /\ hal'.toInit = hal.listed /\ hal'.listed = hal.listed /\ hal'.up = hal.up
        /\ UNCHANGED <<kind, worker, comp, hist>>
    BY <1>2 DEF Open, Free, Records, Hal
  <2>2. QED
    BY <2>1, MembersStay DEF ThreadInv, TypeInv
<1>3. CASE InitSensor
  <2>1. PICK m \in hal.toInit, found \in BOOLEAN :
           /\ IF Mpu THEN found /\ mpu3050_init(m) ELSE ak897x_init(m, found)
           /\ hal'.opens = hal.opens /\ hal'.toInit = hal.toInit \ {m}
           /\ hal'.up = IF found THEN hal.up \cup {m} ELSE hal.up \ {m}
           /\ hal'.listed = IF found THEN hal.listed ELSE hal.listed \ {m}
           /\ hist'.odd = IF found THEN hist.odd ELSE hist.odd \cup {"missing"}
           /\ UNCHANGED kind
    BY <1>3, InitEffect
  <2>2. CASE Mpu
    <3>1. found /\ comp'.init = {m} /\ IF comp.init = {} THEN Created ELSE UNCHANGED worker
      BY <2>1, <2>2, NotedEffect
    <3>2. worker'.threads = IF comp.init = {} THEN worker.threads + 1 ELSE worker.threads
      BY <3>1 DEF Created
    <3>3. QED
      BY <2>1, <2>2, <3>1, <3>2, MembersStay DEF ThreadInv, TypeInv
  <2>3. CASE ~Mpu
    <3>1. comp'.init = comp.init \cup {m} /\ IF found /\ comp.init = {} THEN Created ELSE UNCHANGED worker
      BY <2>1, <2>3, NotedEffect
    <3>2. worker'.threads = IF found /\ comp.init = {} THEN worker.threads + 1 ELSE worker.threads
      BY <3>1 DEF Created
    <3>3. QED
      BY <2>1, <2>3, <3>1, <3>2, MembersStay DEF ThreadInv, TypeInv
  <2>4. QED
    BY <2>2, <2>3
<1>4. CASE Close
  <2>1. PICK m \in hal.up :
           /\ IF Mpu THEN mpu3050_close(m) ELSE ak897x_close(m)
           /\ hal'.opens = hal.opens /\ hal'.toInit = hal.toInit /\ hal'.listed = hal.listed
           /\ hal'.up = hal.up \ {m} /\ hist'.odd = hist.odd \cup {"closed"}
           /\ hal.toInit = {} /\ UNCHANGED kind
    BY <1>4, CloseEffect
  <2>2. CASE Mpu
    <3>1. comp'.init = {} /\ UNCHANGED worker
      BY <2>1, <2>2, ClosedEffect
    <3>2. QED
      BY <2>1, <2>2, <3>1, MembersStay DEF ThreadInv, TypeInv
  <2>3. CASE ~Mpu
    <3>1. /\ comp'.init = comp.init \ {m}
          /\ worker'.threads = IF comp.init \subseteq {m} THEN worker.threads - 1 ELSE worker.threads
      BY <2>1, <2>3, ClosedEffect
    <3>2. m \in comp.init /\ m \in hal.listed
      BY <2>1, <2>3 DEF ThreadInv, TypeInv
    <3>3. comp.init \subseteq {m} => worker.threads = 1
      BY <2>3, <3>2 DEF ThreadInv
    <3>4. QED
      BY <2>1, <2>3, <3>1, <3>2, <3>3, MembersStay DEF ThreadInv, TypeInv
  <2>4. QED
    BY <2>2, <2>3
<1>5. CASE Begin \/ AndroidDelay \/ BeginRead \/ Look \/ UNCHANGED vars
  <2>1. UNCHANGED <<kind, hal, worker, comp, hist>>
    BY <1>5 DEF Begin, AndroidDelay, BeginRead, Look, vars
  <2>2. QED
    BY <2>1, MembersStay DEF ThreadInv
<1>6. CASE Put
  <2>1. UNCHANGED <<kind, hal, worker, comp>> /\ \A x \in {"missing", "closed"} : x \in hist'.odd <=> x \in hist.odd
    BY <1>6 DEF Put, Records, Hist
  <2>2. QED
    BY <2>1, MembersStay DEF ThreadInv
<1>7. QED
  BY <1>1, <1>2, <1>3, <1>4, <1>5, <1>6 DEF Next, CallStep

(***************************************************************************)
(* The steps of a call, one by one.                                        *)
(***************************************************************************)

(* The flag.                                                               *)
LEMMA FlagEffect ==
  ASSUME Records, FlagStep
  PROVE  /\ Head(call.todo) \in {"active", "inactive"}
         /\ comp'.active = IF Head(call.todo) = "active" THEN comp.active \cup {call.sensor} ELSE comp.active \ {call.sensor}
         /\ hal'.want = IF Tail(call.todo) # <<>> THEN hal.want
                        ELSE IF Head(call.todo) = "active" THEN hal.want \cup {call.sensor} ELSE hal.want \ {call.sensor}
         /\ hist'.left = hist.left \ {call.sensor} /\ hist'.late = hist.late \ {call.sensor} /\ hist'.odd = hist.odd
         /\ comp'.init = comp.init /\ comp'.activated = comp.activated
         /\ UNCHANGED <<kind, worker, lib, reader>>
<1>1. Head(call.todo) \in {"active", "inactive"} /\ (Do("active") <=> Head(call.todo) = "active")
  BY DEF FlagStep, Do
<1> DEFINE m == call.sensor
           active == IF Do("active") THEN comp.active \cup {m} ELSE comp.active \ {m}
           want == Now(Do("active"))
           lastAsk == IF active \cap Orientations = {} THEN 0 ELSE hist.lastAsk
<1>2. /\ comp' = [comp EXCEPT !.active = active] /\ hal' = [hal EXCEPT !.want = want]
      /\ hist' = [hist EXCEPT !.left = @ \ {m}, !.late = @ \ {m}, !.lastAsk = lastAsk]
      /\ UNCHANGED <<kind, worker, lib, reader>>
  BY DEF FlagStep
<1> HIDE DEF active, want, lastAsk
<1>3. /\ comp'.active = active /\ comp'.init = comp.init /\ comp'.activated = comp.activated /\ hal'.want = want
      /\ hist'.left = hist.left \ {m} /\ hist'.late = hist.late \ {m} /\ hist'.odd = hist.odd
  BY <1>2 DEF Records, Comp, Hal, Hist
<1>4. QED
  BY <1>1, <1>2, <1>3 DEF active, want, Now

\* What the framework holds when a call has returned, or has not.
Settled ==
  hal'.want = IF Tail(call.todo) # <<>> THEN hal.want
              ELSE IF call.sensor \in comp.active THEN hal.want \cup {call.sensor} ELSE hal.want \ {call.sensor}

(* What is returned.                                                       *)
LEMMA ReturnedSettles == ASSUME Records, Returned PROVE Settled
  BY DEF Returned, Settled, Now, Enabling, Records, Hal

(* The worker; whatever crashes, nothing goes on after it.                 *)
LEMMA WorkerEffect ==
  ASSUME Records, WorkerStep, ~Crashed'
  PROVE  /\ Head(call.todo) \in {"set_fd", "resume", "suspend", "worker_delay"}
         /\ Head(call.todo) = "set_fd" =>
              reader.todo = <<>> /\ reader.put = None /\ worker'.open = call.file /\ worker'.mode = worker.mode
         /\ Head(call.todo) = "resume" => worker'.open = worker.open /\ worker'.mode = "run"
         /\ Head(call.todo) = "suspend" => worker'.open = worker.open /\ worker'.mode = "sleep"
         /\ Head(call.todo) = "worker_delay" => UNCHANGED <<worker, hal>>
         /\ Head(call.todo) # "worker_delay" => Settled
         /\ UNCHANGED <<kind, comp, lib, reader, hist>>
<1>1. \/ /\ Head(call.todo) = "set_fd" /\ reader.todo = <<>> /\ reader.put = None
         /\ worker' = [worker EXCEPT !.open = call.file] /\ Alive
      \/ Head(call.todo) = "resume" /\ worker' = [worker EXCEPT !.mode = "run"] /\ Alive
      \/ Head(call.todo) = "suspend" /\ worker' = [worker EXCEPT !.mode = "sleep"] /\ Alive
      \/ Head(call.todo) = "worker_delay" /\ UNCHANGED worker /\ Alive
  <2>1. ~Crashes
    BY DEF Crashes, Crashed, Records, Hist
  <2>2. QED
    BY <2>1 DEF WorkerStep, Do
<1>2. IF Head(call.todo) = "worker_delay" THEN UNCHANGED hal ELSE Returned
  BY <1>1 DEF WorkerStep, Do
<1>3. QED
  BY <1>1, <1>2, ReturnedSettles DEF WorkerStep, Alive, Records, Worker

(* The requests to the accelerometer.                                      *)
LEMMA AccEffect ==
  ASSUME Records, AccStep
  PROVE  /\ Head(call.todo) \in {"request_acc", "release_acc"}
         /\ Head(call.todo) = "request_acc" => UNCHANGED hal
         /\ Head(call.todo) = "release_acc" => Settled
         /\ hist'.left = hist.left /\ hist'.late = hist.late
         /\ hist'.odd \in {hist.odd, hist.odd \cup {"crash"}}
         /\ UNCHANGED <<kind, worker, comp, lib, reader>>
<1>1. /\ Head(call.todo) \in {"request_acc", "release_acc"}
      /\ Head(call.todo) = "request_acc" => UNCHANGED hal
      /\ Head(call.todo) = "release_acc" => Returned
  BY DEF AccStep, Do
<1>2. /\ hist'.left = hist.left /\ hist'.late = hist.late
      /\ hist'.odd \in {hist.odd, hist.odd \cup {"crash"}}
  BY DEF AccStep, OddAfter, Records, Hist
<1>3. QED
  BY <1>1, <1>2, ReturnedSettles DEF AccStep

(* The compass's open.                                                     *)
LEMMA OpenEffect ==
  ASSUME Records, OpenStep
  PROVE  /\ Head(call.todo) = "open"
         /\ \/ call'.todo = Tail(call.todo) /\ call'.sensor = call.sensor /\ call'.file = TRUE /\ UNCHANGED <<hal, hist>>
            \/ /\ call'.todo = <<>> /\ hal'.want = hal.want \ {call.sensor}
               /\ hist'.left = hist.left \cup {call.sensor} /\ hist'.late = hist.late /\ hist'.odd = hist.odd
         /\ UNCHANGED <<kind, worker, comp, lib, reader>>
<1>1. Head(call.todo) = "open" /\ UNCHANGED <<kind, worker, comp, lib, reader>>
  BY DEF OpenStep, Do
<1>2. CASE call' = [call EXCEPT !.todo = Tail(@), !.file = TRUE] /\ UNCHANGED hist /\ UNCHANGED hal
  <2> DEFINE todo == Tail(call.todo)
  <2>1. call' = [call EXCEPT !.todo = todo, !.file = TRUE]
    BY <1>2
  <2> HIDE DEF todo
  <2>2. \A file : call' = [call EXCEPT !.todo = todo, !.file = file]
                => call'.todo = todo /\ call'.sensor = call.sensor /\ call'.file = file
    BY DEF Records, Call
  <2>3. call'.todo = todo /\ call'.sensor = call.sensor /\ call'.file = TRUE
    BY <2>1, <2>2
  <2>4. QED
    BY <1>1, <1>2, <2>3 DEF todo
<1>3. CASE /\ call' = NoCall
           /\ hist' = [hist EXCEPT !.left = @ \cup {call.sensor}] /\ hal' = [hal EXCEPT !.want = @ \ {call.sensor}]
  BY <1>1, <1>3 DEF NoCall, Records, Hal, Hist
<1>4. QED
  BY <1>2, <1>3 DEF OpenStep

(* The calls of the library.                                               *)
LEMMA LibEffect ==
  ASSUME Records, LibStep
  PROVE  /\ Head(call.todo) \in {"lib_enable", "lib_disable", "lib_delay", "lib_open", "activated", "deactivated"}
         /\ lib' = IF Head(call.todo) = "lib_enable" THEN lib \cup {call.sensor}
                   ELSE IF Head(call.todo) = "lib_disable" THEN lib \ {call.sensor} ELSE lib
         /\ comp'.activated = IF Head(call.todo) = "activated" THEN TRUE
                              ELSE IF Head(call.todo) = "deactivated" THEN FALSE ELSE comp.activated
         /\ comp'.active = comp.active /\ comp'.init = comp.init
         /\ Head(call.todo) = "lib_open" => call'.todo = Tail(call.todo) /\ call'.sensor = call.sensor
                                            /\ (call'.file = TRUE \/ "no file" \in hist'.odd)
         /\ Head(call.todo) # "lib_open" => UNCHANGED hist
         /\ hist'.left = hist.left /\ hist'.late = hist.late
         /\ \A x \in {"closed", "crash"} : x \in hist'.odd <=> x \in hist.odd
         /\ UNCHANGED <<kind, hal, worker, reader>>
<1>1. UNCHANGED <<kind, hal, worker, reader>>
  BY DEF LibStep
<1>2. CASE Do("lib_open")
  <2>1. Head(call.todo) = "lib_open" /\ UNCHANGED <<lib, comp>>
    BY <1>2 DEF LibStep, Do
  <2>2. PICK ok \in BOOLEAN :
          /\ call' = [call EXCEPT !.todo = Tail(@), !.file = ok]
          /\ hist' = [hist EXCEPT !.odd = IF ok THEN @ \ {"no file"} ELSE @ \cup {"no file"}]
    BY <1>2, <2>1 DEF LibStep, Do
  <2> DEFINE todo == Tail(call.todo)
             odd == IF ok THEN hist.odd \ {"no file"} ELSE hist.odd \cup {"no file"}
  <2>3. call' = [call EXCEPT !.todo = todo, !.file = ok] /\ hist' = [hist EXCEPT !.odd = odd]
    BY <2>2
  <2> HIDE DEF todo, odd
  <2>4. /\ call'.todo = todo /\ call'.sensor = call.sensor /\ call'.file = ok
        /\ hist'.odd = odd /\ hist'.left = hist.left /\ hist'.late = hist.late
    BY <2>3 DEF Records, Call, Hist
  <2>5. QED
    BY <1>1, <2>1, <2>4 DEF todo, odd
<1>3. CASE Do("activated") \/ Do("deactivated")
  <2>1. /\ Head(call.todo) \in {"activated", "deactivated"} /\ UNCHANGED <<lib, hist>>
        /\ comp' = [comp EXCEPT !.activated = Do("activated")]
    BY <1>3 DEF LibStep, Do
  <2>2. comp'.activated = Do("activated") /\ comp'.active = comp.active /\ comp'.init = comp.init
    BY <2>1, Zenon DEF Records, Comp
  <2>3. comp'.activated = (Head(call.todo) = "activated")
    BY <1>3, <2>1, <2>2 DEF Do
  <2>4. QED
    BY <1>1, <2>1, <2>2, <2>3
<1>4. CASE Do("lib_enable") \/ Do("lib_disable") \/ Do("lib_delay")
  <2>1. /\ Head(call.todo) \in {"lib_enable", "lib_disable", "lib_delay"} /\ UNCHANGED <<comp, hist>>
        /\ lib' = IF Head(call.todo) = "lib_enable" THEN lib \cup {call.sensor}
                  ELSE IF Head(call.todo) = "lib_disable" THEN lib \ {call.sensor} ELSE lib
    BY <1>4 DEF LibStep, Do
  <2>2. QED
    BY <1>1, <2>1
<1>5. QED
  BY <1>2, <1>3, <1>4 DEF LibStep

(***************************************************************************)
(* The worker runs while it is wanted.                                     *)
(***************************************************************************)

\* Between calls, and before a call has changed anything.
Kept ==
  /\ hal.want \subseteq comp.active
  /\ worker.open <=> worker.mode = "run"
  /\ worker.open => comp.active # {}
  /\ hal.want # {} => worker.open

\* Nobody else is enabled: the worker is being set going, or stopped.
Starting == hal.want = {} /\ worker.mode # "run" /\ call.sensor \in comp.active
Stopping == hal.want \subseteq {call.sensor} /\ comp.active = {} /\ ~call.file

Releasing ==
  /\ call.sensor \notin comp.active /\ hal.want \ {call.sensor} \subseteq comp.active
  /\ worker.open <=> worker.mode = "run"
  /\ worker.open => comp.active # {}
  /\ hal.want \ {call.sensor} # {} => worker.open

(* What holds of the compass and its worker before each step of a call.    *)
CompassRun ==
  \/ call.todo \in {<<>>, Delay1, Delay2} /\ Kept
  \/ call.todo = Enable1 /\ Kept /\ worker.open
  \/ call.todo = Enable4 /\ Kept /\ ~worker.open
  \/ call.todo = Enable3 /\ Starting /\ ~worker.open
  \/ call.todo = Enable2 /\ Starting /\ ~worker.open /\ call.file
  \/ call.todo = EnableLast /\ Starting /\ worker.open
  \/ call.todo \in {Disable1, Disable2} /\ Kept /\ (worker.open => Others(call.sensor) # {})
  \/ call.todo \in {Disable3, Disable4} /\ Kept /\ Others(call.sensor) = {} /\ ~call.file
  \/ call.todo \in {Stop2, Stop3} /\ Stopping
  \/ call.todo \in {Unfile1, Unfile2} /\ Stopping /\ worker.mode # "run"
  \/ call.todo = Release /\ Releasing

\* A call of the compass's sensors.
CompassTodos ==
  {<<>>, Delay1, Delay2, Enable1, Enable4, Enable3, Enable2, EnableLast, Disable1, Disable2, Disable3, Disable4,
   Stop2, Stop3, Unfile1, Unfile2, Release}

(* The step that comes next, and what is left of the call then.            *)
CompassStep ==
  \/ Head(call.todo) = "worker_delay" /\ Tail(call.todo) = <<>> /\ Kept
  \/ Head(call.todo) = "request_acc" /\ Tail(call.todo) = Delay1 /\ Kept
  \/ Head(call.todo) = "active" /\ Tail(call.todo) = <<>> /\ Kept /\ worker.open
  \/ Head(call.todo) = "active" /\ Tail(call.todo) = Enable3 /\ Kept /\ ~worker.open
  \/ Head(call.todo) = "open" /\ Tail(call.todo) = Enable2 /\ Starting /\ ~worker.open
  \/ Head(call.todo) = "set_fd" /\ Tail(call.todo) = EnableLast /\ Starting /\ ~worker.open /\ call.file
  \/ Head(call.todo) = "resume" /\ Tail(call.todo) = <<>> /\ Starting /\ worker.open
  \/ Head(call.todo) = "inactive" /\ Tail(call.todo) \in {<<>>, Release} /\ Kept /\ (worker.open => Others(call.sensor) # {})
  \/ Head(call.todo) = "inactive" /\ Tail(call.todo) \in {Stop2, Stop3} /\ Kept /\ Others(call.sensor) = {} /\ ~call.file
  \/ Head(call.todo) = "suspend" /\ Tail(call.todo) \in {Unfile1, Unfile2} /\ Stopping
  \/ Head(call.todo) = "set_fd" /\ Tail(call.todo) \in {<<>>, Release} /\ Stopping /\ worker.mode # "run"
  \/ Head(call.todo) = "release_acc" /\ Tail(call.todo) = <<>> /\ Releasing

(* It is one of these.                                                     *)
LEMMA CompassNext == ASSUME CompassRun, call.todo # <<>> PROVE CompassStep
<1>1. CASE call.todo \in {Delay1, Delay2} /\ Kept
  BY <1>1, NextSteps DEF CompassStep
<1>2. CASE call.todo = Enable1 /\ Kept /\ worker.open
  BY <1>2, NextSteps DEF CompassStep
<1>3. CASE call.todo = Enable4 /\ Kept /\ ~worker.open
  BY <1>3, NextSteps DEF CompassStep
<1>4. CASE call.todo = Enable3 /\ Starting /\ ~worker.open
  BY <1>4, NextSteps DEF CompassStep
<1>5. CASE call.todo = Enable2 /\ Starting /\ ~worker.open /\ call.file
  BY <1>5, NextSteps DEF CompassStep
<1>6. CASE call.todo = EnableLast /\ Starting /\ worker.open
  BY <1>6, NextSteps DEF CompassStep
<1>7. CASE call.todo \in {Disable1, Disable2} /\ Kept /\ (worker.open => Others(call.sensor) # {})
  BY <1>7, NextSteps DEF CompassStep
<1>8. CASE call.todo \in {Disable3, Disable4} /\ Kept /\ Others(call.sensor) = {} /\ ~call.file
  BY <1>8, NextSteps DEF CompassStep
<1>9. CASE call.todo \in {Stop2, Stop3} /\ Stopping
  BY <1>9, NextSteps DEF CompassStep
<1>10. CASE call.todo \in {Unfile1, Unfile2} /\ Stopping /\ worker.mode # "run"
  BY <1>10, NextSteps DEF CompassStep
<1>11. CASE call.todo = Release /\ Releasing
  BY <1>11, NextSteps DEF CompassStep
<1>12. QED
  BY <1>1, <1>2, <1>3, <1>4, <1>5, <1>6, <1>7, <1>8, <1>9, <1>10, <1>11 DEF CompassRun

(* A step of a call of the compass leads to where the next may be taken.   *)
LEMMA CompassFlag == ASSUME Records, ~Mpu, CompassRun, FlagStep PROVE CompassRun'
<1>1. /\ Head(call.todo) \in {"active", "inactive"} /\ call'.todo = Tail(call.todo) /\ call.todo # <<>> /\ UNCHANGED worker
      /\ call'.todo # <<>> => call'.sensor = call.sensor /\ call'.file = call.file
  BY FlagEffect, CallGoesOn DEF CallStep, Records, Rest
<1>2. /\ comp'.active = IF Head(call.todo) = "active" THEN comp.active \cup {call.sensor} ELSE comp.active \ {call.sensor}
      /\ hal'.want = IF Tail(call.todo) # <<>> THEN hal.want
                     ELSE IF Head(call.todo) = "active" THEN hal.want \cup {call.sensor} ELSE hal.want \ {call.sensor}
  BY FlagEffect
<1>3. CompassStep
  BY <1>1, CompassNext
<1>4. CASE Head(call.todo) = "active" /\ Tail(call.todo) = <<>> /\ Kept /\ worker.open
  <2>1. Kept'
    BY <1>1, <1>2, <1>4 DEF Kept
  <2>2. QED
    BY <1>1, <1>4, <2>1, Zenon DEF CompassRun
<1>5. CASE Head(call.todo) = "active" /\ Tail(call.todo) = Enable3 /\ Kept /\ ~worker.open
  <2>1. Starting' /\ ~worker'.open
    BY <1>1, <1>2, <1>5, StepsLeft DEF Starting, Kept
  <2>2. QED
    BY <1>1, <1>5, <2>1, Zenon DEF CompassRun
<1>6. CASE /\ Head(call.todo) = "inactive" /\ Tail(call.todo) \in {<<>>, Release}
           /\ Kept /\ (worker.open => Others(call.sensor) # {})
  <2>1. CASE Tail(call.todo) = <<>>
    <3>1. Kept'
      BY <1>1, <1>2, <1>6, <2>1 DEF Kept, Others
    <3>2. QED
      BY <1>1, <2>1, <3>1, Zenon DEF CompassRun
  <2>2. CASE Tail(call.todo) = Release
    <3>1. Releasing'
      BY <1>1, <1>2, <1>6, <2>2, StepsLeft DEF Kept, Others, Releasing
    <3>2. QED
      BY <1>1, <2>2, <3>1, Zenon DEF CompassRun
  <2>3. QED
    BY <1>6, <2>1, <2>2
<1>7. CASE /\ Head(call.todo) = "inactive" /\ Tail(call.todo) \in {Stop2, Stop3}
           /\ Kept /\ Others(call.sensor) = {} /\ ~call.file
  <2>1. Stopping'
    BY <1>1, <1>2, <1>7, StepsLeft DEF Kept, Others, Stopping
  <2>2. QED
    BY <1>1, <1>7, <2>1, Zenon DEF CompassRun
<1>8. QED
  BY <1>1, <1>3, <1>4, <1>5, <1>6, <1>7 DEF CompassStep

(* The compass's steps on its worker: it runs when it has a file again.    *)
LEMMA CompassWorker == ASSUME Records, ~Mpu, CompassRun, WorkerStep, ~Crashed' PROVE CompassRun'
<1>1. /\ call'.todo = Tail(call.todo) /\ call.todo # <<>> /\ UNCHANGED comp
      /\ Head(call.todo) \in {"set_fd", "resume", "suspend", "worker_delay"}
      /\ call'.todo # <<>> => call'.sensor = call.sensor /\ call'.file = call.file
  BY WorkerEffect, CallGoesOn DEF CallStep, Records, Rest
<1>2. CompassStep
  BY <1>1, CompassNext
<1>3. CASE Head(call.todo) = "set_fd"
  <2>1. worker'.open = call.file /\ worker'.mode = worker.mode /\ Settled
    BY <1>3, WorkerEffect
  <2>2. CASE Tail(call.todo) = EnableLast /\ Starting /\ ~worker.open /\ call.file
    <3>1. Starting' /\ worker'.open
      BY <1>1, <2>1, <2>2, StepsLeft DEF Starting, Settled
    <3>2. QED
      BY <1>1, <2>2, <3>1, Zenon DEF CompassRun
  <2>3. CASE Tail(call.todo) = <<>> /\ Stopping /\ worker.mode # "run"
    <3>1. Kept'
      BY <1>1, <2>1, <2>3 DEF Stopping, Kept, Settled
    <3>2. QED
      BY <1>1, <2>3, <3>1, Zenon DEF CompassRun
  <2>4. CASE Tail(call.todo) = Release /\ Stopping /\ worker.mode # "run"
    <3>1. Releasing'
      BY <1>1, <2>1, <2>4, StepsLeft DEF Stopping, Releasing, Settled
    <3>2. QED
      BY <1>1, <2>4, <3>1, Zenon DEF CompassRun
  <2>5. QED
    BY <1>2, <1>3, <2>2, <2>3, <2>4 DEF CompassStep
<1>4. CASE Head(call.todo) = "resume"
  <2>1. Tail(call.todo) = <<>> /\ Starting /\ worker.open
    BY <1>2, <1>4 DEF CompassStep
  <2>2. worker'.open = worker.open /\ worker'.mode = "run" /\ Settled
    BY <1>4, WorkerEffect
  <2>3. Kept'
    BY <1>1, <2>1, <2>2 DEF Starting, Kept, Settled
  <2>4. QED
    BY <1>1, <2>1, <2>3, Zenon DEF CompassRun
<1>5. CASE Head(call.todo) = "suspend"
  <2>1. Tail(call.todo) \in {Unfile1, Unfile2} /\ Stopping
    BY <1>2, <1>5 DEF CompassStep
  <2>2. worker'.mode = "sleep" /\ Settled
    BY <1>5, WorkerEffect
  <2>3. Stopping' /\ worker'.mode # "run"
    BY <1>1, <2>1, <2>2, StepsLeft DEF Stopping, Settled
  <2>4. QED
    BY <1>1, <2>1, <2>3, Zenon DEF CompassRun
<1>6. CASE Head(call.todo) = "worker_delay"
  <2>1. Tail(call.todo) = <<>> /\ Kept
    BY <1>2, <1>6 DEF CompassStep
  <2>2. Kept'
    BY <1>1, <1>6, <2>1, WorkerEffect DEF Kept
  <2>3. QED
    BY <1>1, <2>1, <2>2, Zenon DEF CompassRun
<1>7. QED
  BY <1>1, <1>3, <1>4, <1>5, <1>6

(* The open, which may fail, and the requests to the accelerometer; there  *)
(* is nothing to ask of a library.                                         *)
LEMMA CompassOther == ASSUME Records, ~Mpu, CompassRun, OpenStep \/ AccStep \/ LibStep PROVE CompassRun'
<1>1. CompassStep
  BY CallGoesOn, CompassNext DEF CallStep, Records, Rest
<1>2. CASE OpenStep
  <2>1. Head(call.todo) = "open" /\ UNCHANGED <<worker, comp>>
    BY <1>2, OpenEffect
  <2>2. Tail(call.todo) = Enable2 /\ Starting /\ ~worker.open
    BY <1>1, <2>1 DEF CompassStep
  <2>3. CASE call'.todo = Tail(call.todo) /\ call'.sensor = call.sensor /\ call'.file = TRUE /\ UNCHANGED <<hal, hist>>
    <3>1. Starting' /\ ~worker'.open /\ call'.file
      BY <2>1, <2>2, <2>3 DEF Starting
    <3>2. QED
      BY <2>2, <2>3, <3>1, Zenon DEF CompassRun
  <2>4. CASE call'.todo = <<>> /\ hal'.want = hal.want \ {call.sensor}
    <3>1. Kept'
      BY <2>1, <2>2, <2>4 DEF Starting, Kept
    <3>2. QED
      BY <2>4, <3>1, Zenon DEF CompassRun
  <2>5. QED
    BY <1>2, <2>3, <2>4, OpenEffect
<1>3. CASE AccStep
  <2>1. /\ Head(call.todo) \in {"request_acc", "release_acc"} /\ UNCHANGED <<worker, comp>> /\ call'.todo = Tail(call.todo)
        /\ Head(call.todo) = "request_acc" => UNCHANGED hal
        /\ Head(call.todo) = "release_acc" => Settled
    BY <1>3, AccEffect, CallGoesOn DEF CallStep, Records
  <2>2. CASE Head(call.todo) = "request_acc"
    <3>1. Tail(call.todo) = Delay1 /\ Kept
      BY <1>1, <2>2 DEF CompassStep
    <3>2. Kept'
      BY <2>1, <2>2, <3>1 DEF Kept
    <3>3. QED
      BY <2>1, <3>1, <3>2, Zenon DEF CompassRun
  <2>3. CASE Head(call.todo) = "release_acc"
    <3>1. Tail(call.todo) = <<>> /\ Releasing
      BY <1>1, <2>3 DEF CompassStep
    <3>2. Kept'
      BY <2>1, <2>3, <3>1 DEF Releasing, Kept, Settled
    <3>3. QED
      BY <2>1, <3>1, <3>2, Zenon DEF CompassRun
  <2>4. QED
    BY <2>1, <2>2, <2>3
<1>4. CASE LibStep
  BY <1>1, <1>4, LibEffect DEF CompassStep
<1>5. QED
  BY <1>2, <1>3, <1>4

(* A call of the compass begins.                                           *)
LEMMA CompassBegin == ASSUME Records, ~Mpu, CompassRun, Begin PROVE CompassRun'
<1>1. call.todo = <<>> /\ UNCHANGED <<hal, worker, comp>> /\ call'.file = FALSE
  BY BegunCall DEF Rest
<1>2. PICK m \in hal.up :
        call'.sensor = m /\ call'.todo \in {activate(m, TRUE), activate(m, FALSE), set_delay(m)}
  BY BegunCall
<1>3. Kept /\ Kept'
  <2>1. Kept
    BY <1>1, StepsLeft DEF CompassRun
  <2>2. QED
    BY <1>1, <2>1 DEF Kept
<1>4. CASE call'.todo \in {activate(m, TRUE), set_delay(m)}
  <2>1. \/ call'.todo \in {Delay1, Delay2}
        \/ call'.todo = Enable1 /\ worker'.open
        \/ call'.todo = Enable4 /\ ~worker'.open
    BY <1>1, <1>4, CompassCalls DEF activate, set_delay
  <2>2. QED
    BY <1>3, <2>1, Zenon DEF CompassRun
<1>5. CASE call'.todo = activate(m, FALSE)
  <2>1. Others(m) = comp'.active \ {m}
    BY <1>1 DEF Others
  <2>2. \/ call'.todo \in {Disable1, Disable2} /\ (worker'.open => comp'.active \ {m} # {})
        \/ call'.todo \in {Disable3, Disable4} /\ comp'.active \ {m} = {} /\ ~call'.file
    BY <1>1, <1>5, <2>1, CompassCalls DEF activate, still_active
  <2>3. QED
    BY <1>2, <1>3, <2>2 DEF CompassRun, Others
<1>6. QED
  BY <1>2, <1>4, <1>5

Closed == "closed" \in hist.odd
NoFile == "no file" \in hist.odd

\* Between calls of the mpu3050's sensors: the note that it is activated
\* stands for the worker, unless a close has let another take its place.
LibKept ==
  /\ hal.want \subseteq comp.active
  /\ worker.mode = "run" => comp.activated
  /\ comp.activated => comp.active # {}
  /\ comp.activated /\ ~Closed => worker.mode = "run" /\ (worker.open \/ NoFile) /\ comp.init # {}
  /\ hal.want # {} => comp.activated

(* What holds of the mpu3050 and its worker before each step of a call.    *)
LibRun ==
  \/ call.todo \in {<<>>, LibDelay} /\ LibKept
  \/ call.todo \in {Join2, Enable1} /\ LibKept /\ comp.activated
  \/ call.todo \in {Join6, Join5} /\ LibKept /\ ~comp.activated
  \/ call.todo = Join4 /\ Starting
  \/ call.todo = Join3 /\ Starting /\ (call.file \/ NoFile)
  \/ call.todo = Enable2 /\ Starting /\ comp.activated /\ (call.file \/ NoFile)
  \/ call.todo = EnableLast /\ Starting /\ comp.activated /\ (worker.open \/ NoFile)
  \/ call.todo \in {Leave2, Disable1} /\ LibKept /\ (comp.activated => Others(call.sensor) # {})
  \/ call.todo \in {Leave5, Leave4} /\ LibKept /\ comp.activated /\ Others(call.sensor) = {} /\ ~call.file
  \/ call.todo = Leave3 /\ Stopping
  \/ call.todo = Stop2 /\ Stopping /\ ~comp.activated
  \/ call.todo = Unfile1 /\ Stopping /\ ~comp.activated /\ worker.mode # "run"

(* The step that comes next, and what is left of the call then.            *)
LibNextStep ==
  \/ Head(call.todo) = "lib_delay" /\ Tail(call.todo) = <<>> /\ LibKept
  \/ Head(call.todo) = "lib_enable" /\ Tail(call.todo) = Enable1 /\ LibKept /\ comp.activated
  \/ Head(call.todo) = "active" /\ Tail(call.todo) = <<>> /\ LibKept /\ comp.activated
  \/ Head(call.todo) = "lib_enable" /\ Tail(call.todo) = Join5 /\ LibKept /\ ~comp.activated
  \/ Head(call.todo) = "active" /\ Tail(call.todo) = Join4 /\ LibKept /\ ~comp.activated
  \/ Head(call.todo) = "lib_open" /\ Tail(call.todo) = Join3 /\ Starting
  \/ Head(call.todo) = "activated" /\ Tail(call.todo) = Enable2 /\ Starting /\ (call.file \/ NoFile)
  \/ Head(call.todo) = "set_fd" /\ Tail(call.todo) = EnableLast /\ Starting /\ comp.activated /\ (call.file \/ NoFile)
  \/ Head(call.todo) = "resume" /\ Tail(call.todo) = <<>> /\ Starting /\ comp.activated /\ (worker.open \/ NoFile)
  \/ /\ Head(call.todo) = "lib_disable" /\ Tail(call.todo) = Disable1
     /\ LibKept /\ (comp.activated => Others(call.sensor) # {})
  \/ /\ Head(call.todo) = "inactive" /\ Tail(call.todo) = <<>>
     /\ LibKept /\ (comp.activated => Others(call.sensor) # {})
  \/ /\ Head(call.todo) = "lib_disable" /\ Tail(call.todo) = Leave4
     /\ LibKept /\ comp.activated /\ Others(call.sensor) = {} /\ ~call.file
  \/ /\ Head(call.todo) = "inactive" /\ Tail(call.todo) = Leave3
     /\ LibKept /\ comp.activated /\ Others(call.sensor) = {} /\ ~call.file
  \/ Head(call.todo) = "deactivated" /\ Tail(call.todo) = Stop2 /\ Stopping
  \/ Head(call.todo) = "suspend" /\ Tail(call.todo) = Unfile1 /\ Stopping /\ ~comp.activated
  \/ Head(call.todo) = "set_fd" /\ Tail(call.todo) = <<>> /\ Stopping /\ ~comp.activated /\ worker.mode # "run"

(* It is one of these.                                                     *)
LEMMA LibNext == ASSUME LibRun, call.todo # <<>> PROVE LibNextStep
<1>1. CASE call.todo = LibDelay /\ LibKept
  BY <1>1, NextLibSteps DEF LibNextStep
<1>2. CASE call.todo \in {Join2, Enable1} /\ LibKept /\ comp.activated
  BY <1>2, NextSteps, NextLibSteps DEF LibNextStep
<1>3. CASE call.todo \in {Join6, Join5} /\ LibKept /\ ~comp.activated
  BY <1>3, NextLibSteps DEF LibNextStep
<1>4. CASE call.todo = Join4 /\ Starting
  BY <1>4, NextLibSteps DEF LibNextStep
<1>5. CASE call.todo = Join3 /\ Starting /\ (call.file \/ NoFile)
  BY <1>5, NextLibSteps DEF LibNextStep
<1>6. CASE call.todo = Enable2 /\ Starting /\ comp.activated /\ (call.file \/ NoFile)
  BY <1>6, NextSteps DEF LibNextStep
<1>7. CASE call.todo = EnableLast /\ Starting /\ comp.activated /\ (worker.open \/ NoFile)
  BY <1>7, NextSteps DEF LibNextStep
<1>8. CASE call.todo \in {Leave2, Disable1} /\ LibKept /\ (comp.activated => Others(call.sensor) # {})
  BY <1>8, NextSteps, NextLibSteps DEF LibNextStep
<1>9. CASE call.todo \in {Leave5, Leave4} /\ LibKept /\ comp.activated /\ Others(call.sensor) = {} /\ ~call.file
  BY <1>9, NextLibSteps DEF LibNextStep
<1>10. CASE call.todo = Leave3 /\ Stopping
  BY <1>10, NextLibSteps DEF LibNextStep
<1>11. CASE call.todo = Stop2 /\ Stopping /\ ~comp.activated
  BY <1>11, NextSteps DEF LibNextStep
<1>12. CASE call.todo = Unfile1 /\ Stopping /\ ~comp.activated /\ worker.mode # "run"
  BY <1>12, NextSteps DEF LibNextStep
<1>13. QED
  BY <1>1, <1>2, <1>3, <1>4, <1>5, <1>6, <1>7, <1>8, <1>9, <1>10, <1>11, <1>12 DEF LibRun

(* The flag of a sensor of the mpu3050.                                    *)
LEMMA LibFlag == ASSUME Records, Mpu, LibRun, FlagStep PROVE LibRun'
<1>1. /\ Head(call.todo) \in {"active", "inactive"} /\ call'.todo = Tail(call.todo) /\ call.todo # <<>> /\ UNCHANGED worker
      /\ comp'.activated = comp.activated /\ comp'.init = comp.init /\ Closed' = Closed /\ NoFile' = NoFile
      /\ call'.todo # <<>> => call'.sensor = call.sensor /\ call'.file = call.file
  BY FlagEffect, CallGoesOn DEF CallStep, Records, Rest, Closed, NoFile
<1>2. /\ comp'.active = IF Head(call.todo) = "active" THEN comp.active \cup {call.sensor} ELSE comp.active \ {call.sensor}
      /\ hal'.want = IF Tail(call.todo) # <<>> THEN hal.want
                     ELSE IF Head(call.todo) = "active" THEN hal.want \cup {call.sensor} ELSE hal.want \ {call.sensor}
  BY FlagEffect
<1>3. LibNextStep
  BY <1>1, LibNext
<1>4. CASE Head(call.todo) = "active" /\ Tail(call.todo) = <<>> /\ LibKept /\ comp.activated
  <2>1. LibKept'
    BY <1>1, <1>2, <1>4 DEF LibKept
  <2>2. QED
    BY <1>1, <1>4, <2>1, Zenon DEF LibRun
<1>5. CASE Head(call.todo) = "active" /\ Tail(call.todo) = Join4 /\ LibKept /\ ~comp.activated
  <2>1. Starting'
    BY <1>1, <1>2, <1>5, StepsLeft DEF LibKept, Starting
  <2>2. QED
    BY <1>1, <1>5, <2>1, Zenon DEF LibRun
<1>6. CASE /\ Head(call.todo) = "inactive" /\ Tail(call.todo) = <<>>
           /\ LibKept /\ (comp.activated => Others(call.sensor) # {})
  <2>1. LibKept'
    BY <1>1, <1>2, <1>6 DEF LibKept, Others
  <2>2. QED
    BY <1>1, <1>6, <2>1, Zenon DEF LibRun
<1>7. CASE /\ Head(call.todo) = "inactive" /\ Tail(call.todo) = Leave3
           /\ LibKept /\ comp.activated /\ Others(call.sensor) = {} /\ ~call.file
  <2>1. Stopping'
    BY <1>1, <1>2, <1>7, StepsLeft DEF LibKept, Others, Stopping
  <2>2. QED
    BY <1>1, <1>7, <2>1, Zenon DEF LibRun
<1>8. QED
  BY <1>1, <1>3, <1>4, <1>5, <1>6, <1>7 DEF LibNextStep

(* The mpu3050's steps on its worker. A sensor that is called may be       *)
(* called, so that one was noted as init unless there was a close.         *)
LEMMA LibWorker ==
  ASSUME Records, TypeInv, ThreadInv, Mpu, LibRun, WorkerStep, ~Crashed'
  PROVE  LibRun'
<1>1. /\ call'.todo = Tail(call.todo) /\ call.todo # <<>> /\ UNCHANGED <<comp, hist>>
      /\ Head(call.todo) \in {"set_fd", "resume", "suspend", "worker_delay"}
      /\ call'.todo # <<>> => call'.sensor = call.sensor /\ call'.file = call.file
  BY WorkerEffect, CallGoesOn DEF CallStep, Records, Rest
<1>2. LibNextStep
  BY <1>1, LibNext
<1>3. CASE Head(call.todo) = "set_fd"
  <2>1. worker'.open = call.file /\ worker'.mode = worker.mode /\ Settled
    BY <1>3, WorkerEffect
  <2>2. CASE Tail(call.todo) = EnableLast /\ Starting /\ comp.activated /\ (call.file \/ NoFile)
    <3>1. Starting' /\ comp'.activated /\ (worker'.open \/ NoFile')
      BY <1>1, <2>1, <2>2, StepsLeft DEF Starting, Settled, NoFile
    <3>2. QED
      BY <1>1, <2>2, <3>1, Zenon DEF LibRun
  <2>3. CASE Tail(call.todo) = <<>> /\ Stopping /\ ~comp.activated /\ worker.mode # "run"
    <3>1. LibKept'
      BY <1>1, <2>1, <2>3 DEF Stopping, LibKept, Settled
    <3>2. QED
      BY <1>1, <2>3, <3>1, Zenon DEF LibRun
  <2>4. QED
    BY <1>2, <1>3, <2>2, <2>3 DEF LibNextStep
<1>4. CASE Head(call.todo) = "resume"
  <2>1. Tail(call.todo) = <<>> /\ Starting /\ comp.activated /\ (worker.open \/ NoFile)
    BY <1>2, <1>4 DEF LibNextStep
  <2>2. worker'.open = worker.open /\ worker'.mode = "run" /\ Settled
    BY <1>4, WorkerEffect
  <2>3. ~Closed => comp.init # {}
    BY <1>1 DEF TypeInv, ThreadInv, Rest, Closed
  <2>4. LibKept'
    BY <1>1, <2>1, <2>2, <2>3 DEF Starting, LibKept, Settled, Closed, NoFile
  <2>5. QED
    BY <1>1, <2>1, <2>4, Zenon DEF LibRun
<1>5. CASE Head(call.todo) = "suspend"
  <2>1. Tail(call.todo) = Unfile1 /\ Stopping /\ ~comp.activated
    BY <1>2, <1>5 DEF LibNextStep
  <2>2. worker'.mode = "sleep" /\ Settled
    BY <1>5, WorkerEffect
  <2>3. Stopping' /\ ~comp'.activated /\ worker'.mode # "run"
    BY <1>1, <2>1, <2>2, StepsLeft DEF Stopping, Settled
  <2>4. QED
    BY <1>1, <2>1, <2>3, Zenon DEF LibRun
<1>6. Head(call.todo) # "worker_delay"
  BY <1>2 DEF LibNextStep
<1>7. QED
  BY <1>1, <1>3, <1>4, <1>5, <1>6

(* The library's part; an open that gave no file is gone on with.          *)
LEMMA LibOther == ASSUME Records, Mpu, LibRun, OpenStep \/ AccStep \/ LibStep PROVE LibRun'
<1>1. LibNextStep /\ (call'.todo # <<>> => call'.sensor = call.sensor)
  BY CallGoesOn, LibNext DEF CallStep, Records, Rest
<1>2. CASE OpenStep \/ AccStep
  <2>1. Head(call.todo) \in {"open", "request_acc", "release_acc"}
    BY <1>2, OpenEffect, AccEffect
  <2>2. QED
    BY <1>1, <2>1 DEF LibNextStep
<1>3. CASE LibStep
  <2>1. /\ Head(call.todo) \in {"lib_enable", "lib_disable", "lib_delay", "lib_open", "activated", "deactivated"}
        /\ comp'.activated = IF Head(call.todo) = "activated" THEN TRUE
                             ELSE IF Head(call.todo) = "deactivated" THEN FALSE ELSE comp.activated
        /\ comp'.active = comp.active /\ comp'.init = comp.init
        /\ Head(call.todo) = "lib_open" => call'.file = TRUE \/ NoFile'
        /\ Head(call.todo) # "lib_open" => Closed' = Closed /\ NoFile' = NoFile
        /\ UNCHANGED <<hal, worker>>
    BY <1>3, LibEffect DEF Closed, NoFile
  <2>2. call'.todo = Tail(call.todo) /\ (Head(call.todo) # "lib_open" /\ call'.todo # <<>> => call'.file = call.file)
    BY <1>3, <2>1, CallGoesOn DEF CallStep, Records
  <2>3. CASE Head(call.todo) \in {"lib_enable", "lib_disable", "lib_delay"}
    <3>1. LibKept'
      <4>1. LibKept
        BY <1>1, <2>3 DEF LibNextStep
      <4>2. QED
        BY <2>1, <2>3, <4>1 DEF LibKept
    <3>2. CASE Head(call.todo) \in {"lib_enable", "lib_delay"}
      <4>1. \/ call'.todo = <<>>
            \/ call'.todo = Enable1 /\ comp'.activated
            \/ call'.todo = Join5 /\ ~comp'.activated
        BY <1>1, <2>1, <2>2, <3>2 DEF LibNextStep
      <4>2. QED
        BY <3>1, <4>1, Zenon DEF LibRun
    <3>3. CASE Head(call.todo) = "lib_disable"
      <4>1. \/ call'.todo = Disable1 /\ (comp'.activated => Others(call.sensor) # {})
            \/ call'.todo = Leave4 /\ comp'.activated /\ Others(call.sensor) = {} /\ ~call.file
        BY <1>1, <2>1, <2>2, <3>3 DEF LibNextStep
      <4>2. call'.todo # <<>>
        BY <4>1, StepsLeft
      <4>3. Others(call.sensor) = Others(call.sensor)' /\ call'.file = call.file
        BY <1>1, <2>1, <2>2, <3>3, <4>2 DEF Others
      <4>4. QED
        BY <3>1, <4>1, <4>3, Zenon DEF LibRun
    <3>4. QED
      BY <2>3, <3>2, <3>3
  <2>4. CASE Head(call.todo) = "lib_open"
    <3>1. Tail(call.todo) = Join3 /\ Starting
      BY <1>1, <2>4 DEF LibNextStep
    <3>2. Starting' /\ (call'.file \/ NoFile')
      BY <1>1, <2>1, <2>2, <2>4, <3>1, StepsLeft DEF Starting
    <3>3. QED
      BY <2>2, <3>1, <3>2, Zenon DEF LibRun
  <2>5. CASE Head(call.todo) = "activated"
    <3>1. Tail(call.todo) = Enable2 /\ Starting /\ (call.file \/ NoFile)
      BY <1>1, <2>5 DEF LibNextStep
    <3>2. Starting' /\ comp'.activated /\ (call'.file \/ NoFile')
      BY <1>1, <2>1, <2>2, <2>5, <3>1, StepsLeft DEF Starting
    <3>3. QED
      BY <2>2, <3>1, <3>2, Zenon DEF LibRun
  <2>6. CASE Head(call.todo) = "deactivated"
    <3>1. Tail(call.todo) = Stop2 /\ Stopping
      BY <1>1, <2>6 DEF LibNextStep
    <3>2. Stopping' /\ ~comp'.activated
      BY <1>1, <2>1, <2>2, <2>6, <3>1, StepsLeft DEF Stopping
    <3>3. QED
      BY <2>2, <3>1, <3>2, Zenon DEF LibRun
  <2>7. QED
    BY <2>1, <2>3, <2>4, <2>5, <2>6
<1>4. QED
  BY <1>2, <1>3

(* A call of the mpu3050's sensors begins.                                 *)
LEMMA LibBegin == ASSUME Records, Mpu, LibRun, Begin PROVE LibRun'
<1>1. call.todo = <<>> /\ UNCHANGED <<hal, worker, comp, hist>> /\ call'.file = FALSE
  BY BegunCall DEF Rest
<1>2. PICK m \in hal.up :
        call'.sensor = m /\ call'.todo \in {activate(m, TRUE), activate(m, FALSE), set_delay(m)}
  BY BegunCall
<1>3. LibKept'
  <2>1. LibKept
    BY <1>1, StepsLeft DEF LibRun
  <2>2. QED
    BY <1>1, <2>1 DEF LibKept, Closed, NoFile
<1>4. CASE call'.todo \in {activate(m, TRUE), set_delay(m)}
  <2>1. \/ call'.todo = LibDelay
        \/ call'.todo = Join2 /\ comp'.activated
        \/ call'.todo = Join6 /\ ~comp'.activated
    BY <1>1, <1>4, LibCalls DEF activate, set_delay
  <2>2. QED
    BY <1>3, <2>1, Zenon DEF LibRun
<1>5. CASE call'.todo = activate(m, FALSE)
  <2>1. Others(m) = comp'.active \ {m}
    BY <1>1 DEF Others
  <2>2. \/ call'.todo = Leave2 /\ (comp'.activated => comp'.active \ {m} # {})
        \/ call'.todo = Leave5 /\ comp'.activated /\ comp'.active \ {m} = {} /\ ~call'.file
    BY <1>1, <1>5, <2>1, LibCalls DEF activate, still_active
  <2>3. QED
    BY <1>2, <1>3, <2>2 DEF LibRun, Others
<1>6. QED
  BY <1>2, <1>4, <1>5

RunInv == ~Crashed => IF Mpu THEN LibRun ELSE CompassRun

(* A sensor is found or not: a worker is set up only when none runs.       *)
LEMMA RunInit ==
  ASSUME Records, TypeInv, ThreadInv, RunInv, InitSensor
  PROVE  RunInv'
<1>1. PICK m \in hal.toInit, found \in BOOLEAN :
         /\ IF Mpu THEN found /\ mpu3050_init(m) ELSE ak897x_init(m, found)
         /\ hal'.want = IF found THEN hal.want ELSE hal.want \ {m}
         /\ hist'.odd = IF found THEN hist.odd ELSE hist.odd \cup {"missing"}
         /\ UNCHANGED <<kind, call, acc, reader>>
  BY InitEffect
<1>2. SUFFICES ASSUME ~Crashed' PROVE IF Mpu THEN LibRun' ELSE CompassRun'
  BY <1>1, MembersStay DEF RunInv
<1>3. ~Crashed /\ call.todo = <<>> /\ call'.todo = <<>> /\ hal'.want \subseteq hal.want
  BY <1>1, <1>2 DEF Crashed, TypeInv, Rest
<1>4. comp'.active = comp.active /\ comp'.activated = comp.activated
  BY <1>1, NotedEffect
<1>5. Created => worker'.mode = "sleep" /\ worker'.open = FALSE
  BY DEF Created
<1>6. CASE Mpu
  <2>1. LibKept
    BY <1>3, <1>6, NextSteps, NextLibSteps DEF RunInv, LibRun
  <2>2. found /\ comp'.init = {m} /\ IF comp.init = {} THEN Created ELSE UNCHANGED worker
    BY <1>1, <1>6, NotedEffect
  <2>3. Closed' = Closed /\ NoFile' = NoFile
    BY <1>1, <2>2 DEF Closed, NoFile
  <2>4. LibKept'
    BY <1>3, <1>4, <1>5, <2>1, <2>2, <2>3 DEF LibKept
  <2>5. QED
    BY <1>3, <1>6, <2>4, Zenon DEF LibRun
<1>7. CASE ~Mpu
  <2>1. Kept
    BY <1>3, <1>7, NextSteps DEF RunInv, CompassRun
  <2>2. IF found /\ comp.init = {} THEN Created ELSE UNCHANGED worker
    BY <1>1, <1>7, NotedEffect
  <2>3. comp.init = {} => hal.want = {}
    BY <1>7 DEF ThreadInv, TypeInv
  <2>4. Kept'
    BY <1>3, <1>4, <1>5, <2>1, <2>2, <2>3 DEF Kept
  <2>5. QED
    BY <1>3, <1>7, <2>4, Zenon DEF CompassRun
<1>8. QED
  BY <1>6, <1>7

(* A sensor is closed: the last takes the compass's worker with it.        *)
LEMMA RunClose ==
  ASSUME Records, TypeInv, ThreadInv, RunInv, Close
  PROVE  RunInv'
<1>1. PICK m \in hal.up :
         /\ IF Mpu THEN mpu3050_close(m) ELSE ak897x_close(m)
         /\ hal'.up = hal.up \ {m} /\ hal'.want = hal.want \ {m} /\ hist'.odd = hist.odd \cup {"closed"}
         /\ Rest /\ ~Crashed /\ UNCHANGED <<kind, call, acc, reader>>
  BY CloseEffect
<1>2. call.todo = <<>> /\ call'.todo = <<>> /\ Mpu' = Mpu
  BY <1>1, MembersStay DEF Rest
<1>3. comp'.active = comp.active /\ comp'.activated = comp.activated
  BY <1>1, ClosedEffect
<1>4. CASE Mpu
  <2>1. LibKept
    BY <1>1, <1>2, <1>4, NextSteps, NextLibSteps DEF RunInv, LibRun
  <2>2. UNCHANGED worker /\ Closed'
    BY <1>1, <1>4, ClosedEffect DEF Closed
  <2>3. LibKept'
    BY <1>1, <1>3, <2>1, <2>2 DEF LibKept
  <2>4. QED
    BY <1>2, <1>4, <2>3, Zenon DEF LibRun, RunInv
<1>5. CASE ~Mpu
  <2>1. Kept
    BY <1>1, <1>2, <1>5, NextSteps DEF RunInv, CompassRun
  <2>2. \/ UNCHANGED worker
        \/ comp.init \subseteq {m} /\ worker'.mode = "gone" /\ worker'.open = FALSE
    BY <1>1, <1>5, ClosedEffect
  <2>3. comp.init \subseteq {m} => hal'.want = {}
    BY <1>1, <1>5 DEF ThreadInv, TypeInv
  <2>4. Kept'
    BY <1>1, <1>3, <2>1, <2>2, <2>3 DEF Kept
  <2>5. QED
    BY <1>2, <1>5, <2>4, Zenon DEF CompassRun, RunInv
<1>6. QED
  BY <1>4, <1>5

(* Every step keeps the worker running while it is wanted.                 *)
LEMMA RunKeeps == ASSUME Records, TypeInv, ThreadInv, RunInv, [Next]_vars PROVE RunInv'
<1>1. CASE CallStep
  <2> Mpu' = Mpu
    BY <1>1, CallEffect, MembersStay
  <2>1. SUFFICES ASSUME ~Crashed' PROVE IF Mpu THEN LibRun' ELSE CompassRun'
    BY DEF RunInv
  <2>2. ~Crashed
    BY <1>1, CallGoesOn DEF Records
  <2>3. CASE Mpu
    BY <1>1, <2>1, <2>2, <2>3, LibFlag, LibWorker, LibOther DEF CallStep, RunInv
  <2>4. CASE ~Mpu
    BY <1>1, <2>1, <2>2, <2>4, CompassFlag, CompassWorker, CompassOther DEF CallStep, RunInv
  <2>5. QED
    BY <2>3, <2>4
<1>2. CASE Begin
  <2>1. ~Crashed /\ Mpu' = Mpu
    BY <1>2, BegunCall, MembersStay
  <2>2. QED
    BY <1>2, <2>1, LibBegin, CompassBegin DEF RunInv
<1>3. CASE InitSensor \/ Close
  BY <1>3, RunInit, RunClose
<1>4. CASE Open \/ AndroidDelay \/ BeginRead \/ Look \/ Put \/ UNCHANGED vars
  <2>1. UNCHANGED <<kind, call, worker, comp>> /\ hal'.want = hal.want
    BY <1>4 DEF Open, AndroidDelay, BeginRead, Look, Put, vars, Records, Hal
  <2>2. \A x \in {"crash", "closed", "no file"} : x \in hist'.odd <=> x \in hist.odd
    <3>1. CASE Put
      BY <3>1 DEF Put, Records, Hist
    <3>2. CASE ~Put
      BY <1>4, <3>2 DEF Open, AndroidDelay, BeginRead, Look, vars
    <3>3. QED
      BY <3>1, <3>2
  <2>3. (Crashed' <=> Crashed) /\ (Closed' <=> Closed) /\ (NoFile' <=> NoFile) /\ Mpu' = Mpu
    BY <2>1, <2>2, MembersStay DEF Crashed, Closed, NoFile
  <2>4. UNCHANGED <<Kept, LibKept, Starting, Stopping, Releasing, Others(call.sensor)>>
    BY <2>1, <2>3 DEF Kept, LibKept, Starting, Stopping, Releasing, Others
  <2>5. QED
    BY <2>1, <2>3, <2>4 DEF RunInv, CompassRun, LibRun
<1>5. QED
  BY <1>1, <1>2, <1>3, <1>4 DEF Next, CallStep

(***************************************************************************)
(* The events of a sensor that was disabled.                               *)
(***************************************************************************)

\* The sensor that a call enables or disables.
Calling == IF call.todo \in {<<>>, Delay1, Delay2, LibDelay} THEN {} ELSE {call.sensor}

\* The sensors the callback has still to look at.
Coming == {reader.todo[i] : i \in 1..Len(reader.todo)}

Flagged == comp.active \subseteq hal.want \cup hist.left \cup Calling
ReadOnce == (\A i, j \in 1..Len(reader.todo) : reader.todo[i] = reader.todo[j] => i = j) /\ reader.put \notin Coming
LateUnflagged == \A m \in hist.late : m \notin comp.active /\ reader.put # m

\* The library is told before the flag is written.
Enabled1 == {Enable1, Join5}
Disabled1 == {Disable1, Leave4}
LibFlagged ==
  /\ lib \subseteq comp.active \cup (IF call.todo \in Enabled1 THEN {call.sensor} ELSE {})
  /\ call.todo \in Disabled1 => call.sensor \notin lib
LateUnlisted ==
  \A m \in hist.late : \/ m \notin lib /\ m \notin Coming /\ reader.put # m
                       \/ m = call.sensor /\ call.todo \in Enabled1

(* A flag that outlives its enable was left set. A sensor that has put an  *)
(* event since its disable is not about to put another: it is not flagged, *)
(* and of the mpu3050's, not enabled in the library either, nor listed in  *)
(* the packet at hand, until its next enable writes the flag.              *)
LateInv ==
  /\ OneLateEvent
  /\ ~Crashed => /\ Flagged /\ ReadOnce
                 /\ IF Mpu THEN LibFlagged /\ LateUnlisted ELSE LateUnflagged

(* Which steps a call has left after which.                                *)
LEMMA StepOrder ==
  ASSUME call.todo # <<>>, IF Mpu THEN LibRun ELSE CompassRun
  PROVE  /\ call.todo \in {Delay1, Delay2, LibDelay} <=> Head(call.todo) \in {"worker_delay", "request_acc", "lib_delay"}
         /\ Tail(call.todo) \in {Delay1, Delay2, LibDelay} => Head(call.todo) = "request_acc"
         /\ Mpu => /\ call.todo \in Enabled1 <=> Head(call.todo) = "active"
                   /\ call.todo \in Disabled1 <=> Head(call.todo) = "inactive"
                   /\ Tail(call.todo) \in Enabled1 <=> Head(call.todo) = "lib_enable"
                   /\ Tail(call.todo) \in Disabled1 <=> Head(call.todo) = "lib_disable"
<1>1. CASE Mpu
  <2>1. LibNextStep
    BY <1>1, LibNext
  <2>2. call.todo \in {Delay1, Delay2, LibDelay} <=> Head(call.todo) \in {"worker_delay", "request_acc", "lib_delay"}
    <3>1. CASE call.todo \in {Delay1, Delay2, LibDelay}
      <4>1. /\ Head(Delay1) = "worker_delay" /\ Head(Delay2) = "request_acc" /\ Head(LibDelay) = "lib_delay"
        BY NextSteps, NextLibSteps
      <4>2. QED
        BY <3>1, <4>1
    <3>2. CASE call.todo \notin {LibDelay}
      <4>1. call.todo \in {Join2, Enable1, Join6, Join5, Join4, Join3, Enable2, EnableLast, Leave2, Disable1, Leave5, Leave4,
                           Leave3, Stop2, Unfile1}
        BY <1>1, <3>2 DEF LibRun
      <4>2. Head(call.todo) # "lib_delay"
        BY <4>1, NextSteps, NextLibSteps
      <4>3. QED
        BY <2>1, <4>2, NextSteps, NextLibSteps DEF LibNextStep
    <3>3. QED
      BY <3>1, <3>2
  <2>3. /\ call.todo \in Enabled1 <=> Head(call.todo) = "active"
        /\ call.todo \in Disabled1 <=> Head(call.todo) = "inactive"
    <3>1. CASE call.todo \in {Enable1, Join5, Disable1, Leave4}
      <4>1. /\ \A s \in Enabled1 : Head(s) = "active"
            /\ \A s \in Disabled1 : Head(s) = "inactive"
        BY NextSteps, NextLibSteps DEF Enabled1, Disabled1
      <4>2. call.todo \in Enabled1 \/ call.todo \in Disabled1
        BY <3>1 DEF Enabled1, Disabled1
      <4>3. QED
        BY <4>1, <4>2
    <3>2. CASE call.todo \in {LibDelay, Join2, Join6, Join4, Join3, Enable2, EnableLast, Leave2, Leave5, Leave3, Stop2, Unfile1}
      <4>1. call.todo \notin {Enable1, Join5, Disable1, Leave4}
        BY <3>2, LibTodosDiffer
      <4>2. CASE call.todo \in {LibDelay, Join2, Join6, Join4, Join3, Enable2}
        <5>1. Head(call.todo) \notin {"active", "inactive"}
          BY <4>2, NextSteps, NextLibSteps
        <5>2. QED
          BY <4>1, <5>1 DEF Enabled1, Disabled1
      <4>3. CASE call.todo \in {EnableLast, Leave2, Leave5, Leave3, Stop2, Unfile1}
        <5>1. Head(call.todo) \notin {"active", "inactive"}
          BY <4>3, NextSteps, NextLibSteps
        <5>2. QED
          BY <4>1, <5>1 DEF Enabled1, Disabled1
      <4>4. QED
        BY <3>2, <4>2, <4>3
    <3>3. QED
      BY <1>1, <3>1, <3>2 DEF LibRun
  <2>4. Tail(call.todo) \notin {Delay1, Delay2, LibDelay}
    <3>1. {<<>>, Enable1, Join5, Join4, Join3, Enable2, EnableLast, Disable1, Leave4, Leave3, Stop2, Unfile1}
            \cap {Delay1, Delay2, LibDelay} = {}
      BY NextSteps, NextLibSteps
    <3>2. QED
      BY <2>1, <3>1 DEF LibNextStep
  <2>5. /\ Tail(call.todo) \in Enabled1 <=> Head(call.todo) = "lib_enable"
        /\ Tail(call.todo) \in Disabled1 <=> Head(call.todo) = "lib_disable"
    BY <2>1, LibTodosDiffer DEF LibNextStep, Enabled1, Disabled1
  <2>6. QED
    BY <2>2, <2>3, <2>4, <2>5
<1>2. CASE ~Mpu
  <2>1. CompassStep
    BY <1>2, CompassNext
  <2>2. CASE call.todo \in {Delay1, Delay2}
    <3>1. /\ Head(Delay1) = "worker_delay" /\ Tail(Delay1) = <<>>
          /\ Head(Delay2) = "request_acc"
      BY NextSteps
    <3>2. <<>> \notin {Delay1, Delay2, LibDelay}
      BY StepsLeft
    <3>3. QED
      BY <1>2, <2>2, <3>1, <3>2
  <2>3. CASE call.todo \notin {Delay1, Delay2}
    <3>1. call.todo \in {Enable1, Enable4, Enable3, Enable2, EnableLast, Disable1, Disable2, Disable3, Disable4,
                         Stop2, Stop3, Unfile1, Unfile2, Release}
      BY <1>2, <2>3 DEF CompassRun
    <3>2. Head(call.todo) \notin {"worker_delay", "request_acc", "lib_delay"}
      BY <3>1, NextSteps
    <3>3. {<<>>, Enable3, Enable2, EnableLast, Stop2, Stop3, Unfile1, Unfile2, Release} \cap {Delay1, Delay2, LibDelay} = {}
      BY NextSteps, NextLibSteps
    <3>4. Tail(call.todo) \notin {Delay1, Delay2, LibDelay}
      BY <2>1, <3>2, <3>3 DEF CompassStep
    <3>5. QED
      BY <1>2, <2>3, <3>2, <3>4, NextLibSteps
  <2>4. QED
    BY <2>2, <2>3
<1>3. QED
  BY <1>1, <1>2

(* A step of a call leaves no flag behind that is not noted.               *)
LEMMA FlaggedCall ==
  ASSUME Records, IF Mpu THEN LibRun ELSE CompassRun, Flagged, CallStep, ~Crashed'
  PROVE  Flagged'
<1>1. /\ call.todo # <<>>
      /\ call'.todo = Tail(call.todo) \/ (call'.todo = <<>> /\ Head(call.todo) = "open")
      /\ call'.todo # <<>> => call'.sensor = call.sensor
  BY CallGoesOn DEF Records, Rest
<1>2. Head(call.todo) # "request_acc" /\ call'.todo # <<>> => Calling' = {call.sensor}
  BY <1>1, StepOrder DEF Calling
<1>3. CASE FlagStep
  <2>1. Head(call.todo) # "request_acc" /\ call'.todo = Tail(call.todo)
    BY <1>1, <1>3, FlagEffect
  <2>2. Calling \subseteq {call.sensor}
    BY DEF Calling
  <2>3. QED
    BY <1>2, <1>3, <2>1, <2>2, FlagEffect DEF Flagged
<1>4. CASE Settled /\ UNCHANGED comp /\ hist'.left = hist.left /\ Head(call.todo) \notin {"request_acc", "open"}
  <2>1. Calling \subseteq {call.sensor}
    BY DEF Calling
  <2>2. QED
    BY <1>1, <1>2, <1>4, <2>1 DEF Flagged, Settled
<1>5. CASE /\ Head(call.todo) \in {"worker_delay", "request_acc", "lib_delay"}
           /\ hal'.want = hal.want /\ comp'.active = comp.active /\ hist'.left = hist.left
  <2>1. Calling = {}
    BY <1>1, <1>5, StepOrder DEF Calling
  <2>2. QED
    BY <1>5, <2>1 DEF Flagged
<1>6. CASE OpenStep
  <2>1. Calling \subseteq {call.sensor}
    BY DEF Calling
  <2>2. CASE call'.todo = Tail(call.todo) /\ call'.sensor = call.sensor /\ UNCHANGED <<hal, hist, comp>>
    <3>1. call'.todo # <<>>
      <4>1. Head(call.todo) = "open"
        BY <1>6, OpenEffect
      <4>2. ~Mpu
        BY <1>1, <4>1, LibNext DEF LibNextStep
      <4>3. Tail(call.todo) = Enable2
        BY <1>1, <4>1, <4>2, CompassNext DEF CompassStep
      <4>4. QED
        BY <2>2, <4>3, StepsLeft
    <3>2. Head(call.todo) # "request_acc"
      BY <1>6, OpenEffect
    <3>3. QED
      BY <1>2, <2>1, <2>2, <3>1, <3>2 DEF Flagged
  <2>3. CASE hal'.want = hal.want \ {call.sensor} /\ hist'.left = hist.left \cup {call.sensor} /\ UNCHANGED comp
    BY <2>1, <2>3 DEF Flagged
  <2>4. QED
    BY <1>6, <2>2, <2>3, OpenEffect
<1>7. CASE LibStep
  <2>1. /\ Head(call.todo) \in {"lib_enable", "lib_disable", "lib_delay", "lib_open", "activated", "deactivated"}
        /\ hal'.want = hal.want /\ comp'.active = comp.active /\ hist'.left = hist.left
    BY <1>7, LibEffect
  <2>2. CASE Head(call.todo) # "lib_delay"
    <3>1. call'.todo # <<>>
      <4>1. Mpu
        BY <1>1, <2>1, CompassNext DEF CompassStep
      <4>2. QED
        BY <1>1, <2>1, <2>2, <4>1, LibNext, StepsLeft DEF LibNextStep
    <3>2. Calling \subseteq {call.sensor}
      BY DEF Calling
    <3>3. QED
      BY <1>2, <2>1, <3>1, <3>2 DEF Flagged
  <2>3. QED
    BY <1>5, <2>1, <2>2
<1>8. QED
  BY <1>3, <1>4, <1>5, <1>6, <1>7, WorkerEffect, AccEffect DEF CallStep

(* A step of a call.                                                       *)
LEMMA LateCall == ASSUME Records, TypeInv, RunInv, LateInv, CallStep PROVE LateInv'
<1>1. /\ UNCHANGED reader /\ (OneLateEvent' <=> OneLateEvent) /\ Mpu' = Mpu
      /\ call.todo # <<>> /\ ~Crashed
      /\ call'.todo = Tail(call.todo) \/ (call'.todo = <<>> /\ Head(call.todo) = "open")
      /\ call'.todo # <<>> => call'.sensor = call.sensor
  BY CallEffect, MembersStay, CallGoesOn DEF OneLateEvent, Records, Rest
<1>2. SUFFICES ASSUME ~Crashed'
               PROVE  Flagged' /\ ReadOnce' /\ IF Mpu THEN LibFlagged' /\ LateUnlisted' ELSE LateUnflagged'
  BY <1>1 DEF LateInv
<1>3. Flagged' /\ ReadOnce' /\ Coming' = Coming
  BY <1>1, <1>2, FlaggedCall DEF LateInv, RunInv, ReadOnce, Coming
<1>4. \/ /\ Head(call.todo) = "active" /\ comp'.active = comp.active \cup {call.sensor}
         /\ hist'.late = hist.late \ {call.sensor} /\ UNCHANGED lib
      \/ /\ Head(call.todo) = "inactive" /\ comp'.active = comp.active \ {call.sensor}
         /\ hist'.late = hist.late \ {call.sensor} /\ UNCHANGED lib
      \/ /\ Head(call.todo) = "lib_enable" /\ comp'.active = comp.active
         /\ hist'.late = hist.late /\ lib' = lib \cup {call.sensor}
      \/ /\ Head(call.todo) = "lib_disable" /\ comp'.active = comp.active
         /\ hist'.late = hist.late /\ lib' = lib \ {call.sensor}
      \/ /\ Head(call.todo) \notin {"active", "inactive", "lib_enable", "lib_disable"} /\ comp'.active = comp.active
         /\ hist'.late = hist.late /\ UNCHANGED lib
  <2>1. CASE FlagStep
    BY <2>1, FlagEffect
  <2>2. CASE WorkerStep
    BY <1>2, <2>2, WorkerEffect
  <2>3. CASE OpenStep
    BY <2>3, OpenEffect
  <2>4. CASE AccStep
    BY <2>4, AccEffect
  <2>5. CASE LibStep
    BY <2>5, LibEffect
  <2>6. QED
    BY <2>1, <2>2, <2>3, <2>4, <2>5 DEF CallStep
<1>5. CASE ~Mpu
  <2>1. LateUnflagged
    BY <1>1, <1>5 DEF LateInv
  <2>2. LateUnflagged'
    BY <1>1, <1>4, <2>1 DEF LateUnflagged
  <2>3. QED
    BY <1>3, <1>5, <2>2
<1>6. CASE Mpu
  <2>1. /\ LibFlagged /\ LateUnlisted
        /\ call.todo \in Enabled1 <=> Head(call.todo) = "active"
        /\ call.todo \in Disabled1 <=> Head(call.todo) = "inactive"
        /\ Tail(call.todo) \in Enabled1 <=> Head(call.todo) = "lib_enable"
        /\ Tail(call.todo) \in Disabled1 <=> Head(call.todo) = "lib_disable"
    BY <1>1, <1>6, StepOrder DEF LateInv, RunInv
  <2>2. <<>> \notin Enabled1 \cup Disabled1
    BY NextSteps, NextLibSteps DEF Enabled1, Disabled1
  <2>3. /\ call'.todo \in Enabled1 <=> Head(call.todo) = "lib_enable"
        /\ call'.todo \in Disabled1 <=> Head(call.todo) = "lib_disable"
        /\ call'.todo \in Enabled1 \cup Disabled1 => call'.sensor = call.sensor
    BY <1>1, <2>1, <2>2
  <2>4. LibFlagged'
    <3>1. Enabled1' = Enabled1 /\ Disabled1' = Disabled1
      BY DEF Enabled1, Disabled1, Enable1, Join5, Disable1, Leave4
    <3>2. lib' \subseteq comp'.active \cup (IF call'.todo \in Enabled1 THEN {call'.sensor} ELSE {})
      BY <1>4, <2>1, <2>3 DEF LibFlagged
    <3>3. call'.todo \in Disabled1 => call'.sensor \notin lib'
      BY <1>4, <2>3
    <3>4. QED
      BY <3>1, <3>2, <3>3 DEF LibFlagged
  <2>5. LateUnlisted'
    <3>1. ASSUME NEW m \in hist'.late
          PROVE  \/ m \notin lib' /\ m \notin Coming' /\ reader'.put # m
                 \/ m = call'.sensor /\ call'.todo \in Enabled1
      <4>1. m \in hist.late
        BY <1>4
      <4>2. m # call.sensor \/ Head(call.todo) # "active"
        BY <1>4
      <4>3. m \notin lib /\ m \notin Coming /\ reader.put # m
        BY <2>1, <4>1, <4>2 DEF LateUnlisted
      <4>4. m \notin lib' \/ (m = call.sensor /\ Head(call.todo) = "lib_enable")
        BY <1>4, <4>3
      <4>5. QED
        BY <1>1, <1>3, <2>3, <4>3, <4>4
    <3>2. Enabled1' = Enabled1
      BY DEF Enabled1, Enable1, Join5
    <3>3. QED
      BY <3>1, <3>2 DEF LateUnlisted
  <2>6. QED
    BY <1>3, <1>6, <2>4, <2>5
<1>7. QED
  BY <1>5, <1>6

(* Nothing that these ask about changes between calls, but that the sensor *)
(* of a failed open or a close may keep its flag.                          *)
LEMMA LateRest ==
  ASSUME LateInv, UNCHANGED <<kind, reader>>, Rest, ~Crashed, hist'.late = hist.late, comp'.active = comp.active,
         "late twice" \in hist'.odd => "late twice" \in hist.odd,
         hal.want \cup hist.left \subseteq hal'.want \cup hist'.left \cup {m \in hal.want : m \notin comp.active},
         lib' \subseteq lib,
         call'.todo \notin Enabled1 \cup Disabled1 \/ ~Mpu
  PROVE  LateInv'
<1>1. Mpu' = Mpu /\ OneLateEvent'
  BY MembersStay DEF LateInv, OneLateEvent
<1>2. Enabled1' = Enabled1 /\ Disabled1' = Disabled1
  BY DEF Enabled1, Disabled1, Enable1, Join5, Disable1, Leave4
<1>3. Flagged' /\ ReadOnce' /\ Coming' = Coming
  <2>1. Calling = {}
    BY DEF Calling, Rest
  <2>2. comp.active \subseteq hal.want \cup hist.left
    BY <2>1 DEF LateInv, Flagged
  <2>3. QED
    BY <2>2 DEF LateInv, Flagged, ReadOnce, Coming
<1>4. CASE ~Mpu
  BY <1>1, <1>3, <1>4 DEF LateInv, LateUnflagged
<1>5. CASE Mpu
  <2>1. call.todo \notin Enabled1 \cup Disabled1
    BY NextSteps, NextLibSteps DEF Rest, Enabled1, Disabled1
  <2>2. LibFlagged'
    BY <1>2, <1>5, <2>1 DEF LateInv, LibFlagged
  <2>3. LateUnlisted'
    BY <1>2, <1>3, <1>5, <2>1 DEF LateInv, LateUnlisted
  <2>4. QED
    BY <1>1, <1>3, <1>5, <2>2, <2>3 DEF LateInv
<1>6. QED
  BY <1>4, <1>5

(* The HAL's own steps.                                                    *)
LEMMA LateHal == ASSUME Records, TypeInv, LateInv, Open \/ InitSensor \/ Begin \/ AndroidDelay \/ Close PROVE LateInv'
<1>1. <<>> \notin Enabled1 \cup Disabled1
  BY NextSteps, NextLibSteps DEF Enabled1, Disabled1
<1>2. CASE Open \/ AndroidDelay
  <2>1. /\ UNCHANGED <<kind, call, reader, hist, comp, lib>> /\ Rest /\ ~Crashed /\ hal'.want = hal.want
    BY <1>2 DEF Open, AndroidDelay, Free, Records, Hal
  <2>2. QED
    BY <1>1, <2>1, LateRest DEF Rest
<1>3. CASE InitSensor
  <2>1. PICK m \in hal.toInit, found \in BOOLEAN :
           /\ IF Mpu THEN found /\ mpu3050_init(m) ELSE ak897x_init(m, found)
           /\ hal'.want = IF found THEN hal.want ELSE hal.want \ {m}
           /\ hist'.odd = IF found THEN hist.odd ELSE hist.odd \cup {"missing"}
           /\ hist'.left = IF found THEN hist.left ELSE hist.left \cup (comp.active \cap {m})
           /\ hist'.late = hist.late
           /\ UNCHANGED <<kind, call, acc, reader>>
    BY <1>3, InitEffect
  <2>2. comp'.active = comp.active /\ lib' \subseteq lib
    BY <2>1, NotedEffect
  <2>3. Rest /\ ("late twice" \in hist'.odd => "late twice" \in hist.odd)
    <3>1. hal.toInit # {}
      BY <2>1
    <3>2. Rest
      BY <3>1 DEF TypeInv
    <3>3. hist'.odd \subseteq hist.odd \cup {"missing"}
      BY <2>1
    <3>4. QED
      BY <3>2, <3>3
  <2>4. hal.want \cup hist.left \subseteq hal'.want \cup hist'.left \cup {n \in hal.want : n \notin comp.active}
    BY <2>1
  <2>5. CASE ~Crashed
    BY <1>1, <2>1, <2>2, <2>3, <2>4, <2>5, LateRest DEF Rest
  <2>6. CASE Crashed
    BY <2>1, <2>3, <2>6 DEF LateInv, Crashed, OneLateEvent
  <2>7. QED
    BY <2>5, <2>6
<1>4. CASE Close
  <2>1. PICK m \in hal.up :
           /\ IF Mpu THEN mpu3050_close(m) ELSE ak897x_close(m)
           /\ hal'.want = hal.want \ {m}
           /\ hist'.odd = hist.odd \cup {"closed"} /\ hist'.left = hist.left \cup (comp.active \cap {m})
           /\ hist'.late = hist.late
           /\ Rest /\ hal.toInit = {} /\ ~Crashed /\ UNCHANGED <<kind, call, acc, reader>>
    BY <1>4, CloseEffect
  <2>2. comp'.active = comp.active /\ UNCHANGED lib
    BY <2>1, ClosedEffect
  <2>3. "late twice" \in hist'.odd => "late twice" \in hist.odd
    BY <2>1
  <2>4. hal.want \cup hist.left \subseteq hal'.want \cup hist'.left \cup {n \in hal.want : n \notin comp.active}
    BY <2>1
  <2>5. QED
    BY <1>1, <2>1, <2>2, <2>3, <2>4, LateRest DEF Rest
<1>5. CASE Begin
  <2>1. /\ Rest /\ ~Crashed /\ UNCHANGED <<kind, hal, comp, lib, reader, hist>>
        /\ \E m \in hal.up :
              call'.todo \in {activate(m, TRUE), activate(m, FALSE), set_delay(m)}
    BY <1>5, BegunCall
  <2>2. Mpu => call'.todo \in {Join2, Join6, Leave2, Leave5, LibDelay}
    BY <2>1, LibCalls DEF activate, set_delay
  <2>3. Mpu => call'.todo \notin Enabled1 \cup Disabled1
    <3>1. \A s \in {Join2, Join6, Leave2, Leave5, LibDelay} : s \notin Enabled1 \cup Disabled1
      BY LibTodosDiffer DEF Enabled1, Disabled1
    <3>2. QED
      BY <2>2, <3>1
  <2>4. QED
    BY <2>1, <2>3, LateRest
<1>6. QED
  BY <1>2, <1>3, <1>4, <1>5

(* The callback: a packet lists a sensor once, and a sensor's flag is      *)
(* looked at after its last disable wrote it, or its event is its first.   *)
LEMMA LateReader == ASSUME Records, TypeInv, LateInv, BeginRead \/ Look \/ Put PROVE LateInv'
<1>1. /\ UNCHANGED <<kind, hal, call, worker, comp, lib>> /\ Mpu' = Mpu /\ ~Crashed
      /\ Enabled1' = Enabled1 /\ Disabled1' = Disabled1 /\ Calling' = Calling
  <2>1. UNCHANGED <<kind, hal, call, worker, comp, lib>> /\ ~Crashed
    BY DEF BeginRead, Look, Put
  <2>2. QED
    BY <2>1, MembersStay DEF Calling, Enabled1, Disabled1
<1>2. None \notin Members
  BY MembersAre DEF None
<1>3. LibFlagged' <=> LibFlagged
  BY <1>1 DEF LibFlagged
<1>4. /\ Flagged /\ ReadOnce /\ OneLateEvent
      /\ Mpu => LibFlagged /\ LateUnlisted
      /\ ~Mpu => LateUnflagged
  BY <1>1 DEF LateInv
<1>5. CASE BeginRead
  <2>1. UNCHANGED hist /\ reader.put = None
    BY <1>5 DEF BeginRead
  <2>2. reader'.put = None /\ reader'.todo = IF Mpu THEN mpu3050_read ELSE ak897x_read
    BY <1>5, <2>1 DEF BeginRead, TypeInv
  <2>3. Lists(reader'.todo, IF Mpu THEN lib ELSE Members)
    BY <2>2, ReadLists, CompassLists DEF TypeInv
  <2>4. Coming' \subseteq IF Mpu THEN lib ELSE Members
    BY <2>3 DEF Lists, Coming
  <2>5. ReadOnce'
    BY <1>2, <2>2, <2>3, <2>4 DEF ReadOnce, Lists, TypeInv
  <2>6. OneLateEvent' /\ Flagged'
    BY <1>1, <1>4, <2>1 DEF OneLateEvent, Flagged
  <2>7. \A m \in hist.late : m # None
    BY <1>2 DEF TypeInv
  <2>8. ~Mpu => LateUnflagged'
    BY <1>1, <1>4, <2>1, <2>2, <2>7 DEF LateUnflagged
  <2>9. Mpu => LateUnlisted'
    BY <1>1, <1>4, <2>1, <2>2, <2>4, <2>7 DEF LateUnlisted
  <2>10. QED
    BY <1>1, <1>3, <1>4, <2>5, <2>6, <2>8, <2>9 DEF LateInv
<1>6. CASE Look
  <2> DEFINE todo == reader.todo
             m == Head(todo)
  <2>1. /\ todo # <<>> /\ UNCHANGED hist
        /\ reader'.todo = Tail(todo) /\ reader'.put = IF asks_for(m) THEN m ELSE None
    BY <1>6 DEF Look
  <2>2. todo \in Seq(Members) /\ m = todo[1] /\ Len(todo) \in Nat /\ 1 \in 1..Len(todo)
    BY <2>1 DEF TypeInv
  <2>3. /\ Len(Tail(todo)) = Len(todo) - 1
        /\ \A i \in 1..Len(Tail(todo)) : i + 1 \in 1..Len(todo) /\ Tail(todo)[i] = todo[i + 1]
    BY <2>1, <2>2
  <2>4. m \in Coming /\ Coming' \subseteq Coming /\ m \notin Coming'
    BY <1>4, <2>1, <2>2, <2>3 DEF Coming, ReadOnce
  <2>5. Coming \subseteq Members
    BY <2>2 DEF Coming
  <2>6. ReadOnce'
    <3>1. \A i, j \in 1..Len(Tail(todo)) : Tail(todo)[i] = Tail(todo)[j] => i = j
      BY <1>4, <2>2, <2>3 DEF ReadOnce
    <3>2. reader'.put \notin Coming'
      BY <1>2, <2>1, <2>4, <2>5
    <3>3. QED
      BY <2>1, <3>1, <3>2 DEF ReadOnce
  <2>7. OneLateEvent' /\ Flagged'
    BY <1>1, <1>4, <2>1 DEF OneLateEvent, Flagged
  <2>8. \A n \in hist.late : n # None
    BY <1>2 DEF TypeInv
  <2>9. ~Mpu => LateUnflagged'
    BY <1>1, <1>4, <2>1, <2>8 DEF LateUnflagged, asks_for
  <2>10. Mpu => LateUnlisted'
    BY <1>1, <1>4, <2>1, <2>4, <2>8 DEF LateUnlisted, asks_for
  <2>11. QED
    BY <1>1, <1>3, <1>4, <2>6, <2>7, <2>9, <2>10 DEF LateInv
<1>7. CASE Put
  <2> DEFINE m == reader.put
             stray == m \notin hal.want /\ m \notin hist.left /\ ~(call.sensor = m /\ ~Rest)
  <2>1. reader'.put = None /\ reader'.todo = reader.todo /\ m # None
    BY <1>7 DEF Put, TypeInv
  <2>2. hist' = IF ~stray THEN hist
                ELSE IF m \in hist.late THEN [hist EXCEPT !.odd = @ \cup {"late twice"}]
                ELSE [hist EXCEPT !.late = @ \cup {m}]
    BY <1>7 DEF Put
  <2>3. stray => m \notin Calling
    BY DEF Calling, Rest
  <2>4. stray => m \notin comp.active
    BY <1>4, <2>3 DEF Flagged
  <2>5. ~Mpu /\ stray => m \notin hist.late
    BY <1>4 DEF LateUnflagged
  <2>6. call.todo \in Enabled1 => ~Rest
    BY NextSteps, NextLibSteps DEF Enabled1, Rest
  <2>7. Mpu /\ stray => m \notin hist.late /\ m \notin lib
    BY <1>4, <2>4, <2>6 DEF LateUnlisted, LibFlagged
  <2>8. \/ UNCHANGED hist
        \/ stray /\ hist' = [hist EXCEPT !.late = @ \cup {m}]
    BY <2>2, <2>5, <2>7
  <2>9. hist'.left = hist.left /\ hist'.odd = hist.odd /\ (hist'.late = hist.late \/ (stray /\ hist'.late = hist.late \cup {m}))
    BY <2>8 DEF Records, Hist
  <2>10. Coming' = Coming /\ m \notin Coming
    BY <1>4, <2>1 DEF Coming, ReadOnce
  <2>11. None \notin Coming
    BY <1>2 DEF Coming, TypeInv
  <2>12. ReadOnce' /\ OneLateEvent' /\ Flagged'
    BY <1>1, <1>4, <2>1, <2>9, <2>10, <2>11 DEF ReadOnce, OneLateEvent, Flagged
  <2>13. \A n \in hist'.late : n # None
    BY <1>2, <2>1, <2>9 DEF TypeInv
  <2>14. ~Mpu => LateUnflagged'
    BY <1>1, <1>4, <2>1, <2>4, <2>9, <2>13 DEF LateUnflagged
  <2>15. Mpu => LateUnlisted'
    BY <1>1, <1>4, <2>1, <2>7, <2>9, <2>10, <2>13 DEF LateUnlisted
  <2>16. QED
    BY <1>1, <1>3, <1>4, <2>12, <2>14, <2>15 DEF LateInv
<1>8. QED
  BY <1>5, <1>6, <1>7

(* Every step keeps the record of late events.                             *)
LEMMA LateKeeps == ASSUME Records, TypeInv, RunInv, LateInv, [Next]_vars PROVE LateInv'
<1>1. CASE CallStep
  BY <1>1, LateCall
<1>2. CASE Open \/ InitSensor \/ Begin \/ AndroidDelay \/ Close
  BY <1>2, LateHal
<1>3. CASE BeginRead \/ Look \/ Put
  BY <1>3, LateReader
<1>4. CASE UNCHANGED vars
  <2>1. UNCHANGED <<kind, hal, call, comp, lib, reader, hist>>
    BY <1>4 DEF vars
  <2>2. Mpu' = Mpu /\ Calling' = Calling /\ Coming' = Coming /\ Enabled1' = Enabled1 /\ Disabled1' = Disabled1
    BY <2>1, MembersStay DEF Calling, Coming, Enabled1, Disabled1
  <2>3. QED
    BY <2>1, <2>2 DEF LateInv, OneLateEvent, Crashed, Flagged, ReadOnce, LibFlagged, LateUnlisted, LateUnflagged
<1>5. QED
  BY <1>1, <1>2, <1>3, <1>4 DEF Next, CallStep

\* What is true of the worker in every state.
WorkInv == TypeInv /\ ThreadInv /\ RunInv /\ LateInv

(* It holds at first.                                                      *)
LEMMA WorkInit == Init => WorkInv
<1> SUFFICES ASSUME Init PROVE WorkInv
  OBVIOUS
<1>1. TypeInv
  BY SharedAssumption DEF Init, TypeInv, NoCall, Rest
<1>2. ThreadInv
  BY DEF Init, ThreadInv
<1>3. RunInv
  <2>1. Kept /\ LibKept
    BY DEF Init, Kept, LibKept, None
  <2>2. call.todo = <<>>
    BY DEF Init, NoCall
  <2>3. QED
    BY <2>1, <2>2 DEF RunInv, CompassRun, LibRun
<1>4. LateInv
  BY DEF Init, LateInv, OneLateEvent, Flagged, ReadOnce, Coming, LibFlagged, LateUnlisted, LateUnflagged, Disabled1, None
<1>5. QED
  BY <1>1, <1>2, <1>3, <1>4 DEF WorkInv

(* For any composition, number of opens and order of the calls: the worker *)
(* runs on an open file while any sensor is enabled and for no other than  *)
(* one whose flag was left set, a disabled sensor puts one event at most,  *)
(* and there is one thread, which the last close ends.                     *)
THEOREM SharedWorkerServes == Spec => []WorkerServes
<1>1. CrashInv /\ WorkInv /\ [Next]_vars => WorkInv'
  BY TypeKeeps, ThreadKeeps, RunKeeps, LateKeeps DEF CrashInv, WorkInv
<1>2. ASSUME RateInv, AccInv, WorkInv PROVE WorkerServes
  <2>1. OPENS[kind] \in Nat /\ hal.opens <= OPENS[kind] /\ worker.threads \in 0..OPENS[kind]
    BY <1>2, SharedAssumption DEF WorkInv, TypeInv, ThreadInv
  <2>2. TypeOK
    <3>1. hal.acc \in {None, "new", "ready", "missing", "dropped"}
      BY <1>2 DEF AccInv
    <3>2. QED
      BY <1>2, <2>1, <3>1 DEF WorkInv, TypeInv, RateInv, TypeOK
  <2>3. RunsWhileWanted
    <3>1. SUFFICES ASSUME Rest, ~Crashed
                   PROVE  /\ hal.want # {} => \/ worker.mode = "run" /\ (worker.open \/ (Mpu /\ NoFile))
                                              \/ Mpu /\ Closed
                          /\ worker.mode = "run" => hal.want \cup hist.left # {}
      BY DEF RunsWhileWanted, NoFile, Closed
    <3>2. IF Mpu THEN LibKept ELSE Kept
      BY <1>2, <3>1, NextSteps, NextLibSteps DEF WorkInv, RunInv, Rest, CompassRun, LibRun
    <3>3. comp.active \subseteq hal.want \cup hist.left
      BY <1>2, <3>1 DEF WorkInv, LateInv, Flagged, Calling, Rest
    <3>4. QED
      BY <3>2, <3>3 DEF Kept, LibKept
  <2>4. OneThread
    BY <1>2 DEF WorkInv, ThreadInv, TypeInv, OneThread
  <2>5. QED
    BY <1>2, <2>2, <2>3, <2>4 DEF WorkInv, LateInv, WorkerServes
<1>3. QED
  BY CrashInit, CrashKeeps, RateInit, RateKeeps, AccInit, AccKeeps, WorkInit, <1>1, <1>2, PTL DEF Spec
=============================================================================
