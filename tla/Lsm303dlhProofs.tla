-------------------------- MODULE Lsm303dlhProofs --------------------------
(***************************************************************************)
(* Lsm303dlh's devices, rates and locks, proved for every set of rates,    *)
(* accelerometers and devices that refuse.                                 *)
(*                                                                         *)
(* A call is a list of steps, so the invariant says, of each call, what    *)
(* its steps still are and what the sensors are like at that point: Stage  *)
(* names the places a call can be at. A device is Settled with its users   *)
(* and its file, Joining or Parting while one of them comes or goes, and   *)
(* Joined or Parted when it has. Every step leads from one stage to the    *)
(* next (StageGoesOn), and what every step leaves of the records is said   *)
(* once (StepChanges).                                                     *)
(***************************************************************************)
EXTENDS Lsm303dlh, SequenceTheorems, TLAPS

(***************************************************************************)
(* The steps of a call, one before the others.                             *)
(***************************************************************************)

\* Who may use a device.
Users == {INTERNAL, EXTERNAL}

\* A step is a name, a sensor and, of some, a user or a delay.
Step ==
  {<<n, d, u>> : n \in {"use", "unuse", "open"}, d \in Sensors, u \in Users}
    \cup {<<"open_slider", "compass", None>>}
    \cup {<<n, d, ns>> : n \in {"internal", "external"}, d \in Sensors, ns \in Nat}
    \cup {<<n, d>> : n \in {"set_fd", "drop_fd", "resume", "suspend", "update", "phys_path", "compass_API_Init",
                            "select_init", "destroy"}, d \in Sensors}

Then(x, R) == <<x>> \o R
Join(P, R) == P \o R

(* What comes first and what is left then.                                 *)
LEMMA ThenSteps ==
  ASSUME NEW x \in Step, NEW R \in Seq(Step)
  PROVE  /\ Then(x, R) \in Seq(Step) /\ Then(x, R) # <<>>
         /\ Head(Then(x, R)) = x /\ Tail(Then(x, R)) = R
<1> DEFINE one == <<x>>
           T == Then(x, R)
<1>1. one \in Seq(Step) /\ Len(one) = 1 /\ one[1] = x
  OBVIOUS
<1>2. /\ T \in Seq(Step) /\ Len(T) = 1 + Len(R)
      /\ \A i \in 1..1 + Len(R) : T[i] = IF i <= 1 THEN one[i] ELSE R[i - 1]
  <2> HIDE DEF one
  <2>1. /\ one \o R \in Seq(Step) /\ Len(one \o R) = Len(one) + Len(R)
        /\ \A i \in 1..Len(one) + Len(R) : (one \o R)[i] = IF i <= Len(one) THEN one[i] ELSE R[i - Len(one)]
    BY <1>1, ConcatProperties
  <2>2. T = one \o R
    BY DEF one, Then
  <2> HIDE DEF T
  <2>3. QED
    BY <1>1, <2>1, <2>2
<1> HIDE DEF one, T
<1>3. Len(R) \in Nat
  BY LenProperties
<1>4. T # <<>> /\ T[1] = x
  <2>1. Len(T) # 0
    BY <1>2, <1>3
  <2>2. 1 \in 1..1 + Len(R)
    BY <1>3
  <2>3. T[1] = one[1]
    BY <1>2, <2>2
  <2>4. QED
    BY <1>1, <2>1, <2>3
<1>5. Head(T) = x
  BY <1>4
<1>6. Tail(T) = R
  <2>1. /\ Tail(T) \in Seq(Step) /\ Len(Tail(T)) = Len(T) - 1
        /\ \A i \in 1..Len(Tail(T)) : Tail(T)[i] = T[i + 1]
    BY <1>2, <1>4, HeadTailProperties
  <2> DEFINE S == Tail(T)
  <2> HIDE DEF S
  <2>2. Len(S) = Len(R) /\ \A i \in 1..Len(S) : S[i] = T[i + 1]
    BY <1>2, <1>3, <2>1 DEF S
  <2>3. \A i \in 1..Len(R) : T[i + 1] = R[i]
    <3> SUFFICES ASSUME NEW i \in 1..Len(R)
                 PROVE  T[i + 1] = R[i]
      OBVIOUS
    <3>1. i + 1 \in 1..1 + Len(R) /\ ~(i + 1 <= 1) /\ i + 1 - 1 = i
      BY <1>3
    <3>2. QED
      BY <1>2, <3>1
  <2>4. S \in Seq(Step)
    BY <2>1 DEF S
  <2>5. S = R
    BY <2>2, <2>3, <2>4, SeqEqual
  <2>6. QED
    BY <2>5 DEF S
<1>7. QED
  BY <1>2, <1>4, <1>5, <1>6 DEF T

(* Steps that come first come first when others follow.                    *)
LEMMA ThenMore ==
  ASSUME NEW x \in Step, NEW Q \in Seq(Step), NEW R \in Seq(Step)
  PROVE  Join(Then(x, Q), R) = Then(x, Join(Q, R))
<1>1. <<x>> \in Seq(Step)
  OBVIOUS
<1>2. QED
  BY <1>1, ConcatAssociative DEF Then, Join

(* Lists of steps joined.                                                  *)
LEMMA JoinSteps ==
  ASSUME NEW P \in Seq(Step), NEW Q \in Seq(Step), NEW R \in Seq(Step)
  PROVE  /\ Join(P, Q) \in Seq(Step) /\ Join(Join(P, Q), R) = Join(P, Join(Q, R))
         /\ Join(P, <<>>) = P /\ Join(<<>>, P) = P
  BY ConcatProperties, ConcatAssociative, ConcatEmptySeq DEF Join

(* A list written out.                                                     *)
LEMMA ThenListed ==
  ASSUME NEW x \in Step, NEW y \in Step, NEW z \in Step, NEW w \in Step
  PROVE  /\ <<x>> = Then(x, <<>>) /\ <<x, y>> = Then(x, Then(y, <<>>))
         /\ <<x, y, z>> = Then(x, Then(y, Then(z, <<>>)))
         /\ <<x, y, z, w>> = Then(x, Then(y, Then(z, Then(w, <<>>))))
<1>1. ASSUME NEW a \in Step, NEW R \in Seq(Step), NEW s \in Seq(Step),
             Len(s) = 1 + Len(R), s[1] = a, \A i \in 1..Len(R) : s[i + 1] = R[i]
      PROVE  s = Then(a, R)
  <2> DEFINE one == <<a>>
  <2>1. one \in Seq(Step) /\ Len(one) = 1 /\ one[1] = a
    OBVIOUS
  <2> HIDE DEF one
  <2>2. /\ one \o R \in Seq(Step) /\ Len(one \o R) = Len(one) + Len(R)
        /\ \A i \in 1..Len(one) + Len(R) : (one \o R)[i] = IF i <= Len(one) THEN one[i] ELSE R[i - Len(one)]
    BY <2>1, ConcatProperties
  <2> DEFINE t == one \o R
  <2> HIDE DEF t
  <2>3. /\ t \in Seq(Step) /\ Len(t) = 1 + Len(R)
        /\ \A i \in 1..1 + Len(R) : t[i] = IF i <= 1 THEN a ELSE R[i - 1]
    BY <2>1, <2>2 DEF t
  <2>4. Len(R) \in Nat
    BY LenProperties
  <2>5. ASSUME NEW i \in 1..1 + Len(R)
        PROVE  s[i] = t[i]
    <3>1. CASE i = 1
      BY <1>1, <2>3, <3>1
    <3>2. CASE i # 1
      <4>1. i - 1 \in 1..Len(R) /\ (i - 1) + 1 = i /\ ~(i <= 1)
        BY <2>4, <3>2
      <4>2. s[i] = R[i - 1]
        BY <1>1, <4>1
      <4>3. QED
        BY <2>3, <4>1, <4>2
    <3>3. QED
      BY <3>1, <3>2
  <2>6. s = t
    BY <1>1, <2>3, <2>5, SeqEqual
  <2>7. QED
    BY <2>6 DEF t, one, Then
<1>2. ASSUME NEW a \in Step
      PROVE  <<a>> = Then(a, <<>>) /\ <<a>> \in Seq(Step)
  <2> DEFINE R == <<>>
             s == <<a>>
  <2>1. R \in Seq(Step) /\ Len(R) = 0 /\ s \in Seq(Step) /\ Len(s) = 1 /\ s[1] = a
    OBVIOUS
  <2> HIDE DEF R, s
  <2>2. \A i \in 1..Len(R) : s[i + 1] = R[i]
    BY <2>1
  <2>3. Len(s) = 1 + Len(R)
    BY <2>1
  <2>4. s = Then(a, R)
    BY <1>1, <2>1, <2>2, <2>3, Zenon
  <2>5. QED
    BY <2>1, <2>4 DEF R, s
<1>3. ASSUME NEW a \in Step, NEW b \in Step
      PROVE  <<a, b>> = Then(a, Then(b, <<>>)) /\ <<a, b>> \in Seq(Step)
  <2> DEFINE R == <<b>>
             s == <<a, b>>
  <2>1. R \in Seq(Step) /\ s \in Seq(Step) /\ Len(s) = 1 + Len(R) /\ s[1] = a /\ \A i \in 1..Len(R) : s[i + 1] = R[i]
    OBVIOUS
  <2>2. R = Then(b, <<>>)
    BY <1>2
  <2> HIDE DEF R, s
  <2>3. s = Then(a, R)
    BY <1>1, <2>1
  <2>4. QED
    BY <2>1, <2>2, <2>3 DEF s
<1>4. ASSUME NEW a \in Step, NEW b \in Step, NEW c \in Step
      PROVE  <<a, b, c>> = Then(a, Then(b, Then(c, <<>>))) /\ <<a, b, c>> \in Seq(Step)
  <2> DEFINE R == <<b, c>>
             s == <<a, b, c>>
  <2>1. R \in Seq(Step) /\ s \in Seq(Step) /\ Len(s) = 1 + Len(R) /\ s[1] = a /\ \A i \in 1..Len(R) : s[i + 1] = R[i]
    OBVIOUS
  <2>2. R = Then(b, Then(c, <<>>))
    BY <1>3
  <2> HIDE DEF R, s
  <2>3. s = Then(a, R)
    BY <1>1, <2>1
  <2>4. QED
    BY <2>1, <2>2, <2>3 DEF s
<1>5. <<x, y, z, w>> = Then(x, Then(y, Then(z, Then(w, <<>>))))
  <2> DEFINE R == <<y, z, w>>
             s == <<x, y, z, w>>
  <2>1. R \in Seq(Step) /\ s \in Seq(Step) /\ Len(s) = 1 + Len(R) /\ s[1] = x /\ \A i \in 1..Len(R) : s[i + 1] = R[i]
    OBVIOUS
  <2>2. R = Then(y, Then(z, Then(w, <<>>)))
    BY <1>4
  <2> HIDE DEF R, s
  <2>3. s = Then(x, R)
    BY <1>1, <2>1
  <2>4. QED
    BY <2>2, <2>3 DEF s
<1>6. QED
  BY <1>2, <1>3, <1>4, <1>5

Use(d, u, R) == Then(<<"use", d, u>>, R)
Run1(d, R) == Then(<<"resume", d>>, R)
Set2(d, R) == Then(<<"set_fd", d>>, Run1(d, R))
Open3(d, u, R) == Then(<<"open", d, u>>, Set2(d, R))
Enable(d, u, R, r) == Use(d, u, IF r.fd = None THEN Open3(d, u, R) ELSE R)

Drop1(d, R) == Then(<<"drop_fd", d>>, R)
Susp2(d, R) == Then(<<"suspend", d>>, Drop1(d, R))
Disable(d, u, R, r) ==
  Then(<<"unuse", d, u>>, IF r.fd # None /\ r.users \subseteq {u} THEN Susp2(d, R) ELSE R)
Update(d, R) == Then(<<"update", d>>, R)
Internal(d, n, R) == Then(<<"internal", d, n>>, Update(d, R))
External(d, n, R) == Then(<<"external", d, n>>, Update(d, R))
Clear(d, R) == Internal(d, 0, R)

EnableMag(D) == Enable("mag", INTERNAL, Set2("compass", <<>>), D["mag"])
EnableAcc(D) == Enable("acc", INTERNAL, EnableMag(D), D["acc"])
Slider(D) == Then(<<"open_slider", "compass", None>>, EnableAcc(D))
EnableCompass(D) == Use("compass", EXTERNAL, IF D["compass"].fd = None THEN Slider(D) ELSE EnableAcc(D))

DisableMag(D) == Disable("mag", INTERNAL, Clear("mag", <<>>), D["mag"])
DisableAcc(D) == Disable("acc", INTERNAL, Clear("acc", DisableMag(D)), D["acc"])
SuspendCompass(D) ==
  Then(<<"suspend", "compass">>, IF D["compass"].fd # None THEN Drop1("compass", DisableAcc(D)) ELSE DisableAcc(D))
DisableCompass(D) == Then(<<"unuse", "compass", EXTERNAL>>, SuspendCompass(D))

(* Every step the calls are made of is a step.                             *)
LEMMA StepsAre ==
  ASSUME NEW d \in Sensors, NEW u \in Users, NEW n \in Nat
  PROVE  /\ <<"use", d, u>> \in Step /\ <<"unuse", d, u>> \in Step /\ <<"open", d, u>> \in Step
         /\ <<"open_slider", "compass", None>> \in Step
         /\ <<"internal", d, n>> \in Step /\ <<"external", d, n>> \in Step
         /\ <<"set_fd", d>> \in Step /\ <<"drop_fd", d>> \in Step /\ <<"resume", d>> \in Step
         /\ <<"suspend", d>> \in Step /\ <<"update", d>> \in Step
         /\ <<"phys_path", d>> \in Step /\ <<"select_init", d>> \in Step /\ <<"compass_API_Init", d>> \in Step
         /\ <<"destroy", d>> \in Step
  BY DEF Step

(* The steps of a device's enable: what comes first and what follows.      *)
LEMMA OpenSteps ==
  ASSUME NEW d \in Sensors, NEW u \in Users, NEW R \in Seq(Step)
  PROVE  /\ Run1(d, R) \in Seq(Step) /\ Run1(d, R) # <<>> /\ Head(Run1(d, R)) = <<"resume", d>> /\ Tail(Run1(d, R)) = R
         /\ Set2(d, R) \in Seq(Step) /\ Set2(d, R) # <<>> /\ Head(Set2(d, R)) = <<"set_fd", d>>
         /\ Tail(Set2(d, R)) = Run1(d, R)
         /\ Open3(d, u, R) \in Seq(Step) /\ Open3(d, u, R) # <<>> /\ Head(Open3(d, u, R)) = <<"open", d, u>>
         /\ Tail(Open3(d, u, R)) = Set2(d, R)
<1>1. <<"open", d, u>> \in Step /\ <<"set_fd", d>> \in Step /\ <<"resume", d>> \in Step
  BY StepsAre DEF Users
<1>2. /\ Run1(d, R) \in Seq(Step) /\ Run1(d, R) # <<>> /\ Head(Run1(d, R)) = <<"resume", d>> /\ Tail(Run1(d, R)) = R
  BY <1>1, ThenSteps DEF Run1
<1>3. /\ Set2(d, R) \in Seq(Step) /\ Set2(d, R) # <<>> /\ Head(Set2(d, R)) = <<"set_fd", d>>
      /\ Tail(Set2(d, R)) = Run1(d, R)
  BY <1>1, <1>2, ThenSteps DEF Set2
<1>4. /\ Open3(d, u, R) \in Seq(Step) /\ Open3(d, u, R) # <<>> /\ Head(Open3(d, u, R)) = <<"open", d, u>>
      /\ Tail(Open3(d, u, R)) = Set2(d, R)
  BY <1>1, <1>3, ThenSteps DEF Open3
<1>5. QED
  BY <1>2, <1>3, <1>4

(* A device's enable is a list of steps.                                   *)
LEMMA EnableListed ==
  ASSUME NEW d \in Sensors, NEW u \in Users, NEW R \in Seq(Step), NEW r
  PROVE  Enable(d, u, R, r) \in Seq(Step) /\ Enable(d, u, R, r) # <<>>
<1> DEFINE Q == IF r.fd = None THEN Open3(d, u, R) ELSE R
<1>1. <<"use", d, u>> \in Step /\ Q \in Seq(Step)
  BY StepsAre, OpenSteps DEF Users
<1>2. Enable(d, u, R, r) = Then(<<"use", d, u>>, Q)
  BY DEF Enable, Use
<1> HIDE DEF Q
<1>3. QED
  BY <1>1, <1>2, ThenSteps

(* Its user comes first; then, without a file, the device is opened.       *)
LEMMA EnableSteps ==
  ASSUME NEW d \in Sensors, NEW u \in Users, NEW R \in Seq(Step), NEW r
  PROVE  /\ Head(Enable(d, u, R, r)) = <<"use", d, u>>
         /\ r.fd = None => Tail(Enable(d, u, R, r)) = Open3(d, u, R)
         /\ r.fd # None => Tail(Enable(d, u, R, r)) = R
<1> DEFINE Q == IF r.fd = None THEN Open3(d, u, R) ELSE R
<1>1. <<"use", d, u>> \in Step /\ Q \in Seq(Step)
  BY StepsAre, OpenSteps DEF Users
<1>2. Enable(d, u, R, r) = Then(<<"use", d, u>>, Q)
  BY DEF Enable, Use
<1>3. (r.fd = None => Q = Open3(d, u, R)) /\ (r.fd # None => Q = R)
  OBVIOUS
<1> HIDE DEF Q
<1>4. Head(Enable(d, u, R, r)) = <<"use", d, u>> /\ Tail(Enable(d, u, R, r)) = Q
  BY <1>1, <1>2, ThenSteps
<1>5. QED
  BY <1>3, <1>4

(* The steps of a device's disable.                                        *)
LEMMA SuspendSteps ==
  ASSUME NEW d \in Sensors, NEW R \in Seq(Step)
  PROVE  /\ Drop1(d, R) \in Seq(Step) /\ Drop1(d, R) # <<>> /\ Head(Drop1(d, R)) = <<"drop_fd", d>>
         /\ Tail(Drop1(d, R)) = R
         /\ Susp2(d, R) \in Seq(Step) /\ Susp2(d, R) # <<>> /\ Head(Susp2(d, R)) = <<"suspend", d>>
         /\ Tail(Susp2(d, R)) = Drop1(d, R)
<1>1. <<"suspend", d>> \in Step /\ <<"drop_fd", d>> \in Step
  BY DEF Step
<1>2. /\ Drop1(d, R) \in Seq(Step) /\ Drop1(d, R) # <<>> /\ Head(Drop1(d, R)) = <<"drop_fd", d>>
      /\ Tail(Drop1(d, R)) = R
  BY <1>1, ThenSteps DEF Drop1
<1>3. /\ Susp2(d, R) \in Seq(Step) /\ Susp2(d, R) # <<>> /\ Head(Susp2(d, R)) = <<"suspend", d>>
      /\ Tail(Susp2(d, R)) = Drop1(d, R)
  BY <1>1, <1>2, ThenSteps DEF Susp2
<1>4. QED
  BY <1>2, <1>3

(* A device's disable is a list of steps.                                  *)
LEMMA DisableListed ==
  ASSUME NEW d \in Sensors, NEW u \in Users, NEW R \in Seq(Step), NEW r
  PROVE  Disable(d, u, R, r) \in Seq(Step) /\ Disable(d, u, R, r) # <<>>
<1> DEFINE Q == IF r.fd # None /\ r.users \subseteq {u} THEN Susp2(d, R) ELSE R
<1>1. <<"unuse", d, u>> \in Step /\ Q \in Seq(Step)
  BY StepsAre, SuspendSteps DEF Users
<1>2. Disable(d, u, R, r) = Then(<<"unuse", d, u>>, Q)
  BY DEF Disable
<1> HIDE DEF Q
<1>3. QED
  BY <1>1, <1>2, ThenSteps

(* Its user goes first; then, for the last user, the file is dropped.      *)
LEMMA DisableSteps ==
  ASSUME NEW d \in Sensors, NEW u \in Users, NEW R \in Seq(Step), NEW r
  PROVE  /\ Head(Disable(d, u, R, r)) = <<"unuse", d, u>>
         /\ r.fd # None /\ r.users \subseteq {u} => Tail(Disable(d, u, R, r)) = Susp2(d, R)
         /\ ~(r.fd # None /\ r.users \subseteq {u}) => Tail(Disable(d, u, R, r)) = R
<1> DEFINE lone == r.fd # None /\ r.users \subseteq {u}
           Q == IF lone THEN Susp2(d, R) ELSE R
<1>1. <<"unuse", d, u>> \in Step /\ Q \in Seq(Step)
  BY StepsAre, SuspendSteps DEF Users
<1>2. Disable(d, u, R, r) = Then(<<"unuse", d, u>>, Q)
  BY DEF Disable
<1>3. (lone => Q = Susp2(d, R)) /\ (~lone => Q = R)
  OBVIOUS
<1> HIDE DEF Q
<1>4. Head(Disable(d, u, R, r)) = <<"unuse", d, u>> /\ Tail(Disable(d, u, R, r)) = Q
  BY <1>1, <1>2, ThenSteps
<1>5. QED
  BY <1>3, <1>4

(* The steps that set a delay.                                             *)
LEMMA DelaySteps ==
  ASSUME NEW d \in Sensors, NEW R \in Seq(Step), NEW n \in Nat
  PROVE  /\ Update(d, R) \in Seq(Step) /\ Update(d, R) # <<>> /\ Head(Update(d, R)) = <<"update", d>>
         /\ Tail(Update(d, R)) = R
         /\ Internal(d, n, R) \in Seq(Step) /\ Internal(d, n, R) # <<>>
         /\ Head(Internal(d, n, R)) = <<"internal", d, n>> /\ Tail(Internal(d, n, R)) = Update(d, R)
         /\ External(d, n, R) \in Seq(Step) /\ External(d, n, R) # <<>>
         /\ Head(External(d, n, R)) = <<"external", d, n>> /\ Tail(External(d, n, R)) = Update(d, R)
<1>1. <<"update", d>> \in Step /\ <<"internal", d, n>> \in Step /\ <<"external", d, n>> \in Step
  BY DEF Step
<1>2. /\ Update(d, R) \in Seq(Step) /\ Update(d, R) # <<>> /\ Head(Update(d, R)) = <<"update", d>>
      /\ Tail(Update(d, R)) = R
  BY <1>1, ThenSteps DEF Update
<1>3. /\ Internal(d, n, R) \in Seq(Step) /\ Internal(d, n, R) # <<>>
      /\ Head(Internal(d, n, R)) = <<"internal", d, n>> /\ Tail(Internal(d, n, R)) = Update(d, R)
  BY <1>1, <1>2, ThenSteps DEF Internal
<1>4. /\ External(d, n, R) \in Seq(Step) /\ External(d, n, R) # <<>>
      /\ Head(External(d, n, R)) = <<"external", d, n>> /\ Tail(External(d, n, R)) = Update(d, R)
  BY <1>1, <1>2, ThenSteps DEF External
<1>5. QED
  BY <1>2, <1>3, <1>4

(* The steps of the compass's enable and disable.                          *)
LEMMA CompassListed ==
  ASSUME NEW D
  PROVE  /\ Set2("compass", <<>>) \in Seq(Step) /\ Clear("mag", <<>>) \in Seq(Step)
         /\ EnableMag(D) \in Seq(Step) /\ EnableAcc(D) \in Seq(Step)
         /\ Slider(D) \in Seq(Step) /\ Slider(D) # <<>>
         /\ EnableCompass(D) \in Seq(Step) /\ EnableCompass(D) # <<>>
         /\ DisableMag(D) \in Seq(Step) /\ Clear("acc", DisableMag(D)) \in Seq(Step) /\ DisableAcc(D) \in Seq(Step)
         /\ SuspendCompass(D) \in Seq(Step) /\ SuspendCompass(D) # <<>>
         /\ DisableCompass(D) \in Seq(Step) /\ DisableCompass(D) # <<>>
<1>1. /\ "acc" \in Sensors /\ "mag" \in Sensors /\ "compass" \in Sensors /\ <<>> \in Seq(Step)
      /\ INTERNAL \in Users /\ EXTERNAL \in Users /\ 0 \in Nat
  BY DEF Sensors, Devices, Users
<1>2. Set2("compass", <<>>) \in Seq(Step)
  BY <1>1, OpenSteps
<1>3. EnableMag(D) \in Seq(Step)
  BY <1>1, <1>2, EnableListed DEF EnableMag
<1>4. EnableAcc(D) \in Seq(Step)
  BY <1>1, <1>3, EnableListed DEF EnableAcc
<1>5. Slider(D) \in Seq(Step) /\ Slider(D) # <<>>
  <2>1. <<"open_slider", "compass", None>> \in Step
    BY <1>1, StepsAre
  <2>2. QED
    BY <1>4, <2>1, ThenSteps DEF Slider
<1>6. EnableCompass(D) \in Seq(Step) /\ EnableCompass(D) # <<>>
  <2> DEFINE Q == IF D["compass"].fd = None THEN Slider(D) ELSE EnableAcc(D)
  <2>1. <<"use", "compass", EXTERNAL>> \in Step /\ Q \in Seq(Step)
    BY <1>1, <1>4, <1>5, StepsAre
  <2>2. EnableCompass(D) = Then(<<"use", "compass", EXTERNAL>>, Q)
    BY DEF EnableCompass, Use
  <2> HIDE DEF Q
  <2>3. QED
    BY <2>1, <2>2, ThenSteps
<1>7. Clear("mag", <<>>) \in Seq(Step)
  BY <1>1, DelaySteps DEF Clear
<1>8. DisableMag(D) \in Seq(Step)
  BY <1>1, <1>7, DisableListed DEF DisableMag
<1>9. Clear("acc", DisableMag(D)) \in Seq(Step)
  BY <1>1, <1>8, DelaySteps DEF Clear
<1>10. DisableAcc(D) \in Seq(Step)
  BY <1>1, <1>9, DisableListed DEF DisableAcc
<1>11. SuspendCompass(D) \in Seq(Step) /\ SuspendCompass(D) # <<>>
  <2> DEFINE Q == IF D["compass"].fd # None THEN Drop1("compass", DisableAcc(D)) ELSE DisableAcc(D)
  <2>1. <<"suspend", "compass">> \in Step
    BY <1>1, StepsAre
  <2>2. Q \in Seq(Step)
    BY <1>1, <1>10, SuspendSteps
  <2>3. SuspendCompass(D) = Then(<<"suspend", "compass">>, Q)
    BY DEF SuspendCompass
  <2> HIDE DEF Q
  <2>4. QED
    BY <2>1, <2>2, <2>3, ThenSteps
<1>12. DisableCompass(D) \in Seq(Step) /\ DisableCompass(D) # <<>>
  <2>1. <<"unuse", "compass", EXTERNAL>> \in Step
    BY <1>1, StepsAre
  <2>2. QED
    BY <1>11, <2>1, ThenSteps DEF DisableCompass
<1>13. QED
  BY <1>2, <1>3, <1>4, <1>5, <1>6, <1>7, <1>8, <1>9, <1>10, <1>11, <1>12

(* What comes first in the compass's enable and disable, and what is left. *)
LEMMA CompassSteps ==
  ASSUME NEW D
  PROVE  /\ Head(Slider(D)) = <<"open_slider", "compass", None>> /\ Tail(Slider(D)) = EnableAcc(D)
         /\ Head(EnableCompass(D)) = <<"use", "compass", EXTERNAL>>
         /\ D["compass"].fd = None => Tail(EnableCompass(D)) = Slider(D)
         /\ D["compass"].fd # None => Tail(EnableCompass(D)) = EnableAcc(D)
         /\ Head(SuspendCompass(D)) = <<"suspend", "compass">>
         /\ D["compass"].fd # None => Tail(SuspendCompass(D)) = Drop1("compass", DisableAcc(D))
         /\ D["compass"].fd = None => Tail(SuspendCompass(D)) = DisableAcc(D)
         /\ Head(DisableCompass(D)) = <<"unuse", "compass", EXTERNAL>> /\ Tail(DisableCompass(D)) = SuspendCompass(D)
<1>1. /\ "compass" \in Sensors /\ EXTERNAL \in Users /\ 0 \in Nat
  BY DEF Sensors, Devices, Users
<1>2. /\ <<"open_slider", "compass", None>> \in Step /\ <<"use", "compass", EXTERNAL>> \in Step
      /\ <<"suspend", "compass">> \in Step /\ <<"unuse", "compass", EXTERNAL>> \in Step
  BY <1>1, StepsAre
<1> DEFINE P == IF D["compass"].fd = None THEN Slider(D) ELSE EnableAcc(D)
           Q == IF D["compass"].fd # None THEN Drop1("compass", DisableAcc(D)) ELSE DisableAcc(D)
<1>3. /\ EnableAcc(D) \in Seq(Step) /\ Slider(D) \in Seq(Step) /\ DisableAcc(D) \in Seq(Step)
      /\ SuspendCompass(D) \in Seq(Step) /\ P \in Seq(Step)
  BY CompassListed
<1>4. Drop1("compass", DisableAcc(D)) \in Seq(Step) /\ Q \in Seq(Step)
  BY <1>1, <1>3, SuspendSteps
<1>5. /\ EnableCompass(D) = Then(<<"use", "compass", EXTERNAL>>, P)
      /\ SuspendCompass(D) = Then(<<"suspend", "compass">>, Q)
      /\ DisableCompass(D) = Then(<<"unuse", "compass", EXTERNAL>>, SuspendCompass(D))
      /\ Slider(D) = Then(<<"open_slider", "compass", None>>, EnableAcc(D))
  BY DEF EnableCompass, Use, SuspendCompass, DisableCompass, Slider
<1>6. /\ D["compass"].fd = None => P = Slider(D) /\ Q = DisableAcc(D)
      /\ D["compass"].fd # None => P = EnableAcc(D) /\ Q = Drop1("compass", DisableAcc(D))
  OBVIOUS
<1> HIDE DEF P, Q
<1> DEFINE x == <<"open_slider", "compass", None>>
           y == <<"use", "compass", EXTERNAL>>
<1>7. Head(Slider(D)) = <<"open_slider", "compass", None>> /\ Tail(Slider(D)) = EnableAcc(D)
  <2>1. x \in Step /\ Slider(D) = Then(x, EnableAcc(D))
    BY <1>2, <1>5
  <2> HIDE DEF x
  <2>2. Head(Slider(D)) = x /\ Tail(Slider(D)) = EnableAcc(D)
    BY <1>3, <2>1, ThenSteps
  <2>3. QED
    BY <2>2 DEF x
<1>8. Head(EnableCompass(D)) = <<"use", "compass", EXTERNAL>> /\ Tail(EnableCompass(D)) = P
  <2>1. y \in Step /\ EnableCompass(D) = Then(y, P)
    BY <1>2, <1>5
  <2> HIDE DEF y
  <2>2. Head(EnableCompass(D)) = y /\ Tail(EnableCompass(D)) = P
    BY <1>3, <2>1, ThenSteps
  <2>3. QED
    BY <2>2 DEF y
<1>9. Head(SuspendCompass(D)) = <<"suspend", "compass">> /\ Tail(SuspendCompass(D)) = Q
  BY <1>2, <1>4, <1>5, ThenSteps
<1>10. Head(DisableCompass(D)) = <<"unuse", "compass", EXTERNAL>> /\ Tail(DisableCompass(D)) = SuspendCompass(D)
  BY <1>2, <1>3, <1>5, ThenSteps
<1>11. QED
  BY <1>6, <1>7, <1>8, <1>9, <1>10

(* The steps of sensor_activate_local, and those that follow.              *)
LEMMA LocalSteps ==
  ASSUME NEW d \in Sensors, NEW u \in Users, NEW R \in Seq(Step)
  PROVE  /\ sensor_activate_local(d, TRUE, u) \in Seq(Step)
         /\ Join(sensor_activate_local(d, TRUE, u), R) = Enable(d, u, R, dev[d])
         /\ sensor_activate_local(d, FALSE, u) \in Seq(Step)
         /\ Join(sensor_activate_local(d, FALSE, u), R) = Disable(d, u, R, dev[d])
<1>1. <<>> \in Seq(Step) /\ Join(<<>>, R) = R
  BY JoinSteps
<1>2. /\ <<"use", d, u>> \in Step /\ <<"open", d, u>> \in Step /\ <<"set_fd", d>> \in Step /\ <<"resume", d>> \in Step
      /\ <<"unuse", d, u>> \in Step /\ <<"suspend", d>> \in Step /\ <<"drop_fd", d>> \in Step
  BY StepsAre DEF Users
<1>3. ASSUME NEW x \in Step, NEW Q \in Seq(Step), NEW P \in Seq(Step), Join(P, R) = Q
      PROVE  <<x>> \o P \in Seq(Step) /\ Join(<<x>> \o P, R) = Then(x, Q)
  <2>1. <<x>> \o P = Then(x, P)
    BY DEF Then
  <2>2. Then(x, P) \in Seq(Step)
    BY ThenSteps
  <2>3. Join(Then(x, P), R) = Then(x, Join(P, R))
    BY ThenMore
  <2>4. QED
    BY <1>3, <2>1, <2>2, <2>3
<1>4. /\ Join(Open3(d, u, <<>>), R) = Open3(d, u, R) /\ Open3(d, u, <<>>) \in Seq(Step)
      /\ Open3(d, u, <<>>) = <<<<"open", d, u>>, <<"set_fd", d>>, <<"resume", d>>>>
  <2>1. Join(Run1(d, <<>>), R) = Run1(d, R)
    <3> DEFINE x == <<"resume", d>>
               E == <<>>
    <3>1. x \in Step /\ E \in Seq(Step) /\ Join(E, R) = R
      BY <1>1, <1>2
    <3> HIDE DEF x, E
    <3>2. Join(Then(x, E), R) = Then(x, Join(E, R))
      BY <3>1, ThenMore
    <3>3. QED
      BY <3>1, <3>2 DEF x, E, Run1
  <2>2. Run1(d, <<>>) \in Seq(Step) /\ Set2(d, <<>>) \in Seq(Step) /\ Open3(d, u, <<>>) \in Seq(Step)
    BY <1>1, OpenSteps
  <2>3. Join(Set2(d, <<>>), R) = Set2(d, R)
    BY <1>2, <2>1, <2>2, ThenMore DEF Set2
  <2>4. Join(Open3(d, u, <<>>), R) = Open3(d, u, R)
    BY <1>2, <2>2, <2>3, ThenMore DEF Open3
  <2>5. Open3(d, u, <<>>) = <<<<"open", d, u>>, <<"set_fd", d>>, <<"resume", d>>>>
    <3> DEFINE x == <<"open", d, u>>
               y == <<"set_fd", d>>
               z == <<"resume", d>>
    <3>1. x \in Step /\ y \in Step /\ z \in Step
      BY <1>2
    <3> HIDE DEF x, y, z
    <3>2. <<x, y, z>> = Then(x, Then(y, Then(z, <<>>)))
      BY <3>1, ThenListed
    <3>3. QED
      BY <3>2 DEF x, y, z, Open3, Set2, Run1
  <2>6. QED
    BY <2>2, <2>4, <2>5
<1>5. /\ Join(Susp2(d, <<>>), R) = Susp2(d, R) /\ Susp2(d, <<>>) \in Seq(Step)
      /\ Susp2(d, <<>>) = <<<<"suspend", d>>, <<"drop_fd", d>>>>
  <2>1. Join(Drop1(d, <<>>), R) = Drop1(d, R)
    <3> DEFINE x == <<"drop_fd", d>>
               E == <<>>
    <3>1. x \in Step /\ E \in Seq(Step) /\ Join(E, R) = R
      BY <1>1, <1>2
    <3> HIDE DEF x, E
    <3>2. Join(Then(x, E), R) = Then(x, Join(E, R))
      BY <3>1, ThenMore
    <3>3. QED
      BY <3>1, <3>2 DEF x, E, Drop1
  <2>2. Drop1(d, <<>>) \in Seq(Step) /\ Susp2(d, <<>>) \in Seq(Step)
    BY <1>1, SuspendSteps
  <2>3. Join(Susp2(d, <<>>), R) = Susp2(d, R)
    BY <1>2, <2>1, <2>2, ThenMore DEF Susp2
  <2>4. Susp2(d, <<>>) = <<<<"suspend", d>>, <<"drop_fd", d>>>>
    BY <1>2, ThenListed DEF Susp2, Drop1
  <2>5. QED
    BY <2>2, <2>3, <2>4
<1>6. /\ sensor_activate_local(d, TRUE, u) \in Seq(Step)
      /\ Join(sensor_activate_local(d, TRUE, u), R) = Enable(d, u, R, dev[d])
  <2> DEFINE P == IF dev[d].fd = None THEN Open3(d, u, <<>>) ELSE <<>>
             Q == IF dev[d].fd = None THEN Open3(d, u, R) ELSE R
  <2>1. P \in Seq(Step) /\ Join(P, R) = Q /\ Q \in Seq(Step)
    <3>1. Open3(d, u, R) \in Seq(Step)
      BY OpenSteps
    <3>2. QED
      BY <1>1, <1>4, <3>1
  <2>2. sensor_activate_local(d, TRUE, u) = <<<<"use", d, u>>>> \o P
    BY <1>4 DEF sensor_activate_local, reopens
  <2>3. Enable(d, u, R, dev[d]) = Then(<<"use", d, u>>, Q)
    BY DEF Enable, Use
  <2> DEFINE x == <<"use", d, u>>
  <2>4. x \in Step
    BY <1>2
  <2> HIDE DEF P, Q, x
  <2>5. <<x>> \o P \in Seq(Step) /\ Join(<<x>> \o P, R) = Then(x, Q)
    BY <1>3, <2>1, <2>4
  <2>6. sensor_activate_local(d, TRUE, u) = <<x>> \o P
    BY <2>2 DEF x
  <2>7. QED
    BY <2>3, <2>5, <2>6 DEF x
<1>7. /\ sensor_activate_local(d, FALSE, u) \in Seq(Step)
      /\ Join(sensor_activate_local(d, FALSE, u), R) = Disable(d, u, R, dev[d])
  <2> DEFINE P == IF dev[d].fd # None /\ dev[d].users \subseteq {u} THEN Susp2(d, <<>>) ELSE <<>>
             Q == IF dev[d].fd # None /\ dev[d].users \subseteq {u} THEN Susp2(d, R) ELSE R
  <2>1. P \in Seq(Step) /\ Join(P, R) = Q /\ Q \in Seq(Step)
    <3>1. Susp2(d, R) \in Seq(Step)
      BY SuspendSteps
    <3>2. QED
      BY <1>1, <1>5, <3>1
  <2>2. sensor_activate_local(d, FALSE, u) = <<<<"unuse", d, u>>>> \o P
    BY <1>5 DEF sensor_activate_local, unused_without
  <2>3. Disable(d, u, R, dev[d]) = Then(<<"unuse", d, u>>, Q)
    BY DEF Disable
  <2> DEFINE x == <<"unuse", d, u>>
  <2>4. x \in Step
    BY <1>2
  <2> HIDE DEF P, Q, x
  <2>5. <<x>> \o P \in Seq(Step) /\ Join(<<x>> \o P, R) = Then(x, Q)
    BY <1>3, <2>1, <2>4
  <2>6. sensor_activate_local(d, FALSE, u) = <<x>> \o P
    BY <2>2 DEF x
  <2>7. QED
    BY <2>3, <2>5, <2>6 DEF x
<1>8. QED
  BY <1>6, <1>7

(* The steps of sensor_activate_local alone.                               *)
LEMMA LocalAlone ==
  ASSUME NEW d \in Sensors, NEW u \in Users
  PROVE  /\ sensor_activate_local(d, TRUE, u) = Enable(d, u, <<>>, dev[d])
         /\ sensor_activate_local(d, FALSE, u) = Disable(d, u, <<>>, dev[d])
<1>1. <<>> \in Seq(Step)
  OBVIOUS
<1>2. \A s \in Seq(Step) : Join(s, <<>>) = s
  BY JoinSteps
<1>3. QED
  BY <1>1, <1>2, LocalSteps

(* The steps of the compass's enable and disable in their devices.         *)
LEMMA RequiredSteps ==
  /\ activate_required_sensors(TRUE) \in Seq(Step)
  /\ Join(activate_required_sensors(TRUE), Set2("compass", <<>>)) = EnableAcc(dev)
  /\ activate_required_sensors(FALSE) = DisableAcc(dev)
<1> DEFINE local(d, e) == sensor_activate_local(d, e, INTERNAL)
<1>1. /\ "acc" \in Sensors /\ "mag" \in Sensors /\ "compass" \in Sensors /\ <<>> \in Seq(Step)
      /\ INTERNAL \in Users /\ EXTERNAL \in Users /\ 0 \in Nat
  BY DEF Sensors, Devices, Users
<1>2. \A d \in {"acc", "mag"} : local(d, TRUE) \in Seq(Step) /\ local(d, FALSE) \in Seq(Step)
  BY <1>1, LocalSteps
<1>3. ASSUME NEW d \in {"acc", "mag"}, NEW R \in Seq(Step)
      PROVE  /\ Join(local(d, TRUE), R) = Enable(d, INTERNAL, R, dev[d])
             /\ Join(local(d, FALSE), R) = Disable(d, INTERNAL, R, dev[d])
  BY <1>1, LocalSteps
<1> DEFINE a1 == local("acc", TRUE)
           a2 == local("mag", TRUE)
           b1 == local("acc", FALSE)
           b2 == local("mag", FALSE)
<1> HIDE DEF local
<1>4. a1 \in Seq(Step) /\ a2 \in Seq(Step) /\ b1 \in Seq(Step) /\ b2 \in Seq(Step)
  BY <1>2
<1>5. /\ activate_required_sensors(TRUE) = Join(Join(local("acc", TRUE), <<>>), Join(local("mag", TRUE), <<>>))
      /\ activate_required_sensors(FALSE)
           = Join(Join(local("acc", FALSE), delay_cleared("acc")), Join(local("mag", FALSE), delay_cleared("mag")))
  BY DEF activate_required_sensors, local, Join
<1>6. ASSUME NEW d \in {"acc", "mag"}, NEW R \in Seq(Step)
      PROVE  delay_cleared(d) \in Seq(Step) /\ Join(delay_cleared(d), R) = Clear(d, R) /\ delay_cleared(d) = Clear(d, <<>>)
  <2>1. d \in Sensors
    BY <1>1
  <2>2. <<"internal", d, 0>> \in Step /\ <<"update", d>> \in Step
    BY <1>1, <2>1, StepsAre
  <2>3. delay_cleared(d) = Clear(d, <<>>)
    BY <2>2, ThenListed DEF delay_cleared, Clear, Internal, Update
  <2>4. /\ Update(d, <<>>) \in Seq(Step) /\ Clear(d, <<>>) \in Seq(Step)
    BY <1>1, <2>1, DelaySteps DEF Clear
  <2>5. Join(Update(d, <<>>), R) = Update(d, R)
    <3>1. Join(Update(d, <<>>), R) = Then(<<"update", d>>, Join(<<>>, R))
      BY <1>1, <2>2, ThenMore DEF Update
    <3>2. Join(<<>>, R) = R
      BY JoinSteps
    <3>3. QED
      BY <3>1, <3>2 DEF Update
  <2>6. Join(Clear(d, <<>>), R) = Clear(d, R)
    BY <2>2, <2>4, <2>5, ThenMore DEF Clear, Internal
  <2>7. QED
    BY <2>3, <2>4, <2>6
<1>7. activate_required_sensors(TRUE) = Join(local("acc", TRUE), local("mag", TRUE))
  <2>1. Join(local("acc", TRUE), <<>>) = local("acc", TRUE) /\ Join(local("mag", TRUE), <<>>) = local("mag", TRUE)
    BY <1>2, JoinSteps
  <2>2. QED
    BY <1>5, <2>1
<1> HIDE DEF a1, a2, b1, b2
<1>8. activate_required_sensors(TRUE) \in Seq(Step)
  <2>1. Join(a1, a2) \in Seq(Step)
    BY <1>4, JoinSteps
  <2>2. QED
    BY <1>7, <2>1 DEF a1, a2
<1>9. Join(activate_required_sensors(TRUE), Set2("compass", <<>>)) = EnableAcc(dev)
  <2> DEFINE E == Set2("compass", <<>>)
  <2>1. E \in Seq(Step) /\ EnableMag(dev) \in Seq(Step)
    BY CompassListed
  <2>2. Join(local("mag", TRUE), E) = EnableMag(dev)
    BY <1>3, <2>1 DEF EnableMag
  <2>3. Join(local("acc", TRUE), EnableMag(dev)) = EnableAcc(dev)
    BY <1>3, <2>1 DEF EnableAcc
  <2> HIDE DEF E
  <2>4. Join(Join(a1, a2), E) = Join(a1, Join(a2, E))
    BY <1>4, <2>1, JoinSteps
  <2>5. QED
    BY <1>7, <2>2, <2>3, <2>4 DEF E, a1, a2
<1>10. activate_required_sensors(FALSE) = DisableAcc(dev)
  <2>1. DisableMag(dev) \in Seq(Step) /\ Clear("mag", <<>>) \in Seq(Step) /\ Clear("acc", DisableMag(dev)) \in Seq(Step)
    BY CompassListed
  <2>2. Join(local("mag", FALSE), delay_cleared("mag")) = DisableMag(dev)
    <3>1. delay_cleared("mag") = Clear("mag", <<>>)
      BY <1>1, <1>6
    <3>2. QED
      BY <1>3, <2>1, <3>1 DEF DisableMag
  <2>3. Join(delay_cleared("acc"), DisableMag(dev)) = Clear("acc", DisableMag(dev)) /\ delay_cleared("acc") \in Seq(Step)
    BY <1>6, <2>1
  <2>4. Join(local("acc", FALSE), Clear("acc", DisableMag(dev))) = DisableAcc(dev)
    BY <1>3, <2>1 DEF DisableAcc
  <2>5. Join(Join(b1, delay_cleared("acc")), DisableMag(dev)) = Join(b1, Join(delay_cleared("acc"), DisableMag(dev)))
    BY <1>4, <2>1, <2>3, JoinSteps
  <2>6. QED
    BY <1>5, <2>2, <2>3, <2>4, <2>5 DEF b1
<1>11. QED
  BY <1>8, <1>9, <1>10

(***************************************************************************)
(* The steps of each call.                                                 *)
(***************************************************************************)

Init1(s) == Then(<<"select_init", s>>, <<>>)
Path2(s) == Then(<<"phys_path", s>>, Init1(s))
Api2 == Then(<<"compass_API_Init", "compass">>, Init1("compass"))
Destroy(s) == Then(<<"destroy", s>>, <<>>)
CompassDelay(ns) == Internal("acc", ns, Internal("mag", ns, <<>>))

(* The steps of an init and of a close.                                    *)
LEMMA InitSteps ==
  ASSUME NEW s \in Sensors
  PROVE  /\ Init1(s) \in Seq(Step) /\ Init1(s) # <<>> /\ Head(Init1(s)) = <<"select_init", s>> /\ Tail(Init1(s)) = <<>>
         /\ Path2(s) \in Seq(Step) /\ Path2(s) # <<>> /\ Head(Path2(s)) = <<"phys_path", s>>
         /\ Tail(Path2(s)) = Init1(s)
         /\ Api2 \in Seq(Step) /\ Api2 # <<>> /\ Head(Api2) = <<"compass_API_Init", "compass">>
         /\ Tail(Api2) = Init1("compass")
         /\ Destroy(s) \in Seq(Step) /\ Destroy(s) # <<>> /\ Head(Destroy(s)) = <<"destroy", s>>
         /\ Tail(Destroy(s)) = <<>>
<1>1. <<>> \in Seq(Step) /\ "compass" \in Sensors
  BY DEF Sensors
<1>2. /\ <<"select_init", s>> \in Step /\ <<"phys_path", s>> \in Step /\ <<"destroy", s>> \in Step
      /\ <<"compass_API_Init", "compass">> \in Step /\ <<"select_init", "compass">> \in Step
  BY <1>1 DEF Step
<1>3. /\ Init1(s) \in Seq(Step) /\ Init1(s) # <<>> /\ Head(Init1(s)) = <<"select_init", s>> /\ Tail(Init1(s)) = <<>>
      /\ Init1("compass") \in Seq(Step)
  BY <1>1, <1>2, ThenSteps DEF Init1
<1>4. /\ Path2(s) \in Seq(Step) /\ Path2(s) # <<>> /\ Head(Path2(s)) = <<"phys_path", s>>
      /\ Tail(Path2(s)) = Init1(s)
  BY <1>2, <1>3, ThenSteps DEF Path2
<1>5. /\ Api2 \in Seq(Step) /\ Api2 # <<>> /\ Head(Api2) = <<"compass_API_Init", "compass">>
      /\ Tail(Api2) = Init1("compass")
  BY <1>2, <1>3, ThenSteps DEF Api2
<1>6. /\ Destroy(s) \in Seq(Step) /\ Destroy(s) # <<>> /\ Head(Destroy(s)) = <<"destroy", s>>
      /\ Tail(Destroy(s)) = <<>>
  BY <1>1, <1>2, ThenSteps DEF Destroy
<1>7. QED
  BY <1>3, <1>4, <1>5, <1>6

(* What each call is made of.                                              *)
LEMMA CallSteps ==
  ASSUME NEW s \in Sensors, NEW ns \in Nat
  PROVE  /\ steps(s, "init", ns) = IF s = "compass" THEN Api2 ELSE Path2(s)
         /\ steps(s, "enable", ns) = IF s = "compass" THEN EnableCompass(dev) ELSE Enable(s, EXTERNAL, <<>>, dev[s])
         /\ steps(s, "disable", ns) = IF s = "compass" THEN DisableCompass(dev) ELSE Disable(s, EXTERNAL, <<>>, dev[s])
         /\ steps(s, "set_delay", ns) = IF s = "compass" THEN CompassDelay(ns) ELSE External(s, ns, <<>>)
         /\ steps(s, "close", ns) = Destroy(s)
<1>1. /\ "acc" \in Sensors /\ "mag" \in Sensors /\ "compass" \in Sensors /\ <<>> \in Seq(Step)
      /\ INTERNAL \in Users /\ EXTERNAL \in Users /\ 0 \in Nat
  BY DEF Sensors, Devices, Users
<1>2. steps(s, "init", ns) = IF s = "compass" THEN Api2 ELSE Path2(s)
  <2> DEFINE x == <<"phys_path", s>>
             y == <<"select_init", s>>
             v == <<"compass_API_Init", "compass">>
             w == <<"select_init", "compass">>
  <2>1. x \in Step /\ y \in Step /\ v \in Step /\ w \in Step
    BY <1>1, StepsAre
  <2> HIDE DEF x, y, v, w
  <2>2. <<x, y>> = Then(x, Then(y, <<>>)) /\ <<v, w>> = Then(v, Then(w, <<>>))
    BY <2>1, ThenListed
  <2>3. sensor_init(s) = Path2(s) /\ compass_sensor_init = Api2
    BY <2>2 DEF sensor_init, compass_sensor_init, Path2, Init1, Api2, x, y, v, w
  <2>4. QED
    BY <2>3 DEF steps
<1>3. steps(s, "enable", ns) = IF s = "compass" THEN EnableCompass(dev) ELSE Enable(s, EXTERNAL, <<>>, dev[s])
  <2> DEFINE u == <<"use", "compass", EXTERNAL>>
             o == <<"open_slider", "compass", None>>
             S == IF dev["compass"].fd = None THEN <<o>> ELSE <<>>
             A == activate_required_sensors(TRUE)
             f == <<"set_fd", "compass">>
             r == <<"resume", "compass">>
             E == Set2("compass", <<>>)
  <2>1. /\ u \in Step /\ o \in Step /\ f \in Step /\ r \in Step /\ A \in Seq(Step) /\ E \in Seq(Step)
    BY <1>1, StepsAre, CompassListed, RequiredSteps
  <2>2. compass_sensor_activate(TRUE) = Join(Join(Join(<<u>>, S), A), <<f, r>>)
    BY DEF compass_sensor_activate, Join
  <2>3. Join(A, E) = EnableAcc(dev) /\ EnableAcc(dev) \in Seq(Step)
    BY CompassListed, RequiredSteps
  <2>4. EnableCompass(dev) = Then(u, IF dev["compass"].fd = None THEN Then(o, EnableAcc(dev)) ELSE EnableAcc(dev))
    BY DEF EnableCompass, Use, Slider
  <2>5. E = Then(f, Then(r, <<>>))
    BY DEF Set2, Run1
  <2>6. S = IF dev["compass"].fd = None THEN <<o>> ELSE <<>>
    OBVIOUS
  <2> HIDE DEF u, o, S, A, f, r, E
  <2>7. <<f, r>> = E /\ <<u>> = Then(u, <<>>) /\ <<o>> = Then(o, <<>>)
    BY <2>1, <2>5, ThenListed
  <2>8. <<u>> \in Seq(Step) /\ <<o>> \in Seq(Step) /\ S \in Seq(Step)
    BY <1>1, <2>1, <2>6
  <2>9. Join(Join(Join(<<u>>, S), A), E) = Join(<<u>>, Join(S, EnableAcc(dev)))
    <3>1. Join(<<u>>, S) \in Seq(Step)
      BY <2>8, JoinSteps
    <3>2. Join(Join(Join(<<u>>, S), A), E) = Join(Join(<<u>>, S), Join(A, E))
      BY <2>1, <3>1, JoinSteps
    <3>3. Join(Join(<<u>>, S), EnableAcc(dev)) = Join(<<u>>, Join(S, EnableAcc(dev)))
      <4> DEFINE U == <<u>>
                 Q == EnableAcc(dev)
      <4>1. U \in Seq(Step) /\ Q \in Seq(Step)
        BY <2>3, <2>8
      <4> HIDE DEF U, Q
      <4>2. Join(Join(U, S), Q) = Join(U, Join(S, Q))
        BY <2>8, <4>1, JoinSteps
      <4>3. QED
        BY <4>2 DEF U, Q
    <3>4. QED
      BY <2>3, <3>2, <3>3
  <2>10. Join(<<u>>, Join(S, EnableAcc(dev))) = Then(u, Join(S, EnableAcc(dev)))
    BY DEF Join, Then
  <2>11. Join(S, EnableAcc(dev)) = IF dev["compass"].fd = None THEN Then(o, EnableAcc(dev)) ELSE EnableAcc(dev)
    <3>1. CASE dev["compass"].fd = None
      BY <2>6, <3>1 DEF Join, Then
    <3>2. CASE dev["compass"].fd # None
      BY <2>3, <2>6, <3>2, JoinSteps
    <3>3. QED
      BY <3>1, <3>2
  <2>12. compass_sensor_activate(TRUE) = EnableCompass(dev)
    BY <2>2, <2>4, <2>7, <2>9, <2>10, <2>11
  <2>13. sensor_activate(s, TRUE) = Enable(s, EXTERNAL, <<>>, dev[s])
    BY <1>1, LocalAlone DEF sensor_activate
  <2>14. QED
    BY <2>12, <2>13 DEF steps
<1>4. steps(s, "disable", ns) = IF s = "compass" THEN DisableCompass(dev) ELSE Disable(s, EXTERNAL, <<>>, dev[s])
  <2> DEFINE u == <<"unuse", "compass", EXTERNAL>>
             p == <<"suspend", "compass">>
             f == <<"drop_fd", "compass">>
             A == DisableAcc(dev)
             F == IF dev["compass"].fd # None THEN <<f>> ELSE <<>>
  <2>1. u \in Step /\ p \in Step /\ f \in Step /\ A \in Seq(Step)
    BY <1>1, StepsAre, CompassListed
  <2>2. compass_sensor_activate(FALSE) = Join(Join(<<u, p>>, F), A)
    BY RequiredSteps DEF compass_sensor_activate, Join, drops_file
  <2>3. DisableCompass(dev) = Then(u, Then(p, IF dev["compass"].fd # None THEN Then(f, A) ELSE A))
    BY DEF DisableCompass, SuspendCompass, Drop1
  <2>4. F = IF dev["compass"].fd # None THEN <<f>> ELSE <<>>
    OBVIOUS
  <2> HIDE DEF u, p, f, A, F
  <2>5. <<u, p>> = Then(u, Then(p, <<>>)) /\ <<f>> = Then(f, <<>>)
    BY <2>1, ThenListed
  <2>6. <<f>> \in Seq(Step) /\ F \in Seq(Step) /\ Then(p, <<>>) \in Seq(Step) /\ Then(u, Then(p, <<>>)) \in Seq(Step)
    <3>1. Then(p, <<>>) \in Seq(Step)
      BY <1>1, <2>1, ThenSteps
    <3>2. Then(u, Then(p, <<>>)) \in Seq(Step)
      BY <2>1, <3>1, ThenSteps
    <3>3. <<f>> \in Seq(Step) /\ F \in Seq(Step)
      BY <1>1, <2>1, <2>4
    <3>4. QED
      BY <3>1, <3>2, <3>3
  <2>7. Join(Join(<<u, p>>, F), A) = Join(Then(u, Then(p, <<>>)), Join(F, A)) /\ Join(F, A) \in Seq(Step)
    <3> DEFINE U == Then(u, Then(p, <<>>))
    <3>1. U \in Seq(Step) /\ F \in Seq(Step) /\ A \in Seq(Step)
      BY <2>1, <2>6
    <3> HIDE DEF U
    <3>2. Join(Join(U, F), A) = Join(U, Join(F, A)) /\ Join(F, A) \in Seq(Step)
      BY <3>1, JoinSteps
    <3>3. QED
      BY <2>5, <3>2 DEF U
  <2>8. Join(Then(u, Then(p, <<>>)), Join(F, A)) = Then(u, Then(p, Join(F, A)))
    <3> DEFINE G == Join(F, A)
               E == <<>>
    <3>1. G \in Seq(Step) /\ E \in Seq(Step) /\ Then(p, E) \in Seq(Step)
      BY <1>1, <2>6, <2>7
    <3> HIDE DEF G, E
    <3>2. Join(Then(u, Then(p, E)), G) = Then(u, Join(Then(p, E), G)) /\ Join(Then(p, E), G) = Then(p, Join(E, G))
      BY <2>1, <3>1, ThenMore
    <3>3. Join(E, G) = G
      BY <3>1, JoinSteps DEF E
    <3>4. QED
      BY <3>2, <3>3 DEF G, E
  <2>9. Join(F, A) = IF dev["compass"].fd # None THEN Then(f, A) ELSE A
    <3>1. CASE dev["compass"].fd # None
      BY <2>4, <3>1 DEF Join, Then
    <3>2. CASE dev["compass"].fd = None
      BY <2>1, <2>4, <3>2, JoinSteps
    <3>3. QED
      BY <3>1, <3>2
  <2>10. compass_sensor_activate(FALSE) = DisableCompass(dev)
    BY <2>2, <2>3, <2>7, <2>8, <2>9
  <2>11. sensor_activate(s, FALSE) = Disable(s, EXTERNAL, <<>>, dev[s])
    BY <1>1, LocalAlone DEF sensor_activate
  <2>12. QED
    BY <2>10, <2>11 DEF steps
<1>5. steps(s, "set_delay", ns) = IF s = "compass" THEN CompassDelay(ns) ELSE External(s, ns, <<>>)
  <2> DEFINE x == <<"external", s, ns>>
             y == <<"update", s>>
             a == <<"internal", "acc", ns>>
             b == <<"update", "acc">>
             c == <<"internal", "mag", ns>>
             d == <<"update", "mag">>
  <2>1. x \in Step /\ y \in Step /\ a \in Step /\ b \in Step /\ c \in Step /\ d \in Step
    BY <1>1, StepsAre
  <2> HIDE DEF x, y, a, b, c, d
  <2>2. <<x, y>> = Then(x, Then(y, <<>>)) /\ <<a, b, c, d>> = Then(a, Then(b, Then(c, Then(d, <<>>))))
    BY <2>1, ThenListed
  <2>3. sensor_set_delay(s, ns) = External(s, ns, <<>>) /\ compass_sensor_set_delay(ns) = CompassDelay(ns)
    BY <2>2 DEF sensor_set_delay, compass_sensor_set_delay, External, Internal, Update, CompassDelay, x, y, a, b, c, d
  <2>4. QED
    BY <2>3 DEF steps
<1>6. steps(s, "close", ns) = Destroy(s)
  <2> DEFINE x == <<"destroy", s>>
  <2>1. x \in Step
    BY <1>1, StepsAre
  <2> HIDE DEF x
  <2>2. <<x>> = Then(x, <<>>)
    BY <2>1, ThenListed
  <2>3. QED
    BY <2>2 DEF steps, sensor_close, Destroy, x
<1>7. QED
  BY <1>2, <1>3, <1>4, <1>5, <1>6

(***************************************************************************)
(* A device, its users and its file.                                       *)
(***************************************************************************)

\* The other user of a device, and the sensor a user of it stands for.
Other(u) == IF u = EXTERNAL THEN INTERNAL ELSE EXTERNAL
Of(d, u) == IF u = EXTERNAL THEN d ELSE "compass"

\* The user is set when its sensor is wanted, or an enable left it behind.
Shown(d, u, r, W, L) == u \in r.users <=> (Of(d, u) \in W \/ <<d, u>> \in L)

\* But for user u, the device is what its users want.
Minds(d, u, r, W, L) ==
  /\ Shown(d, Other(u), r, W, L)
  /\ Of(d, Other(u)) \in W => r.fd = "open"
  /\ r.fd \in {None, "open"} /\ (r.fd # None <=> r.mode = "run")

\* The device is what its users want.
Settled(d, r, W, L) ==
  /\ \A u \in Users : Minds(d, u, r, W, L)
  /\ r.fd # None => r.users # {}

\* User u has been given the device, or has given it back.
Joined(d, u, r, W, L) == Minds(d, u, r, W, L) /\ u \in r.users /\ <<d, u>> \notin L /\ r.fd = "open"
Parted(d, u, r, W, L) ==
  Minds(d, u, r, W, L) /\ u \notin r.users /\ <<d, u>> \notin L /\ (r.fd # None => r.users # {})

\* User u is being given the device, or is giving it back.
Joining(d, u, r, W, L) ==
  /\ Shown(d, Other(u), r, W, L) /\ u \in r.users /\ <<d, u>> \notin L
  /\ d \notin W /\ "compass" \notin W /\ r.mode # "run"
Parting(d, u, r, W, L) ==
  /\ r.users = {} /\ <<d, u>> \notin L /\ Shown(d, Other(u), r, W, L) /\ r.fd = "open"

\* Where the enable and the disable of a device are, R to follow.
EnStage(d, u, R, T, r, W, L) ==
  \/ T = Enable(d, u, R, r) /\ Settled(d, r, W, L)
  \/ T = Open3(d, u, R) /\ Joining(d, u, r, W, L) /\ r.fd = None
  \/ T = Set2(d, R) /\ Joining(d, u, r, W, L) /\ r.fd = None
  \/ T = Run1(d, R) /\ Joining(d, u, r, W, L) /\ r.fd = "open"

UnStage(d, u, R, T, r, W, L) ==
  \/ T = Disable(d, u, R, r) /\ Minds(d, u, r, W, L)
  \/ T = Susp2(d, R) /\ Parting(d, u, r, W, L) /\ r.mode = "run"
  \/ T = Drop1(d, R) /\ Parting(d, u, r, W, L) /\ r.mode = "sleep"

(***************************************************************************)
(* The compass.                                                            *)
(***************************************************************************)

CSettled(r, W, L) ==
  /\ EXTERNAL \in r.users <=> ("compass" \in W \/ <<"compass", EXTERNAL>> \in L)
  /\ r.fd # None => "compass" \in W
CJoined(r, L) == EXTERNAL \in r.users /\ <<"compass", EXTERNAL>> \notin L
CJoining(r, W, L, O) == CJoined(r, L) /\ (r.fd # None => "compass" \in W /\ "twice" \in O)
CParting(r, L) == EXTERNAL \notin r.users /\ <<"compass", EXTERNAL>> \notin L
CParted(r, L) == CParting(r, L) /\ r.fd = None

(***************************************************************************)
(* The steps on a device keep to what its stages say.                      *)
(***************************************************************************)

Device == [mode : {None, "sleep", "run"}, fd : {None, "open", "stale"}, users : SUBSET Users, internal : Nat,
           external : Nat, applied : Nat, path : BOOLEAN, power : {"default", "poll", "irq"}]

(* A user joins a device that is open, or that is to be opened.            *)
LEMMA UserJoins ==
  ASSUME NEW d \in Devices, NEW u \in Users, NEW r \in Device, NEW W, NEW L, Settled(d, r, W, L),
         NEW q, q = [r EXCEPT !.users = r.users \cup {u}]
  PROVE  IF r.fd = None THEN Joining(d, u, q, W, L \ {<<d, u>>}) /\ q.fd = None
                        ELSE Joined(d, u, q, W, L \ {<<d, u>>})
<1>1. Other(u) \in Users /\ Other(u) # u /\ {Of(d, u), Of(d, Other(u))} = {d, "compass"}
  BY DEF Users, Other, Of, INTERNAL, EXTERNAL
<1>2. q.users = r.users \cup {u} /\ q.fd = r.fd /\ q.mode = r.mode
  BY DEF Device
<1>3. Minds(d, u, r, W, L) /\ Minds(d, Other(u), r, W, L) /\ Other(Other(u)) = u
  BY <1>1 DEF Settled, Other, Users, INTERNAL, EXTERNAL
<1> DEFINE M == L \ {<<d, u>>}
<1>4. <<d, u>> \notin M /\ (<<d, Other(u)>> \in M <=> <<d, Other(u)>> \in L)
  BY <1>1
<1> HIDE DEF M
<1>5. Shown(d, Other(u), q, W, M)
  BY <1>1, <1>2, <1>3, <1>4 DEF Minds, Shown
<1>6. CASE r.fd = None
  <2>1. d \notin W /\ "compass" \notin W /\ r.mode # "run"
    BY <1>1, <1>3, <1>6 DEF Minds, None
  <2>2. QED
    BY <1>2, <1>4, <1>5, <1>6, <2>1 DEF Joining, M
<1>7. CASE r.fd # None
  <2>1. r.fd = "open" /\ r.mode = "run" /\ "open" # None
    BY <1>3, <1>7 DEF Minds, None
  <2>2. Minds(d, u, q, W, M)
    BY <1>2, <1>5, <2>1 DEF Minds
  <2>3. QED
    BY <1>2, <1>4, <1>7, <2>1, <2>2 DEF Joined, M
<1>8. QED
  BY <1>6, <1>7

(* Its file is set, and its worker runs.                                   *)
LEMMA DeviceStarts ==
  ASSUME NEW d \in Devices, NEW u \in Users, NEW r \in Device, NEW W, NEW L, Joining(d, u, r, W, L)
  PROVE  /\ Joining(d, u, [r EXCEPT !.fd = "open"], W, L) /\ [r EXCEPT !.fd = "open"].fd = "open"
         /\ r.fd = "open" => Joined(d, u, [r EXCEPT !.mode = "run"], W, L)
<1> DEFINE p == [r EXCEPT !.fd = "open"]
           q == [r EXCEPT !.mode = "run"]
<1>1. p.users = r.users /\ p.fd = "open" /\ p.mode = r.mode /\ q.users = r.users /\ q.fd = r.fd /\ q.mode = "run"
  BY DEF Device
<1> HIDE DEF p, q
<1>2. Joining(d, u, p, W, L)
  BY <1>1 DEF Joining, Shown
<1>3. ASSUME r.fd = "open" PROVE Joined(d, u, q, W, L)
  BY <1>1, <1>3 DEF Joined, Joining, Minds, Shown, None
<1>4. QED
  BY <1>1, <1>2, <1>3 DEF p, q

(* A user parts from a device that stays as it is, or that is to be closed.*)
LEMMA UserParts ==
  ASSUME NEW d \in Devices, NEW u \in Users, NEW r \in Device, NEW W, NEW L, Minds(d, u, r, W, L),
         NEW q, q = [r EXCEPT !.users = r.users \ {u}]
  PROVE  IF r.fd # None /\ r.users \subseteq {u}
         THEN Parting(d, u, q, W, L \ {<<d, u>>}) /\ q.mode = "run"
         ELSE Parted(d, u, q, W, L \ {<<d, u>>})
<1>1. Other(u) \in Users /\ Other(u) # u
  BY DEF Users, Other, INTERNAL, EXTERNAL
<1>2. q.users = r.users \ {u} /\ q.fd = r.fd /\ q.mode = r.mode
  BY DEF Device
<1> DEFINE M == L \ {<<d, u>>}
<1>3. <<d, u>> \notin M /\ (<<d, Other(u)>> \in M <=> <<d, Other(u)>> \in L)
  BY <1>1
<1> HIDE DEF M
<1>4. Shown(d, Other(u), q, W, M)
  BY <1>1, <1>2, <1>3 DEF Minds, Shown
<1>5. u \notin q.users
  BY <1>2
<1>6. CASE r.fd # None /\ r.users \subseteq {u}
  BY <1>2, <1>3, <1>4, <1>6 DEF Parting, Minds, M
<1>7. CASE ~(r.fd # None /\ r.users \subseteq {u})
  <2>1. Minds(d, u, q, W, M)
    BY <1>2, <1>4 DEF Minds
  <2>2. r.fd # None => q.users # {}
    BY <1>2, <1>7
  <2>3. QED
    BY <1>2, <1>3, <1>5, <1>7, <2>1, <2>2 DEF Parted, M
<1>8. QED
  BY <1>6, <1>7

(* Its worker sleeps, and its file is dropped.                             *)
LEMMA DeviceStops ==
  ASSUME NEW d \in Devices, NEW u \in Users, NEW r \in Device, NEW W, NEW L, Parting(d, u, r, W, L)
  PROVE  /\ Parting(d, u, [r EXCEPT !.mode = "sleep"], W, L) /\ [r EXCEPT !.mode = "sleep"].mode = "sleep"
         /\ r.mode = "sleep" => Parted(d, u, [r EXCEPT !.fd = None], W, L)
<1> DEFINE p == [r EXCEPT !.mode = "sleep"]
           q == [r EXCEPT !.fd = None]
<1>1. p.users = r.users /\ p.fd = r.fd /\ p.mode = "sleep" /\ q.users = r.users /\ q.fd = None /\ q.mode = r.mode
  BY DEF Device
<1> HIDE DEF p, q
<1>2. Parting(d, u, p, W, L)
  BY <1>1 DEF Parting, Shown
<1>3. ASSUME r.mode = "sleep" PROVE Parted(d, u, q, W, L)
  BY <1>1, <1>3 DEF Parted, Parting, Minds, Shown, None
<1>4. QED
  BY <1>1, <1>2, <1>3 DEF p, q

(* What a call that ends makes of a user that joined, parted, or joined a  *)
(* device that could not be opened.                                        *)
LEMMA CallEnds ==
  ASSUME NEW d \in Devices, NEW u \in Users, NEW r, NEW W, NEW L
  PROVE  /\ Joined(d, u, r, W, L) => Settled(d, r, W \cup {Of(d, u)}, L)
         /\ Parted(d, u, r, W, L) => Settled(d, r, W \ {Of(d, u)}, L)
         /\ Joining(d, u, r, W, L) /\ r.fd = None =>
              Settled(d, r, W \ {Of(d, u)}, L \cup {<<d, u>>, <<Of(d, u), EXTERNAL>>})
<1>1. Other(u) \in Users /\ Other(u) # u /\ Users = {u, Other(u)} /\ Other(Other(u)) = u
  BY DEF Users, Other, INTERNAL, EXTERNAL
<1>2. {Of(d, u), Of(d, Other(u))} = {d, "compass"} /\ Of(d, u) # Of(d, Other(u))
  BY DEF Users, Other, Of, INTERNAL, EXTERNAL, Devices
<1>3. ASSUME NEW V, NEW K, Minds(d, u, r, V, K), Minds(d, Other(u), r, V, K), r.fd # None => r.users # {}
      PROVE  Settled(d, r, V, K)
  BY <1>1, <1>3 DEF Settled
<1>4. ASSUME Joined(d, u, r, W, L)
      PROVE  Settled(d, r, W \cup {Of(d, u)}, L)
  <2> DEFINE V == W \cup {Of(d, u)}
  <2>1. Of(d, u) \in V /\ (Of(d, Other(u)) \in V <=> Of(d, Other(u)) \in W)
    BY <1>2
  <2> HIDE DEF V
  <2>2. Minds(d, u, r, V, L) /\ Minds(d, Other(u), r, V, L) /\ r.users # {}
    BY <1>1, <1>4, <2>1 DEF Joined, Minds, Shown
  <2>3. QED
    BY <1>3, <2>2 DEF V
<1>5. ASSUME Parted(d, u, r, W, L)
      PROVE  Settled(d, r, W \ {Of(d, u)}, L)
  <2> DEFINE V == W \ {Of(d, u)}
  <2>1. Of(d, u) \notin V /\ (Of(d, Other(u)) \in V <=> Of(d, Other(u)) \in W)
    BY <1>2
  <2> HIDE DEF V
  <2>2. Minds(d, u, r, V, L) /\ Minds(d, Other(u), r, V, L) /\ (r.fd # None => r.users # {})
    BY <1>1, <1>5, <2>1 DEF Parted, Minds, Shown
  <2>3. QED
    BY <1>3, <2>2 DEF V
<1>6. ASSUME Joining(d, u, r, W, L), r.fd = None
      PROVE  Settled(d, r, W \ {Of(d, u)}, L \cup {<<d, u>>, <<Of(d, u), EXTERNAL>>})
  <2> DEFINE V == W \ {Of(d, u)}
             K == L \cup {<<d, u>>, <<Of(d, u), EXTERNAL>>}
  <2>1. Of(d, u) \notin V /\ Of(d, Other(u)) \notin V /\ Of(d, Other(u)) \notin W
    BY <1>2, <1>6 DEF Joining
  <2>2. <<d, u>> \in K /\ (<<d, Other(u)>> \in K <=> <<d, Other(u)>> \in L)
    BY <1>1, <1>2 DEF Of, Devices
  <2> HIDE DEF V, K
  <2>3. r.mode # "run" /\ None # "open"
    BY <1>6 DEF Joining, None
  <2>4. Minds(d, u, r, V, K) /\ Minds(d, Other(u), r, V, K)
    BY <1>1, <1>6, <2>1, <2>2, <2>3 DEF Joining, Minds, Shown
  <2>5. QED
    BY <1>3, <1>6, <2>4 DEF V, K
<1>7. QED
  BY <1>4, <1>5, <1>6

(***************************************************************************)
(* What a step of a call does.                                             *)
(***************************************************************************)

Whats == {"init", "enable", "disable", "set_delay", "close"}
CallType == [sensor : Sensors \cup {None}, what : Whats \cup {None}, todo : Seq(Step), slider : BOOLEAN, ok : BOOLEAN]
HistType == [want : SUBSET Sensors, left : SUBSET (Sensors \X Users), asked : Nat,
             refused : SUBSET (Sensors \X {"rate", "mode"}), odd : SUBSET {"twice", "closed", "stray"}]
FoundType == [acc : Accs \cup {None}, mag : BOOLEAN, slider : BOOLEAN]
Types == found \in FoundType /\ call \in CallType /\ dev \in [Sensors -> Device] /\ hist \in HistType

CallStep == UserStep \/ OpenStep \/ SliderStep \/ WorkerStep \/ InitStep \/ DelayStep \/ UpdateStep

\* After a step on d that leaves R, with d's record r and the users left
\* behind in L.
After(R, ok, d, r, L) ==
  /\ dev'[d] = r /\ \A s \in Sensors \ {d} : dev'[s] = dev[s]
  /\ hist'.left = L /\ hist'.odd = hist.odd /\ hist'.asked = hist.asked
  /\ IF R = <<>> THEN call' = NoCall /\ hist'.want = Held(ok)
                 ELSE call' = [call EXCEPT !.todo = R, !.ok = ok] /\ hist'.want = hist.want

(* The name of a step says which it is.                                    *)
LEMMA StepNamed ==
  ASSUME CallStep, NEW n, n = Head(call.todo)[1]
  PROVE  /\ ~Rest
         /\ n \in {"use", "unuse"} => UserStep
         /\ n = "open" => OpenStep
         /\ n = "open_slider" => SliderStep
         /\ n \in {"set_fd", "drop_fd", "resume", "suspend"} => WorkerStep
         /\ n \in {"phys_path", "compass_API_Init", "select_init", "destroy"} => InitStep
         /\ n \in {"internal", "external"} => DelayStep
         /\ n = "update" => UpdateStep
<1>1. ~Rest
  BY DEF CallStep, UserStep, OpenStep, SliderStep, WorkerStep, InitStep, DelayStep, UpdateStep, Do
<1>2. /\ UserStep => n \in {"use", "unuse"}
      /\ OpenStep => n = "open"
      /\ SliderStep => n = "open_slider"
      /\ WorkerStep => n \in {"set_fd", "drop_fd", "resume", "suspend"}
      /\ InitStep => n \in {"phys_path", "compass_API_Init", "select_init", "destroy"}
      /\ DelayStep => n \in {"internal", "external"}
      /\ UpdateStep => n = "update"
  BY DEF UserStep, OpenStep, SliderStep, WorkerStep, InitStep, DelayStep, UpdateStep, Do
<1>3. QED
  BY <1>1, <1>2 DEF CallStep

(* A step that goes on.                                                    *)
LEMMA GoesAfter ==
  ASSUME Types, NEW d \in Sensors, NEW r, dev' = [dev EXCEPT ![d] = r], NEW R, NEW ok, NEW h \in HistType,
         h.want = hist.want, h.odd = hist.odd, h.asked = hist.asked, Goes(R, h, ok)
  PROVE  After(R, ok, d, r, h.left)
<1>1. dev'[d] = r /\ \A s \in Sensors \ {d} : dev'[s] = dev[s]
  BY DEF Types
<1>2. CASE R = <<>>
  BY <1>1, <1>2 DEF After, Goes, HistType
<1>3. CASE R # <<>>
  BY <1>1, <1>3 DEF After, Goes, HistType
<1>4. QED
  BY <1>2, <1>3

(* The steps on a user.                                                    *)
LEMMA UserAfter ==
  ASSUME Types, CallStep, NEW d \in Sensors, NEW u \in Users, NEW R, Tail(call.todo) = R
  PROVE  LET L == hist.left \ {<<d, u>>}
         IN  /\ Head(call.todo) = <<"use", d, u>> =>
                  After(R, call.ok, d, [dev[d] EXCEPT !.users = dev[d].users \cup {u}], L)
             /\ Head(call.todo) = <<"unuse", d, u>> =>
                  After(R, call.ok, d, [dev[d] EXCEPT !.users = dev[d].users \ {u}], L)
<1> DEFINE h == [hist EXCEPT !.left = hist.left \ {<<d, u>>}]
<1>1. h \in HistType /\ h.want = hist.want /\ h.odd = hist.odd /\ h.asked = hist.asked /\ h.left = hist.left \ {<<d, u>>}
  BY DEF Types, HistType
<1>2. ASSUME Head(call.todo) = <<"use", d, u>>
      PROVE  After(R, call.ok, d, [dev[d] EXCEPT !.users = dev[d].users \cup {u}], h.left)
  <2>1. UserStep /\ Do("use") /\ Target = d /\ Given = u
    BY <1>2, StepNamed DEF Do, Target, Given
  <2>2. dev' = [dev EXCEPT ![d] = [dev[d] EXCEPT !.users = dev[d].users \cup {u}]] /\ Goes(R, h, call.ok)
    BY <2>1 DEF UserStep, Set
  <2> HIDE DEF h
  <2>3. QED
    BY <1>1, <2>2, GoesAfter
<1>3. ASSUME Head(call.todo) = <<"unuse", d, u>>
      PROVE  After(R, call.ok, d, [dev[d] EXCEPT !.users = dev[d].users \ {u}], h.left)
  <2>1. UserStep /\ ~Do("use") /\ Target = d /\ Given = u
    BY <1>3, StepNamed DEF Do, Target, Given
  <2>2. dev' = [dev EXCEPT ![d] = [dev[d] EXCEPT !.users = dev[d].users \ {u}]] /\ Goes(R, h, call.ok)
    BY <2>1 DEF UserStep, Set
  <2> HIDE DEF h
  <2>3. QED
    BY <1>1, <2>2, GoesAfter
<1>4. QED
  BY <1>1, <1>2, <1>3

(* The open of a device.                                                   *)
LEMMA OpenAfter ==
  ASSUME Types, CallStep, NEW d \in Sensors, NEW u \in Users, NEW R, Tail(call.todo) = R,
         Head(call.todo) = <<"open", d, u>>, call.sensor \in Sensors
  PROVE  \/ After(R, call.ok, d, dev[d], hist.left)
         \/ After(IF call.sensor = "compass" THEN err_exit(d) ELSE <<>>, FALSE, d, dev[d],
                  hist.left \cup {<<d, u>>, <<call.sensor, EXTERNAL>>})
<1>1. OpenStep /\ Target = d /\ Given = u
  BY StepNamed DEF Target, Given
<1>2. dev' = [dev EXCEPT ![d] = dev[d]]
  BY <1>1 DEF OpenStep, Types
<1> DEFINE h == [hist EXCEPT !.left = hist.left \cup {<<d, u>>, <<call.sensor, EXTERNAL>>}]
           E == IF call.sensor = "compass" THEN err_exit(d) ELSE <<>>
<1>3. /\ h \in HistType /\ h.want = hist.want /\ h.odd = hist.odd /\ h.asked = hist.asked
      /\ h.left = hist.left \cup {<<d, u>>, <<call.sensor, EXTERNAL>>} /\ hist \in HistType
  BY DEF Types, HistType, Users
<1>4. CASE Goes(R, hist, call.ok)
  BY <1>2, <1>3, <1>4, GoesAfter
<1>5. CASE Goes(E, h, FALSE)
  <2> HIDE DEF h, E
  <2>1. After(E, FALSE, d, dev[d], h.left)
    BY <1>2, <1>3, <1>5, GoesAfter
  <2>2. QED
    BY <1>3, <2>1 DEF E
<1>6. QED
  BY <1>1, <1>4, <1>5 DEF OpenStep, Done

(* The steps on a worker.                                                  *)
LEMMA WorkerAfter ==
  ASSUME Types, CallStep, NEW d \in Sensors, NEW R, Tail(call.todo) = R
  PROVE  LET x == Head(call.todo)
         IN  /\ x = <<"set_fd", d>> => reader # d /\ \E f \in {None, "open", "stale"} :
                  /\ After(R, call.ok, d, [dev[d] EXCEPT !.fd = f], hist.left)
                  /\ d \in Devices => f = "open"
                  /\ f = "stale" => dev[d].fd # None
             /\ x = <<"drop_fd", d>> => reader # d /\ After(R, call.ok, d, [dev[d] EXCEPT !.fd = None], hist.left)
             /\ x = <<"resume", d>> => After(R, call.ok, d, [dev[d] EXCEPT !.mode = "run"], hist.left)
             /\ x = <<"suspend", d>> => After(R, call.ok, d, [dev[d] EXCEPT !.mode = "sleep"], hist.left)
<1>1. hist \in HistType
  BY DEF Types
<1>2. ASSUME NEW r, Set(r), Target = d, WorkerStep
      PROVE  After(R, call.ok, d, r, hist.left)
  BY <1>1, <1>2, GoesAfter DEF WorkerStep, Done, Set
<1>3. ASSUME Head(call.todo) = <<"set_fd", d>>
      PROVE  reader # d /\ \E f \in {None, "open", "stale"} :
               /\ After(R, call.ok, d, [dev[d] EXCEPT !.fd = f], hist.left)
               /\ d \in Devices => f = "open"
               /\ f = "stale" => dev[d].fd # None
  <2>1. WorkerStep /\ Do("set_fd") /\ Target = d /\ ~Do("drop_fd") /\ ~Do("resume") /\ ~Do("suspend")
    BY <1>3, StepNamed DEF Do, Target
  <2>2. reader # d /\ Set([dev[d] EXCEPT !.fd = FileSet])
    BY <2>1 DEF WorkerStep
  <2>3. FileSet \in {None, "open", "stale"} /\ (d \in Devices => FileSet = "open") /\ (FileSet = "stale" => dev[d].fd # None)
    BY <2>1 DEF FileSet, None
  <2>4. QED
    BY <1>2, <2>1, <2>2, <2>3
<1>4. ASSUME Head(call.todo) = <<"drop_fd", d>>
      PROVE  reader # d /\ After(R, call.ok, d, [dev[d] EXCEPT !.fd = None], hist.left)
  <2>1. WorkerStep /\ Target = d /\ ~Do("set_fd") /\ ~Do("resume") /\ ~Do("suspend")
    BY <1>4, StepNamed DEF Do, Target
  <2>2. QED
    BY <1>2, <2>1 DEF WorkerStep
<1>5. ASSUME Head(call.todo) = <<"resume", d>>
      PROVE  After(R, call.ok, d, [dev[d] EXCEPT !.mode = "run"], hist.left)
  <2>1. WorkerStep /\ Target = d /\ ~Do("set_fd") /\ ~Do("drop_fd") /\ ~Do("suspend")
    BY <1>5, StepNamed DEF Do, Target
  <2>2. QED
    BY <1>2, <2>1 DEF WorkerStep
<1>6. ASSUME Head(call.todo) = <<"suspend", d>>
      PROVE  After(R, call.ok, d, [dev[d] EXCEPT !.mode = "sleep"], hist.left)
  <2>1. WorkerStep /\ Target = d /\ ~Do("set_fd") /\ ~Do("drop_fd") /\ ~Do("resume")
    BY <1>6, StepNamed DEF Do, Target
  <2>2. QED
    BY <1>2, <2>1 DEF WorkerStep
<1>7. QED
  BY <1>3, <1>4, <1>5, <1>6

(* The smaller of two numbers.                                             *)
LEMMA MinOfTwo ==
  ASSUME NEW a \in Int, NEW b \in Int
  PROVE  Min({a, b}) \in {a, b} /\ Min({a, b}) <= a /\ Min({a, b}) <= b
<1>1. \E x \in {a, b} : \A y \in {a, b} : x <= y
  OBVIOUS
<1>2. Min({a, b}) \in {a, b} /\ \A y \in {a, b} : Min({a, b}) <= y
  BY <1>1 DEF Min
<1>3. QED
  BY <1>2

(* The delay chosen serves both users, as far as a delay counts.           *)
LEMMA DelayServes ==
  ASSUME NEW r \in Device
  PROVE  /\ update_delay(r) \in Nat
         /\ \A ns \in {r.external, r.internal} : ns >= 1000000 => update_delay(r) <= ns \div 1000000
<1> DEFINE a == r.internal \div 1000000
           b == r.external \div 1000000
           asked == {a, b} \ {0}
<1>1. a \in Nat /\ b \in Nat /\ (r.internal >= 1000000 => a > 0) /\ (r.external >= 1000000 => b > 0)
  BY DEF Device
<1>2. update_delay(r) = IF asked = {} THEN DELAY_LOWEST_MS ELSE Min(asked)
  BY DEF update_delay
<1> HIDE DEF a, b
<1>3. a = 0 /\ b = 0 => update_delay(r) = 1000
  BY <1>2 DEF DELAY_LOWEST_MS
<1>4. ASSUME a # 0 \/ b # 0
      PROVE  update_delay(r) \in Nat /\ (a # 0 => update_delay(r) <= a) /\ (b # 0 => update_delay(r) <= b)
  <2> DEFINE x == IF a # 0 THEN a ELSE b
             y == IF b # 0 THEN b ELSE a
  <2>1. asked = {x, y} /\ asked # {}
    BY <1>4
  <2>2. x \in Int /\ y \in Int /\ x \in Nat /\ y \in Nat
    BY <1>1
  <2>3. (a # 0 => x = a) /\ (b # 0 => y = b)
    OBVIOUS
  <2> HIDE DEF x, y, asked
  <2>4. Min({x, y}) \in {x, y} /\ Min({x, y}) <= x /\ Min({x, y}) <= y
    BY <2>2, MinOfTwo
  <2>5. update_delay(r) = Min({x, y})
    BY <1>2, <2>1
  <2> DEFINE m == Min({x, y})
  <2>6. m \in Nat /\ m <= x /\ m <= y
    BY <2>2, <2>4
  <2> HIDE DEF m
  <2>7. update_delay(r) = m
    BY <2>5 DEF m
  <2>8. QED
    BY <2>3, <2>6, <2>7
<1>5. update_delay(r) \in Nat
  BY <1>3, <1>4
<1>6. ASSUME NEW ns \in {r.external, r.internal}, ns >= 1000000
      PROVE  update_delay(r) <= ns \div 1000000
  <2>1. CASE ns = r.internal
    BY <1>1, <1>4, <1>6, <2>1 DEF a
  <2>2. CASE ns = r.external
    BY <1>1, <1>4, <1>6, <2>2 DEF b
  <2>3. QED
    BY <1>6, <2>1, <2>2
<1>7. QED
  BY <1>5, <1>6

\* The rate written serves the delays noted, unless its write was refused.
Serves(r, refused) ==
  \A ns \in {r.external, r.internal} : ns >= 1000000 /\ ~refused => r.applied <= ns \div 1000000

(* The steps on a delay.                                                   *)
LEMMA DelayAfter ==
  ASSUME Types, CallStep, NEW d \in Sensors, NEW n \in Nat, NEW R, Tail(call.todo) = R
  PROVE  /\ Head(call.todo) = <<"internal", d, n>> =>
              After(R, call.ok, d, [dev[d] EXCEPT !.internal = n], hist.left)
         /\ Head(call.todo) = <<"external", d, n>> =>
              After(R, call.ok, d, [dev[d] EXCEPT !.external = n], hist.left)
<1>1. hist \in HistType
  BY DEF Types
<1>2. ASSUME NEW r, Set(r), Target = d, DelayStep
      PROVE  After(R, call.ok, d, r, hist.left)
  BY <1>1, <1>2, GoesAfter DEF DelayStep, Done, Set
<1>3. ASSUME Head(call.todo) = <<"internal", d, n>>
      PROVE  After(R, call.ok, d, [dev[d] EXCEPT !.internal = n], hist.left)
  <2>1. DelayStep /\ Target = d /\ Given = n /\ ~Do("external")
    BY <1>3, StepNamed DEF Do, Target, Given
  <2>2. QED
    BY <1>2, <2>1 DEF DelayStep
<1>4. ASSUME Head(call.todo) = <<"external", d, n>>
      PROVE  After(R, call.ok, d, [dev[d] EXCEPT !.external = n], hist.left)
  <2>1. DelayStep /\ Target = d /\ Given = n /\ ~Do("internal")
    BY <1>4, StepNamed DEF Do, Target, Given
  <2>2. QED
    BY <1>2, <2>1 DEF DelayStep
<1>5. QED
  BY <1>3, <1>4

(* What is refused is another matter only for the rate and the mode of     *)
(* the device updated.                                                     *)
LEMMA RefusedOf ==
  ASSUME Types, CallStep
  PROVE  /\ hist'.refused \in SUBSET (Sensors \X {"rate", "mode"}) \/ Target \notin Sensors
         /\ Head(call.todo)[1] # "update" => hist'.refused = hist.refused
         /\ \A e \in Sensors, o \in {"rate", "mode"} :
                  e # Target => (<<e, o>> \in hist'.refused <=> <<e, o>> \in hist.refused)
<1>1. ASSUME NEW todo, NEW h \in HistType, NEW ok, Goes(todo, h, ok)
      PROVE  hist'.refused = h.refused
  BY <1>1 DEF Goes, HistType
<1>2. hist \in HistType
  BY DEF Types
<1>3. CASE UserStep
  BY <1>2, <1>3 DEF UserStep, Goes, HistType
<1>4. CASE OpenStep
  BY <1>2, <1>4 DEF OpenStep, Goes, Done, HistType
<1>5. CASE SliderStep
  BY <1>2, <1>5 DEF SliderStep, HistType
<1>6. CASE WorkerStep \/ InitStep \/ DelayStep
  <2>1. Goes(Tail(call.todo), hist, call.ok) /\ Head(call.todo)[1] # "update"
    BY <1>6 DEF WorkerStep, InitStep, DelayStep, Done, Do
  <2>2. hist'.refused = hist.refused
    BY <1>1, <1>2, <2>1
  <2>3. QED
    BY <1>2, <2>1, <2>2 DEF HistType
<1>7. CASE UpdateStep
  <2>1. Head(call.todo)[1] = "update"
    BY <1>7 DEF UpdateStep, Do
  <2>2. ASSUME NEW S, NEW T \in SUBSET {<<Target, "rate">>, <<Target, "mode">>},
               NEW U \in SUBSET {<<Target, "rate">>, <<Target, "mode">>}, S = (hist.refused \ T) \cup U,
               hist'.refused = S
        PROVE  /\ hist'.refused \in SUBSET (Sensors \X {"rate", "mode"}) \/ Target \notin Sensors
               /\ \A e \in Sensors, o \in {"rate", "mode"} :
                  e # Target => (<<e, o>> \in hist'.refused <=> <<e, o>> \in hist.refused)
    BY <1>2, <2>2 DEF HistType
  <2>3. \E T, U \in SUBSET {<<Target, "rate">>, <<Target, "mode">>} : hist'.refused = (hist.refused \ T) \cup U
    <3>1. CASE update_delay(dev[Target]) = dev[Target].applied
      <4> DEFINE h == [hist EXCEPT !.refused = hist.refused \ {<<Target, "rate">>}]
      <4>1. Goes(Tail(call.todo), h, call.ok)
        BY <1>7, <3>1 DEF UpdateStep
      <4>2. hist'.refused = hist.refused \ {<<Target, "rate">>}
        BY <1>2, <4>1 DEF Goes, HistType
      <4>3. {<<Target, "rate">>} \in SUBSET {<<Target, "rate">>, <<Target, "mode">>}
            /\ {} \in SUBSET {<<Target, "rate">>, <<Target, "mode">>}
            /\ hist'.refused = (hist.refused \ {<<Target, "rate">>}) \cup {}
        BY <4>2
      <4>4. QED
        BY <4>3
    <3>2. CASE update_delay(dev[Target]) # dev[Target].applied
      <4>1. set_pollrate(update_delay(dev[Target]))
        BY <1>7, <3>2 DEF UpdateStep
      <4>2. \E T, U \in SUBSET {<<Target, "rate">>, <<Target, "mode">>} :
              Goes(Tail(call.todo), [hist EXCEPT !.refused = (hist.refused \ T) \cup U], call.ok)
        BY <4>1, Zenon DEF set_pollrate
      <4>3. QED
        BY <1>2, <4>2 DEF Goes, HistType
    <3>3. QED
      BY <3>1, <3>2
  <2>4. QED
    BY <2>1, <2>2, <2>3
<1>8. QED
  BY <1>3, <1>4, <1>5, <1>6, <1>7 DEF CallStep

\* Records that differ in the rate and the mode written at most.
Kept(q, r) ==
  /\ q.mode = r.mode /\ q.fd = r.fd /\ q.users = r.users /\ q.path = r.path
  /\ q.internal = r.internal /\ q.external = r.external

(* An update touches the rate and the mode, and leaves a rate that serves. *)
LEMMA UpdateAfter ==
  ASSUME Types, CallStep, NEW d \in Sensors, NEW R, Tail(call.todo) = R, Head(call.todo) = <<"update", d>>
  PROVE  /\ After(R, call.ok, d, dev'[d], hist.left) /\ dev'[d] \in Device
         /\ Kept(dev'[d], dev[d])
         /\ Serves(dev'[d], <<d, "rate">> \in hist'.refused)
<1>1. UpdateStep /\ Target = d
  BY StepNamed DEF Target
<1> DEFINE ms == update_delay(dev[d])
<1>2. /\ ms \in Nat /\ \A ns \in {dev[d].external, dev[d].internal} : ns >= 1000000 => ms <= ns \div 1000000
      /\ dev[d] \in Device
  BY DelayServes DEF Types
<1> HIDE DEF ms
<1>3. hist \in HistType
  BY DEF Types
<1>4. ASSUME NEW S \in SUBSET {<<d, "rate">>, <<d, "mode">>}, NEW U \in SUBSET {<<d, "rate">>, <<d, "mode">>}
      PROVE  [hist EXCEPT !.refused = (hist.refused \ S) \cup U] \in HistType
  BY <1>3, <1>4, SMTT(30) DEF HistType
<1>5. ASSUME NEW r, NEW S \in SUBSET {<<d, "rate">>, <<d, "mode">>}, NEW U \in SUBSET {<<d, "rate">>, <<d, "mode">>},
             Set(r), Goes(R, [hist EXCEPT !.refused = (hist.refused \ S) \cup U], call.ok)
      PROVE  After(R, call.ok, d, r, hist.left) /\ dev'[d] = r /\ hist'.refused = (hist.refused \ S) \cup U
  <2> DEFINE h == [hist EXCEPT !.refused = (hist.refused \ S) \cup U]
  <2>1. /\ h \in HistType /\ h.want = hist.want /\ h.odd = hist.odd /\ h.asked = hist.asked /\ h.left = hist.left
        /\ h.refused = (hist.refused \ S) \cup U
    BY <1>3, <1>4 DEF HistType
  <2>2. dev' = [dev EXCEPT ![d] = r]
    BY <1>1, <1>5 DEF Set
  <2>3. Goes(R, h, call.ok)
    BY <1>5
  <2> HIDE DEF h
  <2>4. After(R, call.ok, d, r, hist.left)
    BY <2>1, <2>2, <2>3, GoesAfter
  <2>5. hist'.refused = h.refused
    BY <2>1, <2>3 DEF Goes, HistType
  <2>6. QED
    BY <2>1, <2>4, <2>5 DEF After
<1>6. CASE ms = dev[d].applied
  <2>1. Set(dev[d]) /\ Goes(R, [hist EXCEPT !.refused = (hist.refused \ {<<d, "rate">>}) \cup {}], call.ok)
    <3>1. Goes(R, [hist EXCEPT !.refused = hist.refused \ {<<d, "rate">>}], call.ok) /\ UNCHANGED dev
      BY <1>1, <1>6 DEF UpdateStep, ms
    <3>2. hist.refused \ {<<d, "rate">>} = (hist.refused \ {<<d, "rate">>}) \cup {}
      OBVIOUS
    <3>3. dev = [dev EXCEPT ![d] = dev[d]]
      BY DEF Types
    <3>4. Set(dev[d])
      <4>1. dev' = dev
        BY <3>1
      <4>2. QED
        BY <1>1, <3>3, <4>1 DEF Set
    <3>5. QED
      BY <3>1, <3>2, <3>4
  <2> DEFINE S == {<<d, "rate">>}
             U == {}
  <2>6. /\ S \in SUBSET {<<d, "rate">>, <<d, "mode">>} /\ U \in SUBSET {<<d, "rate">>, <<d, "mode">>}
        /\ Goes(R, [hist EXCEPT !.refused = (hist.refused \ S) \cup U], call.ok)
    BY <2>1
  <2> HIDE DEF S, U
  <2>2. After(R, call.ok, d, dev[d], hist.left) /\ dev'[d] = dev[d]
    BY <1>5, <2>1, <2>6
  <2>3. Serves(dev[d], <<d, "rate">> \in hist'.refused)
    BY <1>2, <1>6 DEF Serves
  <2>4. Kept(dev[d], dev[d])
    BY DEF Kept
  <2>5. QED
    BY <1>2, <2>2, <2>3, <2>4
<1>7. CASE ms # dev[d].applied
  <2>1. set_pollrate(ms)
    BY <1>1, <1>7 DEF UpdateStep, ms
  <2>2. PICK rate \in BOOLEAN, S \in SUBSET {<<d, "rate">>, <<d, "mode">>}, U \in SUBSET {<<d, "rate">>, <<d, "mode">>},
             p \in {dev[d].power, rate2mode(ms)} :
          /\ Set(IF ~rate THEN dev[d] ELSE [dev[d] EXCEPT !.applied = ms, !.power = p])
          /\ Goes(R, [hist EXCEPT !.refused = (hist.refused \ S) \cup U], call.ok)
          /\ ~rate => <<d, "rate">> \in U
    <3> DEFINE changes == Target = "acc" /\ found.acc = "dlhc" /\ mode_before(ms) # rate2mode(ms) /\ dev[Target].path
    <3>1. PICK rate \in BOOLEAN, mode \in BOOLEAN :
            /\ Set(IF ~rate THEN dev[Target]
                   ELSE [dev[Target] EXCEPT !.applied = ms, !.power = IF changes /\ mode THEN rate2mode(ms) ELSE dev[Target].power])
            /\ Goes(Tail(call.todo),
                 [hist EXCEPT !.refused = (hist.refused \ {o \in {<<Target, "rate">>, <<Target, "mode">>} :
                                                 rate /\ (o[2] = "mode" => changes)})
                    \cup ({o \in {<<Target, "rate">>} : ~rate} \cup {o \in {<<Target, "mode">>} : rate /\ changes /\ ~mode})], call.ok)
      <4>1. {TRUE, dev[Target].path => Target \notin Refusing} \subseteq BOOLEAN
        OBVIOUS
      <4>2. QED
        BY <2>1, <4>1, ZenonT(60) DEF set_pollrate
    <3> DEFINE S == {o \in {<<Target, "rate">>, <<Target, "mode">>} : rate /\ (o[2] = "mode" => changes)}
               U == {o \in {<<Target, "rate">>} : ~rate} \cup {o \in {<<Target, "mode">>} : rate /\ changes /\ ~mode}
               p == IF changes /\ mode THEN rate2mode(ms) ELSE dev[d].power
    <3>2. /\ S \in SUBSET {<<d, "rate">>, <<d, "mode">>} /\ U \in SUBSET {<<d, "rate">>, <<d, "mode">>}
          /\ p \in {dev[d].power, rate2mode(ms)} /\ (~rate => <<d, "rate">> \in U)
      BY <1>1
    <3>3. Goes(R, [hist EXCEPT !.refused = (hist.refused \ S) \cup U], call.ok)
      BY <3>1
    <3>4. Set(IF ~rate THEN dev[d] ELSE [dev[d] EXCEPT !.applied = ms, !.power = p])
      BY <1>1, <3>1
    <3> HIDE DEF S, U, p, changes
    <3>5. QED
      BY <3>2, <3>3, <3>4
  <2> DEFINE r == IF ~rate THEN dev[d] ELSE [dev[d] EXCEPT !.applied = ms, !.power = p]
  <2>3. After(R, call.ok, d, r, hist.left) /\ dev'[d] = r /\ hist'.refused = (hist.refused \ S) \cup U
    BY <1>5, <2>2
  <2>4. p \in {"default", "poll", "irq"}
    BY <1>2, <2>2 DEF Device, rate2mode
  <2>5. r \in Device /\ Kept(r, dev[d])
    <3>1. CASE ~rate
      <4>1. r = dev[d]
        BY <3>1
      <4> HIDE DEF r
      <4>2. QED
        BY <1>2, <4>1 DEF Kept
    <3>2. CASE rate
      <4>1. r = [dev[d] EXCEPT !.applied = ms, !.power = p]
        BY <3>2
      <4> DEFINE b == dev[d]
      <4>2. b \in Device
        BY <1>2
      <4> HIDE DEF b
      <4>3. [b EXCEPT !.applied = ms, !.power = p] \in Device /\ Kept([b EXCEPT !.applied = ms, !.power = p], b)
        <5> DEFINE b1 == [b EXCEPT !.applied = ms]
                   b2 == [b1 EXCEPT !.power = p]
        <5>1. b1 \in Device /\ Kept(b1, b)
          BY <1>2, <4>2, SMTT(30) DEF Device, Kept
        <5> HIDE DEF b1
        <5>2. b2 \in Device /\ Kept(b2, b1)
          BY <2>4, <5>1 DEF Device, Kept
        <5>3. b2 = [b EXCEPT !.applied = ms, !.power = p]
          BY DEF b1
        <5> HIDE DEF b2
        <5>4. b2 \in Device /\ Kept(b2, b)
          BY <5>1, <5>2 DEF Kept
        <5>5. QED
          BY <5>3, <5>4, Zenon
      <4> HIDE DEF r
      <4>4. QED
        BY <4>1, <4>3 DEF b
    <3>3. QED
      BY <3>1, <3>2
  <2>6. Serves(r, <<d, "rate">> \in hist'.refused)
    <3>1. CASE ~rate
      BY <2>2, <2>3, <3>1 DEF Serves
    <3>2. CASE rate
      <4>1. r.applied = ms /\ r.external = dev[d].external /\ r.internal = dev[d].internal
        BY <1>2, <3>2 DEF Device
      <4> HIDE DEF r
      <4>2. QED
        BY <1>2, <4>1 DEF Serves
    <3>3. QED
      BY <3>1, <3>2
  <2> HIDE DEF r
  <2>7. QED
    BY <2>3, <2>5, <2>6
<1>8. QED
  BY <1>6, <1>7

(* The slider is opened.                                                   *)
LEMMA SliderAfter ==
  ASSUME Types, CallStep, NEW R, Tail(call.todo) = R,
         Head(call.todo) = <<"open_slider", "compass", None>>
  PROVE  /\ call' = [call EXCEPT !.todo = R, !.slider = call'.slider] /\ call'.slider \in BOOLEAN
         /\ dev' = dev /\ hist' = hist
<1>1. SliderStep
  BY StepNamed
<1>2. PICK slider \in {FALSE, found.slider} : call' = [call EXCEPT !.todo = R, !.slider = slider]
  BY <1>1 DEF SliderStep
<1>3. QED
  BY <1>1, <1>2 DEF SliderStep, Types, CallType, FoundType

(* An enable of a device goes on, ends with its user joined, or fails.     *)
LEMMA EnableBlock ==
  ASSUME Types, CallStep, NEW d \in Devices, NEW u \in Users, NEW R \in Seq(Step), call.sensor = Of(d, u),
         EnStage(d, u, R, call.todo, dev[d], hist.want, hist.left)
  PROVE  \/ /\ call'.todo # <<>> /\ After(call'.todo, call.ok, d, dev'[d], hist'.left)
            /\ EnStage(d, u, R, call'.todo, dev'[d], hist.want, hist'.left)
            /\ hist'.left \in {hist.left, hist.left \ {<<d, u>>}}
         \/ /\ After(R, call.ok, d, dev'[d], hist'.left) /\ Joined(d, u, dev'[d], hist.want, hist'.left)
            /\ hist'.left \in {hist.left, hist.left \ {<<d, u>>}}
         \/ /\ After(IF call.sensor = "compass" THEN err_exit(d) ELSE <<>>, FALSE, d, dev'[d], hist'.left)
            /\ hist'.left = hist.left \cup {<<d, u>>, <<Of(d, u), EXTERNAL>>} /\ dev'[d] = dev[d]
            /\ Joining(d, u, dev[d], hist.want, hist.left) /\ dev[d].fd = None
<1> DEFINE r == dev[d]
           W == hist.want
           L == hist.left
<1>1. d \in Sensors /\ r \in Device /\ call \in CallType /\ call.sensor \in Sensors
  BY DEF Types, Sensors, Of, Devices
<1>2. ASSUME NEW Q, NEW q, NEW M, Q # <<>>, After(Q, call.ok, d, q, M)
      PROVE  call'.todo = Q /\ dev'[d] = q /\ hist'.left = M
  BY <1>1, <1>2 DEF After, CallType
<1>3. ASSUME NEW Q, NEW q, NEW M, NEW ok, After(Q, ok, d, q, M)
      PROVE  dev'[d] = q /\ hist'.left = M
  BY <1>3 DEF After
<1>4. /\ Head(Enable(d, u, R, r)) = <<"use", d, u>> /\ (r.fd = None => Tail(Enable(d, u, R, r)) = Open3(d, u, R))
      /\ (r.fd # None => Tail(Enable(d, u, R, r)) = R)
      /\ Open3(d, u, R) # <<>> /\ Head(Open3(d, u, R)) = <<"open", d, u>> /\ Tail(Open3(d, u, R)) = Set2(d, R)
      /\ Set2(d, R) # <<>> /\ Head(Set2(d, R)) = <<"set_fd", d>> /\ Tail(Set2(d, R)) = Run1(d, R)
      /\ Run1(d, R) # <<>> /\ Head(Run1(d, R)) = <<"resume", d>> /\ Tail(Run1(d, R)) = R
  <2>1. d \in Sensors
    BY <1>1
  <2> HIDE DEF r
  <2>2. /\ Head(Enable(d, u, R, r)) = <<"use", d, u>>
        /\ (r.fd = None => Tail(Enable(d, u, R, r)) = Open3(d, u, R))
        /\ (r.fd # None => Tail(Enable(d, u, R, r)) = R)
    BY <2>1, EnableSteps
  <2>3. QED
    BY <2>1, <2>2, OpenSteps
<1>5. CASE call.todo = Enable(d, u, R, r) /\ Settled(d, r, W, L)
  <2> DEFINE q == [r EXCEPT !.users = r.users \cup {u}]
             M == L \ {<<d, u>>}
             Q == IF r.fd = None THEN Open3(d, u, R) ELSE R
  <2>1. Head(call.todo) = <<"use", d, u>> /\ Tail(call.todo) = Q /\ Open3(d, u, R) # <<>>
    BY <1>5, <1>4
  <2>2. After(Q, call.ok, d, q, M)
    BY <1>1, <2>1, UserAfter
  <2>3. IF r.fd = None THEN Joining(d, u, q, W, M) /\ q.fd = None ELSE Joined(d, u, q, W, M)
    BY <1>1, <1>5, UserJoins
  <2>4. CASE r.fd = None
    <3>1. Q = Open3(d, u, R) /\ Joining(d, u, q, W, M) /\ q.fd = None
      BY <2>3, <2>4
    <3> HIDE DEF r, q, Q, M
    <3>2. call'.todo = Q /\ Q # <<>> /\ dev'[d] = q /\ hist'.left = M
      BY <1>2, <2>1, <2>2, <3>1
    <3>3. EnStage(d, u, R, Q, q, W, M)
      BY <3>1 DEF EnStage
    <3>4. QED
      BY <2>2, <3>2, <3>3 DEF M
  <2>5. CASE r.fd # None
    <3>1. Q = R /\ Joined(d, u, q, W, M)
      BY <2>3, <2>5
    <3> HIDE DEF r, q, Q, M
    <3>2. dev'[d] = q /\ hist'.left = M
      BY <1>3, <2>2
    <3>3. QED
      BY <2>2, <3>1, <3>2 DEF M
  <2>6. QED
    BY <2>4, <2>5
<1>6. CASE call.todo = Open3(d, u, R) /\ Joining(d, u, r, W, L) /\ r.fd = None
  <2>1. Head(call.todo) = <<"open", d, u>> /\ Tail(call.todo) = Set2(d, R) /\ Set2(d, R) # <<>>
    BY <1>6, <1>4
  <2> DEFINE E == IF call.sensor = "compass" THEN err_exit(d) ELSE <<>>
             M == L \cup {<<d, u>>, <<Of(d, u), EXTERNAL>>}
  <2>2. After(Set2(d, R), call.ok, d, r, L) \/ After(E, FALSE, d, r, M)
    BY <1>1, <2>1, OpenAfter
  <2> HIDE DEF r, E, M
  <2>3. CASE After(Set2(d, R), call.ok, d, r, L)
    <3>1. call'.todo = Set2(d, R) /\ dev'[d] = r /\ hist'.left = L
      BY <1>2, <2>1, <2>3
    <3>2. EnStage(d, u, R, Set2(d, R), r, W, L)
      BY <1>6 DEF EnStage
    <3>3. QED
      BY <2>1, <2>3, <3>1, <3>2
  <2>4. CASE After(E, FALSE, d, r, M)
    <3>1. dev'[d] = r /\ hist'.left = M
      BY <1>3, <2>4
    <3>2. QED
      BY <1>6, <2>4, <3>1 DEF E, M, r
  <2>5. QED
    BY <2>2, <2>3, <2>4
<1>7. CASE call.todo = Set2(d, R) /\ Joining(d, u, r, W, L) /\ r.fd = None
  <2> DEFINE q == [r EXCEPT !.fd = "open"]
  <2>1. Head(call.todo) = <<"set_fd", d>> /\ Tail(call.todo) = Run1(d, R) /\ Run1(d, R) # <<>>
    BY <1>7, <1>4
  <2>2. After(Run1(d, R), call.ok, d, q, L)
    BY <1>1, <2>1, WorkerAfter
  <2>3. Joining(d, u, q, W, L) /\ q.fd = "open"
    BY <1>1, <1>7, DeviceStarts
  <2> HIDE DEF r, q
  <2>4. call'.todo = Run1(d, R) /\ dev'[d] = q /\ hist'.left = L
    BY <1>2, <2>1, <2>2
  <2>5. EnStage(d, u, R, Run1(d, R), q, W, L)
    BY <2>3 DEF EnStage
  <2>6. QED
    BY <2>1, <2>2, <2>4, <2>5
<1>8. CASE call.todo = Run1(d, R) /\ Joining(d, u, r, W, L) /\ r.fd = "open"
  <2> DEFINE q == [r EXCEPT !.mode = "run"]
  <2>1. Head(call.todo) = <<"resume", d>> /\ Tail(call.todo) = R
    BY <1>8, <1>4
  <2>2. After(R, call.ok, d, q, L)
    BY <1>1, <2>1, WorkerAfter
  <2>3. Joined(d, u, q, W, L)
    BY <1>1, <1>8, DeviceStarts
  <2> HIDE DEF r, q
  <2>4. dev'[d] = q /\ hist'.left = L
    BY <1>3, <2>2
  <2>5. QED
    BY <2>2, <2>3, <2>4
<1>9. QED
  BY <1>5, <1>6, <1>7, <1>8 DEF EnStage

(* A disable of a device goes on, or ends with its user parted.            *)
LEMMA DisableBlock ==
  ASSUME Types, CallStep, NEW d \in Devices, NEW u \in Users, NEW R \in Seq(Step),
         UnStage(d, u, R, call.todo, dev[d], hist.want, hist.left)
  PROVE  /\ hist'.left \in {hist.left, hist.left \ {<<d, u>>}}
         /\ \/ /\ call'.todo # <<>> /\ After(call'.todo, call.ok, d, dev'[d], hist'.left)
               /\ UnStage(d, u, R, call'.todo, dev'[d], hist.want, hist'.left)
            \/ After(R, call.ok, d, dev'[d], hist'.left) /\ Parted(d, u, dev'[d], hist.want, hist'.left)
<1> DEFINE r == dev[d]
           W == hist.want
           L == hist.left
<1>1. d \in Sensors /\ r \in Device /\ call \in CallType
  BY DEF Types, Sensors
<1>2. ASSUME NEW Q, NEW q, NEW M, Q # <<>>, After(Q, call.ok, d, q, M)
      PROVE  call'.todo = Q /\ dev'[d] = q /\ hist'.left = M
  BY <1>1, <1>2 DEF After, CallType
<1>3. ASSUME NEW Q, NEW q, NEW M, After(Q, call.ok, d, q, M)
      PROVE  dev'[d] = q /\ hist'.left = M
  BY <1>3 DEF After
<1>4. CASE call.todo = Disable(d, u, R, r) /\ Minds(d, u, r, W, L)
  <2> DEFINE q == [r EXCEPT !.users = r.users \ {u}]
             M == L \ {<<d, u>>}
             Q == IF r.fd # None /\ r.users \subseteq {u} THEN Susp2(d, R) ELSE R
  <2>1. Head(call.todo) = <<"unuse", d, u>> /\ Tail(call.todo) = Q /\ Susp2(d, R) # <<>>
    <3>1. /\ Head(call.todo) = <<"unuse", d, u>> /\ Susp2(d, R) # <<>>
          /\ r.fd # None /\ r.users \subseteq {u} => Tail(call.todo) = Susp2(d, R)
          /\ ~(r.fd # None /\ r.users \subseteq {u}) => Tail(call.todo) = R
      <4> HIDE DEF r
      <4>1. /\ Head(Disable(d, u, R, r)) = <<"unuse", d, u>>
            /\ r.fd # None /\ r.users \subseteq {u} => Tail(Disable(d, u, R, r)) = Susp2(d, R)
            /\ ~(r.fd # None /\ r.users \subseteq {u}) => Tail(Disable(d, u, R, r)) = R
        BY <1>1, DisableSteps
      <4>2. Susp2(d, R) # <<>>
        BY <1>1, SuspendSteps
      <4>3. QED
        BY <1>4, <4>1, <4>2
    <3>2. QED
      BY <3>1
  <2>2. After(Q, call.ok, d, q, M)
    BY <1>1, <2>1, UserAfter
  <2>3. IF r.fd # None /\ r.users \subseteq {u} THEN Parting(d, u, q, W, M) /\ q.mode = "run" ELSE Parted(d, u, q, W, M)
    BY <1>1, <1>4, UserParts
  <2>4. CASE r.fd # None /\ r.users \subseteq {u}
    <3>1. Q = Susp2(d, R) /\ Parting(d, u, q, W, M) /\ q.mode = "run"
      BY <2>3, <2>4
    <3> HIDE DEF r, q, Q, M
    <3>2. call'.todo = Q /\ Q # <<>> /\ dev'[d] = q /\ hist'.left = M
      BY <1>2, <2>1, <2>2, <3>1
    <3>3. UnStage(d, u, R, Q, q, W, M)
      BY <3>1 DEF UnStage
    <3>4. QED
      BY <2>2, <3>2, <3>3 DEF M
  <2>5. CASE ~(r.fd # None /\ r.users \subseteq {u})
    <3>1. Q = R /\ Parted(d, u, q, W, M)
      BY <2>3, <2>5
    <3> HIDE DEF r, q, Q, M
    <3>2. dev'[d] = q /\ hist'.left = M
      BY <1>3, <2>2
    <3>3. QED
      BY <2>2, <3>1, <3>2 DEF M
  <2>6. QED
    BY <2>4, <2>5
<1>5. CASE call.todo = Susp2(d, R) /\ Parting(d, u, r, W, L) /\ r.mode = "run"
  <2> DEFINE q == [r EXCEPT !.mode = "sleep"]
  <2>1. Head(call.todo) = <<"suspend", d>> /\ Tail(call.todo) = Drop1(d, R) /\ Drop1(d, R) # <<>>
    BY <1>1, <1>5, SuspendSteps
  <2>2. After(Drop1(d, R), call.ok, d, q, L)
    BY <1>1, <2>1, WorkerAfter
  <2>3. Parting(d, u, q, W, L) /\ q.mode = "sleep"
    BY <1>1, <1>5, DeviceStops
  <2> HIDE DEF r, q
  <2>4. call'.todo = Drop1(d, R) /\ dev'[d] = q /\ hist'.left = L
    BY <1>2, <2>1, <2>2
  <2>5. UnStage(d, u, R, Drop1(d, R), q, W, L)
    BY <2>3 DEF UnStage
  <2>6. QED
    BY <2>1, <2>2, <2>4, <2>5
<1>6. CASE call.todo = Drop1(d, R) /\ Parting(d, u, r, W, L) /\ r.mode = "sleep"
  <2> DEFINE q == [r EXCEPT !.fd = None]
  <2>1. Head(call.todo) = <<"drop_fd", d>> /\ Tail(call.todo) = R
    BY <1>1, <1>6, SuspendSteps
  <2>2. After(R, call.ok, d, q, L)
    BY <1>1, <2>1, WorkerAfter
  <2>3. Parted(d, u, q, W, L)
    BY <1>1, <1>6, DeviceStops
  <2> HIDE DEF r, q
  <2>4. dev'[d] = q /\ hist'.left = L
    BY <1>3, <2>2
  <2>5. QED
    BY <2>2, <2>3, <2>4
<1>7. QED
  BY <1>4, <1>5, <1>6 DEF UnStage

(* The steps of an init and of a close.                                    *)
LEMMA InitAfter ==
  ASSUME Types, CallStep, NEW d \in Sensors, NEW R, Tail(call.todo) = R
  PROVE  LET x == Head(call.todo)
         IN  /\ x = <<"phys_path", d>> => \E path \in BOOLEAN :
                  up' = up /\ After(R, call.ok, d, [dev[d] EXCEPT !.path = path], hist.left)
             /\ x = <<"compass_API_Init", d>> => up' = up /\ After(R, call.ok, d, dev[d], hist.left)
             /\ x = <<"select_init", d>> =>
                  up' = up \cup {d} /\ After(R, call.ok, d, [dev[d] EXCEPT !.mode = "sleep"], hist.left)
             /\ x = <<"destroy", d>> => reader # d /\ up' = up \ {d}
<1>1. hist \in HistType
  BY DEF Types
<1>2. ASSUME NEW r, Set(r), Target = d, InitStep
      PROVE  After(R, call.ok, d, r, hist.left)
  BY <1>1, <1>2, GoesAfter DEF InitStep, Done, Set
<1>3. ASSUME Head(call.todo) = <<"phys_path", d>>
      PROVE  \E path \in BOOLEAN : up' = up /\ After(R, call.ok, d, [dev[d] EXCEPT !.path = path], hist.left)
  <2>1. InitStep /\ Target = d /\ ~Do("compass_API_Init") /\ ~Do("select_init") /\ ~Do("destroy")
    BY <1>3, StepNamed DEF Do, Target
  <2>2. PICK path \in BOOLEAN : Set([dev[d] EXCEPT !.path = path]) /\ UNCHANGED up
    BY <2>1 DEF InitStep
  <2>3. QED
    BY <1>2, <2>1, <2>2
<1>4. ASSUME Head(call.todo) = <<"compass_API_Init", d>>
      PROVE  up' = up /\ After(R, call.ok, d, dev[d], hist.left)
  <2>1. InitStep /\ Target = d /\ ~Do("phys_path") /\ ~Do("select_init") /\ ~Do("destroy")
    BY <1>4, StepNamed DEF Do, Target
  <2>2. UNCHANGED <<dev, up>>
    BY <2>1 DEF InitStep
  <2>3. Set(dev[d])
    BY <2>1, <2>2 DEF Set, Types
  <2>4. QED
    BY <1>2, <2>1, <2>2, <2>3
<1>5. ASSUME Head(call.todo) = <<"select_init", d>>
      PROVE  up' = up \cup {d} /\ After(R, call.ok, d, [dev[d] EXCEPT !.mode = "sleep"], hist.left)
  <2>1. InitStep /\ Target = d /\ ~Do("phys_path") /\ ~Do("compass_API_Init") /\ ~Do("destroy")
    BY <1>5, StepNamed DEF Do, Target
  <2>2. Set([dev[d] EXCEPT !.mode = "sleep"]) /\ up' = up \cup {d}
    BY <2>1 DEF InitStep
  <2>3. QED
    BY <1>2, <2>1, <2>2
<1>6. ASSUME Head(call.todo) = <<"destroy", d>>
      PROVE  reader # d /\ up' = up \ {d}
  <2>1. InitStep /\ Target = d /\ ~Do("phys_path") /\ ~Do("compass_API_Init") /\ ~Do("select_init")
    BY <1>6, StepNamed DEF Do, Target
  <2>2. QED
    BY <2>1 DEF InitStep
<1>7. QED
  BY <1>3, <1>4, <1>5, <1>6

(* The steps of a call leave what was found and the callback alone; only   *)
(* those of an init and of a close change what is up.                      *)
LEMMA StepKeeps ==
  ASSUME CallStep
  PROVE  /\ found' = found /\ reader' = reader
         /\ Head(call.todo)[1] \notin {"select_init", "destroy"} => up' = up
  BY DEF CallStep, UserStep, OpenStep, SliderStep, WorkerStep, InitStep, DelayStep, UpdateStep, Do

(* What a step that does not end its call leaves.                          *)
LEMMA GoesOn ==
  ASSUME Types, NEW Q, Q # <<>>, NEW ok \in BOOLEAN, NEW d, NEW r, NEW L, After(Q, ok, d, r, L)
  PROVE  /\ call'.todo = Q /\ call'.sensor = call.sensor /\ call'.what = call.what /\ (call'.ok <=> ok)
         /\ hist'.want = hist.want /\ hist'.left = L /\ hist'.odd = hist.odd /\ hist'.asked = hist.asked
         /\ dev'[d] = r /\ \A s \in Sensors \ {d} : dev'[s] = dev[s]
<1>1. call' = [call EXCEPT !.todo = Q, !.ok = ok] /\ call \in CallType
  BY DEF After, Types
<1>2. call'.todo = Q /\ call'.sensor = call.sensor /\ call'.what = call.what /\ call'.ok = ok
  BY <1>1 DEF CallType
<1>3. QED
  BY <1>2 DEF After

(* What the last step of a call leaves.                                    *)
LEMMA Ends ==
  ASSUME NEW ok, NEW d, NEW r, NEW L, After(<<>>, ok, d, r, L)
  PROVE  /\ call' = NoCall /\ hist'.want = Held(ok) /\ hist'.left = L /\ hist'.odd = hist.odd
         /\ hist'.asked = hist.asked /\ dev'[d] = r /\ \A s \in Sensors \ {d} : dev'[s] = dev[s]
  BY DEF After

\* Records with the same file and users, whose workers both run or neither.
Same(q, r) == (q.mode = "run" <=> r.mode = "run") /\ q.fd = r.fd /\ q.users = r.users

(* What a device is to its users depends on nothing else of the others.    *)
LEMMA Alike ==
  ASSUME NEW d \in Devices, NEW u \in Users, NEW q, NEW r, Same(q, r), NEW W, NEW V, NEW L, NEW M,
         d \in W <=> d \in V, "compass" \in W <=> "compass" \in V, \A v \in Users : <<d, v>> \in L <=> <<d, v>> \in M
  PROVE  /\ Minds(d, u, r, W, L) => Minds(d, u, q, V, M)
         /\ Settled(d, r, W, L) => Settled(d, q, V, M)
         /\ Joined(d, u, r, W, L) => Joined(d, u, q, V, M)
         /\ Parted(d, u, r, W, L) => Parted(d, u, q, V, M)
<1>1. (q.mode = "run" <=> r.mode = "run") /\ q.fd = r.fd /\ q.users = r.users
  BY DEF Same
<1>2. ASSUME NEW v \in Users, Minds(d, v, r, W, L)
      PROVE  Minds(d, v, q, V, M)
  <2>1. Other(v) \in Users /\ (Of(d, Other(v)) \in W <=> Of(d, Other(v)) \in V)
    BY DEF Other, Of, Users
  <2>2. QED
    BY <1>1, <1>2, <2>1 DEF Minds, Shown
<1>3. QED
  BY <1>1, <1>2 DEF Settled, Joined, Parted

(***************************************************************************)
(* Where a call is, what it has done and what it has still to do.          *)
(***************************************************************************)

Enabling(c) == c.what = "enable" /\ c.ok
Besides(s, D, h) == (\A d \in Devices \ {s} : Settled(d, D[d], h.want, h.left)) /\ CSettled(D["compass"], h.want, h.left)
Quiet(D, h) == (\A d \in Devices : Settled(d, D[d], h.want, h.left)) /\ CSettled(D["compass"], h.want, h.left)

AtRest(c, D, h) == c = NoCall /\ Quiet(D, h)

EnablesOne(c, D, h) ==
  /\ Enabling(c) /\ c.sensor \in Devices /\ Besides(c.sensor, D, h)
  /\ EnStage(c.sensor, EXTERNAL, <<>>, c.todo, D[c.sensor], h.want, h.left)
DisablesOne(c, D, h) ==
  /\ c.what = "disable" /\ c.sensor \in Devices /\ Besides(c.sensor, D, h)
  /\ UnStage(c.sensor, EXTERNAL, <<>>, c.todo, D[c.sensor], h.want, h.left)

(* An enable that goes on, and one that has failed and has still to undo.  *)
LEMMA EnableGoes ==
  ASSUME Types, NEW Q, Q # <<>>, NEW d, NEW r, NEW L
  PROVE  /\ After(Q, call.ok, d, r, L) => /\ call'.todo = Q /\ call'.sensor = call.sensor
                                         /\ Enabling(call') <=> Enabling(call)
         /\ After(Q, FALSE, d, r, L) => /\ call'.todo = Q /\ call'.sensor = call.sensor
                                       /\ call'.what = call.what /\ ~call'.ok
<1>1. call \in CallType
  BY DEF Types
<1>2. ASSUME After(Q, call.ok, d, r, L)
      PROVE  /\ call'.todo = Q /\ call'.sensor = call.sensor /\ Enabling(call') <=> Enabling(call)
  <2>1. call' = [call EXCEPT !.todo = Q, !.ok = call.ok]
    BY <1>2 DEF After
  <2>2. call'.todo = Q /\ call'.sensor = call.sensor /\ call'.what = call.what /\ call'.ok = call.ok
    BY <1>1, <2>1 DEF CallType
  <2>3. QED
    BY <2>2 DEF Enabling
<1>3. ASSUME After(Q, FALSE, d, r, L)
      PROVE  call'.todo = Q /\ call'.sensor = call.sensor /\ call'.what = call.what /\ ~call'.ok
  <2>1. call' = [call EXCEPT !.todo = Q, !.ok = FALSE]
    BY <1>3 DEF After
  <2>2. call'.todo = Q /\ call'.sensor = call.sensor /\ call'.what = call.what /\ call'.ok = FALSE
    BY <1>1, <2>1 DEF CallType
  <2>3. QED
    BY <2>2
<1>4. QED
  BY <1>2, <1>3

(* What is beside a device depends on nothing of the device.               *)
LEMMA BesidesKept ==
  ASSUME NEW d \in Devices, Besides(d, dev, hist),
         \A s \in Sensors \ {d} : dev'[s] = dev[s],
         \A s \in Sensors \ {d} : s \in hist'.want <=> s \in hist.want,
         \A s \in Sensors \ {d}, v \in Users : <<s, v>> \in hist'.left <=> <<s, v>> \in hist.left
  PROVE  Besides(d, dev', hist')
<1> DEFINE W == hist.want
           L == hist.left
           V == hist'.want
           M == hist'.left
<1>1. /\ EXTERNAL \in Users /\ "compass" \notin Devices /\ Devices \subseteq Sensors /\ "compass" \in Sensors
      /\ "compass" \in Sensors \ {d}
  BY DEF Users, Devices, Sensors
<1>2. ASSUME NEW e \in Devices \ {d}
      PROVE  Settled(e, dev'[e], V, M)
  <2>1. /\ dev'[e] = dev[e] /\ (e \in V <=> e \in W) /\ ("compass" \in V <=> "compass" \in W)
        /\ (\A v \in Users : <<e, v>> \in L <=> <<e, v>> \in M)
    BY <1>1
  <2>2. Settled(e, dev[e], W, L)
    BY DEF Besides
  <2>3. Same(dev'[e], dev[e])
    BY <2>1 DEF Same
  <2> HIDE DEF W, L, M, V
  <2>4. QED
    BY <1>1, <2>1, <2>2, <2>3, Alike
<1>3. CSettled(dev'["compass"], V, M)
  <2>1. CSettled(dev["compass"], W, L)
    BY DEF Besides
  <2>2. QED
    BY <1>1, <2>1 DEF CSettled
<1>4. QED
  BY <1>2, <1>3 DEF Besides

(* An enable of a device goes on, or leaves everything settled.            *)
LEMMA EnablesOneGoesOn ==
  ASSUME Types, CallStep, EnablesOne(call, dev, hist)
  PROVE  EnablesOne(call', dev', hist') \/ AtRest(call', dev', hist')
<1> DEFINE d == call.sensor
           W == hist.want
           L == hist.left
           r == dev'[d]
           M == hist'.left
<1>1. /\ d \in Devices /\ EXTERNAL \in Users /\ <<>> \in Seq(Step) /\ Of(d, EXTERNAL) = d /\ "compass" \notin Devices
      /\ call.ok \in BOOLEAN /\ call.ok /\ call.what = "enable" /\ Devices \subseteq Sensors /\ "compass" \in Sensors
      /\ Besides(d, dev, hist)
  <2>1. d \in Devices /\ Besides(d, dev, hist) /\ call.ok /\ call.what = "enable" /\ call.ok \in BOOLEAN
    BY DEF EnablesOne, Enabling, Types, CallType
  <2>2. /\ EXTERNAL \in Users /\ <<>> \in Seq(Step) /\ "compass" \notin Devices
        /\ Devices \subseteq Sensors /\ "compass" \in Sensors
    BY DEF Users, Devices, Sensors
  <2>3. Of(d, EXTERNAL) = d
    BY DEF Of
  <2>4. QED
    BY <2>1, <2>2, <2>3
<1>2. ASSUME Besides(d, dev', hist'), Settled(d, r, hist'.want, M), call' = NoCall
      PROVE  AtRest(call', dev', hist')
  BY <1>1, <1>2 DEF Besides, AtRest, Quiet
<1>3. EnStage(d, EXTERNAL, <<>>, call.todo, dev[d], W, L)
  BY DEF EnablesOne
<1> HIDE DEF d, W, L, r, M
<1>4. ASSUME M \in {L, L \ {<<d, EXTERNAL>>}} \/ M = L \cup {<<d, EXTERNAL>>}
      PROVE  \A s \in Sensors \ {d}, v \in Users : <<s, v>> \in M <=> <<s, v>> \in L
  BY <1>4
<1>5. \/ /\ call'.todo # <<>> /\ After(call'.todo, call.ok, d, r, M)
         /\ EnStage(d, EXTERNAL, <<>>, call'.todo, r, W, M) /\ M \in {L, L \ {<<d, EXTERNAL>>}}
      \/ /\ After(<<>>, call.ok, d, r, M) /\ Joined(d, EXTERNAL, r, W, M) /\ M \in {L, L \ {<<d, EXTERNAL>>}}
      \/ /\ After(<<>>, FALSE, d, r, M) /\ r = dev[d] /\ M = L \cup {<<d, EXTERNAL>>, <<d, EXTERNAL>>}
         /\ Joining(d, EXTERNAL, dev[d], W, L) /\ dev[d].fd = None
  <2>1. call.sensor = d
    BY DEF d
  <2> DEFINE E == IF call.sensor = "compass" THEN err_exit(d) ELSE <<>>
             R == <<>>
  <2>2. E = <<>> /\ R \in Seq(Step) /\ call.sensor = Of(d, EXTERNAL)
    BY <1>1, <2>1
  <2>3. EnStage(d, EXTERNAL, R, call.todo, dev[d], hist.want, hist.left)
    BY <1>3 DEF W, L
  <2> HIDE DEF R
  <2>4. \/ /\ call'.todo # <<>> /\ After(call'.todo, call.ok, d, dev'[d], hist'.left)
           /\ EnStage(d, EXTERNAL, R, call'.todo, dev'[d], hist.want, hist'.left)
           /\ hist'.left \in {hist.left, hist.left \ {<<d, EXTERNAL>>}}
        \/ /\ After(R, call.ok, d, dev'[d], hist'.left) /\ Joined(d, EXTERNAL, dev'[d], hist.want, hist'.left)
           /\ hist'.left \in {hist.left, hist.left \ {<<d, EXTERNAL>>}}
        \/ /\ After(E, FALSE, d, dev'[d], hist'.left)
           /\ hist'.left = hist.left \cup {<<d, EXTERNAL>>, <<Of(d, EXTERNAL), EXTERNAL>>} /\ dev'[d] = dev[d]
           /\ Joining(d, EXTERNAL, dev[d], hist.want, hist.left) /\ dev[d].fd = None
    BY <1>1, <2>2, <2>3, EnableBlock
  <2> HIDE DEF E
  <2>5. QED
    BY <1>1, <2>2, <2>4 DEF R, W, L, r, M
<1>6. CASE /\ call'.todo # <<>> /\ After(call'.todo, call.ok, d, r, M)
           /\ EnStage(d, EXTERNAL, <<>>, call'.todo, r, W, M) /\ M \in {L, L \ {<<d, EXTERNAL>>}}
  <2> DEFINE Q == call'.todo
  <2>1. Q # <<>> /\ After(Q, call.ok, d, r, M)
    BY <1>6
  <2> HIDE DEF Q
  <2>2. /\ call'.sensor = call.sensor /\ call'.what = call.what /\ call'.ok /\ hist'.want = W
        /\ \A s \in Sensors \ {d} : dev'[s] = dev[s]
    BY <1>1, <2>1, GoesOn DEF W
  <2>3. Besides(d, dev', hist')
    BY <1>1, <1>4, <1>6, <2>2, BesidesKept DEF W, L, M
  <2>4. EnablesOne(call', dev', hist')
    BY <1>1, <1>6, <2>2, <2>3 DEF EnablesOne, Enabling, d, r, M
  <2>5. QED
    BY <2>4
<1>7. CASE /\ After(<<>>, call.ok, d, r, M) /\ Joined(d, EXTERNAL, r, W, M) /\ M \in {L, L \ {<<d, EXTERNAL>>}}
  <2>1. call' = NoCall /\ hist'.want = Held(call.ok) /\ \A s \in Sensors \ {d} : dev'[s] = dev[s]
    BY <1>7, Ends
  <2>2. Held(call.ok) = W \cup {d}
    BY <1>1 DEF Held, W, d
  <2>3. Settled(d, r, hist'.want, M)
    <3>1. Settled(d, r, W \cup {Of(d, EXTERNAL)}, M)
      BY <1>1, <1>7, CallEnds
    <3>2. hist'.want = W \cup {Of(d, EXTERNAL)}
      BY <1>1, <2>1, <2>2
    <3>3. QED
      BY <3>1, <3>2
  <2>4. Besides(d, dev', hist')
    BY <1>1, <1>4, <1>7, <2>1, <2>2, BesidesKept DEF W, L, M
  <2>5. QED
    BY <1>2, <2>1, <2>3, <2>4
<1>8. CASE /\ After(<<>>, FALSE, d, r, M) /\ r = dev[d] /\ M = L \cup {<<d, EXTERNAL>>, <<d, EXTERNAL>>}
           /\ Joining(d, EXTERNAL, dev[d], W, L) /\ dev[d].fd = None
  <2>1. call' = NoCall /\ hist'.want = Held(FALSE) /\ \A s \in Sensors \ {d} : dev'[s] = dev[s]
    BY <1>8, Ends
  <2>2. Held(FALSE) = W \ {d}
    BY <1>1 DEF Held, W, d
  <2>3. Settled(d, r, hist'.want, M)
    <3>1. Settled(d, dev[d], W \ {Of(d, EXTERNAL)}, L \cup {<<d, EXTERNAL>>, <<Of(d, EXTERNAL), EXTERNAL>>})
      BY <1>1, <1>8, CallEnds
    <3>2. hist'.want = W \ {Of(d, EXTERNAL)}
      BY <1>1, <2>1, <2>2
    <3>3. QED
      BY <1>1, <1>8, <3>1, <3>2
  <2>4. Besides(d, dev', hist')
    BY <1>1, <1>4, <1>8, <2>1, <2>2, BesidesKept DEF W, L, M
  <2>5. QED
    BY <1>2, <2>1, <2>3, <2>4
<1>9. QED
  BY <1>5, <1>6, <1>7, <1>8

(* A disable of a device goes on, or leaves everything settled.            *)
LEMMA DisablesOneGoesOn ==
  ASSUME Types, CallStep, DisablesOne(call, dev, hist)
  PROVE  DisablesOne(call', dev', hist') \/ AtRest(call', dev', hist')
<1> DEFINE d == call.sensor
           W == hist.want
           L == hist.left
           r == dev'[d]
           M == hist'.left
           R == <<>>
<1>1. /\ d \in Devices /\ EXTERNAL \in Users /\ R \in Seq(Step) /\ Of(d, EXTERNAL) = d
      /\ call.ok \in BOOLEAN /\ call.what = "disable" /\ Besides(d, dev, hist)
  <2>1. d \in Devices /\ Besides(d, dev, hist) /\ call.what = "disable" /\ call.ok \in BOOLEAN
    BY DEF DisablesOne, Types, CallType
  <2>2. QED
    BY <2>1 DEF Users, Of
<1>2. UnStage(d, EXTERNAL, R, call.todo, dev[d], hist.want, hist.left)
  BY DEF DisablesOne
<1> HIDE DEF d, R
<1>3. /\ M \in {L, L \ {<<d, EXTERNAL>>}}
      /\ \/ /\ call'.todo # <<>> /\ After(call'.todo, call.ok, d, r, M)
            /\ UnStage(d, EXTERNAL, R, call'.todo, r, W, M)
         \/ After(R, call.ok, d, r, M) /\ Parted(d, EXTERNAL, r, W, M)
  BY <1>1, <1>2, DisableBlock
<1> HIDE DEF W, L, M, r
<1>4. \A s \in Sensors \ {d}, v \in Users : <<s, v>> \in M <=> <<s, v>> \in L
  BY <1>3
<1>5. CASE call'.todo # <<>> /\ After(call'.todo, call.ok, d, r, M) /\ UnStage(d, EXTERNAL, R, call'.todo, r, W, M)
  <2> DEFINE Q == call'.todo
  <2>1. Q # <<>> /\ After(Q, call.ok, d, r, M)
    BY <1>5
  <2> HIDE DEF Q
  <2>2. /\ call'.sensor = call.sensor /\ call'.what = call.what /\ hist'.want = W
        /\ \A s \in Sensors \ {d} : dev'[s] = dev[s]
    BY <1>1, <2>1, GoesOn DEF W
  <2>3. Besides(d, dev', hist')
    BY <1>1, <1>4, <2>2, BesidesKept DEF W, L, M
  <2>4. DisablesOne(call', dev', hist')
    BY <1>1, <1>5, <2>2, <2>3 DEF DisablesOne, d, r, M, R
  <2>5. QED
    BY <2>4
<1>6. CASE After(R, call.ok, d, r, M) /\ Parted(d, EXTERNAL, r, W, M)
  <2>1. call' = NoCall /\ hist'.want = Held(call.ok) /\ \A s \in Sensors \ {d} : dev'[s] = dev[s]
    BY <1>6, Ends DEF R
  <2>2. Held(call.ok) = W \ {d}
    BY <1>1 DEF Held, W, d
  <2>3. Settled(d, r, W \ {Of(d, EXTERNAL)}, M)
    BY <1>1, <1>6, CallEnds
  <2>4. Settled(d, r, hist'.want, M)
    BY <1>1, <2>1, <2>2, <2>3
  <2>5. Besides(d, dev', hist')
    BY <1>1, <1>4, <2>1, <2>2, BesidesKept DEF W, L, M
  <2>6. AtRest(call', dev', hist')
    BY <2>1, <2>4, <2>5 DEF Besides, AtRest, Quiet, r, M
  <2>7. QED
    BY <2>6
<1>7. QED
  BY <1>3, <1>5, <1>6

Undoes(c, D, h) ==
  /\ c.what = "enable" /\ ~c.ok /\ c.sensor = "compass" /\ Besides("acc", D, h) /\ "compass" \notin h.want
  /\ UnStage("acc", INTERNAL, <<>>, c.todo, D["acc"], h.want, h.left)

(* The undoing of an enable of the compass goes on, or leaves everything   *)
(* settled.                                                                *)
LEMMA UndoesGoesOn ==
  ASSUME Types, CallStep, Undoes(call, dev, hist)
  PROVE  Undoes(call', dev', hist') \/ AtRest(call', dev', hist')
<1> DEFINE d == "acc"
           W == hist.want
           L == hist.left
           r == dev'[d]
           M == hist'.left
           R == <<>>
<1>1. /\ d \in Devices /\ INTERNAL \in Users /\ R \in Seq(Step) /\ Of(d, INTERNAL) = "compass"
      /\ call.ok \in BOOLEAN /\ ~call.ok /\ call.what = "enable" /\ Besides(d, dev, hist)
      /\ call.sensor = "compass" /\ "compass" \notin W
  <2>1. d \in Devices /\ INTERNAL \in Users /\ Of(d, INTERNAL) = "compass"
    BY DEF Users, Of, Devices, INTERNAL, EXTERNAL
  <2>2. QED
    BY <2>1 DEF Undoes, Types, CallType
<1>2. UnStage(d, INTERNAL, R, call.todo, dev[d], hist.want, hist.left)
  BY DEF Undoes
<1> HIDE DEF d, R
<1>3. /\ M \in {L, L \ {<<d, INTERNAL>>}}
      /\ \/ /\ call'.todo # <<>> /\ After(call'.todo, call.ok, d, r, M)
            /\ UnStage(d, INTERNAL, R, call'.todo, r, W, M)
         \/ After(R, call.ok, d, r, M) /\ Parted(d, INTERNAL, r, W, M)
  BY <1>1, <1>2, DisableBlock
<1> HIDE DEF W, L, M, r
<1>4. \A s \in Sensors \ {d}, v \in Users : <<s, v>> \in M <=> <<s, v>> \in L
  BY <1>3
<1>5. CASE call'.todo # <<>> /\ After(call'.todo, call.ok, d, r, M) /\ UnStage(d, INTERNAL, R, call'.todo, r, W, M)
  <2> DEFINE Q == call'.todo
  <2>1. Q # <<>> /\ After(Q, call.ok, d, r, M)
    BY <1>5
  <2> HIDE DEF Q
  <2>2. /\ call'.sensor = call.sensor /\ call'.what = call.what /\ ~call'.ok /\ hist'.want = W
        /\ \A s \in Sensors \ {d} : dev'[s] = dev[s]
    BY <1>1, <2>1, GoesOn DEF W
  <2>3. Besides(d, dev', hist')
    BY <1>1, <1>4, <2>2, BesidesKept DEF W, L, M
  <2>4. Undoes(call', dev', hist')
    BY <1>1, <1>5, <2>2, <2>3 DEF Undoes, d, r, M, R
  <2>5. QED
    BY <2>4
<1>6. CASE After(R, call.ok, d, r, M) /\ Parted(d, INTERNAL, r, W, M)
  <2>1. call' = NoCall /\ hist'.want = Held(call.ok) /\ \A s \in Sensors \ {d} : dev'[s] = dev[s]
    BY <1>6, Ends DEF R
  <2>2. Held(call.ok) = W \ {"compass"} /\ Held(call.ok) = W
    BY <1>1 DEF Held, W
  <2>3. Settled(d, r, W \ {Of(d, INTERNAL)}, M)
    BY <1>1, <1>6, CallEnds
  <2>4. Settled(d, r, hist'.want, M)
    BY <1>1, <2>1, <2>2, <2>3
  <2>5. Besides(d, dev', hist')
    BY <1>1, <1>4, <2>1, <2>2, BesidesKept DEF W, L, M
  <2>6. AtRest(call', dev', hist')
    BY <2>1, <2>4, <2>5 DEF Besides, AtRest, Quiet, r, M
  <2>7. QED
    BY <2>6
<1>7. QED
  BY <1>3, <1>5, <1>6

(***************************************************************************)
(* The enable of the compass.                                              *)
(***************************************************************************)

SettledIn(d, D, h) == Settled(d, D[d], h.want, h.left)
JoinedIn(d, D, h) == Joined(d, INTERNAL, D[d], h.want, h.left)
CJoiningIn(D, h) == CJoining(D["compass"], h.want, h.left, h.odd)

UsesCompass(c, D, h) ==
  c.todo = EnableCompass(D) /\ Quiet(D, h) /\ ("compass" \in h.want => "twice" \in h.odd)
OpensSlider(c, D, h) == c.todo = Slider(D) /\ SettledIn("acc", D, h) /\ SettledIn("mag", D, h) /\ CJoiningIn(D, h)
EnablesAcc(c, D, h) ==
  /\ EnStage("acc", INTERNAL, EnableMag(D), c.todo, D["acc"], h.want, h.left)
  /\ SettledIn("mag", D, h) /\ CJoiningIn(D, h)
EnablesMag(c, D, h) ==
  /\ EnStage("mag", INTERNAL, Set2("compass", <<>>), c.todo, D["mag"], h.want, h.left)
  /\ JoinedIn("acc", D, h) /\ CJoiningIn(D, h)
SetsCompass(c, D, h) ==
  c.todo = Set2("compass", <<>>) /\ JoinedIn("acc", D, h) /\ JoinedIn("mag", D, h) /\ CJoiningIn(D, h)
RunsCompass(c, D, h) ==
  c.todo = Run1("compass", <<>>) /\ JoinedIn("acc", D, h) /\ JoinedIn("mag", D, h) /\ CJoined(D["compass"], h.left)

EnablesCompass(c, D, h) ==
  /\ Enabling(c) /\ c.sensor = "compass"
  /\ \/ UsesCompass(c, D, h) \/ OpensSlider(c, D, h) \/ EnablesAcc(c, D, h)
     \/ EnablesMag(c, D, h) \/ SetsCompass(c, D, h) \/ RunsCompass(c, D, h)

(* A device that a step leaves alone stays what it is to its users.        *)
LEMMA DeviceKept ==
  ASSUME NEW d \in Devices, Same(dev'[d], dev[d]), d \in hist'.want <=> d \in hist.want,
         "compass" \in hist'.want <=> "compass" \in hist.want,
         \A v \in Users : <<d, v>> \in hist'.left <=> <<d, v>> \in hist.left
  PROVE  /\ SettledIn(d, dev, hist) => SettledIn(d, dev', hist')
         /\ JoinedIn(d, dev, hist) => JoinedIn(d, dev', hist')
         /\ Parted(d, INTERNAL, dev[d], hist.want, hist.left) => Parted(d, INTERNAL, dev'[d], hist'.want, hist'.left)
<1>1. INTERNAL \in Users
  BY DEF Users
<1> DEFINE r == dev[d]
           q == dev'[d]
           W == hist.want
           L == hist.left
           V == hist'.want
           M == hist'.left
<1>2. /\ Same(q, r) /\ (d \in W <=> d \in V) /\ ("compass" \in W <=> "compass" \in V)
      /\ \A v \in Users : <<d, v>> \in L <=> <<d, v>> \in M
  OBVIOUS
<1> HIDE DEF r, q, W, L, V, M
<1>3. /\ Settled(d, r, W, L) => Settled(d, q, V, M)
      /\ Joined(d, INTERNAL, r, W, L) => Joined(d, INTERNAL, q, V, M)
      /\ Parted(d, INTERNAL, r, W, L) => Parted(d, INTERNAL, q, V, M)
  BY <1>1, <1>2, Alike
<1>4. QED
  BY <1>3 DEF SettledIn, JoinedIn, r, q, W, L, V, M

(* The compass gets its user.                                              *)
LEMMA UsesCompassGoesOn ==
  ASSUME Types, CallStep, Enabling(call), call.sensor = "compass", UsesCompass(call, dev, hist)
  PROVE  EnablesCompass(call', dev', hist')
<1> DEFINE c == dev["compass"]
           q == [c EXCEPT !.users = c.users \cup {EXTERNAL}]
           L == hist.left \ {<<"compass", EXTERNAL>>}
<1>1. /\ "compass" \in Sensors /\ EXTERNAL \in Users /\ "acc" \in Devices /\ "mag" \in Devices
      /\ "acc" \in Sensors \ {"compass"} /\ "mag" \in Sensors \ {"compass"} /\ call.ok \in BOOLEAN
      /\ call.ok /\ call.what = "enable"
  BY DEF Sensors, Devices, Users, Types, CallType, Enabling
<1>2. Quiet(dev, hist) /\ ("compass" \in hist.want => "twice" \in hist.odd) /\ call.todo = EnableCompass(dev)
  BY DEF UsesCompass
<1>3. /\ Head(call.todo) = <<"use", "compass", EXTERNAL>>
      /\ c.fd = None => Tail(call.todo) = Slider(dev)
      /\ c.fd # None => Tail(call.todo) = EnableAcc(dev)
  BY <1>2, CompassSteps
<1>4. Slider(dev) # <<>> /\ EnableAcc(dev) # <<>>
  <2>1. EnableMag(dev) \in Seq(Step)
    BY CompassListed
  <2>2. INTERNAL \in Users
    BY DEF Users
  <2>3. EnableAcc(dev) # <<>>
    BY <1>1, <2>1, <2>2, EnableListed DEF EnableAcc, Sensors
  <2>4. QED
    BY <2>3, CompassListed
<1>5. q.users = c.users \cup {EXTERNAL} /\ q.fd = c.fd
  BY <1>1 DEF Types, Device
<1> HIDE DEF c
<1>6. ASSUME NEW Q, Tail(call.todo) = Q, Q # <<>>
      PROVE  /\ call'.todo = Q /\ Enabling(call') /\ call'.sensor = "compass" /\ dev'["compass"] = q
             /\ hist'.left = L /\ hist'.want = hist.want /\ hist'.odd = hist.odd
             /\ dev'["acc"] = dev["acc"] /\ dev'["mag"] = dev["mag"]
  <2>1. After(Q, call.ok, "compass", q, L)
    BY <1>1, <1>3, <1>6, UserAfter DEF c
  <2> HIDE DEF q, L
  <2>2. call'.todo = Q /\ Enabling(call') /\ call'.sensor = "compass"
    BY <1>6, <2>1, EnableGoes
  <2>3. QED
    BY <1>1, <1>6, <2>1, <2>2 DEF After
<1>7. ASSUME dev'["compass"] = q, hist'.left = L, hist'.want = hist.want, hist'.odd = hist.odd,
             dev'["acc"] = dev["acc"], dev'["mag"] = dev["mag"]
      PROVE  /\ SettledIn("acc", dev', hist') /\ SettledIn("mag", dev', hist') /\ CJoiningIn(dev', hist')
             /\ Slider(dev') = Slider(dev) /\ EnableAcc(dev') = EnableAcc(dev)
  <2>1. SettledIn("acc", dev, hist) /\ SettledIn("mag", dev, hist) /\ CSettled(c, hist.want, hist.left)
    BY <1>1, <1>2 DEF Quiet, SettledIn, c
  <2>2. /\ Same(dev'["acc"], dev["acc"]) /\ Same(dev'["mag"], dev["mag"])
        /\ \A d \in Devices, v \in Users : <<d, v>> \in hist'.left <=> <<d, v>> \in hist.left
    BY <1>7 DEF Same, Devices
  <2>3. SettledIn("acc", dev', hist') /\ SettledIn("mag", dev', hist')
    BY <1>1, <1>7, <2>1, <2>2, DeviceKept
  <2>4. CJoining(q, hist.want, L, hist.odd)
    <3>1. EXTERNAL \in q.users /\ <<"compass", EXTERNAL>> \notin L
      BY <1>5
    <3>2. q.fd # None => "compass" \in hist.want /\ "twice" \in hist.odd
      BY <1>2, <1>5, <2>1 DEF CSettled
    <3> HIDE DEF q, L
    <3>3. QED
      BY <3>1, <3>2 DEF CJoining, CJoined
  <2>5. CJoiningIn(dev', hist')
    BY <1>7, <2>4 DEF CJoiningIn
  <2>6. Slider(dev') = Slider(dev) /\ EnableAcc(dev') = EnableAcc(dev)
    BY <1>7 DEF Slider, EnableAcc, EnableMag
  <2>7. QED
    BY <2>3, <2>5, <2>6
<1>8. CASE c.fd = None
  <2>1. /\ call'.todo = Slider(dev) /\ Enabling(call') /\ call'.sensor = "compass" /\ dev'["compass"] = q
        /\ hist'.left = L /\ hist'.want = hist.want /\ hist'.odd = hist.odd
        /\ dev'["acc"] = dev["acc"] /\ dev'["mag"] = dev["mag"]
    BY <1>3, <1>4, <1>6, <1>8
  <2>2. OpensSlider(call', dev', hist')
    BY <1>7, <2>1 DEF OpensSlider
  <2>3. QED
    BY <2>1, <2>2 DEF EnablesCompass
<1>9. CASE c.fd # None
  <2>1. /\ call'.todo = EnableAcc(dev) /\ Enabling(call') /\ call'.sensor = "compass" /\ dev'["compass"] = q
        /\ hist'.left = L /\ hist'.want = hist.want /\ hist'.odd = hist.odd
        /\ dev'["acc"] = dev["acc"] /\ dev'["mag"] = dev["mag"]
    BY <1>3, <1>4, <1>6, <1>9
  <2>2. EnStage("acc", INTERNAL, EnableMag(dev'), call'.todo, dev'["acc"], hist'.want, hist'.left)
    <3>1. call'.todo = EnableAcc(dev') /\ SettledIn("acc", dev', hist')
      BY <1>7, <2>1
    <3>2. QED
      BY <3>1 DEF EnStage, EnableAcc, SettledIn
  <2>3. EnablesAcc(call', dev', hist')
    BY <1>7, <2>1, <2>2 DEF EnablesAcc
  <2>4. QED
    BY <2>1, <2>3 DEF EnablesCompass
<1>10. QED
  BY <1>8, <1>9

(* The slider opened, the accelerometer is next.                           *)
LEMMA OpensSliderGoesOn ==
  ASSUME Types, CallStep, Enabling(call), call.sensor = "compass", OpensSlider(call, dev, hist)
  PROVE  EnablesCompass(call', dev', hist')
<1> DEFINE R == EnableAcc(dev)
<1>1. Head(call.todo) = <<"open_slider", "compass", None>> /\ Tail(call.todo) = R
  BY CompassSteps DEF OpensSlider
<1> HIDE DEF R
<1>2. /\ call' = [call EXCEPT !.todo = R, !.slider = call'.slider] /\ dev' = dev /\ hist' = hist
  BY <1>1, SliderAfter
<1>3. call'.todo = R /\ call'.what = call.what /\ call'.ok = call.ok /\ call'.sensor = "compass"
  BY <1>2 DEF Types, CallType
<1>4. EnStage("acc", INTERNAL, EnableMag(dev), R, dev["acc"], hist.want, hist.left)
  BY DEF EnStage, OpensSlider, EnableAcc, SettledIn, R
<1>5. EnablesAcc(call', dev', hist')
  BY <1>2, <1>3, <1>4 DEF EnablesAcc, OpensSlider
<1>6. QED
  BY <1>3, <1>5 DEF EnablesCompass, Enabling

(* An enable of the compass that fails leaves the compass settled, with    *)
(* its user left behind.                                                   *)
LEMMA CompassFails ==
  ASSUME CJoiningIn(dev, hist), "compass" \notin hist.want, dev'["compass"] = dev["compass"],
         "compass" \notin hist'.want, <<"compass", EXTERNAL>> \in hist'.left
  PROVE  CSettled(dev'["compass"], hist'.want, hist'.left)
  BY DEF CJoiningIn, CJoining, CJoined, CSettled

(* The accelerometer is enabled for the compass, and the magnetometer      *)
(* next; or the enable is over.                                            *)
LEMMA EnablesAccGoesOn ==
  ASSUME Types, CallStep, Enabling(call), call.sensor = "compass", EnablesAcc(call, dev, hist)
  PROVE  EnablesCompass(call', dev', hist') \/ AtRest(call', dev', hist')
<1> DEFINE d == "acc"
           W == hist.want
           L == hist.left
           r == dev'[d]
           M == hist'.left
           R == EnableMag(dev)
           E == IF call.sensor = "compass" THEN err_exit(d) ELSE <<>>
<1>1. /\ d \in Devices /\ d \in Sensors /\ "mag" \in Devices /\ "mag" \in Sensors \ {d} /\ "compass" \in Sensors \ {d}
      /\ INTERNAL \in Users /\ Of(d, INTERNAL) = "compass" /\ Devices = {d, "mag"} /\ d # "compass" /\ "mag" # "compass"
  BY DEF Devices, Sensors, Users, Of, INTERNAL, EXTERNAL
<1>2. R \in Seq(Step) /\ R # <<>>
  <2>1. Set2("compass", <<>>) \in Seq(Step)
    BY CompassListed
  <2>2. QED
    BY <1>1, <2>1, EnableListed DEF EnableMag
<1>3. E = <<>>
  BY DEF err_exit
<1>4. /\ EnStage(d, INTERNAL, R, call.todo, dev[d], W, L) /\ SettledIn("mag", dev, hist) /\ CJoiningIn(dev, hist)
      /\ call.ok /\ call.what = "enable" /\ call.ok \in BOOLEAN
  BY DEF EnablesAcc, Enabling, Types, CallType
<1> HIDE DEF d, R
<1>5. \/ /\ call'.todo # <<>> /\ After(call'.todo, call.ok, d, r, M)
         /\ EnStage(d, INTERNAL, R, call'.todo, r, W, M) /\ M \in {L, L \ {<<d, INTERNAL>>}}
      \/ /\ After(R, call.ok, d, r, M) /\ Joined(d, INTERNAL, r, W, M) /\ M \in {L, L \ {<<d, INTERNAL>>}}
      \/ /\ After(E, FALSE, d, r, M) /\ M = L \cup {<<d, INTERNAL>>, <<Of(d, INTERNAL), EXTERNAL>>} /\ r = dev[d]
         /\ Joining(d, INTERNAL, dev[d], W, L) /\ dev[d].fd = None
  BY <1>1, <1>2, <1>4, EnableBlock, ZenonT(60)
<1> HIDE DEF W, L, M, r, E
<1>6. ASSUME NEW Q, Q # <<>>, After(Q, call.ok, d, r, M), M \in {L, L \ {<<d, INTERNAL>>}}
      PROVE  /\ call'.todo = Q /\ Enabling(call') /\ call'.sensor = "compass" /\ hist'.want = W
             /\ SettledIn("mag", dev', hist') /\ CJoiningIn(dev', hist') /\ EnableMag(dev') = R
  <2>1. /\ call'.todo = Q /\ Enabling(call') /\ call'.sensor = "compass" /\ hist'.want = W /\ hist'.odd = hist.odd
        /\ dev'["mag"] = dev["mag"] /\ dev'["compass"] = dev["compass"]
    <3>1. call'.todo = Q /\ Enabling(call') /\ call'.sensor = "compass"
      BY <1>6, EnableGoes
    <3>2. hist'.want = W /\ hist'.odd = hist.odd /\ \A s \in Sensors \ {d} : dev'[s] = dev[s]
      BY <1>6 DEF W, After
    <3>3. QED
      BY <1>1, <3>1, <3>2
  <2>2. SettledIn("mag", dev', hist')
    <3>1. Same(dev'["mag"], dev["mag"]) /\ (\A v \in Users : <<"mag", v>> \in hist'.left <=> <<"mag", v>> \in hist.left)
      BY <1>1, <1>6, <2>1 DEF Same, M, L
    <3>2. QED
      BY <1>1, <1>4, <2>1, <3>1, DeviceKept DEF W
  <2>3. CJoiningIn(dev', hist')
    BY <1>1, <1>4, <1>6, <2>1 DEF CJoiningIn, CJoining, CJoined, W, M, L
  <2>4. EnableMag(dev') = R
    BY <2>1 DEF EnableMag, R
  <2>5. QED
    BY <2>1, <2>2, <2>3, <2>4
<1>7. CASE /\ call'.todo # <<>> /\ After(call'.todo, call.ok, d, r, M)
           /\ EnStage(d, INTERNAL, R, call'.todo, r, W, M) /\ M \in {L, L \ {<<d, INTERNAL>>}}
  <2>1. /\ Enabling(call') /\ call'.sensor = "compass" /\ hist'.want = W
        /\ SettledIn("mag", dev', hist') /\ CJoiningIn(dev', hist') /\ EnableMag(dev') = R
    BY <1>6, <1>7
  <2>2. EnablesAcc(call', dev', hist')
    BY <1>7, <2>1 DEF EnablesAcc, d, r, M
  <2>3. QED
    BY <2>1, <2>2 DEF EnablesCompass
<1>8. CASE /\ After(R, call.ok, d, r, M) /\ Joined(d, INTERNAL, r, W, M) /\ M \in {L, L \ {<<d, INTERNAL>>}}
  <2>1. /\ call'.todo = R /\ Enabling(call') /\ call'.sensor = "compass" /\ hist'.want = W
        /\ SettledIn("mag", dev', hist') /\ CJoiningIn(dev', hist') /\ EnableMag(dev') = R
    BY <1>2, <1>6, <1>8
  <2>2. JoinedIn("acc", dev', hist')
    BY <1>8, <2>1 DEF JoinedIn, d, r, M
  <2>3. EnStage("mag", INTERNAL, Set2("compass", <<>>), call'.todo, dev'["mag"], hist'.want, hist'.left)
    BY <2>1 DEF EnStage, EnableMag, SettledIn
  <2>4. EnablesMag(call', dev', hist')
    BY <2>1, <2>2, <2>3 DEF EnablesMag
  <2>5. QED
    BY <2>1, <2>4 DEF EnablesCompass
<1>9. CASE /\ After(E, FALSE, d, r, M) /\ M = L \cup {<<d, INTERNAL>>, <<Of(d, INTERNAL), EXTERNAL>>} /\ r = dev[d]
           /\ Joining(d, INTERNAL, dev[d], W, L) /\ dev[d].fd = None
  <2>1. /\ call' = NoCall /\ hist'.want = Held(FALSE) /\ dev'["mag"] = dev["mag"] /\ dev'["compass"] = dev["compass"]
    BY <1>1, <1>3, <1>9 DEF After
  <2>2. "compass" \notin W /\ Held(FALSE) = W
    BY <1>4, <1>9 DEF Joining, Held, W
  <2>3. Settled(d, dev[d], W \ {Of(d, INTERNAL)}, L \cup {<<d, INTERNAL>>, <<Of(d, INTERNAL), EXTERNAL>>})
    BY <1>1, <1>9, CallEnds
  <2>4. W \ {Of(d, INTERNAL)} = W
    BY <1>1, <2>2
  <2>5. Settled(d, r, hist'.want, M)
    BY <1>9, <2>1, <2>2, <2>3, <2>4
  <2>6. SettledIn("mag", dev', hist')
    <3>1. Same(dev'["mag"], dev["mag"]) /\ (\A v \in Users : <<"mag", v>> \in hist'.left <=> <<"mag", v>> \in hist.left)
      BY <1>1, <1>9, <2>1 DEF Same, M, L
    <3>2. QED
      BY <1>1, <1>4, <2>1, <2>2, <3>1, DeviceKept DEF W
  <2>7. CSettled(dev'["compass"], hist'.want, hist'.left)
    BY <1>1, <1>4, <1>9, <2>1, <2>2, CompassFails DEF W, M
  <2>8. AtRest(call', dev', hist')
    BY <1>1, <2>1, <2>5, <2>6, <2>7 DEF AtRest, Quiet, SettledIn, r, M
  <2>9. QED
    BY <2>8
<1>10. QED
  BY <1>5, <1>7, <1>8, <1>9

(* The magnetometer is enabled for the compass, and the file of the        *)
(* compass next; or the accelerometer is given back.                       *)
LEMMA EnablesMagGoesOn ==
  ASSUME Types, CallStep, Enabling(call), call.sensor = "compass", EnablesMag(call, dev, hist)
  PROVE  EnablesCompass(call', dev', hist') \/ Undoes(call', dev', hist')
<1> DEFINE d == "mag"
           W == hist.want
           L == hist.left
           r == dev'[d]
           M == hist'.left
           R == Set2("compass", <<>>)
           E == IF call.sensor = "compass" THEN err_exit(d) ELSE <<>>
<1>1. /\ d \in Devices /\ d \in Sensors /\ "acc" \in Devices /\ "acc" \in Sensors \ {d} /\ "compass" \in Sensors \ {d}
      /\ INTERNAL \in Users /\ Of(d, INTERNAL) = "compass" /\ Devices = {d, "acc"} /\ d # "compass" /\ "acc" # "compass"
      /\ "acc" \in Sensors
  BY DEF Devices, Sensors, Users, Of, INTERNAL, EXTERNAL
<1>2. R \in Seq(Step) /\ R # <<>>
  BY <1>1, OpenSteps, CompassListed DEF Sensors
<1>3. E = Disable("acc", INTERNAL, <<>>, dev["acc"]) /\ E # <<>>
  <2>1. E = sensor_activate_local("acc", FALSE, INTERNAL)
    BY DEF err_exit
  <2> HIDE DEF E
  <2>2. E = Disable("acc", INTERNAL, <<>>, dev["acc"])
    BY <1>1, <2>1, LocalAlone
  <2> DEFINE R0 == <<>>
  <2>3. R0 \in Seq(Step) /\ E = Disable("acc", INTERNAL, R0, dev["acc"])
    BY <2>2
  <2> HIDE DEF R0
  <2>4. E # <<>>
    BY <1>1, <2>3, DisableListed
  <2>5. QED
    BY <2>2, <2>4
<1>4. /\ EnStage(d, INTERNAL, R, call.todo, dev[d], W, L) /\ JoinedIn("acc", dev, hist) /\ CJoiningIn(dev, hist)
      /\ call.ok /\ call.what = "enable" /\ call.ok \in BOOLEAN
  BY DEF EnablesMag, Enabling, Types, CallType
<1> HIDE DEF d, R
<1>5. \/ /\ call'.todo # <<>> /\ After(call'.todo, call.ok, d, r, M)
         /\ EnStage(d, INTERNAL, R, call'.todo, r, W, M) /\ M \in {L, L \ {<<d, INTERNAL>>}}
      \/ /\ After(R, call.ok, d, r, M) /\ Joined(d, INTERNAL, r, W, M) /\ M \in {L, L \ {<<d, INTERNAL>>}}
      \/ /\ After(E, FALSE, d, r, M) /\ M = L \cup {<<d, INTERNAL>>, <<Of(d, INTERNAL), EXTERNAL>>} /\ r = dev[d]
         /\ Joining(d, INTERNAL, dev[d], W, L) /\ dev[d].fd = None
  BY <1>1, <1>2, <1>4, EnableBlock, ZenonT(60)
<1> HIDE DEF W, L, M, r, E
<1>6. ASSUME NEW Q, Q # <<>>, After(Q, call.ok, d, r, M), M \in {L, L \ {<<d, INTERNAL>>}}
      PROVE  /\ call'.todo = Q /\ Enabling(call') /\ call'.sensor = "compass" /\ hist'.want = W
             /\ JoinedIn("acc", dev', hist') /\ CJoiningIn(dev', hist')
  <2>1. /\ call'.todo = Q /\ Enabling(call') /\ call'.sensor = "compass" /\ hist'.want = W /\ hist'.odd = hist.odd
        /\ dev'["acc"] = dev["acc"] /\ dev'["compass"] = dev["compass"]
    <3>1. call'.todo = Q /\ Enabling(call') /\ call'.sensor = "compass"
      BY <1>6, EnableGoes
    <3>2. hist'.want = W /\ hist'.odd = hist.odd /\ \A s \in Sensors \ {d} : dev'[s] = dev[s]
      BY <1>6 DEF W, After
    <3>3. QED
      BY <1>1, <3>1, <3>2
  <2>2. JoinedIn("acc", dev', hist')
    <3>1. Same(dev'["acc"], dev["acc"]) /\ (\A v \in Users : <<"acc", v>> \in hist'.left <=> <<"acc", v>> \in hist.left)
      BY <1>1, <1>6, <2>1 DEF Same, M, L
    <3>2. QED
      BY <1>1, <1>4, <2>1, <3>1, DeviceKept DEF W
  <2>3. CJoiningIn(dev', hist')
    BY <1>1, <1>4, <1>6, <2>1 DEF CJoiningIn, CJoining, CJoined, W, M, L
  <2>4. QED
    BY <2>1, <2>2, <2>3
<1>7. CASE /\ call'.todo # <<>> /\ After(call'.todo, call.ok, d, r, M)
           /\ EnStage(d, INTERNAL, R, call'.todo, r, W, M) /\ M \in {L, L \ {<<d, INTERNAL>>}}
  <2>1. /\ Enabling(call') /\ call'.sensor = "compass" /\ hist'.want = W
        /\ JoinedIn("acc", dev', hist') /\ CJoiningIn(dev', hist')
    BY <1>6, <1>7
  <2>2. EnablesMag(call', dev', hist')
    BY <1>7, <2>1 DEF EnablesMag, d, r, M, R
  <2>3. QED
    BY <2>1, <2>2 DEF EnablesCompass
<1>8. CASE /\ After(R, call.ok, d, r, M) /\ Joined(d, INTERNAL, r, W, M) /\ M \in {L, L \ {<<d, INTERNAL>>}}
  <2>1. /\ call'.todo = R /\ Enabling(call') /\ call'.sensor = "compass" /\ hist'.want = W
        /\ JoinedIn("acc", dev', hist') /\ CJoiningIn(dev', hist')
    BY <1>2, <1>6, <1>8
  <2>2. JoinedIn("mag", dev', hist')
    BY <1>8, <2>1 DEF JoinedIn, d, r, M
  <2>3. SetsCompass(call', dev', hist')
    BY <2>1, <2>2 DEF SetsCompass, R
  <2>4. QED
    BY <2>1, <2>3 DEF EnablesCompass
<1>9. CASE /\ After(E, FALSE, d, r, M) /\ M = L \cup {<<d, INTERNAL>>, <<Of(d, INTERNAL), EXTERNAL>>} /\ r = dev[d]
           /\ Joining(d, INTERNAL, dev[d], W, L) /\ dev[d].fd = None
  <2>1. /\ call'.todo = E /\ call'.what = "enable" /\ call'.sensor = "compass" /\ ~call'.ok
        /\ hist'.want = W /\ dev'["acc"] = dev["acc"] /\ dev'["compass"] = dev["compass"]
    <3>1. call'.todo = E /\ call'.what = "enable" /\ call'.sensor = "compass" /\ ~call'.ok
      BY <1>3, <1>4, <1>9, EnableGoes
    <3>2. hist'.want = W /\ \A s \in Sensors \ {d} : dev'[s] = dev[s]
      BY <1>3, <1>9 DEF W, After
    <3>3. QED
      BY <1>1, <3>1, <3>2
  <2>2. "compass" \notin W
    BY <1>9 DEF Joining
  <2>3. Settled(d, r, hist'.want, M)
    <3>1. Settled(d, dev[d], W \ {Of(d, INTERNAL)}, L \cup {<<d, INTERNAL>>, <<Of(d, INTERNAL), EXTERNAL>>})
      BY <1>1, <1>9, CallEnds
    <3>2. W \ {Of(d, INTERNAL)} = W
      BY <1>1, <2>2
    <3>3. QED
      BY <1>9, <2>1, <3>1, <3>2
  <2>4. JoinedIn("acc", dev', hist')
    <3>1. Same(dev'["acc"], dev["acc"]) /\ (\A v \in Users : <<"acc", v>> \in hist'.left <=> <<"acc", v>> \in hist.left)
      BY <1>1, <1>9, <2>1 DEF Same, M, L
    <3>2. QED
      BY <1>1, <1>4, <2>1, <3>1, DeviceKept DEF W
  <2>5. CSettled(dev'["compass"], hist'.want, hist'.left)
    BY <1>1, <1>4, <1>9, <2>1, <2>2, CompassFails DEF W, M
  <2>6. Besides("acc", dev', hist')
    BY <1>1, <2>3, <2>5 DEF Besides, r, M
  <2>7. UnStage("acc", INTERNAL, <<>>, call'.todo, dev'["acc"], hist'.want, hist'.left)
    BY <1>3, <2>1, <2>4 DEF UnStage, JoinedIn, Joined
  <2>8. QED
    BY <2>1, <2>2, <2>6, <2>7 DEF Undoes
<1>10. QED
  BY <1>5, <1>7, <1>8, <1>9

(* The compass's file is set.                                              *)
LEMMA SetsCompassGoesOn ==
  ASSUME Types, CallStep, Enabling(call), call.sensor = "compass", SetsCompass(call, dev, hist)
  PROVE  EnablesCompass(call', dev', hist')
<1> DEFINE c == dev["compass"]
           L == hist.left
           R == Run1("compass", <<>>)
<1>1. /\ "compass" \in Sensors /\ "acc" \in Devices /\ "mag" \in Devices /\ EXTERNAL \in Users /\ <<>> \in Seq(Step)
      /\ "acc" \in Sensors \ {"compass"} /\ "mag" \in Sensors \ {"compass"}
      /\ call.ok \in BOOLEAN /\ call.ok /\ call.what = "enable" /\ c \in Device
  BY DEF Sensors, Devices, Users, Types, CallType, Enabling
<1>2. Head(call.todo) = <<"set_fd", "compass">> /\ Tail(call.todo) = R /\ R # <<>>
  <2> DEFINE E == <<>>
  <2>1. E \in Seq(Step) /\ call.todo = Set2("compass", E) /\ R = Run1("compass", E)
    BY <1>1 DEF SetsCompass
  <2> HIDE DEF E, R
  <2>2. QED
    BY <1>1, <2>1, OpenSteps
<1> HIDE DEF c, R, L
<1>3. PICK f \in {None, "open", "stale"} : After(R, call.ok, "compass", [c EXCEPT !.fd = f], L)
  BY <1>1, <1>2, WorkerAfter DEF c, L
<1> DEFINE q == [c EXCEPT !.fd = f]
<1>4. q.users = c.users
  BY <1>1 DEF Device
<1>5. After(R, call.ok, "compass", q, L)
  BY <1>3
<1> HIDE DEF q
<1>6. /\ call'.todo = R /\ Enabling(call') /\ call'.sensor = "compass" /\ dev'["compass"] = q
      /\ hist'.left = L /\ hist'.want = hist.want
      /\ dev'["acc"] = dev["acc"] /\ dev'["mag"] = dev["mag"]
  <2>1. call'.todo = R /\ Enabling(call') /\ call'.sensor = "compass"
    BY <1>2, <1>5, EnableGoes
  <2>2. QED
    BY <1>1, <1>2, <1>5, <2>1 DEF After
<1>7. JoinedIn("acc", dev', hist') /\ JoinedIn("mag", dev', hist') /\ CJoined(dev'["compass"], hist'.left)
  BY <1>4, <1>6 DEF SetsCompass, JoinedIn, CJoined, CJoiningIn, CJoining, c, L
<1>8. RunsCompass(call', dev', hist')
  BY <1>6, <1>7 DEF RunsCompass, R
<1>9. QED
  BY <1>6, <1>8 DEF EnablesCompass

(* The compass's worker runs, and its enable is over.                      *)
LEMMA RunsCompassGoesOn ==
  ASSUME Types, CallStep, Enabling(call), call.sensor = "compass", RunsCompass(call, dev, hist)
  PROVE  AtRest(call', dev', hist')
<1> DEFINE c == dev["compass"]
           L == hist.left
           W == hist.want
           q == [c EXCEPT !.mode = "run"]
           E == <<>>
<1>1. /\ "compass" \in Sensors /\ "acc" \in Devices /\ "mag" \in Devices /\ E \in Seq(Step) /\ INTERNAL \in Users
      /\ EXTERNAL \in Users /\ "acc" \in Sensors \ {"compass"} /\ "mag" \in Sensors \ {"compass"}
      /\ call.ok /\ call.what = "enable" /\ c \in Device /\ Devices = {"acc", "mag"}
      /\ \A d \in Devices : Of(d, INTERNAL) = "compass"
  BY DEF Sensors, Devices, Users, Types, Enabling, Of, INTERNAL, EXTERNAL
<1> HIDE DEF E
<1>2. Head(call.todo) = <<"resume", "compass">> /\ Tail(call.todo) = E
  <2>1. call.todo = Run1("compass", E)
    BY DEF RunsCompass, E
  <2>2. QED
    BY <1>1, <2>1, OpenSteps
<1>3. After(E, call.ok, "compass", q, L)
  BY <1>1, <1>2, WorkerAfter
<1>4. q.users = c.users /\ q.fd = c.fd
  BY <1>1 DEF Device
<1> HIDE DEF c, q, L, W
<1>5. /\ call' = NoCall /\ hist'.want = Held(call.ok) /\ dev'["compass"] = q /\ hist'.left = L
      /\ dev'["acc"] = dev["acc"] /\ dev'["mag"] = dev["mag"]
  <2>1. After(<<>>, call.ok, "compass", q, L)
    BY <1>3 DEF E
  <2>2. /\ call' = NoCall /\ hist'.want = Held(call.ok) /\ dev'["compass"] = q /\ hist'.left = L
        /\ \A s \in Sensors \ {"compass"} : dev'[s] = dev[s]
    BY <2>1, Ends
  <2>3. QED
    BY <1>1, <2>2
<1>6. hist'.want = W \cup {"compass"}
  BY <1>1, <1>5 DEF Held, W
<1>7. ASSUME NEW d \in Devices
      PROVE  Settled(d, dev'[d], hist'.want, hist'.left)
  <2>1. Joined(d, INTERNAL, dev'[d], W, L)
    BY <1>1, <1>5 DEF RunsCompass, JoinedIn, W, L
  <2>2. Settled(d, dev'[d], W \cup {Of(d, INTERNAL)}, L)
    BY <1>1, <2>1, CallEnds
  <2>3. QED
    BY <1>1, <1>5, <1>6, <2>2
<1>8. CSettled(dev'["compass"], hist'.want, hist'.left)
  BY <1>4, <1>5, <1>6 DEF RunsCompass, CJoined, CSettled, c, L
<1>9. QED
  BY <1>5, <1>7, <1>8 DEF AtRest, Quiet

(* Every step of an enable of the compass leads to another, to the undoing *)
(* of what was enabled, or to rest.                                        *)
LEMMA EnablesCompassGoesOn ==
  ASSUME Types, CallStep, EnablesCompass(call, dev, hist)
  PROVE  EnablesCompass(call', dev', hist') \/ Undoes(call', dev', hist') \/ AtRest(call', dev', hist')
<1>1. Enabling(call) /\ call.sensor = "compass"
  BY DEF EnablesCompass
<1>2. CASE UsesCompass(call, dev, hist)
  BY <1>1, <1>2, UsesCompassGoesOn
<1>3. CASE OpensSlider(call, dev, hist)
  BY <1>1, <1>3, OpensSliderGoesOn
<1>4. CASE EnablesAcc(call, dev, hist)
  BY <1>1, <1>4, EnablesAccGoesOn
<1>5. CASE EnablesMag(call, dev, hist)
  BY <1>1, <1>5, EnablesMagGoesOn
<1>6. CASE SetsCompass(call, dev, hist)
  BY <1>1, <1>6, SetsCompassGoesOn
<1>7. CASE RunsCompass(call, dev, hist)
  BY <1>1, <1>7, RunsCompassGoesOn
<1>8. QED
  BY <1>2, <1>3, <1>4, <1>5, <1>6, <1>7 DEF EnablesCompass

(***************************************************************************)
(* The disable of the compass.                                             *)
(***************************************************************************)

PartedIn(d, D, h) == Parted(d, INTERNAL, D[d], h.want, h.left)
ClearedIn(d, D, h) == PartedIn(d, D, h) /\ D[d].internal = 0
CPartingIn(D, h) == CParting(D["compass"], h.left)
CPartedIn(D, h) == CParted(D["compass"], h.left)

LeavesCompass(c, D, h) == c.todo = DisableCompass(D) /\ Quiet(D, h)
StopsCompass(c, D, h) == c.todo = SuspendCompass(D) /\ SettledIn("acc", D, h) /\ SettledIn("mag", D, h) /\ CPartingIn(D, h)
ClosesSlider(c, D, h) ==
  c.todo = Drop1("compass", DisableAcc(D)) /\ SettledIn("acc", D, h) /\ SettledIn("mag", D, h) /\ CPartingIn(D, h)
DisablesAcc(c, D, h) ==
  /\ UnStage("acc", INTERNAL, Clear("acc", DisableMag(D)), c.todo, D["acc"], h.want, h.left)
  /\ SettledIn("mag", D, h) /\ CPartedIn(D, h)
ClearsAcc(c, D, h) ==
  c.todo = Clear("acc", DisableMag(D)) /\ PartedIn("acc", D, h) /\ SettledIn("mag", D, h) /\ CPartedIn(D, h)
UpdatesAcc(c, D, h) ==
  c.todo = Update("acc", DisableMag(D)) /\ ClearedIn("acc", D, h) /\ SettledIn("mag", D, h) /\ CPartedIn(D, h)
DisablesMag(c, D, h) ==
  /\ UnStage("mag", INTERNAL, Clear("mag", <<>>), c.todo, D["mag"], h.want, h.left)
  /\ ClearedIn("acc", D, h) /\ CPartedIn(D, h)
ClearsMag(c, D, h) ==
  c.todo = Clear("mag", <<>>) /\ ClearedIn("acc", D, h) /\ PartedIn("mag", D, h) /\ CPartedIn(D, h)
UpdatesMag(c, D, h) ==
  c.todo = Update("mag", <<>>) /\ ClearedIn("acc", D, h) /\ ClearedIn("mag", D, h) /\ CPartedIn(D, h)

DisablesCompass(c, D, h) ==
  /\ c.what = "disable" /\ c.sensor = "compass"
  /\ \/ LeavesCompass(c, D, h) \/ StopsCompass(c, D, h) \/ ClosesSlider(c, D, h)
     \/ DisablesAcc(c, D, h) \/ ClearsAcc(c, D, h) \/ UpdatesAcc(c, D, h)
     \/ DisablesMag(c, D, h) \/ ClearsMag(c, D, h) \/ UpdatesMag(c, D, h)

Disabling(c) == c.what = "disable" /\ c.sensor = "compass"

(* A step on the compass that leaves R leaves the devices as they were.    *)
LEMMA CompassStepKeeps ==
  ASSUME Types, Disabling(call), NEW R, R # <<>>, NEW q, NEW L, L \in {hist.left, hist.left \ {<<"compass", EXTERNAL>>}},
         After(R, call.ok, "compass", q, L)
  PROVE  /\ call'.todo = R /\ Disabling(call') /\ hist'.left = L /\ hist'.want = hist.want /\ dev'["compass"] = q
         /\ SettledIn("acc", dev, hist) => SettledIn("acc", dev', hist')
         /\ SettledIn("mag", dev, hist) => SettledIn("mag", dev', hist')
         /\ DisableAcc(dev') = DisableAcc(dev) /\ DisableMag(dev') = DisableMag(dev)
<1>1. /\ "acc" \in Devices /\ "mag" \in Devices /\ "acc" \in Sensors \ {"compass"} /\ "mag" \in Sensors \ {"compass"}
      /\ call.ok \in BOOLEAN /\ "compass" \notin Devices
  BY DEF Sensors, Devices, Types, CallType
<1>2. /\ call'.todo = R /\ Disabling(call') /\ hist'.left = L /\ hist'.want = hist.want /\ dev'["compass"] = q
      /\ dev'["acc"] = dev["acc"] /\ dev'["mag"] = dev["mag"]
  BY <1>1, GoesOn DEF Disabling
<1>3. \A d \in Devices, v \in Users : <<d, v>> \in hist'.left <=> <<d, v>> \in hist.left
  BY <1>1, <1>2
<1>4. Same(dev'["acc"], dev["acc"]) /\ Same(dev'["mag"], dev["mag"])
  BY <1>2 DEF Same
<1>5. /\ SettledIn("acc", dev, hist) => SettledIn("acc", dev', hist')
      /\ SettledIn("mag", dev, hist) => SettledIn("mag", dev', hist')
  BY <1>1, <1>2, <1>3, <1>4, DeviceKept
<1>6. DisableAcc(dev') = DisableAcc(dev) /\ DisableMag(dev') = DisableMag(dev)
  BY <1>2 DEF DisableAcc, DisableMag
<1>7. QED
  BY <1>2, <1>5, <1>6

(* The first stage of giving back a device.                                *)
LEMMA DisableStarts ==
  ASSUME NEW d \in Devices, NEW R, NEW r, NEW W, NEW L, Settled(d, r, W, L)
  PROVE  UnStage(d, INTERNAL, R, Disable(d, INTERNAL, R, r), r, W, L)
  BY DEF UnStage, Settled, Users

(* The compass loses its user.                                             *)
LEMMA LeavesCompassGoesOn ==
  ASSUME Types, CallStep, Disabling(call), LeavesCompass(call, dev, hist)
  PROVE  DisablesCompass(call', dev', hist')
<1> DEFINE c == dev["compass"]
           q == [c EXCEPT !.users = c.users \ {EXTERNAL}]
           L == hist.left \ {<<"compass", EXTERNAL>>}
           R == SuspendCompass(dev)
<1>1. /\ "compass" \in Sensors /\ EXTERNAL \in Users /\ c \in Device /\ "acc" \in Devices /\ "mag" \in Devices
  BY DEF Sensors, Devices, Users, Types
<1>2. Head(call.todo) = <<"unuse", "compass", EXTERNAL>> /\ Tail(call.todo) = R
  BY CompassSteps DEF LeavesCompass
<1>3. R # <<>>
  BY CompassListed
<1>4. q.users = c.users \ {EXTERNAL} /\ q.fd = c.fd
  BY <1>1 DEF Device
<1>5. SettledIn("acc", dev, hist) /\ SettledIn("mag", dev, hist)
  BY <1>1 DEF LeavesCompass, Quiet, SettledIn
<1> HIDE DEF R, c
<1>6. After(R, call.ok, "compass", q, L)
  BY <1>1, <1>2, UserAfter DEF c
<1>7. EXTERNAL \notin q.users /\ <<"compass", EXTERNAL>> \notin L
  BY <1>4
<1>8. L \in {hist.left, hist.left \ {<<"compass", EXTERNAL>>}}
  OBVIOUS
<1> HIDE DEF q, L
<1>9. /\ call'.todo = R /\ Disabling(call') /\ hist'.left = L /\ dev'["compass"] = q
      /\ SettledIn("acc", dev', hist') /\ SettledIn("mag", dev', hist') /\ DisableAcc(dev') = DisableAcc(dev)
  BY <1>3, <1>5, <1>6, <1>8, CompassStepKeeps
<1>10. SuspendCompass(dev') = R
  BY <1>4, <1>9 DEF SuspendCompass, R, c
<1>11. StopsCompass(call', dev', hist')
  BY <1>7, <1>9, <1>10 DEF StopsCompass, CPartingIn, CParting
<1>12. QED
  BY <1>9, <1>11 DEF DisablesCompass, Disabling

(* The compass's worker sleeps; its file, when it has one, is next.        *)
LEMMA StopsCompassGoesOn ==
  ASSUME Types, CallStep, Disabling(call), StopsCompass(call, dev, hist)
  PROVE  DisablesCompass(call', dev', hist')
<1> DEFINE c == dev["compass"]
           q == [c EXCEPT !.mode = "sleep"]
           L == hist.left
           A == DisableAcc(dev)
<1>1. /\ "compass" \in Sensors /\ c \in Device /\ "acc" \in Devices /\ "mag" \in Devices
      /\ SettledIn("acc", dev, hist) /\ SettledIn("mag", dev, hist) /\ CParting(c, L)
  BY DEF Sensors, Devices, Types, StopsCompass, CPartingIn
<1>2. /\ Head(call.todo) = <<"suspend", "compass">>
      /\ c.fd # None => Tail(call.todo) = Drop1("compass", A)
      /\ c.fd = None => Tail(call.todo) = A
  BY CompassSteps DEF StopsCompass
<1>3. A \in Seq(Step) /\ A # <<>> /\ Drop1("compass", A) # <<>>
  <2>1. Clear("acc", DisableMag(dev)) \in Seq(Step) /\ INTERNAL \in Users /\ "acc" \in Sensors
    BY <1>1, CompassListed DEF Users, Sensors
  <2>2. A \in Seq(Step) /\ A # <<>>
    BY <2>1, DisableListed DEF DisableAcc
  <2> HIDE DEF A
  <2>3. QED
    BY <1>1, <2>2, SuspendSteps
<1>4. q.users = c.users /\ q.fd = c.fd
  BY <1>1 DEF Device
<1> HIDE DEF A, c
<1>5. ASSUME NEW R, R # <<>>, Tail(call.todo) = R
      PROVE  /\ call'.todo = R /\ Disabling(call') /\ hist'.left = L /\ dev'["compass"] = q
             /\ SettledIn("acc", dev', hist') /\ SettledIn("mag", dev', hist') /\ DisableAcc(dev') = A
             /\ hist'.want = hist.want /\ DisableMag(dev') = DisableMag(dev)
  <2>1. After(R, call.ok, "compass", q, L)
    BY <1>1, <1>2, <1>5, WorkerAfter DEF c
  <2>2. L \in {hist.left, hist.left \ {<<"compass", EXTERNAL>>}}
    OBVIOUS
  <2> HIDE DEF q, L
  <2>3. QED
    BY <1>1, <1>5, <2>1, <2>2, CompassStepKeeps DEF A
<1> HIDE DEF q, L
<1>6. CASE c.fd # None
  <2>1. /\ call'.todo = Drop1("compass", DisableAcc(dev')) /\ Disabling(call') /\ hist'.left = L /\ dev'["compass"] = q
        /\ SettledIn("acc", dev', hist') /\ SettledIn("mag", dev', hist')
    BY <1>2, <1>3, <1>5, <1>6
  <2>2. ClosesSlider(call', dev', hist')
    BY <1>1, <1>4, <2>1 DEF ClosesSlider, CPartingIn, CParting
  <2>3. QED
    BY <2>1, <2>2 DEF DisablesCompass, Disabling
<1>7. CASE c.fd = None
  <2>1. /\ call'.todo = DisableAcc(dev') /\ Disabling(call') /\ hist'.left = L /\ dev'["compass"] = q
        /\ SettledIn("acc", dev', hist') /\ SettledIn("mag", dev', hist')
    BY <1>2, <1>3, <1>5, <1>7
  <2>2. UnStage("acc", INTERNAL, Clear("acc", DisableMag(dev')), call'.todo, dev'["acc"], hist'.want, hist'.left)
    BY <1>1, <2>1, DisableStarts DEF DisableAcc, SettledIn
  <2>3. DisablesAcc(call', dev', hist')
    BY <1>1, <1>4, <1>7, <2>1, <2>2 DEF DisablesAcc, CPartedIn, CParted, CParting
  <2>4. QED
    BY <2>1, <2>3 DEF DisablesCompass, Disabling
<1>8. QED
  BY <1>6, <1>7

(* The compass's file is dropped; the accelerometer is next.               *)
LEMMA ClosesSliderGoesOn ==
  ASSUME Types, CallStep, Disabling(call), ClosesSlider(call, dev, hist)
  PROVE  DisablesCompass(call', dev', hist')
<1> DEFINE c == dev["compass"]
           q == [c EXCEPT !.fd = None]
           L == hist.left
           A == DisableAcc(dev)
<1>1. /\ "compass" \in Sensors /\ c \in Device /\ "acc" \in Devices /\ "mag" \in Devices
      /\ SettledIn("acc", dev, hist) /\ SettledIn("mag", dev, hist) /\ CParting(c, L) /\ call.todo = Drop1("compass", A)
  BY DEF Sensors, Devices, Types, ClosesSlider, CPartingIn
<1>2. A \in Seq(Step) /\ A # <<>>
  <2>1. Clear("acc", DisableMag(dev)) \in Seq(Step) /\ INTERNAL \in Users /\ "acc" \in Sensors
    BY <1>1, CompassListed DEF Users, Sensors
  <2>2. QED
    BY <2>1, DisableListed DEF DisableAcc
<1>3. q.users = c.users /\ q.fd = None
  BY <1>1 DEF Device
<1> HIDE DEF A, c
<1>4. Head(call.todo) = <<"drop_fd", "compass">> /\ Tail(call.todo) = A
  BY <1>1, <1>2, SuspendSteps
<1>5. After(A, call.ok, "compass", q, L)
  BY <1>1, <1>4, WorkerAfter DEF c
<1>6. L \in {hist.left, hist.left \ {<<"compass", EXTERNAL>>}}
  OBVIOUS
<1> HIDE DEF q, L
<1>7. /\ call'.todo = A /\ Disabling(call') /\ hist'.left = L /\ dev'["compass"] = q
      /\ SettledIn("acc", dev', hist') /\ SettledIn("mag", dev', hist') /\ DisableAcc(dev') = A
  BY <1>1, <1>2, <1>5, <1>6, CompassStepKeeps DEF A
<1>8. UnStage("acc", INTERNAL, Clear("acc", DisableMag(dev')), call'.todo, dev'["acc"], hist'.want, hist'.left)
  <2>1. call'.todo = DisableAcc(dev')
    BY <1>7
  <2>2. QED
    BY <1>1, <1>7, <2>1, DisableStarts DEF DisableAcc, SettledIn
<1>9. DisablesAcc(call', dev', hist')
  BY <1>1, <1>3, <1>7, <1>8 DEF DisablesAcc, CPartedIn, CParted, CParting
<1>10. QED
  BY <1>7, <1>9 DEF DisablesCompass, Disabling

(* A step on a device for the compass's disable leaves the compass and the *)
(* other device as they were.                                              *)
LEMMA DeviceStepKeeps ==
  ASSUME Types, Disabling(call), NEW d \in Devices, NEW R, R # <<>>, NEW q, NEW L,
         L \in {hist.left, hist.left \ {<<d, INTERNAL>>}}, After(R, call.ok, d, q, L)
  PROVE  /\ call'.todo = R /\ Disabling(call') /\ hist'.left = L /\ hist'.want = hist.want /\ dev'[d] = q
         /\ CPartedIn(dev, hist) => CPartedIn(dev', hist')
         /\ \A e \in Devices \ {d} :
              /\ dev'[e] = dev[e]
              /\ SettledIn(e, dev, hist) => SettledIn(e, dev', hist')
              /\ ClearedIn(e, dev, hist) => ClearedIn(e, dev', hist')
<1>1. call.ok \in BOOLEAN /\ "compass" \notin Devices /\ "compass" \in Sensors /\ Devices \subseteq Sensors
  BY DEF Sensors, Devices, Types, CallType
<1>2. /\ call'.todo = R /\ Disabling(call') /\ hist'.left = L /\ hist'.want = hist.want /\ dev'[d] = q
      /\ \A s \in Sensors \ {d} : dev'[s] = dev[s]
  <2>1. /\ call'.todo = R /\ call'.what = call.what /\ call'.sensor = call.sensor
        /\ hist'.left = L /\ hist'.want = hist.want /\ dev'[d] = q
    <3>1. call' = [call EXCEPT !.todo = R, !.ok = call.ok] /\ call \in CallType
      BY DEF After, Types
    <3>2. call'.todo = R /\ call'.what = call.what /\ call'.sensor = call.sensor
      BY <3>1 DEF CallType
    <3>3. QED
      BY <3>2 DEF After
  <2>2. \A s \in Sensors \ {d} : dev'[s] = dev[s]
    BY DEF After
  <2>3. QED
    BY <2>1, <2>2 DEF Disabling
<1>3. CPartedIn(dev, hist) => CPartedIn(dev', hist')
  BY <1>1, <1>2 DEF CPartedIn, CParted, CParting
<1>4. ASSUME NEW e \in Devices \ {d}
      PROVE  /\ dev'[e] = dev[e]
             /\ SettledIn(e, dev, hist) => SettledIn(e, dev', hist')
             /\ ClearedIn(e, dev, hist) => ClearedIn(e, dev', hist')
  <2>1. dev'[e] = dev[e] /\ \A v \in Users : <<e, v>> \in hist'.left <=> <<e, v>> \in hist.left
    BY <1>1, <1>2
  <2>2. Same(dev'[e], dev[e])
    BY <2>1 DEF Same
  <2>3. /\ SettledIn(e, dev, hist) => SettledIn(e, dev', hist')
        /\ PartedIn(e, dev, hist) => PartedIn(e, dev', hist')
    BY <1>2, <2>1, <2>2, DeviceKept DEF PartedIn
  <2>4. QED
    BY <2>1, <2>3 DEF ClearedIn
<1>5. QED
  BY <1>2, <1>3, <1>4

(* The accelerometer loses the compass as its user; its delay is next.     *)
LEMMA DisablesAccGoesOn ==
  ASSUME Types, CallStep, Disabling(call), DisablesAcc(call, dev, hist)
  PROVE  DisablesCompass(call', dev', hist')
<1> DEFINE d == "acc"
           r == dev'[d]
           M == hist'.left
           G == DisableMag(dev)
           R == Clear("acc", G)
<1>1. /\ d \in Devices /\ d \in Sensors /\ "mag" \in Devices \ {d} /\ INTERNAL \in Users /\ 0 \in Nat
  BY DEF Devices, Sensors, Users
<1>2. R \in Seq(Step) /\ R # <<>> /\ G \in Seq(Step)
  <2>1. G \in Seq(Step)
    BY CompassListed
  <2> HIDE DEF G
  <2>2. QED
    BY <1>1, <2>1, DelaySteps DEF Clear
<1>3. /\ UnStage(d, INTERNAL, R, call.todo, dev[d], hist.want, hist.left) /\ SettledIn("mag", dev, hist)
      /\ CPartedIn(dev, hist)
  BY DEF DisablesAcc
<1> HIDE DEF d, R
<1>4. /\ M \in {hist.left, hist.left \ {<<d, INTERNAL>>}}
      /\ \/ /\ call'.todo # <<>> /\ After(call'.todo, call.ok, d, r, M)
            /\ UnStage(d, INTERNAL, R, call'.todo, r, hist.want, M)
         \/ After(R, call.ok, d, r, M) /\ Parted(d, INTERNAL, r, hist.want, M)
  BY <1>1, <1>2, <1>3, DisableBlock
<1> HIDE DEF r, M, G
<1>5. ASSUME NEW Q, Q # <<>>, After(Q, call.ok, d, r, M)
      PROVE  /\ call'.todo = Q /\ Disabling(call') /\ hist'.want = hist.want
             /\ SettledIn("mag", dev', hist') /\ CPartedIn(dev', hist') /\ DisableMag(dev') = G
  <2>1. /\ call'.todo = Q /\ Disabling(call') /\ hist'.want = hist.want /\ CPartedIn(dev', hist')
        /\ \A e \in Devices \ {d} : dev'[e] = dev[e] /\ (SettledIn(e, dev, hist) => SettledIn(e, dev', hist'))
    BY <1>1, <1>3, <1>4, <1>5, DeviceStepKeeps
  <2>2. dev'["mag"] = dev["mag"] /\ SettledIn("mag", dev', hist')
    BY <1>1, <1>3, <2>1
  <2>3. QED
    BY <2>1, <2>2 DEF DisableMag, G
<1>6. CASE /\ call'.todo # <<>> /\ After(call'.todo, call.ok, d, r, M)
           /\ UnStage(d, INTERNAL, R, call'.todo, r, hist.want, M)
  <2>1. /\ Disabling(call') /\ hist'.want = hist.want
        /\ SettledIn("mag", dev', hist') /\ CPartedIn(dev', hist') /\ DisableMag(dev') = G
    BY <1>5, <1>6
  <2>2. DisablesAcc(call', dev', hist')
    BY <1>6, <2>1 DEF DisablesAcc, d, r, M, R
  <2>3. QED
    BY <2>1, <2>2 DEF DisablesCompass, Disabling
<1>7. CASE After(R, call.ok, d, r, M) /\ Parted(d, INTERNAL, r, hist.want, M)
  <2>1. /\ call'.todo = R /\ Disabling(call') /\ hist'.want = hist.want
        /\ SettledIn("mag", dev', hist') /\ CPartedIn(dev', hist') /\ DisableMag(dev') = G
    BY <1>2, <1>5, <1>7
  <2>2. PartedIn("acc", dev', hist')
    BY <1>7, <2>1 DEF PartedIn, d, r, M
  <2>3. ClearsAcc(call', dev', hist')
    BY <2>1, <2>2 DEF ClearsAcc, R
  <2>4. QED
    BY <2>1, <2>3 DEF DisablesCompass, Disabling
<1>8. QED
  BY <1>4, <1>6, <1>7

(* Its delay for the compass is cleared; its rate is next.                 *)
LEMMA ClearsAccGoesOn ==
  ASSUME Types, CallStep, Disabling(call), ClearsAcc(call, dev, hist)
  PROVE  DisablesCompass(call', dev', hist')
<1> DEFINE d == "acc"
           r == dev[d]
           q == [r EXCEPT !.internal = 0]
           L == hist.left
           G == DisableMag(dev)
           R == Update(d, G)
<1>1. /\ d \in Devices /\ d \in Sensors /\ "mag" \in Devices \ {d} /\ INTERNAL \in Users /\ 0 \in Nat /\ r \in Device
  BY DEF Devices, Sensors, Users, Types
<1>2. G \in Seq(Step)
  BY CompassListed
<1>3. /\ call.todo = Internal(d, 0, G) /\ PartedIn("acc", dev, hist) /\ SettledIn("mag", dev, hist)
      /\ CPartedIn(dev, hist)
  BY DEF ClearsAcc, Clear
<1> HIDE DEF G
<1>4. Head(call.todo) = <<"internal", d, 0>> /\ Tail(call.todo) = R /\ R # <<>>
  <2>1. /\ Head(Internal(d, 0, G)) = <<"internal", d, 0>> /\ Tail(Internal(d, 0, G)) = Update(d, G)
        /\ Update(d, G) # <<>>
    BY <1>1, <1>2, DelaySteps
  <2>2. QED
    BY <1>3, <2>1
<1>5. Same(q, r) /\ q.internal = 0
  BY <1>1 DEF Device, Same
<1> HIDE DEF R, r
<1>6. After(R, call.ok, d, q, L)
  BY <1>1, <1>4, DelayAfter DEF r
<1>7. L \in {hist.left, hist.left \ {<<d, INTERNAL>>}}
  OBVIOUS
<1> HIDE DEF q, L
<1>8. /\ call'.todo = R /\ Disabling(call') /\ hist'.want = hist.want /\ hist'.left = L /\ dev'[d] = q
      /\ CPartedIn(dev', hist')
      /\ \A e \in Devices \ {d} : dev'[e] = dev[e] /\ (SettledIn(e, dev, hist) => SettledIn(e, dev', hist'))
  BY <1>1, <1>3, <1>4, <1>6, <1>7, DeviceStepKeeps
<1>9. dev'["mag"] = dev["mag"] /\ SettledIn("mag", dev', hist')
  BY <1>1, <1>3, <1>8
<1>10. Same(dev'[d], dev[d]) /\ \A v \in Users : <<d, v>> \in hist'.left <=> <<d, v>> \in hist.left
  BY <1>5, <1>8 DEF r, L
<1>11. PartedIn(d, dev', hist')
  BY <1>1, <1>3, <1>8, <1>10, DeviceKept DEF PartedIn
<1>12. call'.todo = Update("acc", DisableMag(dev'))
  BY <1>8, <1>9 DEF R, G, DisableMag
<1>13. UpdatesAcc(call', dev', hist')
  BY <1>5, <1>8, <1>9, <1>11, <1>12 DEF UpdatesAcc, ClearedIn
<1>14. QED
  BY <1>8, <1>13 DEF DisablesCompass, Disabling

(* Its rate is written; the magnetometer is next.                          *)
LEMMA UpdatesAccGoesOn ==
  ASSUME Types, CallStep, Disabling(call), UpdatesAcc(call, dev, hist)
  PROVE  DisablesCompass(call', dev', hist')
<1> DEFINE d == "acc"
           q == dev'[d]
           L == hist.left
           R == DisableMag(dev)
<1>1. /\ d \in Devices /\ d \in Sensors /\ "mag" \in Devices \ {d} /\ "mag" \in Devices /\ "mag" \in Sensors
      /\ INTERNAL \in Users /\ 0 \in Nat
  BY DEF Devices, Sensors, Users
<1>2. R \in Seq(Step) /\ R # <<>>
  <2> DEFINE E == <<>>
             C == Clear("mag", E)
  <2>1. E \in Seq(Step) /\ R \in Seq(Step)
    BY CompassListed
  <2>2. R = Disable("mag", INTERNAL, C, dev["mag"])
    BY DEF DisableMag
  <2> HIDE DEF E
  <2>3. C \in Seq(Step)
    BY <1>1, <2>1, DelaySteps DEF Clear
  <2> HIDE DEF C
  <2>4. Disable("mag", INTERNAL, C, dev["mag"]) # <<>>
    BY <1>1, <2>3, DisableListed
  <2>5. QED
    BY <2>1, <2>2, <2>4
<1>3. /\ call.todo = Update(d, R) /\ ClearedIn("acc", dev, hist) /\ SettledIn("mag", dev, hist)
      /\ CPartedIn(dev, hist)
  BY DEF UpdatesAcc
<1> HIDE DEF R
<1>4. Head(call.todo) = <<"update", d>> /\ Tail(call.todo) = R
  <2>1. Head(Update(d, R)) = <<"update", d>> /\ Tail(Update(d, R)) = R
    BY <1>1, <1>2, DelaySteps
  <2>2. QED
    BY <1>3, <2>1
<1>5. After(R, call.ok, d, q, L) /\ Kept(q, dev[d])
  BY <1>1, <1>4, UpdateAfter
<1>6. L \in {hist.left, hist.left \ {<<d, INTERNAL>>}}
  OBVIOUS
<1> HIDE DEF q, L
<1>7. /\ call'.todo = R /\ Disabling(call') /\ hist'.want = hist.want /\ hist'.left = L /\ dev'[d] = q
      /\ CPartedIn(dev', hist')
      /\ \A e \in Devices \ {d} : dev'[e] = dev[e] /\ (SettledIn(e, dev, hist) => SettledIn(e, dev', hist'))
  BY <1>1, <1>2, <1>3, <1>5, <1>6, DeviceStepKeeps
<1>8. dev'["mag"] = dev["mag"] /\ SettledIn("mag", dev', hist')
  BY <1>1, <1>3, <1>7
<1>9. Same(dev'[d], dev[d]) /\ (\A v \in Users : <<d, v>> \in hist'.left <=> <<d, v>> \in hist.left) /\ q.internal = 0
  BY <1>3, <1>5, <1>7 DEF Kept, Same, L, ClearedIn
<1>10. PartedIn(d, dev', hist')
  BY <1>1, <1>3, <1>7, <1>9, DeviceKept DEF PartedIn, ClearedIn
<1>11. UnStage("mag", INTERNAL, Clear("mag", <<>>), call'.todo, dev'["mag"], hist'.want, hist'.left)
  <2>1. call'.todo = DisableMag(dev')
    BY <1>7, <1>8 DEF DisableMag, R
  <2>2. QED
    BY <1>1, <1>8, <2>1, DisableStarts DEF DisableMag, SettledIn
<1>12. DisablesMag(call', dev', hist')
  BY <1>7, <1>9, <1>10, <1>11 DEF DisablesMag, ClearedIn
<1>13. QED
  BY <1>7, <1>12 DEF DisablesCompass, Disabling

(* The magnetometer loses the compass as its user; its delay is next.      *)
LEMMA DisablesMagGoesOn ==
  ASSUME Types, CallStep, Disabling(call), DisablesMag(call, dev, hist)
  PROVE  DisablesCompass(call', dev', hist')
<1> DEFINE d == "mag"
           r == dev'[d]
           M == hist'.left
           R == Clear(d, <<>>)
<1>1. /\ d \in Devices /\ d \in Sensors /\ "acc" \in Devices \ {d} /\ INTERNAL \in Users /\ 0 \in Nat
  BY DEF Devices, Sensors, Users
<1>2. R \in Seq(Step) /\ R # <<>>
  <2> DEFINE E == <<>>
  <2>1. E \in Seq(Step)
    OBVIOUS
  <2> HIDE DEF E
  <2>2. Clear(d, E) \in Seq(Step) /\ Clear(d, E) # <<>>
    BY <1>1, <2>1, DelaySteps DEF Clear
  <2>3. QED
    BY <2>2 DEF E
<1>3. /\ UnStage(d, INTERNAL, R, call.todo, dev[d], hist.want, hist.left) /\ ClearedIn("acc", dev, hist)
      /\ CPartedIn(dev, hist)
  BY DEF DisablesMag
<1> HIDE DEF d, R
<1>4. /\ M \in {hist.left, hist.left \ {<<d, INTERNAL>>}}
      /\ \/ /\ call'.todo # <<>> /\ After(call'.todo, call.ok, d, r, M)
            /\ UnStage(d, INTERNAL, R, call'.todo, r, hist.want, M)
         \/ After(R, call.ok, d, r, M) /\ Parted(d, INTERNAL, r, hist.want, M)
  BY <1>1, <1>2, <1>3, DisableBlock
<1> HIDE DEF r, M
<1>5. ASSUME NEW Q, Q # <<>>, After(Q, call.ok, d, r, M)
      PROVE  /\ call'.todo = Q /\ Disabling(call') /\ hist'.want = hist.want
             /\ ClearedIn("acc", dev', hist') /\ CPartedIn(dev', hist')
  <2>1. /\ call'.todo = Q /\ Disabling(call') /\ hist'.want = hist.want /\ CPartedIn(dev', hist')
        /\ \A e \in Devices \ {d} : dev'[e] = dev[e] /\ (ClearedIn(e, dev, hist) => ClearedIn(e, dev', hist'))
    BY <1>1, <1>3, <1>4, <1>5, DeviceStepKeeps
  <2>2. QED
    BY <1>1, <1>3, <2>1
<1>6. CASE /\ call'.todo # <<>> /\ After(call'.todo, call.ok, d, r, M)
           /\ UnStage(d, INTERNAL, R, call'.todo, r, hist.want, M)
  <2>1. /\ Disabling(call') /\ hist'.want = hist.want
        /\ ClearedIn("acc", dev', hist') /\ CPartedIn(dev', hist')
    BY <1>5, <1>6
  <2>2. DisablesMag(call', dev', hist')
    BY <1>6, <2>1 DEF DisablesMag, d, r, M, R
  <2>3. QED
    BY <2>1, <2>2 DEF DisablesCompass, Disabling
<1>7. CASE After(R, call.ok, d, r, M) /\ Parted(d, INTERNAL, r, hist.want, M)
  <2>1. /\ call'.todo = R /\ Disabling(call') /\ hist'.want = hist.want
        /\ ClearedIn("acc", dev', hist') /\ CPartedIn(dev', hist')
    BY <1>2, <1>5, <1>7
  <2>2. PartedIn("mag", dev', hist')
    BY <1>7, <2>1 DEF PartedIn, d, r, M
  <2>3. ClearsMag(call', dev', hist')
    BY <2>1, <2>2 DEF ClearsMag, R, d
  <2>4. QED
    BY <2>1, <2>3 DEF DisablesCompass, Disabling
<1>8. QED
  BY <1>4, <1>6, <1>7

(* Its delay for the compass is cleared; its rate is next.                 *)
LEMMA ClearsMagGoesOn ==
  ASSUME Types, CallStep, Disabling(call), ClearsMag(call, dev, hist)
  PROVE  DisablesCompass(call', dev', hist')
<1> DEFINE d == "mag"
           r == dev[d]
           q == [r EXCEPT !.internal = 0]
           L == hist.left
           E == <<>>
           R == Update(d, E)
<1>1. /\ d \in Devices /\ d \in Sensors /\ "acc" \in Devices \ {d} /\ INTERNAL \in Users /\ 0 \in Nat /\ r \in Device
      /\ E \in Seq(Step)
  BY DEF Devices, Sensors, Users, Types
<1>2. /\ call.todo = Internal(d, 0, E) /\ PartedIn(d, dev, hist) /\ ClearedIn("acc", dev, hist)
      /\ CPartedIn(dev, hist)
  BY DEF ClearsMag, Clear
<1> HIDE DEF E
<1>3. Head(call.todo) = <<"internal", d, 0>> /\ Tail(call.todo) = R /\ R # <<>>
  <2>1. /\ Head(Internal(d, 0, E)) = <<"internal", d, 0>> /\ Tail(Internal(d, 0, E)) = Update(d, E)
        /\ Update(d, E) # <<>>
    BY <1>1, DelaySteps
  <2>2. QED
    BY <1>2, <2>1
<1>4. Same(q, r) /\ q.internal = 0
  BY <1>1 DEF Device, Same
<1> HIDE DEF R, r
<1>5. After(R, call.ok, d, q, L)
  BY <1>1, <1>3, DelayAfter DEF r
<1>6. L \in {hist.left, hist.left \ {<<d, INTERNAL>>}}
  OBVIOUS
<1> HIDE DEF q, L
<1>7. /\ call'.todo = R /\ Disabling(call') /\ hist'.want = hist.want /\ hist'.left = L /\ dev'[d] = q
      /\ CPartedIn(dev', hist')
      /\ \A e \in Devices \ {d} : dev'[e] = dev[e] /\ (ClearedIn(e, dev, hist) => ClearedIn(e, dev', hist'))
  BY <1>1, <1>2, <1>3, <1>5, <1>6, DeviceStepKeeps
<1>8. ClearedIn("acc", dev', hist')
  BY <1>1, <1>2, <1>7
<1>9. Same(dev'[d], dev[d]) /\ \A v \in Users : <<d, v>> \in hist'.left <=> <<d, v>> \in hist.left
  BY <1>4, <1>7 DEF r, L
<1>10. PartedIn(d, dev', hist')
  BY <1>1, <1>2, <1>7, <1>9, DeviceKept DEF PartedIn
<1>11. UpdatesMag(call', dev', hist')
  BY <1>4, <1>7, <1>8, <1>10 DEF UpdatesMag, ClearedIn, R, E
<1>12. QED
  BY <1>7, <1>11 DEF DisablesCompass, Disabling

(* Its rate is written, and the disable is over.                           *)
LEMMA UpdatesMagGoesOn ==
  ASSUME Types, CallStep, Disabling(call), UpdatesMag(call, dev, hist)
  PROVE  AtRest(call', dev', hist')
<1> DEFINE d == "mag"
           q == dev'[d]
           L == hist.left
           W == hist.want
           E == <<>>
<1>1. /\ d \in Devices /\ d \in Sensors /\ "acc" \in Devices /\ INTERNAL \in Users /\ E \in Seq(Step)
      /\ "acc" \in Sensors \ {d} /\ "compass" \in Sensors \ {d} /\ Devices = {"acc", d}
      /\ \A e \in Devices : Of(e, INTERNAL) = "compass"
  BY DEF Devices, Sensors, Users, Of, INTERNAL, EXTERNAL
<1>2. /\ call.todo = Update(d, E) /\ ClearedIn("acc", dev, hist) /\ ClearedIn(d, dev, hist)
      /\ CPartedIn(dev, hist)
  BY DEF UpdatesMag
<1> HIDE DEF E
<1>3. Head(call.todo) = <<"update", d>> /\ Tail(call.todo) = E
  BY <1>1, <1>2, DelaySteps
<1>4. After(E, call.ok, d, q, L) /\ Kept(q, dev[d])
  BY <1>1, <1>3, UpdateAfter
<1> HIDE DEF q, L, W
<1>5. /\ call' = NoCall /\ hist'.want = W \ {"compass"} /\ hist'.left = L /\ dev'[d] = q
      /\ dev'["acc"] = dev["acc"] /\ dev'["compass"] = dev["compass"]
  <2>1. After(<<>>, call.ok, d, q, L)
    BY <1>4 DEF E
  <2>2. /\ call' = NoCall /\ hist'.want = Held(call.ok) /\ hist'.left = L /\ dev'[d] = q
        /\ \A s \in Sensors \ {d} : dev'[s] = dev[s]
    BY <2>1, Ends
  <2>3. Held(call.ok) = W \ {"compass"}
    BY DEF Held, Disabling, W
  <2>4. QED
    BY <1>1, <2>2, <2>3
<1>6. ASSUME NEW e \in Devices
      PROVE  Settled(e, dev'[e], hist'.want, hist'.left)
  <2>1. Parted(e, INTERNAL, dev[e], W, L)
    BY <1>1, <1>2 DEF ClearedIn, PartedIn, W, L
  <2>2. Same(dev'[e], dev[e])
    BY <1>1, <1>4, <1>5 DEF Same, Kept
  <2>3. Parted(e, INTERNAL, dev'[e], W, L)
    BY <1>1, <2>1, <2>2, Alike
  <2>4. Settled(e, dev'[e], W \ {Of(e, INTERNAL)}, L)
    BY <1>1, <2>3, CallEnds
  <2>5. QED
    BY <1>1, <1>5, <2>4
<1>7. CSettled(dev'["compass"], hist'.want, hist'.left)
  BY <1>2, <1>5 DEF CPartedIn, CParted, CParting, CSettled, L
<1>8. QED
  BY <1>5, <1>6, <1>7 DEF AtRest, Quiet

(* Every step of a disable of the compass leads to another, or to rest.    *)
LEMMA DisablesCompassGoesOn ==
  ASSUME Types, CallStep, DisablesCompass(call, dev, hist)
  PROVE  DisablesCompass(call', dev', hist') \/ AtRest(call', dev', hist')
<1>1. Disabling(call)
  BY DEF DisablesCompass, Disabling
<1>2. CASE LeavesCompass(call, dev, hist)
  BY <1>1, <1>2, LeavesCompassGoesOn
<1>3. CASE StopsCompass(call, dev, hist)
  BY <1>1, <1>3, StopsCompassGoesOn
<1>4. CASE ClosesSlider(call, dev, hist)
  BY <1>1, <1>4, ClosesSliderGoesOn
<1>5. CASE DisablesAcc(call, dev, hist)
  BY <1>1, <1>5, DisablesAccGoesOn
<1>6. CASE ClearsAcc(call, dev, hist)
  BY <1>1, <1>6, ClearsAccGoesOn
<1>7. CASE UpdatesAcc(call, dev, hist)
  BY <1>1, <1>7, UpdatesAccGoesOn
<1>8. CASE DisablesMag(call, dev, hist)
  BY <1>1, <1>8, DisablesMagGoesOn
<1>9. CASE ClearsMag(call, dev, hist)
  BY <1>1, <1>9, ClearsMagGoesOn
<1>10. CASE UpdatesMag(call, dev, hist)
  BY <1>1, <1>10, UpdatesMagGoesOn
<1>11. QED
  BY <1>2, <1>3, <1>4, <1>5, <1>6, <1>7, <1>8, <1>9, <1>10 DEF DisablesCompass

(***************************************************************************)
(* An init and a set_delay.                                                *)
(***************************************************************************)

Inits(c, D, h) ==
  /\ c.what = "init" /\ c.sensor \in Sensors /\ Quiet(D, h)
  /\ \/ c.todo = Init1(c.sensor)
     \/ c.todo = Path2(c.sensor) /\ c.sensor \in Devices
     \/ c.todo = Api2 /\ c.sensor = "compass"

DelaysOne(c, D, h) ==
  /\ c.what = "set_delay" /\ c.sensor \in Devices /\ Quiet(D, h)
  /\ c.todo = Update(c.sensor, <<>>) \/ \E ns \in Nat : c.todo = External(c.sensor, ns, <<>>)

MagDelay(h) == Internal("mag", h.asked, <<>>)
DelaysCompass(c, D, h) ==
  /\ c.what = "set_delay" /\ c.sensor = "compass" /\ Quiet(D, h)
  /\ \/ c.todo = Internal("acc", h.asked, MagDelay(h))
     \/ c.todo = Update("acc", MagDelay(h)) /\ D["acc"].internal = h.asked
     \/ c.todo = MagDelay(h) /\ D["acc"].internal = h.asked
     \/ c.todo = Update("mag", <<>>) /\ D["acc"].internal = h.asked /\ D["mag"].internal = h.asked

(* What neither opens, closes nor uses a sensor leaves all settled.        *)
LEMMA QuietKept ==
  ASSUME Quiet(dev, hist), NEW d \in Sensors, Same(dev'[d], dev[d]),
         \A s \in Sensors \ {d} : dev'[s] = dev[s], hist'.want = hist.want, hist'.left = hist.left
  PROVE  Quiet(dev', hist')
<1>1. \A s \in Sensors : Same(dev'[s], dev[s])
  BY DEF Same
<1>2. ASSUME NEW e \in Devices
      PROVE  Settled(e, dev'[e], hist'.want, hist'.left)
  <2>1. SettledIn(e, dev, hist) => SettledIn(e, dev', hist')
    BY <1>1, DeviceKept DEF Sensors
  <2>2. QED
    BY <2>1 DEF SettledIn, Quiet
<1>3. CSettled(dev'["compass"], hist'.want, hist'.left)
  BY <1>1 DEF Same, Quiet, CSettled, Sensors
<1>4. QED
  BY <1>2, <1>3 DEF Quiet

(* A step that leaves R and the record of its sensor alike.                *)
LEMMA QuietStep ==
  ASSUME Types, Quiet(dev, hist), call.what \in {"init", "set_delay"}, NEW d \in Sensors, NEW R, NEW q,
         Same(q, dev[d]), After(R, call.ok, d, q, hist.left)
  PROVE  /\ Quiet(dev', hist') /\ hist'.asked = hist.asked /\ dev'[d] = q
         /\ \A s \in Sensors \ {d} : dev'[s] = dev[s]
         /\ R = <<>> => call' = NoCall
         /\ R # <<>> => call'.todo = R /\ call'.sensor = call.sensor /\ call'.what = call.what
<1>1. /\ dev'[d] = q /\ (\A s \in Sensors \ {d} : dev'[s] = dev[s]) /\ hist'.left = hist.left
      /\ hist'.asked = hist.asked
  BY DEF After
<1>2. hist'.want = hist.want
  BY DEF After, Held
<1>3. Quiet(dev', hist')
  BY <1>1, <1>2, QuietKept
<1>4. R = <<>> => call' = NoCall
  BY DEF After
<1>5. ASSUME R # <<>>
      PROVE  call'.todo = R /\ call'.sensor = call.sensor /\ call'.what = call.what
  <2>1. call' = [call EXCEPT !.todo = R, !.ok = call.ok] /\ call \in CallType
    BY <1>5 DEF After, Types
  <2>2. QED
    BY <2>1 DEF CallType
<1>6. QED
  BY <1>1, <1>3, <1>4, <1>5

(* An init goes on, or leaves everything settled.                          *)
LEMMA InitsGoesOn ==
  ASSUME Types, CallStep, Inits(call, dev, hist), dev[call.sensor].mode # "run"
  PROVE  Inits(call', dev', hist') \/ AtRest(call', dev', hist')
<1> DEFINE s == call.sensor
           r == dev[s]
           L == hist.left
           E == <<>>
           I == Init1(s)
<1>1. s \in Sensors /\ r \in Device /\ E \in Seq(Step) /\ Quiet(dev, hist) /\ call.what \in {"init", "set_delay"}
  BY DEF Inits, Types
<1>2. /\ I # E /\ Head(I) = <<"select_init", s>> /\ Tail(I) = E
      /\ Head(Path2(s)) = <<"phys_path", s>> /\ Tail(Path2(s)) = I
      /\ Head(Api2) = <<"compass_API_Init", "compass">> /\ Tail(Api2) = Init1("compass")
  BY <1>1, InitSteps
<1>3. ASSUME NEW q, Same(q, r), After(I, call.ok, s, q, L)
      PROVE  Inits(call', dev', hist')
  <2> HIDE DEF I, s, r
  <2>1. Quiet(dev', hist') /\ call'.todo = I /\ call'.sensor = call.sensor /\ call'.what = call.what
    BY <1>1, <1>2, <1>3, QuietStep DEF r
  <2>2. QED
    BY <2>1 DEF Inits, I, s
<1>4. CASE call.todo = I
  <2> DEFINE q == [r EXCEPT !.mode = "sleep"]
  <2>1. Head(call.todo) = <<"select_init", s>> /\ Tail(call.todo) = E
    BY <1>2, <1>4
  <2>2. After(E, call.ok, s, q, L)
    BY <1>1, <2>1, InitAfter
  <2>3. Same(q, r)
    BY <1>1 DEF Same, Device
  <2> HIDE DEF q, s, r, E
  <2>4. Quiet(dev', hist') /\ (E = <<>> => call' = NoCall)
    BY <1>1, <2>2, <2>3, QuietStep DEF r
  <2>5. QED
    BY <2>4 DEF AtRest, E
<1>5. CASE call.todo = Path2(s)
  <2>1. Head(call.todo) = <<"phys_path", s>> /\ Tail(call.todo) = I
    BY <1>2, <1>5
  <2> HIDE DEF I
  <2>2. PICK path \in BOOLEAN : After(I, call.ok, s, [r EXCEPT !.path = path], L)
    BY <1>1, <2>1, InitAfter
  <2>3. Same([r EXCEPT !.path = path], r)
    BY <1>1 DEF Same, Device
  <2>4. QED
    BY <1>3, <2>2, <2>3
<1>6. CASE call.todo = Api2 /\ s = "compass"
  <2>1. Head(call.todo) = <<"compass_API_Init", s>> /\ Tail(call.todo) = I
    BY <1>2, <1>6
  <2>2. After(I, call.ok, s, r, L)
    BY <1>1, <2>1, InitAfter
  <2>3. Same(r, r)
    BY DEF Same
  <2>4. QED
    BY <1>3, <2>2, <2>3
<1>7. QED
  BY <1>4, <1>5, <1>6 DEF Inits

(* A set_delay of a device goes on, or leaves everything settled.          *)
LEMMA DelaysOneGoesOn ==
  ASSUME Types, CallStep, DelaysOne(call, dev, hist)
  PROVE  DelaysOne(call', dev', hist') \/ AtRest(call', dev', hist')
<1> DEFINE d == call.sensor
           r == dev[d]
           L == hist.left
           E == <<>>
           U == Update(d, E)
<1>1. /\ d \in Devices /\ d \in Sensors /\ r \in Device /\ E \in Seq(Step) /\ Quiet(dev, hist)
      /\ call.what \in {"init", "set_delay"} /\ call.what = "set_delay"
  BY DEF DelaysOne, Types, Sensors
<1> HIDE DEF E
<1>2. CASE call.todo = U
  <2> DEFINE q == dev'[d]
  <2>1. Head(call.todo) = <<"update", d>> /\ Tail(call.todo) = E
    <3>1. Head(U) = <<"update", d>> /\ Tail(U) = E
      BY <1>1, DelaySteps
    <3>2. QED
      BY <1>2, <3>1
  <2>2. After(E, call.ok, d, q, L) /\ Kept(q, r)
    BY <1>1, <2>1, UpdateAfter
  <2>3. Same(q, r)
    BY <2>2 DEF Same, Kept
  <2> HIDE DEF q, d, r
  <2>4. Quiet(dev', hist') /\ (E = <<>> => call' = NoCall)
    BY <1>1, <2>2, <2>3, QuietStep DEF r
  <2>5. QED
    BY <2>4 DEF AtRest, E
<1>3. ASSUME NEW ns \in Nat, call.todo = External(d, ns, E)
      PROVE  DelaysOne(call', dev', hist')
  <2> DEFINE q == [r EXCEPT !.external = ns]
  <2>1. Head(call.todo) = <<"external", d, ns>> /\ Tail(call.todo) = U /\ U # <<>>
    <3>1. /\ Head(External(d, ns, E)) = <<"external", d, ns>> /\ Tail(External(d, ns, E)) = Update(d, E)
          /\ Update(d, E) # <<>>
      BY <1>1, DelaySteps
    <3>2. QED
      BY <1>3, <3>1
  <2> HIDE DEF U
  <2>2. After(U, call.ok, d, q, L)
    BY <1>1, <2>1, DelayAfter
  <2>3. Same(q, r)
    BY <1>1 DEF Same, Device
  <2> HIDE DEF q, d, r
  <2>4. Quiet(dev', hist') /\ call'.todo = U /\ call'.sensor = call.sensor /\ call'.what = call.what
    BY <1>1, <2>1, <2>2, <2>3, QuietStep DEF r
  <2>5. QED
    BY <1>1, <2>4 DEF DelaysOne, U, E, d
<1>4. QED
  BY <1>2, <1>3 DEF DelaysOne, E

(* A set_delay of the compass goes on, or leaves everything settled, with  *)
(* both devices told of the delay.                                         *)
LEMMA DelaysCompassGoesOn ==
  ASSUME Types, CallStep, DelaysCompass(call, dev, hist)
  PROVE  \/ DelaysCompass(call', dev', hist')
         \/ AtRest(call', dev', hist') /\ \A d \in Devices : dev'[d].internal = hist'.asked
<1> DEFINE L == hist.left
           n == hist.asked
           E == <<>>
           G == Internal("mag", n, E)
<1>1. /\ "acc" \in Devices /\ "mag" \in Devices /\ "acc" \in Sensors /\ "mag" \in Sensors /\ E \in Seq(Step)
      /\ "acc" \in Sensors \ {"mag"} /\ "mag" \in Sensors \ {"acc"} /\ Devices = {"acc", "mag"}
      /\ Quiet(dev, hist) /\ call.what \in {"init", "set_delay"} /\ n \in Nat
      /\ dev["acc"] \in Device /\ dev["mag"] \in Device
  BY DEF DelaysCompass, Types, Sensors, Devices, HistType
<1> HIDE DEF E
<1>2. /\ G \in Seq(Step) /\ G # <<>> /\ Head(G) = <<"internal", "mag", n>> /\ Tail(G) = Update("mag", E)
      /\ Update("mag", E) \in Seq(Step) /\ Update("mag", E) # <<>> /\ Head(Update("mag", E)) = <<"update", "mag">>
      /\ Tail(Update("mag", E)) = E
  BY <1>1, DelaySteps
<1> HIDE DEF n
<1>3. MagDelay(hist) = G
  BY DEF MagDelay, E, n
<1> HIDE DEF G
<1>4. /\ Head(Internal("acc", n, G)) = <<"internal", "acc", n>> /\ Tail(Internal("acc", n, G)) = Update("acc", G)
      /\ Update("acc", G) # <<>> /\ Head(Update("acc", G)) = <<"update", "acc">> /\ Tail(Update("acc", G)) = G
  BY <1>1, <1>2, DelaySteps
<1>5. ASSUME hist'.asked = hist.asked
      PROVE  MagDelay(hist') = G
  BY <1>3, <1>5 DEF MagDelay
<1>6. CASE call.todo = Internal("acc", n, G)
  <2> DEFINE q == [dev["acc"] EXCEPT !.internal = n]
             R == Update("acc", G)
  <2>1. Head(call.todo) = <<"internal", "acc", n>> /\ Tail(call.todo) = R /\ R # <<>>
    BY <1>4, <1>6
  <2> HIDE DEF R
  <2>2. After(R, call.ok, "acc", q, L)
    BY <1>1, <2>1, DelayAfter
  <2>3. Same(q, dev["acc"]) /\ q.internal = n
    BY <1>1 DEF Same, Device
  <2> HIDE DEF q
  <2>4. /\ Quiet(dev', hist') /\ hist'.asked = hist.asked /\ dev'["acc"] = q
        /\ call'.todo = R /\ call'.sensor = call.sensor /\ call'.what = call.what
    BY <1>1, <2>1, <2>2, <2>3, QuietStep
  <2>5. QED
    BY <1>5, <2>3, <2>4 DEF DelaysCompass, R, n
<1>7. CASE call.todo = Update("acc", G) /\ dev["acc"].internal = hist.asked
  <2> DEFINE q == dev'["acc"]
  <2>1. Head(call.todo) = <<"update", "acc">> /\ Tail(call.todo) = G
    BY <1>4, <1>7
  <2>2. After(G, call.ok, "acc", q, L) /\ Kept(q, dev["acc"])
    BY <1>1, <2>1, UpdateAfter
  <2>3. Same(q, dev["acc"]) /\ q.internal = hist.asked
    BY <1>7, <2>2 DEF Same, Kept
  <2>4. /\ Quiet(dev', hist') /\ hist'.asked = hist.asked /\ dev'["acc"] = q
        /\ call'.todo = G /\ call'.sensor = call.sensor /\ call'.what = call.what
    <3> HIDE DEF q
    <3>1. QED
      BY <1>1, <1>2, <2>2, <2>3, QuietStep
  <2>5. QED
    BY <1>5, <2>3, <2>4 DEF DelaysCompass
<1>8. CASE call.todo = G /\ dev["acc"].internal = hist.asked
  <2> DEFINE q == [dev["mag"] EXCEPT !.internal = n]
             R == Update("mag", E)
  <2>1. Head(call.todo) = <<"internal", "mag", n>> /\ Tail(call.todo) = R /\ R # <<>>
    BY <1>2, <1>8
  <2> HIDE DEF R
  <2>2. After(R, call.ok, "mag", q, L)
    BY <1>1, <2>1, DelayAfter
  <2>3. Same(q, dev["mag"]) /\ q.internal = n
    BY <1>1 DEF Same, Device
  <2> HIDE DEF q
  <2>4. /\ Quiet(dev', hist') /\ hist'.asked = hist.asked /\ dev'["mag"] = q
        /\ call'.todo = R /\ call'.sensor = call.sensor /\ call'.what = call.what
        /\ \A s \in Sensors \ {"mag"} : dev'[s] = dev[s]
    BY <1>1, <2>1, <2>2, <2>3, QuietStep
  <2>5. dev'["acc"].internal = hist'.asked
    BY <1>1, <1>8, <2>4
  <2>6. QED
    BY <2>3, <2>4, <2>5 DEF DelaysCompass, R, n, E
<1>9. CASE call.todo = Update("mag", E) /\ dev["acc"].internal = hist.asked /\ dev["mag"].internal = hist.asked
  <2> DEFINE q == dev'["mag"]
  <2>1. Head(call.todo) = <<"update", "mag">> /\ Tail(call.todo) = E
    BY <1>2, <1>9
  <2>2. After(E, call.ok, "mag", q, L) /\ Kept(q, dev["mag"])
    BY <1>1, <2>1, UpdateAfter
  <2>3. Same(q, dev["mag"]) /\ q.internal = hist.asked
    BY <1>9, <2>2 DEF Same, Kept
  <2>4. /\ Quiet(dev', hist') /\ hist'.asked = hist.asked /\ (E = <<>> => call' = NoCall)
        /\ \A s \in Sensors \ {"mag"} : dev'[s] = dev[s]
    <3> HIDE DEF q
    <3>1. QED
      BY <1>1, <2>2, <2>3, QuietStep
  <2>5. dev'["acc"].internal = hist'.asked /\ dev'["mag"].internal = hist'.asked
    BY <1>1, <1>9, <2>3, <2>4
  <2>6. QED
    BY <1>1, <2>4, <2>5 DEF AtRest, E
<1>10. QED
  BY <1>3, <1>6, <1>7, <1>8, <1>9 DEF DelaysCompass, n, E

(***************************************************************************)
(* The step a call is at.                                                  *)
(***************************************************************************)

Stage(c, D, h) ==
  \/ AtRest(c, D, h) \/ Inits(c, D, h) \/ DelaysOne(c, D, h) \/ DelaysCompass(c, D, h)
  \/ EnablesOne(c, D, h) \/ DisablesOne(c, D, h)
  \/ EnablesCompass(c, D, h) \/ Undoes(c, D, h) \/ DisablesCompass(c, D, h)

EnHead(x, d, u, r) == x \in {<<"use", d, u>>, <<"open", d, u>>, <<"resume", d>>} \/ (x = <<"set_fd", d>> /\ r.fd = None)
UnHead(x, d, u) == x \in {<<"unuse", d, u>>, <<"suspend", d>>, <<"drop_fd", d>>}

\* What the calls have to do with their steps.
Fits(x, y, c, D, h) ==
  /\ c.sensor \in Sensors /\ c.what \in {"init", "enable", "disable", "set_delay"}
  /\ x[2] = c.sensor \/ c.sensor = "compass"
  /\ x[1] \in {"use", "unuse"} /\ x[2] = "compass" => x[3] = EXTERNAL
  /\ x[1] = "set_fd" => /\ Enabling(c) /\ (x[2] \in Devices => D[x[2]].fd = None)
                        /\ x[2] = "compass" /\ D["compass"].fd # None => "twice" \in h.odd
  /\ x[1] = "drop_fd" => c.what = "disable" \/ (c.what = "enable" /\ ~c.ok)
  /\ x[1] \in {"phys_path", "compass_API_Init", "select_init"} => c.what = "init" /\ x[2] = c.sensor
  /\ x[1] = "select_init" => y = <<>>
  /\ c.what = "init" => x[1] \in {"phys_path", "compass_API_Init", "select_init"}
  /\ x[1] = "external" => c.what = "set_delay"
  /\ x[1] = "internal" => c.sensor = "compass" /\ c.what \in {"disable", "set_delay"}
  /\ x[1] \in {"internal", "external"} => x[2] \in Devices /\ y # <<>> /\ Head(y) = <<"update", x[2]>>
  /\ x[1] = "update" => x[2] \in Devices /\ x = <<"update", x[2]>>
  /\ x[1] # "destroy"

(* The first step of a stage of a device's enable and disable.             *)
LEMMA StageHeads ==
  ASSUME NEW d \in Devices, NEW u \in Users, NEW R \in Seq(Step), NEW T, NEW r, NEW W, NEW L
  PROVE  /\ EnStage(d, u, R, T, r, W, L) => T # <<>> /\ EnHead(Head(T), d, u, r)
         /\ UnStage(d, u, R, T, r, W, L) => T # <<>> /\ UnHead(Head(T), d, u)
<1>1. d \in Sensors
  BY DEF Sensors
<1>2. /\ Enable(d, u, R, r) # <<>> /\ Head(Enable(d, u, R, r)) = <<"use", d, u>>
      /\ Disable(d, u, R, r) # <<>> /\ Head(Disable(d, u, R, r)) = <<"unuse", d, u>>
  <2>1. Enable(d, u, R, r) # <<>>
    BY <1>1, EnableListed
  <2>2. Head(Enable(d, u, R, r)) = <<"use", d, u>>
    BY <1>1, EnableSteps
  <2>3. Disable(d, u, R, r) # <<>>
    BY <1>1, DisableListed
  <2>4. Head(Disable(d, u, R, r)) = <<"unuse", d, u>>
    BY <1>1, DisableSteps
  <2>5. QED
    BY <2>1, <2>2, <2>3, <2>4
<1>3. /\ Run1(d, R) # <<>> /\ Head(Run1(d, R)) = <<"resume", d>>
      /\ Set2(d, R) # <<>> /\ Head(Set2(d, R)) = <<"set_fd", d>>
      /\ Open3(d, u, R) # <<>> /\ Head(Open3(d, u, R)) = <<"open", d, u>>
  BY <1>1, OpenSteps
<1>4. /\ Drop1(d, R) # <<>> /\ Head(Drop1(d, R)) = <<"drop_fd", d>>
      /\ Susp2(d, R) # <<>> /\ Head(Susp2(d, R)) = <<"suspend", d>>
  BY <1>1, SuspendSteps
<1>5. ASSUME EnStage(d, u, R, T, r, W, L)
      PROVE  T # <<>> /\ EnHead(Head(T), d, u, r)
  BY <1>2, <1>3, <1>5 DEF EnStage, EnHead
<1>6. ASSUME UnStage(d, u, R, T, r, W, L)
      PROVE  T # <<>> /\ UnHead(Head(T), d, u)
  BY <1>2, <1>4, <1>6 DEF UnStage, UnHead
<1>7. QED
  BY <1>5, <1>6

(* The steps of an enable and of a disable fit their calls.                *)
LEMMA HeadsFit ==
  ASSUME NEW x, NEW y, NEW c, NEW D, NEW h, NEW d \in Devices, NEW u \in Users, c.sensor = Of(d, u)
  PROVE  /\ EnHead(x, d, u, D[d]) /\ Enabling(c) => Fits(x, y, c, D, h)
         /\ UnHead(x, d, u) /\ (c.what = "disable" \/ (c.what = "enable" /\ ~c.ok)) => Fits(x, y, c, D, h)
<1>1. c.sensor \in Sensors /\ (c.sensor = d \/ c.sensor = "compass") /\ d # "compass"
  BY DEF Sensors, Devices, Of
<1>2. ASSUME EnHead(x, d, u, D[d]), Enabling(c)
      PROVE  Fits(x, y, c, D, h)
  <2>1. c.what = "enable"
    BY <1>2 DEF Enabling
  <2>2. CASE x \in {<<"use", d, u>>, <<"open", d, u>>, <<"resume", d>>}
    <3>1. x[1] \in {"use", "open", "resume"} /\ x[2] = d
      BY <2>2
    <3>2. QED
      BY <1>1, <1>2, <2>1, <3>1 DEF Fits
  <2>3. CASE x = <<"set_fd", d>> /\ D[d].fd = None
    <3>1. x[1] = "set_fd" /\ x[2] = d
      BY <2>3
    <3>2. QED
      BY <1>1, <1>2, <2>1, <2>3, <3>1 DEF Fits
  <2>4. QED
    BY <1>2, <2>2, <2>3 DEF EnHead
<1>3. ASSUME UnHead(x, d, u), c.what = "disable" \/ (c.what = "enable" /\ ~c.ok)
      PROVE  Fits(x, y, c, D, h)
  <2>1. x[1] \in {"unuse", "suspend", "drop_fd"} /\ x[2] = d
    BY <1>3 DEF UnHead
  <2>2. QED
    BY <1>1, <1>3, <2>1 DEF Fits
<1>4. QED
  BY <1>2, <1>3

\* A call that is under way at a step that fits it.
Busy(c, D, h) == c.todo # <<>> /\ Fits(Head(c.todo), Tail(c.todo), c, D, h)

(* The steps of an init fit it.                                            *)
LEMMA InitsBusy ==
  ASSUME NEW c, NEW D, NEW h, Inits(c, D, h)
  PROVE  Busy(c, D, h)
<1> DEFINE s == c.sensor
           x == Head(c.todo)
           y == Tail(c.todo)
<1>1. s \in Sensors /\ c.what = "init"
  BY DEF Inits
<1>2. /\ Init1(s) # <<>> /\ Head(Init1(s)) = <<"select_init", s>> /\ Tail(Init1(s)) = <<>>
      /\ Path2(s) # <<>> /\ Head(Path2(s)) = <<"phys_path", s>>
      /\ Api2 # <<>> /\ Head(Api2) = <<"compass_API_Init", "compass">>
  BY <1>1, InitSteps
<1>3. /\ c.todo # <<>> /\ x[1] \in {"phys_path", "compass_API_Init", "select_init"} /\ x[2] = s
      /\ x[1] = "select_init" => y = <<>>
  BY <1>2 DEF Inits
<1> HIDE DEF s, x, y
<1>4. Fits(x, y, c, D, h)
  BY <1>1, <1>3 DEF Fits, s
<1>5. QED
  BY <1>3, <1>4 DEF Busy, x, y

(* The steps of a set_delay of a device fit it.                            *)
LEMMA DelaysOneBusy ==
  ASSUME NEW c, NEW D, NEW h, DelaysOne(c, D, h)
  PROVE  Busy(c, D, h)
<1> DEFINE d == c.sensor
           x == Head(c.todo)
           y == Tail(c.todo)
           E == <<>>
<1>1. d \in Devices /\ d \in Sensors /\ d # "compass" /\ c.what = "set_delay" /\ E \in Seq(Step) /\ 0 \in Nat
  BY DEF DelaysOne, Devices, Sensors
<1> HIDE DEF E
<1>2. Update(d, E) # <<>> /\ Head(Update(d, E)) = <<"update", d>>
  BY <1>1, DelaySteps
<1>3. CASE c.todo = Update(d, E)
  <2>1. c.todo # <<>> /\ x = <<"update", d>>
    BY <1>2, <1>3
  <2>2. x[1] = "update" /\ x[2] = d /\ x = <<"update", x[2]>>
    BY <2>1
  <2> HIDE DEF x, y, d
  <2>3. Fits(x, y, c, D, h)
    BY <1>1, <2>2 DEF Fits, d
  <2>4. QED
    BY <2>1, <2>3 DEF Busy, x, y
<1>4. ASSUME NEW n \in Nat, c.todo = External(d, n, E)
      PROVE  Busy(c, D, h)
  <2>1. /\ External(d, n, E) # <<>> /\ Head(External(d, n, E)) = <<"external", d, n>>
        /\ Tail(External(d, n, E)) = Update(d, E)
    BY <1>1, DelaySteps
  <2>2. c.todo # <<>> /\ x = <<"external", d, n>> /\ y = Update(d, E)
    BY <1>4, <2>1
  <2>3. x[1] = "external" /\ x[2] = d /\ y # <<>> /\ Head(y) = <<"update", x[2]>>
    <3>1. x[1] = "external" /\ x[2] = d
      BY <2>2
    <3>2. y # <<>> /\ Head(y) = <<"update", d>>
      BY <1>2, <2>2
    <3> HIDE DEF x, y
    <3>3. QED
      BY <3>1, <3>2
  <2> HIDE DEF x, y, d
  <2>4. Fits(x, y, c, D, h)
    BY <1>1, <2>3 DEF Fits, d
  <2>5. QED
    BY <2>2, <2>4 DEF Busy, x, y
<1>5. QED
  BY <1>3, <1>4 DEF DelaysOne, E

(* A step that tells a device of the compass's delay, or that writes its   *)
(* rate, fits the compass's call.                                          *)
LEMMA CompassDelayBusy ==
  ASSUME NEW c, NEW D, NEW h, NEW d \in Devices, NEW R \in Seq(Step), NEW n \in Nat,
         c.sensor = "compass", c.what \in {"disable", "set_delay"}
  PROVE  /\ c.todo = Update(d, R) => Busy(c, D, h)
         /\ c.todo = Internal(d, n, R) => Busy(c, D, h)
<1> DEFINE x == Head(c.todo)
           y == Tail(c.todo)
<1>1. d \in Sensors /\ d # "compass" /\ "compass" \in Sensors
  BY DEF Devices, Sensors
<1>2. Update(d, R) # <<>> /\ Head(Update(d, R)) = <<"update", d>>
  BY <1>1, DelaySteps
<1>3. ASSUME c.todo = Update(d, R)
      PROVE  Busy(c, D, h)
  <2>1. c.todo # <<>> /\ x = <<"update", d>>
    BY <1>2, <1>3
  <2>2. x[1] = "update" /\ x[2] = d /\ x = <<"update", x[2]>>
    BY <2>1
  <2> HIDE DEF x, y
  <2>3. Fits(x, y, c, D, h)
    BY <1>1, <2>2 DEF Fits
  <2>4. QED
    BY <2>1, <2>3 DEF Busy, x, y
<1>4. ASSUME c.todo = Internal(d, n, R)
      PROVE  Busy(c, D, h)
  <2>1. /\ Internal(d, n, R) # <<>> /\ Head(Internal(d, n, R)) = <<"internal", d, n>>
        /\ Tail(Internal(d, n, R)) = Update(d, R)
    BY <1>1, DelaySteps
  <2>2. c.todo # <<>> /\ x = <<"internal", d, n>> /\ y = Update(d, R)
    BY <1>4, <2>1
  <2>3. x[1] = "internal" /\ x[2] = d /\ y # <<>> /\ Head(y) = <<"update", x[2]>>
    <3>1. x[1] = "internal" /\ x[2] = d
      BY <2>2
    <3>2. y # <<>> /\ Head(y) = <<"update", d>>
      BY <1>2, <2>2
    <3> HIDE DEF x, y
    <3>3. QED
      BY <3>1, <3>2
  <2> HIDE DEF x, y
  <2>4. Fits(x, y, c, D, h)
    BY <1>1, <2>3 DEF Fits
  <2>5. QED
    BY <2>2, <2>4 DEF Busy, x, y
<1>5. QED
  BY <1>3, <1>4

(* A step on the compass fits its call.                                    *)
LEMMA CompassBusy ==
  ASSUME NEW c, NEW D, NEW h, c.sensor = "compass", c.todo # <<>>
  PROVE  /\ Enabling(c) /\ Head(c.todo) \in {<<"use", "compass", EXTERNAL>>, <<"open_slider", "compass", None>>, <<"resume", "compass">>}
              => Busy(c, D, h)
         /\ Enabling(c) /\ Head(c.todo) = <<"set_fd", "compass">> /\ (D["compass"].fd # None => "twice" \in h.odd)
              => Busy(c, D, h)
         /\ c.what = "disable" /\ Head(c.todo) \in {<<"unuse", "compass", EXTERNAL>>, <<"suspend", "compass">>, <<"drop_fd", "compass">>}
              => Busy(c, D, h)
<1> DEFINE x == Head(c.todo)
           y == Tail(c.todo)
<1>1. "compass" \notin Devices /\ "compass" \in Sensors
  BY DEF Devices, Sensors
<1>2. ASSUME Enabling(c), x \in {<<"use", "compass", EXTERNAL>>, <<"open_slider", "compass", None>>, <<"resume", "compass">>}
      PROVE  Busy(c, D, h)
  <2>1. x[1] \in {"use", "open_slider", "resume"} /\ x[2] = "compass" /\ (x[1] = "use" => x[3] = EXTERNAL)
    BY <1>2
  <2>2. c.what = "enable"
    BY <1>2 DEF Enabling
  <2> HIDE DEF x, y
  <2>3. Fits(x, y, c, D, h)
    BY <1>1, <2>1, <2>2 DEF Fits
  <2>4. QED
    BY <2>3 DEF Busy, x, y
<1>3. ASSUME Enabling(c), x = <<"set_fd", "compass">>, D["compass"].fd # None => "twice" \in h.odd
      PROVE  Busy(c, D, h)
  <2>1. x[1] = "set_fd" /\ x[2] = "compass"
    BY <1>3
  <2>2. c.what = "enable"
    BY <1>3 DEF Enabling
  <2> HIDE DEF x, y
  <2>3. Fits(x, y, c, D, h)
    BY <1>1, <1>3, <2>1, <2>2 DEF Fits
  <2>4. QED
    BY <2>3 DEF Busy, x, y
<1>4. ASSUME c.what = "disable", x \in {<<"unuse", "compass", EXTERNAL>>, <<"suspend", "compass">>, <<"drop_fd", "compass">>}
      PROVE  Busy(c, D, h)
  <2>1. x[1] \in {"unuse", "suspend", "drop_fd"} /\ x[2] = "compass" /\ (x[1] = "unuse" => x[3] = EXTERNAL)
    BY <1>4
  <2> HIDE DEF x, y
  <2>2. Fits(x, y, c, D, h)
    BY <1>1, <1>4, <2>1 DEF Fits
  <2>3. QED
    BY <2>2 DEF Busy, x, y
<1>5. QED
  BY <1>2, <1>3, <1>4

(* The steps of the compass's enable fit it.                               *)
LEMMA EnablesCompassBusy ==
  ASSUME NEW c, NEW D, NEW h, EnablesCompass(c, D, h)
  PROVE  Busy(c, D, h)
<1> DEFINE E == <<>>
           x == Head(c.todo)
           y == Tail(c.todo)
<1>1. /\ "acc" \in Devices /\ "mag" \in Devices /\ INTERNAL \in Users /\ "compass" \in Sensors /\ E \in Seq(Step)
      /\ \A d \in Devices : Of(d, INTERNAL) = "compass"
  BY DEF Devices, Users, Sensors, Of, INTERNAL, EXTERNAL
<1>2. Enabling(c) /\ c.sensor = "compass"
  BY DEF EnablesCompass
<1>3. Set2("compass", <<>>) \in Seq(Step) /\ EnableMag(D) \in Seq(Step)
  BY CompassListed
<1> HIDE DEF E
<1>4. ASSUME NEW d \in Devices, NEW R \in Seq(Step), NEW r, EnStage(d, INTERNAL, R, c.todo, r, h.want, h.left), r = D[d]
      PROVE  Busy(c, D, h)
  <2>1. c.todo # <<>> /\ EnHead(x, d, INTERNAL, D[d])
    BY <1>1, <1>4, StageHeads
  <2>2. c.sensor = Of(d, INTERNAL)
    BY <1>1, <1>2
  <2> HIDE DEF x, y
  <2>3. Fits(x, y, c, D, h)
    BY <1>1, <1>2, <2>1, <2>2, HeadsFit
  <2>4. QED
    BY <2>1, <2>3 DEF Busy, x, y
<1>5. CASE UsesCompass(c, D, h)
  <2>1. c.todo # <<>> /\ Head(c.todo) = <<"use", "compass", EXTERNAL>>
    BY <1>5, CompassListed, CompassSteps DEF UsesCompass
  <2>2. QED
    BY <1>2, <2>1, CompassBusy
<1>6. CASE OpensSlider(c, D, h)
  <2>1. c.todo # <<>> /\ Head(c.todo) = <<"open_slider", "compass", None>>
    BY <1>6, CompassListed, CompassSteps DEF OpensSlider
  <2>2. QED
    BY <1>2, <2>1, CompassBusy
<1>7. CASE EnablesAcc(c, D, h)
  <2> DEFINE R == EnableMag(D)
  <2>1. R \in Seq(Step) /\ EnStage("acc", INTERNAL, R, c.todo, D["acc"], h.want, h.left)
    BY <1>3, <1>7 DEF EnablesAcc
  <2> HIDE DEF R
  <2>2. QED
    BY <1>1, <1>4, <2>1
<1>8. CASE EnablesMag(c, D, h)
  <2> DEFINE R == Set2("compass", <<>>)
  <2>1. R \in Seq(Step) /\ EnStage("mag", INTERNAL, R, c.todo, D["mag"], h.want, h.left)
    BY <1>3, <1>8 DEF EnablesMag
  <2> HIDE DEF R
  <2>2. QED
    BY <1>1, <1>4, <2>1
<1>9. CASE SetsCompass(c, D, h)
  <2>1. c.todo = Set2("compass", E) /\ (D["compass"].fd # None => "twice" \in h.odd)
    BY <1>9 DEF SetsCompass, CJoiningIn, CJoining, E
  <2>2. Set2("compass", E) # <<>> /\ Head(Set2("compass", E)) = <<"set_fd", "compass">>
    BY <1>1, OpenSteps
  <2>3. c.todo # <<>> /\ Head(c.todo) = <<"set_fd", "compass">>
    BY <2>1, <2>2
  <2>4. QED
    BY <1>2, <2>1, <2>3, CompassBusy
<1>10. CASE RunsCompass(c, D, h)
  <2>1. c.todo = Run1("compass", E)
    BY <1>10 DEF RunsCompass, E
  <2>2. Run1("compass", E) # <<>> /\ Head(Run1("compass", E)) = <<"resume", "compass">>
    BY <1>1, OpenSteps
  <2>3. c.todo # <<>> /\ Head(c.todo) = <<"resume", "compass">>
    BY <2>1, <2>2
  <2>4. QED
    BY <1>2, <2>3, CompassBusy
<1>11. QED
  BY <1>5, <1>6, <1>7, <1>8, <1>9, <1>10 DEF EnablesCompass

(* The steps of the compass's disable fit it.                              *)
LEMMA DisablesCompassBusy ==
  ASSUME NEW c, NEW D, NEW h, DisablesCompass(c, D, h)
  PROVE  Busy(c, D, h)
<1> DEFINE E == <<>>
           G == DisableMag(D)
           A == DisableAcc(D)
           x == Head(c.todo)
           y == Tail(c.todo)
<1>1. /\ "acc" \in Devices /\ "mag" \in Devices /\ INTERNAL \in Users /\ "compass" \in Sensors /\ E \in Seq(Step)
      /\ 0 \in Nat /\ \A d \in Devices : Of(d, INTERNAL) = "compass"
  BY DEF Devices, Users, Sensors, Of, INTERNAL, EXTERNAL
<1>2. c.what = "disable" /\ c.sensor = "compass"
  BY DEF DisablesCompass
<1>3. G \in Seq(Step) /\ Clear("acc", G) \in Seq(Step) /\ Clear("mag", <<>>) \in Seq(Step) /\ A \in Seq(Step)
  BY CompassListed
<1> HIDE DEF E, G, A
<1>4. ASSUME NEW d \in Devices, NEW R \in Seq(Step), NEW r, UnStage(d, INTERNAL, R, c.todo, r, h.want, h.left), r = D[d]
      PROVE  Busy(c, D, h)
  <2>1. c.todo # <<>> /\ UnHead(x, d, INTERNAL)
    BY <1>1, <1>4, StageHeads
  <2>2. c.sensor = Of(d, INTERNAL)
    BY <1>1, <1>2
  <2> HIDE DEF x, y
  <2>3. Fits(x, y, c, D, h)
    BY <1>1, <1>2, <2>1, <2>2, HeadsFit
  <2>4. QED
    BY <2>1, <2>3 DEF Busy, x, y
<1>5. CASE LeavesCompass(c, D, h)
  <2>1. c.todo # <<>> /\ Head(c.todo) = <<"unuse", "compass", EXTERNAL>>
    BY <1>5, CompassListed, CompassSteps DEF LeavesCompass
  <2>2. QED
    BY <1>2, <2>1, CompassBusy
<1>6. CASE StopsCompass(c, D, h)
  <2>1. c.todo # <<>> /\ Head(c.todo) = <<"suspend", "compass">>
    BY <1>6, CompassListed, CompassSteps DEF StopsCompass
  <2>2. QED
    BY <1>2, <2>1, CompassBusy
<1>7. CASE ClosesSlider(c, D, h)
  <2>1. c.todo = Drop1("compass", A)
    BY <1>7 DEF ClosesSlider, A
  <2>2. Drop1("compass", A) # <<>> /\ Head(Drop1("compass", A)) = <<"drop_fd", "compass">>
    BY <1>1, <1>3, SuspendSteps
  <2>3. c.todo # <<>> /\ Head(c.todo) = <<"drop_fd", "compass">>
    BY <2>1, <2>2
  <2>4. QED
    BY <1>2, <2>3, CompassBusy
<1>8. CASE DisablesAcc(c, D, h)
  <2> DEFINE R == Clear("acc", G)
  <2>1. R \in Seq(Step) /\ UnStage("acc", INTERNAL, R, c.todo, D["acc"], h.want, h.left)
    BY <1>3, <1>8 DEF DisablesAcc, G
  <2> HIDE DEF R
  <2>2. QED
    BY <1>1, <1>4, <2>1
<1>9. CASE ClearsAcc(c, D, h)
  <2>1. c.todo = Internal("acc", 0, G)
    BY <1>9 DEF ClearsAcc, Clear, G
  <2>2. QED
    BY <1>1, <1>2, <1>3, <2>1, CompassDelayBusy
<1>10. CASE UpdatesAcc(c, D, h)
  <2>1. c.todo = Update("acc", G)
    BY <1>10 DEF UpdatesAcc, G
  <2>2. QED
    BY <1>1, <1>2, <1>3, <2>1, CompassDelayBusy
<1>11. CASE DisablesMag(c, D, h)
  <2> DEFINE R == Clear("mag", <<>>)
  <2>1. R \in Seq(Step) /\ UnStage("mag", INTERNAL, R, c.todo, D["mag"], h.want, h.left)
    BY <1>3, <1>11 DEF DisablesMag
  <2> HIDE DEF R
  <2>2. QED
    BY <1>1, <1>4, <2>1
<1>12. CASE ClearsMag(c, D, h)
  <2>1. c.todo = Internal("mag", 0, E)
    BY <1>12 DEF ClearsMag, Clear, E
  <2>2. QED
    BY <1>1, <1>2, <2>1, CompassDelayBusy
<1>13. CASE UpdatesMag(c, D, h)
  <2>1. c.todo = Update("mag", E)
    BY <1>13 DEF UpdatesMag, E
  <2>2. QED
    BY <1>1, <1>2, <2>1, CompassDelayBusy
<1>14. QED
  BY <1>5, <1>6, <1>7, <1>8, <1>9, <1>10, <1>11, <1>12, <1>13 DEF DisablesCompass

(* A call is over, with everything settled, or at a step that fits it.     *)
LEMMA StageBusy ==
  ASSUME NEW c, NEW D, NEW h, h.asked \in Nat, Stage(c, D, h)
  PROVE  AtRest(c, D, h) \/ Busy(c, D, h)
<1> DEFINE E == <<>>
           x == Head(c.todo)
           y == Tail(c.todo)
<1>1. /\ "acc" \in Devices /\ "mag" \in Devices /\ INTERNAL \in Users /\ EXTERNAL \in Users /\ E \in Seq(Step)
      /\ Of("acc", INTERNAL) = "compass" /\ \A d \in Devices : Of(d, EXTERNAL) = d
  BY DEF Devices, Users, Of, INTERNAL, EXTERNAL
<1> HIDE DEF E, x, y
<1>2. CASE EnablesOne(c, D, h)
  <2> DEFINE d == c.sensor
  <2>1. d \in Devices /\ Enabling(c) /\ EnStage(d, EXTERNAL, E, c.todo, D[d], h.want, h.left) /\ c.sensor = Of(d, EXTERNAL)
    BY <1>1, <1>2 DEF EnablesOne, E
  <2> HIDE DEF d
  <2>2. c.todo # <<>> /\ EnHead(x, d, EXTERNAL, D[d])
    BY <1>1, <2>1, StageHeads DEF x
  <2>3. Fits(x, y, c, D, h)
    BY <1>1, <2>1, <2>2, HeadsFit
  <2>4. QED
    BY <2>2, <2>3 DEF Busy, x, y
<1>3. CASE DisablesOne(c, D, h)
  <2> DEFINE d == c.sensor
  <2>1. d \in Devices /\ c.what = "disable" /\ UnStage(d, EXTERNAL, E, c.todo, D[d], h.want, h.left) /\ c.sensor = Of(d, EXTERNAL)
    BY <1>1, <1>3 DEF DisablesOne, E
  <2> HIDE DEF d
  <2>2. c.todo # <<>> /\ UnHead(x, d, EXTERNAL)
    BY <1>1, <2>1, StageHeads DEF x
  <2>3. Fits(x, y, c, D, h)
    BY <1>1, <2>1, <2>2, HeadsFit
  <2>4. QED
    BY <2>2, <2>3 DEF Busy, x, y
<1>4. CASE Undoes(c, D, h)
  <2>1. /\ c.what = "enable" /\ ~c.ok /\ UnStage("acc", INTERNAL, E, c.todo, D["acc"], h.want, h.left)
        /\ c.sensor = Of("acc", INTERNAL)
    BY <1>1, <1>4 DEF Undoes, E
  <2>2. c.todo # <<>> /\ UnHead(x, "acc", INTERNAL)
    BY <1>1, <2>1, StageHeads DEF x
  <2>3. Fits(x, y, c, D, h)
    BY <1>1, <2>1, <2>2, HeadsFit
  <2>4. QED
    BY <2>2, <2>3 DEF Busy, x, y
<1>5. CASE DelaysCompass(c, D, h)
  <2> DEFINE G == MagDelay(h)
             n == h.asked
  <2>1. /\ c.sensor = "compass" /\ c.what = "set_delay" /\ G = Internal("mag", n, E)
        /\ c.todo \in {Internal("acc", n, G), Update("acc", G), G, Update("mag", E)}
    BY <1>5 DEF DelaysCompass, MagDelay, E
  <2> HIDE DEF G, n
  <2>2. n \in Nat
    BY DEF n
  <2>3. G \in Seq(Step)
    <3>1. "mag" \in Sensors
      BY DEF Sensors, Devices
    <3>2. Internal("mag", n, E) \in Seq(Step)
      BY <1>1, <2>2, <3>1, DelaySteps
    <3>3. QED
      BY <2>1, <3>2
  <2>4. CASE c.todo = Internal("acc", n, G)
    BY <1>1, <2>1, <2>2, <2>3, <2>4, CompassDelayBusy
  <2>5. CASE c.todo = Update("acc", G)
    BY <1>1, <2>1, <2>2, <2>3, <2>5, CompassDelayBusy
  <2>6. CASE c.todo = G
    <3>1. c.todo = Internal("mag", n, E)
      BY <2>1, <2>6
    <3>2. QED
      BY <1>1, <2>1, <2>2, <3>1, CompassDelayBusy
  <2>7. CASE c.todo = Update("mag", E)
    BY <1>1, <2>1, <2>2, <2>7, CompassDelayBusy
  <2>8. QED
    BY <2>1, <2>4, <2>5, <2>6, <2>7
<1>6. QED
  BY <1>2, <1>3, <1>4, <1>5, InitsBusy, DelaysOneBusy, EnablesCompassBusy, DisablesCompassBusy DEF Stage

(* Every step of a call leads to another stage.                            *)
LEMMA StageGoesOn ==
  ASSUME Types, CallStep, Stage(call, dev, hist), call.what = "init" => dev[call.sensor].mode # "run"
  PROVE  Stage(call', dev', hist')
<1>1. ~AtRest(call, dev, hist)
  <2>1. ~Rest
    BY DEF CallStep, UserStep, OpenStep, SliderStep, WorkerStep, InitStep, DelayStep, UpdateStep, Do
  <2>2. QED
    BY <2>1 DEF AtRest, NoCall, Rest
<1>2. CASE Inits(call, dev, hist)
  <2>1. dev[call.sensor].mode # "run"
    BY <1>2 DEF Inits
  <2>2. QED
    BY <1>2, <2>1, InitsGoesOn DEF Stage
<1>3. CASE DelaysOne(call, dev, hist)
  BY <1>3, DelaysOneGoesOn DEF Stage
<1>4. CASE DelaysCompass(call, dev, hist)
  BY <1>4, DelaysCompassGoesOn DEF Stage
<1>5. CASE EnablesOne(call, dev, hist)
  BY <1>5, EnablesOneGoesOn DEF Stage
<1>6. CASE DisablesOne(call, dev, hist)
  BY <1>6, DisablesOneGoesOn DEF Stage
<1>7. CASE EnablesCompass(call, dev, hist)
  BY <1>7, EnablesCompassGoesOn DEF Stage
<1>8. CASE Undoes(call, dev, hist)
  BY <1>8, UndoesGoesOn DEF Stage
<1>9. CASE DisablesCompass(call, dev, hist)
  BY <1>9, DisablesCompassGoesOn DEF Stage
<1>10. QED
  BY <1>1, <1>2, <1>3, <1>4, <1>5, <1>6, <1>7, <1>8, <1>9 DEF Stage

(***************************************************************************)
(* What a step leaves, whatever the call.                                  *)
(***************************************************************************)

\* The record q that step x makes of the record r of its sensor.
Changes(x, q, r) ==
  /\ q \in Device
  /\ x[1] # "internal" => q.internal = r.internal
  /\ x[1] # "external" => q.external = r.external
  /\ x[1] # "update" => q.applied = r.applied /\ q.power = r.power
  /\ x[1] # "phys_path" => q.path = r.path
  /\ x[1] \notin {"set_fd", "drop_fd", "destroy"} => q.fd = r.fd
  /\ x[1] \in {"drop_fd", "destroy"} => q.fd = None
  /\ x[1] \notin {"resume", "suspend", "select_init", "destroy"} => q.mode = r.mode
  /\ x[1] = "select_init" => q.mode = "sleep"
  /\ x[1] \notin {"use", "unuse"} => q.users = r.users
  /\ x[1] = "use" => q.users \subseteq r.users \cup {x[3]}
  /\ x[1] = "unuse" => q.users \subseteq r.users

(* A step is on a sensor, and its argument is a user or a delay.           *)
LEMMA StepTyped ==
  ASSUME Types, ~Rest
  PROVE  /\ Head(call.todo) \in Step /\ Tail(call.todo) \in Seq(Step) /\ Target \in Sensors
         /\ Head(call.todo)[1] \in {"use", "unuse", "open"} => Given \in Users
         /\ Head(call.todo)[1] \in {"internal", "external"} => Given \in Nat
<1>1. call.todo \in Seq(Step) /\ call.todo # <<>>
  BY DEF Types, CallType, Rest
<1> DEFINE x == Head(call.todo)
<1>2. x \in Step /\ Tail(call.todo) \in Seq(Step)
  BY <1>1, HeadTailProperties
<1> HIDE DEF x
<1>3. /\ x[2] \in Sensors
      /\ x[1] \in {"use", "unuse", "open"} => x[3] \in Users
      /\ x[1] \in {"internal", "external"} => x[3] \in Nat
  <2>1. CASE x \in {<<n, d, u>> : n \in {"use", "unuse", "open"}, d \in Sensors, u \in Users}
    BY <2>1
  <2>2. CASE x = <<"open_slider", "compass", None>>
    BY <2>2 DEF Sensors
  <2>3. CASE x \in {<<n, d, ns>> : n \in {"internal", "external"}, d \in Sensors, ns \in Nat}
    BY <2>3
  <2>4. CASE x \in {<<n, d>> : n \in {"set_fd", "drop_fd", "resume", "suspend", "update", "phys_path", "compass_API_Init",
                            "select_init", "destroy"}, d \in Sensors}
    BY <2>4
  <2>5. QED
    BY <1>2, <2>1, <2>2, <2>3, <2>4 DEF Step
<1>4. QED
  BY <1>2, <1>3 DEF x, Target, Given

(* What a step makes of the sensors.                                       *)
LEMMA StepChanges ==
  ASSUME Types, CallStep, NEW x, x = Head(call.todo), NEW d, d = Target
  PROVE  /\ d \in Sensors /\ Changes(x, dev'[d], dev[d]) /\ dev' \in [Sensors -> Device]
         /\ \A s \in Sensors \ {d} : dev'[s] = dev[s]
         /\ x[1] \in {"set_fd", "drop_fd", "destroy"} => reader # d
         /\ x[1] = "set_fd" => dev'[d].fd = FileSet
<1>1. /\ ~Rest /\ d \in Sensors /\ d = x[2] /\ dev \in [Sensors -> Device] /\ dev[d] \in Device
      /\ x[1] \in {"use", "unuse", "open"} => Given \in Users
      /\ x[1] \in {"internal", "external"} => Given \in Nat
      /\ \A n : Do(n) <=> x[1] = n
  <2>1. ~Rest
    BY DEF CallStep, UserStep, OpenStep, SliderStep, WorkerStep, InitStep, DelayStep, UpdateStep, Do
  <2>2. QED
    BY <2>1, StepTyped DEF Target, Types, Do
<1> DEFINE Wanted ==
       /\ Changes(x, dev'[d], dev[d]) /\ dev' \in [Sensors -> Device]
       /\ \A s \in Sensors \ {d} : dev'[s] = dev[s]
       /\ x[1] \in {"set_fd", "drop_fd", "destroy"} => reader # d
       /\ x[1] = "set_fd" => dev'[d].fd = FileSet
<1>2. ASSUME NEW q \in Device, dev' = [dev EXCEPT ![d] = q]
      PROVE  dev'[d] = q /\ dev' \in [Sensors -> Device] /\ \A s \in Sensors \ {d} : dev'[s] = dev[s]
  BY <1>1, <1>2
<1>3. ASSUME dev' = dev
      PROVE  dev' \in [Sensors -> Device] /\ \A s \in Sensors \ {d} : dev'[s] = dev[s]
  BY <1>1, <1>3
<1> DEFINE r == dev[d]
<1>4. CASE UserStep
  <2>1. PICK U : U = IF Do("use") THEN r.users \cup {Given} ELSE r.users \ {Given}
    OBVIOUS
  <2>2. x[1] \in {"use", "unuse"} /\ Given \in Users /\ Given = x[3]
    BY <1>1, <1>4 DEF UserStep, Given
  <2> DEFINE q == [r EXCEPT !.users = U]
  <2>3. U \in SUBSET Users /\ (x[1] = "use" => U \subseteq r.users \cup {x[3]}) /\ (x[1] = "unuse" => U \subseteq r.users)
    BY <1>1, <2>1, <2>2 DEF Device
  <2>4. dev' = [dev EXCEPT ![d] = q]
    BY <1>4, <2>1 DEF UserStep, Set
  <2>5. Changes(x, q, r) /\ q \in Device
    BY <1>1, <2>2, <2>3 DEF Changes, Device
  <2> HIDE DEF q, r
  <2>6. QED
    BY <1>1, <1>2, <2>2, <2>4, <2>5 DEF r
<1>5. CASE OpenStep \/ SliderStep
  <2>1. x[1] \in {"open", "open_slider"} /\ dev' = dev
    BY <1>1, <1>5 DEF OpenStep, SliderStep
  <2>2. Changes(x, r, r)
    BY <1>1, <2>1 DEF Changes
  <2> HIDE DEF r
  <2>3. QED
    BY <1>1, <1>3, <2>1, <2>2 DEF r
<1>6. CASE WorkerStep
  <2>1. CASE Do("set_fd") /\ reader # d /\ Set([r EXCEPT !.fd = FileSet])
    <3> DEFINE q == [r EXCEPT !.fd = FileSet]
    <3>1. x[1] = "set_fd" /\ dev' = [dev EXCEPT ![d] = q]
      BY <1>1, <2>1 DEF Set
    <3>2. FileSet \in {None, "open", "stale"}
      BY DEF FileSet
    <3> HIDE DEF FileSet
    <3>3. Changes(x, q, r) /\ q \in Device /\ q.fd = FileSet
      BY <1>1, <3>1, <3>2 DEF Changes, Device
    <3> HIDE DEF q, r
    <3>4. QED
      BY <1>1, <1>2, <2>1, <3>1, <3>3 DEF r
  <2>2. CASE Do("drop_fd") /\ reader # d /\ Set([r EXCEPT !.fd = None])
    <3> DEFINE q == [r EXCEPT !.fd = None]
    <3>1. x[1] = "drop_fd" /\ dev' = [dev EXCEPT ![d] = q]
      BY <1>1, <2>2 DEF Set
    <3>2. Changes(x, q, r) /\ q \in Device
      BY <1>1, <3>1 DEF Changes, Device
    <3> HIDE DEF q, r
    <3>3. QED
      BY <1>1, <1>2, <2>2, <3>1, <3>2 DEF r
  <2>3. CASE Do("resume") /\ Set([r EXCEPT !.mode = "run"])
    <3> DEFINE q == [r EXCEPT !.mode = "run"]
    <3>1. x[1] = "resume" /\ dev' = [dev EXCEPT ![d] = q]
      BY <1>1, <2>3 DEF Set
    <3>2. Changes(x, q, r) /\ q \in Device
      BY <1>1, <3>1 DEF Changes, Device
    <3> HIDE DEF q, r
    <3>3. QED
      BY <1>1, <1>2, <3>1, <3>2 DEF r
  <2>4. CASE Do("suspend") /\ Set([r EXCEPT !.mode = "sleep"])
    <3> DEFINE q == [r EXCEPT !.mode = "sleep"]
    <3>1. x[1] = "suspend" /\ dev' = [dev EXCEPT ![d] = q]
      BY <1>1, <2>4 DEF Set
    <3>2. Changes(x, q, r) /\ q \in Device
      BY <1>1, <3>1, SMTT(30) DEF Changes, Device
    <3> HIDE DEF q, r
    <3>3. QED
      BY <1>1, <1>2, <3>1, <3>2 DEF r
  <2>5. QED
    BY <1>6, <2>1, <2>2, <2>3, <2>4 DEF WorkerStep
<1>7. CASE InitStep
  <2>1. ASSUME NEW path \in BOOLEAN, Do("phys_path"), Set([r EXCEPT !.path = path])
        PROVE  Wanted
    <3> DEFINE q == [r EXCEPT !.path = path]
    <3>1. x[1] = "phys_path" /\ dev' = [dev EXCEPT ![d] = q]
      BY <1>1, <2>1 DEF Set
    <3>2. Changes(x, q, r) /\ q \in Device
      BY <1>1, <3>1 DEF Changes, Device
    <3> HIDE DEF q, r
    <3>3. QED
      BY <1>1, <1>2, <3>1, <3>2 DEF r
  <2>2. CASE Do("compass_API_Init") /\ dev' = dev
    <3>1. x[1] = "compass_API_Init"
      BY <1>1, <2>2
    <3>2. Changes(x, r, r)
      BY <1>1, <3>1 DEF Changes
    <3> HIDE DEF r
    <3>3. QED
      BY <1>1, <1>3, <2>2, <3>1, <3>2 DEF r
  <2>3. CASE Do("select_init") /\ Set([r EXCEPT !.mode = "sleep"])
    <3> DEFINE q == [r EXCEPT !.mode = "sleep"]
    <3>1. x[1] = "select_init" /\ dev' = [dev EXCEPT ![d] = q]
      BY <1>1, <2>3 DEF Set
    <3>2. Changes(x, q, r) /\ q \in Device
      BY <1>1, <3>1, SMTT(30) DEF Changes, Device
    <3> HIDE DEF q, r
    <3>3. QED
      BY <1>1, <1>2, <3>1, <3>2 DEF r
  <2>4. CASE Do("destroy") /\ reader # d /\ Set([r EXCEPT !.mode = None, !.fd = None])
    <3> DEFINE p == [r EXCEPT !.mode = None]
               q == [p EXCEPT !.fd = None]
    <3>1. x[1] = "destroy" /\ dev' = [dev EXCEPT ![d] = q]
      BY <1>1, <2>4 DEF Set
    <3>2. /\ p \in Device /\ p.internal = r.internal /\ p.external = r.external /\ p.applied = r.applied
          /\ p.power = r.power /\ p.path = r.path /\ p.users = r.users
      BY <1>1 DEF Device
    <3> HIDE DEF p, r
    <3>3. /\ q \in Device /\ q.internal = r.internal /\ q.external = r.external /\ q.applied = r.applied
          /\ q.power = r.power /\ q.path = r.path /\ q.users = r.users /\ q.fd = None
      BY <3>2 DEF Device
    <3> HIDE DEF q
    <3>4. Changes(x, q, r)
      BY <3>1, <3>3 DEF Changes
    <3>5. QED
      BY <1>1, <1>2, <2>4, <3>1, <3>3, <3>4 DEF r
  <2>5. QED
    BY <1>1, <1>7, <2>1, <2>2, <2>3, <2>4, Zenon DEF InitStep
<1>8. CASE DelayStep
  <2>1. CASE Do("internal") /\ Set([r EXCEPT !.internal = Given])
    <3> DEFINE q == [r EXCEPT !.internal = Given]
    <3>1. x[1] = "internal" /\ dev' = [dev EXCEPT ![d] = q] /\ Given \in Nat
      BY <1>1, <2>1 DEF Set
    <3>2. Changes(x, q, r) /\ q \in Device
      BY <1>1, <3>1 DEF Changes, Device
    <3> HIDE DEF q, r
    <3>3. QED
      BY <1>1, <1>2, <3>1, <3>2 DEF r
  <2>2. CASE Do("external") /\ Set([r EXCEPT !.external = Given])
    <3> DEFINE q == [r EXCEPT !.external = Given]
    <3>1. x[1] = "external" /\ dev' = [dev EXCEPT ![d] = q] /\ Given \in Nat
      BY <1>1, <2>2 DEF Set
    <3>2. Changes(x, q, r) /\ q \in Device
      BY <1>1, <3>1 DEF Changes, Device
    <3> HIDE DEF q, r
    <3>3. QED
      BY <1>1, <1>2, <3>1, <3>2 DEF r
  <2>3. QED
    BY <1>8, <2>1, <2>2 DEF DelayStep
<1>9. CASE UpdateStep
  <2>1. x[1] = "update"
    BY <1>1, <1>9 DEF UpdateStep
  <2>2. PICK q : dev' = [dev EXCEPT ![d] = q] /\ q \in Device /\ Kept(q, r)
    <3>1. CASE dev' = dev
      <4>1. dev' = [dev EXCEPT ![d] = r] /\ r \in Device
        BY <1>1, <3>1
      <4>2. Kept(r, r)
        BY DEF Kept
      <4>3. QED
        BY <4>1, <4>2
    <3>2. ASSUME NEW ms \in Nat, set_pollrate(ms)
          PROVE  \E q : dev' = [dev EXCEPT ![d] = q] /\ q \in Device /\ Kept(q, r)
      <4>1. PICK b \in BOOLEAN, p \in {r.power, rate2mode(ms)} :
              dev' = [dev EXCEPT ![d] = IF ~b THEN r ELSE [r EXCEPT !.applied = ms, !.power = p]]
        <5> DEFINE changes == Target = "acc" /\ found.acc = "dlhc" /\ mode_before(ms) # rate2mode(ms) /\ dev[Target].path
        <5>1. PICK rate \in BOOLEAN, mode \in BOOLEAN :
                Set(IF ~rate THEN dev[Target]
                    ELSE [dev[Target] EXCEPT !.applied = ms,
                             !.power = IF changes /\ mode THEN rate2mode(ms) ELSE dev[Target].power])
          <6>1. {TRUE, dev[Target].path => Target \notin Refusing} \subseteq BOOLEAN
            OBVIOUS
          <6>2. QED
            BY <3>2, <6>1, Zenon DEF set_pollrate
        <5> DEFINE p == IF changes /\ mode THEN rate2mode(ms) ELSE r.power
        <5>2. p \in {r.power, rate2mode(ms)}
          OBVIOUS
        <5>3. dev' = [dev EXCEPT ![d] = IF ~rate THEN r ELSE [r EXCEPT !.applied = ms, !.power = p]]
          BY <5>1, Zenon DEF Set
        <5> HIDE DEF p, r
        <5>4. QED
          BY <5>2, <5>3
      <4>2. CASE ~b
        <5>1. dev' = [dev EXCEPT ![d] = r] /\ r \in Device
          BY <1>1, <4>1, <4>2
        <5>2. Kept(r, r)
          BY DEF Kept
        <5>3. QED
          BY <5>1, <5>2
      <4>3. CASE b
        <5> DEFINE q1 == [r EXCEPT !.applied = ms]
                   q2 == [q1 EXCEPT !.power = p]
        <5>1. dev' = [dev EXCEPT ![d] = q2]
          BY <4>1, <4>3
        <5>2. p \in {"default", "poll", "irq"}
          BY <1>1, <4>1 DEF Device, rate2mode
        <5>3. q1 \in Device /\ Kept(q1, r)
          BY <1>1, <3>2 DEF Device, Kept
        <5> HIDE DEF q1, r
        <5>4. q2 \in Device /\ Kept(q2, q1)
          BY <5>2, <5>3 DEF Device, Kept
        <5> HIDE DEF q2
        <5>5. Kept(q2, r)
          BY <5>3, <5>4 DEF Kept
        <5>6. QED
          BY <5>1, <5>4, <5>5
      <4>4. QED
        BY <4>2, <4>3
    <3>3. update_delay(r) \in Nat
      BY <1>1, DelayServes
    <3>4. dev' = dev \/ set_pollrate(update_delay(r))
      BY <1>9 DEF UpdateStep
    <3>5. QED
      BY <3>1, <3>2, <3>3, <3>4
  <2>3. Changes(x, q, r)
    BY <2>1, <2>2 DEF Changes, Kept
  <2> HIDE DEF r
  <2>4. QED
    BY <1>1, <1>2, <2>1, <2>2, <2>3 DEF r
<1>10. QED
  BY <1>1, <1>4, <1>5, <1>6, <1>7, <1>8, <1>9 DEF CallStep

\* What the steps leave of the call and of what was noted.
Records ==
  /\ hist'.odd = hist.odd /\ hist'.asked = hist.asked
  /\ \E ok \in BOOLEAN : hist'.want \in {hist.want, Held(ok)}
  /\ call' = NoCall \/ (call'.sensor = call.sensor /\ call'.what = call.what)

(* A call that goes on, or ends, has its type.                             *)
LEMMA GoesTyped ==
  ASSUME Types, call.sensor \in Sensors, NEW R \in Seq(Step), NEW h \in HistType, NEW ok \in BOOLEAN,
         h.want = hist.want, h.odd = hist.odd, h.asked = hist.asked, Goes(R, h, ok)
  PROVE  call' \in CallType /\ hist' \in HistType /\ Records
<1>1. call \in CallType /\ hist \in HistType
  BY DEF Types
<1>2. Held(ok) \subseteq Sensors
  BY <1>1 DEF Held, HistType
<1>3. CASE R = <<>>
  <2>1. call' = NoCall /\ hist' = [h EXCEPT !.want = Held(ok)]
    BY <1>3 DEF Goes
  <2>2. NoCall \in CallType
    <3> DEFINE E == <<>>
    <3>1. E \in Seq(Step)
      OBVIOUS
    <3> HIDE DEF E
    <3>2. [sensor |-> None, what |-> None, todo |-> E, slider |-> FALSE, ok |-> TRUE] \in CallType
      BY <3>1 DEF CallType
    <3>3. QED
      BY <3>2 DEF NoCall, E
  <2>3. hist' \in HistType /\ hist'.want = Held(ok)
    BY <1>2, <2>1 DEF HistType
  <2>4. hist'.odd = h.odd /\ hist'.asked = h.asked
    BY <2>1 DEF HistType
  <2>5. QED
    BY <2>1, <2>2, <2>3, <2>4 DEF Records
<1>4. CASE R # <<>>
  <2>1. call' = [call EXCEPT !.todo = R, !.ok = ok] /\ hist' = h
    BY <1>4 DEF Goes
  <2> DEFINE c1 == [call EXCEPT !.todo = R]
  <2>2. c1 \in CallType /\ c1.sensor = call.sensor /\ c1.what = call.what
    BY <1>1 DEF CallType
  <2>3. call' = [c1 EXCEPT !.ok = ok]
    BY <2>1
  <2> HIDE DEF c1
  <2>4. call' \in CallType /\ call'.sensor = call.sensor /\ call'.what = call.what
    BY <2>2, <2>3 DEF CallType
  <2>5. QED
    BY <2>1, <2>4 DEF Records
<1>5. QED
  BY <1>3, <1>4

(* A step keeps the types, and what was noted, but for what it is about.   *)
LEMMA StepTypes ==
  ASSUME Types, CallStep, call.sensor \in Sensors
  PROVE  Types' /\ Records
<1>1. /\ ~Rest /\ Target \in Sensors /\ Tail(call.todo) \in Seq(Step) /\ call \in CallType /\ hist \in HistType
      /\ found \in FoundType /\ call.ok \in BOOLEAN
      /\ Head(call.todo)[1] \in {"use", "unuse", "open"} => Given \in Users
  <2>1. ~Rest
    BY DEF CallStep, UserStep, OpenStep, SliderStep, WorkerStep, InitStep, DelayStep, UpdateStep, Do
  <2>2. QED
    BY <2>1, StepTyped DEF Types, CallType
<1>2. found' = found /\ dev' \in [Sensors -> Device]
  BY StepKeeps, StepChanges
<1>3. ASSUME NEW R \in Seq(Step), NEW h \in HistType, NEW ok \in BOOLEAN,
             h.want = hist.want, h.odd = hist.odd, h.asked = hist.asked, Goes(R, h, ok)
      PROVE  call' \in CallType /\ hist' \in HistType /\ Records
  BY <1>3, GoesTyped
<1>4. CASE UserStep
  <2> DEFINE h == [hist EXCEPT !.left = hist.left \ {<<Target, Given>>}]
  <2>1. h \in HistType /\ h.want = hist.want /\ h.odd = hist.odd /\ h.asked = hist.asked
    BY <1>1 DEF HistType
  <2>2. Goes(Tail(call.todo), h, call.ok)
    BY <1>4 DEF UserStep
  <2> HIDE DEF h
  <2>3. QED
    BY <1>1, <1>2, <1>3, <2>1, <2>2 DEF Types
<1>5. CASE OpenStep
  <2> DEFINE h == [hist EXCEPT !.left = hist.left \cup {<<Target, Given>>, <<call.sensor, EXTERNAL>>}]
             E == IF call.sensor = "compass" THEN err_exit(Target) ELSE <<>>
  <2>1. Given \in Users /\ EXTERNAL \in Users
    BY <1>1, <1>5 DEF OpenStep, Do, Users
  <2>2. h \in HistType /\ h.want = hist.want /\ h.odd = hist.odd /\ h.asked = hist.asked
    BY <1>1, <2>1 DEF HistType
  <2>3. E \in Seq(Step)
    <3> DEFINE N == <<>>
    <3>1. N \in Seq(Step) /\ "acc" \in Sensors /\ INTERNAL \in Users
      BY DEF Sensors, Devices, Users
    <3>2. E = N \/ E = Disable("acc", INTERNAL, N, dev["acc"])
      <4>1. sensor_activate_local("acc", FALSE, INTERNAL) = Disable("acc", INTERNAL, <<>>, dev["acc"])
        BY <3>1, LocalAlone
      <4>2. QED
        BY <4>1 DEF err_exit
    <3> HIDE DEF N, E
    <3>3. Disable("acc", INTERNAL, N, dev["acc"]) \in Seq(Step)
      BY <3>1, DisableListed
    <3>4. QED
      BY <3>1, <3>2, <3>3
  <2>4. Goes(Tail(call.todo), hist, call.ok) \/ Goes(E, h, FALSE)
    BY <1>5 DEF OpenStep, Done
  <2> HIDE DEF h, E
  <2>5. CASE Goes(Tail(call.todo), hist, call.ok)
    BY <1>1, <1>2, <1>3, <2>5 DEF Types
  <2>6. CASE Goes(E, h, FALSE)
    BY <1>2, <1>3, <2>2, <2>3, <2>6, <1>1 DEF Types
  <2>7. QED
    BY <2>4, <2>5, <2>6
<1>6. CASE SliderStep
  <2>1. PICK slider \in BOOLEAN : call' = [call EXCEPT !.todo = Tail(call.todo), !.slider = slider] /\ hist' = hist
    BY <1>1, <1>6 DEF SliderStep, FoundType
  <2> DEFINE R == Tail(call.todo)
             c1 == [call EXCEPT !.todo = R]
  <2>2. R \in Seq(Step) /\ call' = [c1 EXCEPT !.slider = slider]
    BY <1>1, <2>1
  <2> HIDE DEF R
  <2>3. c1 \in CallType /\ c1.sensor = call.sensor /\ c1.what = call.what
    BY <1>1, <2>2 DEF CallType
  <2> HIDE DEF c1
  <2>4. call' \in CallType /\ call'.sensor = call.sensor /\ call'.what = call.what
    BY <2>2, <2>3 DEF CallType
  <2>5. Records
    BY <2>1, <2>4 DEF Records
  <2>6. QED
    BY <1>1, <1>2, <2>1, <2>4, <2>5 DEF Types
<1>7. CASE WorkerStep \/ InitStep \/ DelayStep
  <2>1. Goes(Tail(call.todo), hist, call.ok)
    BY <1>7 DEF WorkerStep, InitStep, DelayStep, Done
  <2>2. QED
    BY <1>1, <1>2, <1>3, <2>1 DEF Types
<1>8. CASE UpdateStep
  <2>1. PICK S, U \in SUBSET {<<Target, "rate">>, <<Target, "mode">>} :
          Goes(Tail(call.todo), [hist EXCEPT !.refused = (hist.refused \ S) \cup U], call.ok)
    <3>1. CASE update_delay(dev[Target]) = dev[Target].applied
      <4> DEFINE S == {<<Target, "rate">>}
                 U == {}
      <4>1. Goes(Tail(call.todo), [hist EXCEPT !.refused = hist.refused \ {<<Target, "rate">>}], call.ok)
        BY <1>8, <3>1 DEF UpdateStep
      <4>2. /\ hist.refused \ {<<Target, "rate">>} = (hist.refused \ S) \cup U
            /\ S \in SUBSET {<<Target, "rate">>, <<Target, "mode">>} /\ U \in SUBSET {<<Target, "rate">>, <<Target, "mode">>}
        OBVIOUS
      <4> HIDE DEF S, U
      <4>3. Goes(Tail(call.todo), [hist EXCEPT !.refused = (hist.refused \ S) \cup U], call.ok)
        BY <4>1, <4>2
      <4>4. QED
        BY <4>2, <4>3
    <3>2. CASE update_delay(dev[Target]) # dev[Target].applied
      <4>1. set_pollrate(update_delay(dev[Target]))
        BY <1>8, <3>2 DEF UpdateStep
      <4>2. QED
        BY <4>1, Zenon DEF set_pollrate
    <3>3. QED
      BY <3>1, <3>2
  <2> DEFINE h == [hist EXCEPT !.refused = (hist.refused \ S) \cup U]
  <2>2. h \in HistType /\ h.want = hist.want /\ h.odd = hist.odd /\ h.asked = hist.asked
    BY <1>1 DEF HistType
  <2> HIDE DEF h
  <2>3. QED
    BY <1>1, <1>2, <1>3, <2>1, <2>2 DEF Types, h
<1>9. QED
  BY <1>4, <1>5, <1>6, <1>7, <1>8 DEF CallStep

(***************************************************************************)
(* The invariant.                                                          *)
(***************************************************************************)

Known ==
  /\ up \subseteq Registered /\ hist.want \subseteq Registered /\ reader \in Registered \cup {None}
  /\ call = NoCall \/ call.sensor \in Registered
  /\ dev["compass"].users \subseteq {EXTERNAL}

\* Once a sensor has been closed, only closes follow.
UseInv ==
  /\ Closed => call = NoCall \/ (call.what = "close" /\ call.todo = Destroy(call.sensor))
  /\ ~Closed => Stage(call, dev, hist)

\* A sensor is initialised once, before any is used.
FreshInv ==
  /\ call.what = "init" => ~Closed /\ call.sensor \notin up
  /\ call.what \in {"enable", "disable", "set_delay"} => ~Closed /\ up = Registered
  /\ Closed \/ up = Registered
       \/ \A s \in Sensors : dev[s].mode # "run" /\ dev[s].applied = 0 /\ dev[s].power = "default"

FdInv ==
  /\ \A s \in Sensors : dev[s].fd # None => s \in Registered
  /\ StaleOnlyIfEnabledTwice
  /\ reader # None => dev[reader].fd = "open"

\* The rate of a device serves its delays but between a delay and its update.
RateInv ==
  ~Closed => \A d \in Devices : \/ ~Rest /\ Head(call.todo) = <<"update", d>>
                                \/ Serves(dev[d], <<d, "rate">> \in hist.refused)

\* The devices know the compass's delay but while they are told.
AskedInv ==
  ~Closed => /\ Disabling(call) => hist.asked = 0
             /\ \/ Disabling(call) \/ (call.what = "set_delay" /\ call.sensor = "compass")
                \/ \A d \in Devices : dev[d].internal = hist.asked

ModeInv ==
  found.acc = "dlhc" /\ dev["acc"].path /\ <<"acc", "mode">> \notin hist.refused =>
    \/ dev["acc"].power = rate2mode(dev["acc"].applied)
    \/ dev["acc"].power = "default" /\ dev["acc"].applied < 60

LsmInv ==
  Types /\ Known /\ UseInv /\ FreshInv /\ FdInv /\ RateInv /\ AskedInv /\ ModeInv /\ EventsOnlyWanted

(* Registered sensors are sensors; with the compass, all of them are.      *)
LEMMA RegisteredAre ==
  /\ Registered \subseteq Sensors
  /\ "compass" \in Registered => Registered = Sensors
BY DEF Registered, Sensors, Devices

(* A call under way is at a step that fits it, or closes a sensor.         *)
LEMMA UnderWay ==
  ASSUME Types, Known, UseInv, ~Rest
  PROVE  /\ call # NoCall /\ call.sensor \in Registered /\ call.sensor \in Sensors
         /\ ~Closed => Stage(call, dev, hist) /\ Fits(Head(call.todo), Tail(call.todo), call, dev, hist)
         /\ Closed => call.what = "close" /\ call.todo = Destroy(call.sensor)
<1>1. call # NoCall
  BY DEF NoCall, Rest
<1>2. call.sensor \in Registered /\ call.sensor \in Sensors
  BY <1>1, RegisteredAre DEF Known
<1>3. hist.asked \in Nat
  BY DEF Types, HistType
<1>4. ASSUME ~Closed
      PROVE  Stage(call, dev, hist) /\ Fits(Head(call.todo), Tail(call.todo), call, dev, hist)
  <2>1. Stage(call, dev, hist)
    BY <1>4 DEF UseInv
  <2>2. AtRest(call, dev, hist) \/ Busy(call, dev, hist)
    BY <1>3, <2>1, StageBusy
  <2>3. QED
    BY <1>1, <2>1, <2>2 DEF AtRest, Busy
<1>5. Closed => call.what = "close" /\ call.todo = Destroy(call.sensor)
  BY <1>1 DEF UseInv
<1>6. QED
  BY <1>1, <1>2, <1>4, <1>5

(* Between the calls everything is settled.                                *)
LEMMA BetweenCalls ==
  ASSUME Types, Known, UseInv, Rest
  PROVE  call = NoCall /\ (~Closed => Quiet(dev, hist))
<1>1. ASSUME ~Closed
      PROVE  AtRest(call, dev, hist)
  <2>1. hist.asked \in Nat
    BY DEF Types, HistType
  <2>2. Stage(call, dev, hist)
    BY <1>1 DEF UseInv
  <2>3. AtRest(call, dev, hist) \/ Busy(call, dev, hist)
    BY <2>1, <2>2, StageBusy
  <2>4. QED
    BY <2>3 DEF Busy, Rest
<1>2. ASSUME Closed
      PROVE  call = NoCall
  <2>1. SUFFICES ASSUME call # NoCall
                 PROVE  FALSE
    OBVIOUS
  <2>2. call.sensor \in Sensors /\ call.todo = Destroy(call.sensor)
    BY <1>2, <2>1, RegisteredAre DEF Known, UseInv
  <2>3. Destroy(call.sensor) # <<>>
    BY <2>2, InitSteps
  <2>4. QED
    BY <2>2, <2>3 DEF Rest
<1>3. QED
  BY <1>1, <1>2 DEF AtRest

(* The steps of a close are of the one step.                               *)
LEMMA ClosesAt ==
  ASSUME Types, Known, UseInv, CallStep, Closed
  PROVE  /\ Head(call.todo) = <<"destroy", call.sensor>> /\ Target = call.sensor
         /\ call' = NoCall /\ up' = up \ {Target}
<1>1. ~Rest
  BY StepNamed
<1>2. call.sensor \in Sensors /\ call.todo = Destroy(call.sensor) /\ call.what = "close"
  BY <1>1, UnderWay
<1>3. Head(call.todo) = <<"destroy", call.sensor>> /\ Tail(call.todo) = <<>>
  BY <1>2, InitSteps
<1>4. Target = call.sensor /\ Head(call.todo)[1] = "destroy"
  BY <1>3 DEF Target
<1>5. InitStep
  BY <1>4, StepNamed
<1>6. Done /\ up' = up \ {Target}
  BY <1>4, <1>5 DEF InitStep, Do
<1>7. call' = NoCall
  BY <1>3, <1>6 DEF Done, Goes
<1>8. QED
  BY <1>3, <1>4, <1>6, <1>7

(***************************************************************************)
(* The steps of a call keep the invariant.                                 *)
(***************************************************************************)

(* The sensor of a step is registered, and what a step leaves is known.    *)
LEMMA StepKnown ==
  ASSUME Types, Known, UseInv, CallStep
  PROVE  /\ Target \in Registered /\ Registered' = Registered /\ reader' = reader
         /\ Records /\ Types' /\ (Closed' <=> Closed) /\ call.sensor \in Registered
         /\ up' \in {up, up \cup {Target}, up \ {Target}}
<1>1. ~Rest /\ call.sensor \in Registered /\ call.sensor \in Sensors
  BY StepNamed, UnderWay
<1>2. Types' /\ Records
  BY <1>1, StepTypes
<1>3. found' = found /\ reader' = reader
  BY StepKeeps
<1>4. Registered' = Registered
  BY <1>3 DEF Registered
<1>5. Closed' <=> Closed
  BY <1>2 DEF Records, Closed
<1>6. Target \in Registered
  <2>1. CASE Closed
    BY <1>1, <2>1, ClosesAt
  <2>2. CASE ~Closed
    <3>1. Fits(Head(call.todo), Tail(call.todo), call, dev, hist)
      BY <1>1, <2>2, UnderWay
    <3>2. Target = call.sensor \/ call.sensor = "compass"
      BY <3>1 DEF Fits, Target
    <3>3. Target \in Sensors
      BY <1>1, StepTyped
    <3>4. QED
      BY <1>1, <3>2, <3>3, RegisteredAre
  <2>3. QED
    BY <2>1, <2>2
<1>7. up' \in {up, up \cup {Target}, up \ {Target}}
  BY DEF CallStep, UserStep, OpenStep, SliderStep, WorkerStep, InitStep, DelayStep, UpdateStep
<1>8. QED
  BY <1>1, <1>2, <1>3, <1>4, <1>5, <1>6, <1>7

(* What is called, used and read stays known.                              *)
LEMMA StepKeepsKnown ==
  ASSUME Types, Known, UseInv, CallStep
  PROVE  Known'
<1> DEFINE x == Head(call.todo)
<1>1. ~Rest
  BY StepNamed
<1>2. /\ Target \in Registered /\ Registered' = Registered /\ reader' = reader /\ call.sensor \in Registered
      /\ Records /\ up' \in {up, up \cup {Target}, up \ {Target}}
  BY StepKnown
<1>3. up' \subseteq Registered'
  BY <1>2 DEF Known
<1>4. hist'.want \subseteq Registered'
  <2>1. ASSUME NEW ok \in BOOLEAN
        PROVE  Held(ok) \subseteq hist.want \cup {call.sensor}
    BY DEF Held
  <2>2. hist'.want \subseteq hist.want \cup {call.sensor}
    BY <1>2, <2>1 DEF Records
  <2>3. QED
    BY <1>2, <2>2 DEF Known
<1>5. call' = NoCall \/ call'.sensor \in Registered'
  BY <1>2 DEF Records
<1>6. dev'["compass"].users \subseteq {EXTERNAL}
  <2>1. /\ Changes(x, dev'[Target], dev[Target]) /\ \A s \in Sensors \ {Target} : dev'[s] = dev[s]
    BY StepChanges
  <2>2. CASE Target # "compass"
    BY <2>1, <2>2 DEF Known, Sensors
  <2>3. CASE Target = "compass" /\ x[1] \notin {"use", "unuse"}
    BY <2>1, <2>3 DEF Known, Changes
  <2>4. CASE Target = "compass" /\ x[1] = "unuse"
    BY <2>1, <2>4 DEF Known, Changes
  <2>5. CASE Target = "compass" /\ x[1] = "use"
    <3>1. ~Closed
      <4>1. Closed => x[1] = "destroy"
        BY ClosesAt
      <4>2. QED
        BY <2>5, <4>1
    <3>2. Fits(x, Tail(call.todo), call, dev, hist)
      BY <1>1, <3>1, UnderWay
    <3>3. x[3] = EXTERNAL
      BY <2>5, <3>2 DEF Fits, Target
    <3>4. QED
      BY <2>1, <2>5, <3>3 DEF Known, Changes
  <2>6. QED
    BY <2>2, <2>3, <2>4, <2>5
<1>7. QED
  BY <1>2, <1>3, <1>4, <1>5, <1>6 DEF Known

(* The call goes on to another of its stages.                              *)
LEMMA StepKeepsUse ==
  ASSUME Types, Known, UseInv, FreshInv, CallStep
  PROVE  UseInv'
<1>1. ~Rest
  BY StepNamed
<1>2. Closed' <=> Closed
  BY StepKnown
<1>3. CASE Closed
  BY <1>2, <1>3, ClosesAt DEF UseInv
<1>4. CASE ~Closed
  <2>1. Stage(call, dev, hist) /\ call.sensor \in Registered /\ call.sensor \in Sensors
    BY <1>1, <1>4, UnderWay
  <2>2. call.what = "init" => dev[call.sensor].mode # "run"
    BY <1>4, <2>1 DEF FreshInv
  <2>3. Stage(call', dev', hist')
    BY <2>1, <2>2, StageGoesOn
  <2>4. QED
    BY <1>2, <1>4, <2>3 DEF UseInv
<1>5. QED
  BY <1>3, <1>4

(* A sensor is initialised once, and nothing is used before all are.       *)
LEMMA StepKeepsFresh ==
  ASSUME Types, Known, UseInv, FreshInv, CallStep
  PROVE  FreshInv'
<1> DEFINE x == Head(call.todo)
<1>1. ~Rest
  BY StepNamed
<1>2. /\ Target \in Registered /\ Registered' = Registered /\ call.sensor \in Registered
      /\ Records /\ (Closed' <=> Closed)
  BY StepKnown
<1>3. CASE Closed
  <2>1. call' = NoCall
    BY <1>3, ClosesAt
  <2>2. call'.what = None
    BY <2>1 DEF NoCall
  <2>3. QED
    BY <1>2, <1>3, <2>2 DEF FreshInv, None
<1>4. CASE ~Closed
  <2>1. /\ Fits(x, Tail(call.todo), call, dev, hist)
    BY <1>1, <1>4, UnderWay
  <2>2. x[1] # "destroy" /\ (x[1] = "select_init" => call.what = "init" /\ Target = call.sensor /\ Tail(call.todo) = <<>>)
    BY <2>1 DEF Fits, Target
  <2>3. x[1] # "select_init" => up' = up
    BY <2>2, StepKeeps
  <2>4. x[1] = "select_init" => call' = NoCall /\ up' = up \cup {Target}
    <3>1. SUFFICES ASSUME x[1] = "select_init"
                   PROVE  call' = NoCall /\ up' = up \cup {Target}
      OBVIOUS
    <3>2. InitStep
      BY <3>1, StepNamed
    <3>3. Done /\ up' = up \cup {Target}
      BY <3>1, <3>2 DEF InitStep, Do
    <3>4. QED
      BY <2>2, <3>1, <3>3 DEF Done, Goes
  <2>5. call'.what = None \/ (call'.sensor = call.sensor /\ call'.what = call.what /\ call' # NoCall)
    BY <1>2 DEF Records, NoCall
  <2>6. call'.what = "init" => ~Closed' /\ call'.sensor \notin up'
    BY <1>2, <1>4, <2>3, <2>4, <2>5 DEF FreshInv, None
  <2>7. call'.what \in {"enable", "disable", "set_delay"} => ~Closed' /\ up' = Registered'
    BY <1>2, <1>4, <2>2, <2>3, <2>5 DEF FreshInv, None
  <2>8. up' = Registered' \/ \A s \in Sensors : dev'[s].mode # "run" /\ dev'[s].applied = 0 /\ dev'[s].power = "default"
    <3>1. CASE up = Registered
      BY <1>2, <2>3, <2>4, <3>1
    <3>2. CASE up # Registered
      <4>1. \A s \in Sensors : dev[s].mode # "run" /\ dev[s].applied = 0 /\ dev[s].power = "default"
        BY <1>4, <3>2 DEF FreshInv
      <4>2. call.what = "init"
        BY <2>1, <3>2 DEF Fits, FreshInv
      <4>3. x[1] \in {"phys_path", "compass_API_Init", "select_init"}
        BY <2>1, <4>2 DEF Fits
      <4>4. Changes(x, dev'[Target], dev[Target]) /\ \A s \in Sensors \ {Target} : dev'[s] = dev[s]
        BY StepChanges
      <4>5. Target \in Sensors
        BY <1>2, RegisteredAre
      <4>6. dev'[Target].applied = dev[Target].applied /\ dev'[Target].power = dev[Target].power
            /\ dev'[Target].mode \in {dev[Target].mode, "sleep"}
        BY <4>3, <4>4 DEF Changes
      <4>7. QED
        BY <4>1, <4>4, <4>5, <4>6
    <3>3. QED
      BY <3>1, <3>2
  <2>9. QED
    BY <2>6, <2>7, <2>8 DEF FreshInv
<1>5. QED
  BY <1>3, <1>4

(* Files stay with registered sensors, and a callback with an open one.    *)
LEMMA StepKeepsFd ==
  ASSUME Types, Known, UseInv, FdInv, CallStep
  PROVE  FdInv'
<1> DEFINE x == Head(call.todo)
           d == Target
<1>1. ~Rest
  BY StepNamed
<1>2. /\ d \in Registered /\ d \in Sensors /\ Registered' = Registered /\ reader' = reader /\ hist'.odd = hist.odd
  BY StepKnown, RegisteredAre DEF Records
<1>3. /\ Changes(x, dev'[d], dev[d]) /\ \A s \in Sensors \ {d} : dev'[s] = dev[s]
      /\ x[1] \in {"set_fd", "drop_fd", "destroy"} => reader # d
      /\ x[1] = "set_fd" => dev'[d].fd = FileSet
  BY StepChanges
<1>4. \A s \in Sensors : dev'[s].fd # None => s \in Registered
  BY <1>2, <1>3 DEF FdInv
<1>5. reader # None => dev'[reader].fd = "open"
  <2>1. SUFFICES ASSUME reader # None
                 PROVE  dev'[reader].fd = "open"
    OBVIOUS
  <2>2. reader \in Sensors /\ dev[reader].fd = "open"
    BY <2>1, RegisteredAre DEF Known, FdInv
  <2>3. CASE reader # d
    BY <1>3, <2>2, <2>3
  <2>4. CASE reader = d
    BY <1>3, <2>2, <2>4 DEF Changes
  <2>5. QED
    BY <2>3, <2>4
<1>6. dev'[d].fd = "stale" => d = "compass" /\ "twice" \in hist.odd
  <2>1. SUFFICES ASSUME dev'[d].fd = "stale"
                 PROVE  d = "compass" /\ "twice" \in hist.odd
    OBVIOUS
  <2>2. CASE x[1] = "set_fd"
    <3>1. ~Closed
      <4>1. Closed => x[1] = "destroy"
        BY ClosesAt
      <4>2. QED
        BY <2>2, <4>1
    <3>2. Fits(x, Tail(call.todo), call, dev, hist)
      BY <1>1, <3>1, UnderWay
    <3>3. d = "compass" /\ dev[d].fd # None
      BY <1>2, <1>3, <2>1, <2>2 DEF FileSet, Sensors, None
    <3>4. QED
      BY <2>2, <3>2, <3>3 DEF Fits, Target
  <2>3. CASE x[1] \in {"drop_fd", "destroy"}
    BY <1>3, <2>1, <2>3 DEF Changes, None
  <2>4. CASE x[1] \notin {"set_fd", "drop_fd", "destroy"}
    BY <1>2, <1>3, <2>1, <2>4 DEF Changes, FdInv, StaleOnlyIfEnabledTwice
  <2>5. QED
    BY <2>2, <2>3, <2>4
<1>7. \A s \in Sensors : dev'[s].fd = "stale" => s = "compass" /\ "twice" \in hist'.odd
  BY <1>2, <1>3, <1>6 DEF FdInv, StaleOnlyIfEnabledTwice
<1>8. QED
  BY <1>2, <1>4, <1>5, <1>7 DEF FdInv, StaleOnlyIfEnabledTwice

(* The rates serve the delays noted, but before an update of theirs.       *)
LEMMA StepKeepsRate ==
  ASSUME Types, Known, UseInv, RateInv, CallStep
  PROVE  RateInv'
<1> DEFINE x == Head(call.todo)
           d == Target
<1>1. ~Rest
  BY StepNamed
<1>2. d \in Sensors /\ (Closed' <=> Closed)
  BY StepKnown, RegisteredAre
<1>3. /\ Changes(x, dev'[d], dev[d]) /\ \A s \in Sensors \ {d} : dev'[s] = dev[s]
  BY StepChanges
<1>4. SUFFICES ASSUME ~Closed, NEW e \in Devices
               PROVE  \/ call'.todo # <<>> /\ Head(call'.todo) = <<"update", e>>
                      \/ Serves(dev'[e], <<e, "rate">> \in hist'.refused)
  BY <1>2 DEF RateInv, Rest
<1>5. Fits(x, Tail(call.todo), call, dev, hist)
  BY <1>1, <1>4, UnderWay
<1>6. x # <<"update", e>> => Serves(dev[e], <<e, "rate">> \in hist.refused)
  BY <1>4 DEF RateInv
<1>7. CASE e # d
  <2>1. e \in Sensors /\ dev'[e] = dev[e]
    BY <1>3, <1>7 DEF Sensors
  <2>2. <<e, "rate">> \in hist'.refused <=> <<e, "rate">> \in hist.refused
    BY <1>7, <2>1, RefusedOf
  <2>3. x # <<"update", e>>
    BY <1>7 DEF Target
  <2>4. QED
    BY <1>6, <2>1, <2>2, <2>3 DEF Serves
<1>8. CASE e = d /\ x[1] = "update"
  <2>1. x = <<"update", d>>
    BY <1>5, <1>8 DEF Fits, Target
  <2>2. Serves(dev'[d], <<d, "rate">> \in hist'.refused)
    BY <1>2, <2>1, UpdateAfter
  <2>3. QED
    BY <1>8, <2>2
<1>9. CASE e = d /\ x[1] \in {"internal", "external"}
  <2>1. Tail(call.todo) # <<>> /\ Head(Tail(call.todo)) = <<"update", d>>
    BY <1>5, <1>9 DEF Fits, Target
  <2>2. DelayStep
    BY <1>9, StepNamed
  <2>3. call' = [call EXCEPT !.todo = Tail(call.todo), !.ok = call.ok]
    BY <2>1, <2>2 DEF DelayStep, Done, Goes
  <2>4. call \in CallType
    BY DEF Types
  <2> DEFINE T == Tail(call.todo)
  <2>5. call' = [call EXCEPT !.todo = T, !.ok = call.ok]
    BY <2>3
  <2> HIDE DEF T
  <2>6. call'.todo = T
    BY <2>4, <2>5 DEF CallType
  <2>7. QED
    BY <1>9, <2>1, <2>6 DEF T
<1>10. CASE e = d /\ x[1] \notin {"update", "internal", "external"}
  <2>1. x # <<"update", e>>
    BY <1>10
  <2>2. hist'.refused = hist.refused
    BY <1>10, RefusedOf
  <2>3. dev'[d].internal = dev[d].internal /\ dev'[d].external = dev[d].external /\ dev'[d].applied = dev[d].applied
    BY <1>3, <1>10 DEF Changes
  <2>4. QED
    BY <1>6, <1>10, <2>1, <2>2, <2>3 DEF Serves
<1>11. QED
  BY <1>7, <1>8, <1>9, <1>10

(* The last step of a set_delay and of a disable of the compass leaves     *)
(* both devices with the delay asked.                                      *)
LEMMA CompassAsked ==
  ASSUME Types, Known, UseInv, ~Closed, CallStep, call' = NoCall, call.sensor = "compass",
         call.what = "set_delay" \/ (call.what = "disable" /\ hist.asked = 0)
  PROVE  \A d \in Devices : dev'[d].internal = hist'.asked
<1>1. ~Rest
  BY StepNamed
<1>2. Stage(call, dev, hist)
  BY <1>1, UnderWay
<1>3. call'.what = None /\ call # NoCall
  BY <1>1 DEF NoCall, Rest
<1>4. CASE call.what = "set_delay"
  <2>1. DelaysCompass(call, dev, hist)
    BY <1>2, <1>3, <1>4 DEF Stage, AtRest, Inits, DelaysOne, EnablesOne, DisablesOne, EnablesCompass, Undoes,
      DisablesCompass, Devices, Enabling
  <2>2. ~DelaysCompass(call', dev', hist')
    BY <1>3 DEF DelaysCompass, None
  <2>3. QED
    BY <2>1, <2>2, DelaysCompassGoesOn
<1>5. CASE call.what = "disable"
  <2>1. DisablesCompass(call, dev, hist) /\ Disabling(call)
    BY <1>2, <1>3, <1>5 DEF Stage, AtRest, Inits, DelaysOne, DelaysCompass, EnablesOne, DisablesOne, EnablesCompass,
      Undoes, Devices, Enabling, Disabling
  <2>2. ~DisablesCompass(call', dev', hist')
    BY <1>3 DEF DisablesCompass, None
  <2>3. UpdatesMag(call, dev, hist)
    BY <2>1, <2>2, LeavesCompassGoesOn, StopsCompassGoesOn, ClosesSliderGoesOn, DisablesAccGoesOn, ClearsAccGoesOn,
      UpdatesAccGoesOn, DisablesMagGoesOn, ClearsMagGoesOn DEF DisablesCompass
  <2>4. call.todo = Update("mag", <<>>) /\ dev["acc"].internal = 0 /\ dev["mag"].internal = 0
    BY <2>3 DEF UpdatesMag, ClearedIn
  <2> DEFINE R == <<>>
  <2>5. R \in Seq(Step) /\ call.todo = Update("mag", R)
    BY <2>4
  <2> HIDE DEF R
  <2>6. Head(call.todo) = <<"update", "mag">>
    BY <2>5, DelaySteps DEF Sensors, Devices
  <2>7. Target = "mag" /\ Head(call.todo)[1] = "update"
    BY <2>6 DEF Target
  <2>8. dev'["mag"].internal = dev["mag"].internal /\ dev'["acc"] = dev["acc"]
    BY <2>7, StepChanges DEF Changes, Sensors, Devices
  <2>9. hist'.asked = hist.asked
    BY StepKnown DEF Records
  <2>10. QED
    BY <1>5, <2>4, <2>8, <2>9 DEF Devices
<1>6. QED
  BY <1>4, <1>5

(* The devices know the compass's delay, but while they are told of it.    *)
LEMMA StepKeepsAsked ==
  ASSUME Types, Known, UseInv, AskedInv, CallStep
  PROVE  AskedInv'
<1> DEFINE x == Head(call.todo)
           Telling == call.what = "set_delay" /\ call.sensor = "compass"
<1>1. ~Rest
  BY StepNamed
<1>2. Target \in Sensors /\ (Closed' <=> Closed) /\ Records
  BY StepKnown, RegisteredAre
<1>3. SUFFICES ASSUME ~Closed
               PROVE  /\ Disabling(call') => hist'.asked = 0
                      /\ \/ Disabling(call') \/ (call'.what = "set_delay" /\ call'.sensor = "compass")
                         \/ \A d \in Devices : dev'[d].internal = hist'.asked
  BY <1>2 DEF AskedInv
<1>4. hist'.asked = hist.asked /\ (call' = NoCall \/ (call'.sensor = call.sensor /\ call'.what = call.what))
  BY <1>2 DEF Records
<1>5. NoCall.what = None /\ None # "disable"
  BY DEF NoCall, None
<1>6. /\ Disabling(call) => hist.asked = 0
      /\ Disabling(call) \/ Telling \/ \A d \in Devices : dev[d].internal = hist.asked
  BY <1>3 DEF AskedInv
<1>7. Disabling(call') => hist'.asked = 0
  BY <1>4, <1>5, <1>6 DEF Disabling
<1>8. CASE Disabling(call) \/ Telling
  <2>1. CASE call' = NoCall
    <3>1. \A d \in Devices : dev'[d].internal = hist'.asked
      BY <1>3, <1>6, <1>8, <2>1, CompassAsked DEF Disabling
    <3>2. QED
      BY <1>7, <3>1
  <2>2. CASE call' # NoCall
    BY <1>4, <1>7, <1>8, <2>2 DEF Disabling
  <2>3. QED
    BY <2>1, <2>2
<1>9. CASE ~Disabling(call) /\ ~Telling
  <2>1. Fits(x, Tail(call.todo), call, dev, hist)
    BY <1>1, <1>3, UnderWay
  <2>2. x[1] # "internal"
    BY <1>9, <2>1 DEF Fits, Disabling
  <2>3. Changes(x, dev'[Target], dev[Target]) /\ \A s \in Sensors \ {Target} : dev'[s] = dev[s]
    BY StepChanges
  <2>4. \A d \in Devices : dev'[d].internal = dev[d].internal
    BY <2>2, <2>3 DEF Changes, Sensors
  <2>5. QED
    BY <1>4, <1>6, <1>7, <1>9, <2>4
<1>10. QED
  BY <1>8, <1>9

(* An update of the accelerometer leaves its mode that of its rate.        *)
LEMMA UpdateKeepsMode ==
  ASSUME Types, ModeInv, UpdateStep, Target = "acc"
  PROVE  ModeInv'
<1> DEFINE r == dev[Target]
           n == update_delay(r)
           M == <<Target, "mode">>
           A == <<Target, "rate">>
<1>1. /\ r \in Device /\ hist \in HistType /\ dev \in [Sensors -> Device] /\ "acc" \in Sensors /\ found' = found
      /\ A # M /\ r = dev["acc"] /\ M = <<"acc", "mode">> /\ A = <<"acc", "rate">>
  BY DEF Types, UpdateStep, Sensors, Devices
<1>2. ASSUME NEW todo, NEW h \in HistType, NEW ok, Goes(todo, h, ok)
      PROVE  hist'.refused = h.refused
  BY <1>2 DEF Goes, HistType
<1>3. ASSUME NEW S \in SUBSET (Sensors \X {"rate", "mode"})
      PROVE  [hist EXCEPT !.refused = S] \in HistType /\ [hist EXCEPT !.refused = S].refused = S
  BY <1>1 DEF HistType
<1>4. hist.refused \in SUBSET (Sensors \X {"rate", "mode"}) /\ {A, M} \subseteq Sensors \X {"rate", "mode"}
  BY <1>1 DEF HistType
<1>5. CASE n = r.applied
  <2>1. Goes(Tail(call.todo), [hist EXCEPT !.refused = hist.refused \ {A}], call.ok) /\ dev' = dev
    BY <1>5 DEF UpdateStep
  <2> DEFINE S == hist.refused \ {A}
  <2>2. S \in SUBSET (Sensors \X {"rate", "mode"}) /\ (M \in S <=> M \in hist.refused)
    BY <1>1, <1>4
  <2> HIDE DEF S, A, M
  <2>3. hist'.refused = S
    BY <1>2, <1>3, <2>1, <2>2 DEF S
  <2>4. QED
    BY <1>1, <2>1, <2>2, <2>3 DEF ModeInv, M
<1>6. CASE n # r.applied
  <2>1. set_pollrate(n)
    BY <1>6 DEF UpdateStep
  <2>2. PICK rate \in {TRUE, r.path => Target \notin Refusing}, mode \in {TRUE, r.path => Target \notin Refusing} :
          LET changes == Target = "acc" /\ found.acc = "dlhc" /\ mode_before(n) # rate2mode(n) /\ r.path
              refused == {o \in {A} : ~rate} \cup {o \in {M} : rate /\ changes /\ ~mode}
          IN  /\ Set(IF ~rate THEN r
                     ELSE [r EXCEPT !.applied = n, !.power = IF changes /\ mode THEN rate2mode(n) ELSE @])
              /\ Goes(Tail(call.todo),
                      [hist EXCEPT !.refused = (@ \ {o \in {A, M} : rate /\ (o[2] = "mode" => changes)}) \cup refused],
                      call.ok)
    BY <2>1, Zenon DEF set_pollrate
  <2> DEFINE changes == Target = "acc" /\ found.acc = "dlhc" /\ mode_before(n) # rate2mode(n) /\ r.path
             gone == {o \in {A, M} : rate /\ (o[2] = "mode" => changes)}
             come == {o \in {A} : ~rate} \cup {o \in {M} : rate /\ changes /\ ~mode}
             q == IF ~rate THEN r ELSE [r EXCEPT !.applied = n, !.power = IF changes /\ mode THEN rate2mode(n) ELSE @]
             S == (hist.refused \ gone) \cup come
  <2>3. Set(q) /\ Goes(Tail(call.todo), [hist EXCEPT !.refused = S], call.ok)
    BY <2>2
  <2>4. dev' = [dev EXCEPT !["acc"] = q]
    <3> HIDE DEF q
    <3>1. QED
      BY <2>3 DEF Set
  <2>5. dev'["acc"] = q
    <3> HIDE DEF q
    <3>1. QED
      BY <1>1, <2>4
  <2>6. S \in SUBSET (Sensors \X {"rate", "mode"})
    BY <1>4
  <2>7. hist'.refused = S
    <3> HIDE DEF S
    <3>1. QED
      BY <1>2, <1>3, <2>3, <2>6
  <2>8. rate \in BOOLEAN /\ mode \in BOOLEAN
    BY <1>1, <2>2 DEF Device
  <2>9. q.path = r.path /\ (~rate => q = r) /\ (rate => q.applied = n)
        /\ (rate /\ changes /\ mode => q.power = rate2mode(n)) /\ (rate /\ ~(changes /\ mode) => q.power = r.power)
    <3>1. ~rate => q = r
      OBVIOUS
    <3>2. ASSUME rate
          PROVE  q.path = r.path /\ q.applied = n /\ q.power = IF changes /\ mode THEN rate2mode(n) ELSE r.power
      <4> DEFINE p == IF changes /\ mode THEN rate2mode(n) ELSE r.power
                 a == n
      <4>1. q = [r EXCEPT !.applied = a, !.power = p]
        BY <3>2
      <4> HIDE DEF q, p, a, r
      <4>2. q.path = r.path /\ q.applied = a /\ q.power = p
        BY <1>1, <4>1 DEF Device
      <4>3. QED
        BY <4>2 DEF p, a
    <3>3. QED
      BY <2>8, <3>1, <3>2
  <2>10. M \in S <=> (M \in hist.refused /\ ~(rate /\ changes)) \/ (rate /\ changes /\ ~mode)
    <3>1. M \in gone <=> rate /\ changes
      <4>1. M[2] = "mode"
        OBVIOUS
      <4>2. QED
        BY <4>1
    <3>2. M \in come <=> rate /\ changes /\ ~mode
      BY <1>1
    <3>3. QED
      BY <3>1, <3>2
  <2>11. mode_before(n) = rate2mode(r.applied)
    BY DEF mode_before
  <2> DEFINE b == rate2mode(r.applied)
             t == rate2mode(n)
  <2>12. changes <=> found.acc = "dlhc" /\ b # t /\ r.path
    BY <2>11
  <2>13. (t = "poll" <=> n < 60) /\ (b = "poll" <=> r.applied < 60)
    BY DEF rate2mode
  <2>14. SUFFICES ASSUME found.acc = "dlhc", q.path, M \notin S
                  PROVE  q.power = rate2mode(q.applied) \/ (q.power = "default" /\ q.applied < 60)
    BY <1>1, <2>5, <2>7 DEF ModeInv
  <2>15. ModeInv => (r.path /\ M \notin hist.refused => r.power = b \/ (r.power = "default" /\ r.applied < 60))
    BY <2>14 DEF ModeInv
  <2> DEFINE w == r.path
             v == r.applied
             p == r.power
             C == changes
             z == M \in hist.refused
  <2>16. w /\ (z \/ p = b \/ (p = "default" /\ v < 60)) /\ (C <=> b # t) /\ (b = "poll" <=> v < 60)
    BY <2>9, <2>12, <2>13, <2>14, <2>15
  <2>17. ~((z /\ ~(rate /\ C)) \/ (rate /\ C /\ ~mode))
    BY <2>10, <2>14
  <2>18. CASE ~rate
    <3>1. q.power = p /\ q.applied = v /\ rate2mode(q.applied) = b
      BY <2>9, <2>18
    <3> HIDE DEF q, b, t, C, z, p, v, w
    <3>2. QED
      BY <2>16, <2>17, <2>18, <3>1
  <2>19. CASE rate
    <3>1. q.applied = n /\ rate2mode(q.applied) = t /\ (C /\ mode => q.power = t) /\ (~(C /\ mode) => q.power = p)
      BY <2>9, <2>19
    <3>2. t = "poll" <=> n < 60
      BY <2>13
    <3> HIDE DEF q, b, t, C, z, p, v, w, n
    <3>3. CASE C
      BY <2>17, <2>19, <3>1, <3>3
    <3>4. CASE ~C
      BY <2>16, <2>17, <2>19, <3>1, <3>2, <3>4
    <3>5. QED
      BY <3>3, <3>4
  <2>20. QED
    BY <2>8, <2>18, <2>19
<1>7. QED
  BY <1>5, <1>6

(* The mode of the accelerometer stays that of its rate.                   *)
LEMMA StepKeepsMode ==
  ASSUME Types, Known, UseInv, FreshInv, ModeInv, CallStep
  PROVE  ModeInv'
<1> DEFINE x == Head(call.todo)
<1>1. ~Rest
  BY StepNamed
<1>2. Target \in Sensors /\ found' = found
  BY StepKnown, StepKeeps, RegisteredAre
<1>3. Changes(x, dev'[Target], dev[Target]) /\ \A s \in Sensors \ {Target} : dev'[s] = dev[s]
  BY StepChanges
<1>4. "acc" \in Sensors
  BY DEF Sensors, Devices
<1>5. CASE Target # "acc"
  <2>1. dev'["acc"] = dev["acc"]
    BY <1>3, <1>4, <1>5
  <2>2. <<"acc", "mode">> \in hist'.refused <=> <<"acc", "mode">> \in hist.refused
    BY <1>4, <1>5, RefusedOf
  <2>3. QED
    BY <1>2, <2>1, <2>2 DEF ModeInv
<1>6. CASE Target = "acc" /\ x[1] = "update"
  BY <1>6, StepNamed, UpdateKeepsMode
<1>7. CASE Target = "acc" /\ x[1] = "phys_path"
  <2>1. ~Closed
    <3>1. Closed => x[1] = "destroy"
      BY ClosesAt
    <3>2. QED
      BY <1>7, <3>1
  <2>2. Fits(x, Tail(call.todo), call, dev, hist) /\ call.sensor \in Registered
    BY <1>1, <2>1, UnderWay
  <2>3. call.what = "init"
    BY <1>7, <2>2 DEF Fits
  <2>4. dev["acc"].applied = 0 /\ dev["acc"].power = "default"
    BY <1>4, <2>1, <2>2, <2>3 DEF FreshInv
  <2>5. dev'["acc"].applied = 0 /\ dev'["acc"].power = "default"
    BY <1>3, <1>7, <2>4 DEF Changes
  <2>6. QED
    BY <2>5 DEF ModeInv
<1>8. CASE Target = "acc" /\ x[1] \notin {"update", "phys_path"}
  <2>1. hist'.refused = hist.refused
    BY <1>8, RefusedOf
  <2>2. /\ dev'["acc"].applied = dev["acc"].applied /\ dev'["acc"].power = dev["acc"].power
        /\ dev'["acc"].path = dev["acc"].path
    BY <1>3, <1>8 DEF Changes
  <2>3. QED
    BY <1>2, <2>1, <2>2 DEF ModeInv
<1>9. QED
  BY <1>5, <1>6, <1>7, <1>8

(* A step of a call keeps the invariant.                                   *)
LEMMA StepKeepsInv ==
  ASSUME LsmInv, CallStep
  PROVE  LsmInv'
<1>1. Types'
  BY StepKnown DEF LsmInv
<1>2. EventsOnlyWanted'
  BY StepKnown DEF LsmInv, EventsOnlyWanted, Records
<1>3. Known' /\ UseInv' /\ FreshInv'
  BY StepKeepsKnown, StepKeepsUse, StepKeepsFresh DEF LsmInv
<1>4. FdInv' /\ RateInv' /\ AskedInv' /\ ModeInv'
  BY StepKeepsFd, StepKeepsRate, StepKeepsAsked, StepKeepsMode DEF LsmInv
<1>5. QED
  BY <1>1, <1>2, <1>3, <1>4 DEF LsmInv

(***************************************************************************)
(* A call begins.                                                          *)
(***************************************************************************)

(* The steps of a call are steps.                                          *)
LEMMA CallListed ==
  ASSUME NEW s \in Sensors, NEW what \in Whats, NEW ns \in Nat
  PROVE  steps(s, what, ns) \in Seq(Step) /\ steps(s, what, ns) # <<>>
<1> DEFINE R == <<>>
<1>1. R \in Seq(Step) /\ R = <<>> /\ EXTERNAL \in Users
  BY DEF Users
<1> HIDE DEF R
<1>2. CASE what = "init"
  BY <1>2, CallSteps, InitSteps
<1>3. CASE what = "enable"
  BY <1>1, <1>3, CallSteps, EnableListed, CompassListed
<1>4. CASE what = "disable"
  BY <1>1, <1>4, CallSteps, DisableListed, CompassListed
<1>5. CASE what = "set_delay"
  <2>1. CASE s = "compass"
    <3>1. Internal("mag", ns, R) \in Seq(Step)
      BY <1>1, DelaySteps DEF Sensors, Devices
    <3>2. CompassDelay(ns) \in Seq(Step) /\ CompassDelay(ns) # <<>>
      BY <1>1, <3>1, DelaySteps DEF Sensors, Devices, CompassDelay
    <3>3. QED
      BY <1>5, <2>1, <3>2, CallSteps
  <2>2. CASE s # "compass"
    <3>1. External(s, ns, R) \in Seq(Step) /\ External(s, ns, R) # <<>>
      BY <1>1, DelaySteps
    <3>2. QED
      BY <1>1, <1>5, <2>2, <3>1, CallSteps
  <2>3. QED
    BY <2>1, <2>2
<1>6. CASE what = "close"
  BY <1>6, CallSteps, InitSteps
<1>7. QED
  BY <1>2, <1>3, <1>4, <1>5, <1>6 DEF Whats

\* What a call leaves: its steps to do, and what is noted of it.
Called(s, what, ns) ==
  /\ call'.sensor = s /\ call'.what = what /\ call'.todo = steps(s, what, ns) /\ call'.ok = TRUE
  /\ hist'.want = hist.want /\ hist'.left = hist.left /\ hist'.refused = hist.refused
  /\ hist'.asked = Asked(s, what, ns)
  /\ Closed' <=> Closed \/ what = "close"
  /\ "twice" \in hist'.odd <=> "twice" \in hist.odd \/ (what = "enable" /\ s = "compass" /\ s \in hist.want)
  /\ "stray" \in hist'.odd <=> "stray" \in hist.odd
  /\ dev' = dev /\ found' = found /\ up' = up /\ reader' = reader

(* A call is one the framework makes.                                      *)
LEMMA CallCalls ==
  ASSUME Types, Call
  PROVE  \E s \in Sensors, what \in Whats, ns \in Nat :
           MayCall(s, what) /\ Called(s, what, ns) /\ Types'
<1>1. PICK s \in Sensors, what \in Whats :
        /\ MayCall(s, what)
        /\ \E ns \in (IF what = "set_delay" THEN Rates[s] ELSE {0}) :
             /\ call' = [sensor |-> s, what |-> what, todo |-> steps(s, what, ns), slider |-> FALSE, ok |-> TRUE]
             /\ hist' = [hist EXCEPT !.asked = Asked(s, what, ns),
                  !.odd = @ \cup {e \in {"twice", "closed"} :
                             \/ e = "twice" /\ what = "enable" /\ s = "compass" /\ s \in hist.want
                             \/ e = "closed" /\ what = "close"}]
  BY Zenon DEF Call, Whats
<1>2. PICK ns \in (IF what = "set_delay" THEN Rates[s] ELSE {0}) :
        /\ call' = [sensor |-> s, what |-> what, todo |-> steps(s, what, ns), slider |-> FALSE, ok |-> TRUE]
        /\ hist' = [hist EXCEPT !.asked = Asked(s, what, ns),
             !.odd = @ \cup {e \in {"twice", "closed"} :
                        \/ e = "twice" /\ what = "enable" /\ s = "compass" /\ s \in hist.want
                        \/ e = "closed" /\ what = "close"}]
  BY <1>1
<1>3. ns \in Nat
  BY LsmAssumption
<1>4. hist \in HistType /\ dev \in [Sensors -> Device] /\ found \in FoundType
  BY DEF Types
<1>5. dev' = dev /\ found' = found /\ up' = up /\ reader' = reader
  BY DEF Call
<1> DEFINE T == steps(s, what, ns)
           n == Asked(s, what, ns)
           E == {e \in {"twice", "closed"} : \/ e = "twice" /\ what = "enable" /\ s = "compass" /\ s \in hist.want
                                             \/ e = "closed" /\ what = "close"}
           O == hist.odd \cup E
<1>6. T \in Seq(Step)
  BY <1>3, CallListed
<1>7. n \in Nat
  BY <1>3, <1>4 DEF Asked, HistType
<1>8. O \in SUBSET {"twice", "closed", "stray"}
  BY <1>4 DEF HistType
<1>9. /\ "closed" \in O <=> "closed" \in hist.odd \/ what = "close"
      /\ "twice" \in O <=> "twice" \in hist.odd \/ (what = "enable" /\ s = "compass" /\ s \in hist.want)
      /\ "stray" \in O <=> "stray" \in hist.odd
  OBVIOUS
<1>10. call' = [sensor |-> s, what |-> what, todo |-> T, slider |-> FALSE, ok |-> TRUE]
       /\ hist' = [hist EXCEPT !.asked = n, !.odd = O]
  BY <1>2
<1> HIDE DEF T, n, E, O
<1>11. call' \in CallType /\ call'.sensor = s /\ call'.what = what /\ call'.todo = T /\ call'.ok = TRUE
  BY <1>6, <1>10 DEF CallType
<1>12. /\ hist' \in HistType /\ hist'.want = hist.want /\ hist'.left = hist.left /\ hist'.refused = hist.refused
       /\ hist'.asked = n /\ hist'.odd = O
  BY <1>4, <1>7, <1>8, <1>10 DEF HistType
<1>13. Types'
  BY <1>4, <1>5, <1>11, <1>12 DEF Types
<1>14. Called(s, what, ns)
  BY <1>5, <1>9, <1>11, <1>12 DEF Called, Closed, T, n
<1>15. QED
  BY <1>1, <1>3, <1>13, <1>14

(* A call begins at the first of its stages.                               *)
LEMMA CallStage ==
  ASSUME Types, Known, UseInv, Rest, ~Closed, NEW s \in Sensors, NEW what \in {"init", "enable", "disable", "set_delay"},
         NEW ns \in Nat, Called(s, what, ns)
  PROVE  Stage(call', dev', hist')
<1>1. Quiet(dev, hist)
  BY BetweenCalls
<1>2. Quiet(dev', hist')
  BY <1>1 DEF Quiet, Called
<1>3. /\ call'.sensor = s /\ call'.what = what /\ call'.todo = steps(s, what, ns) /\ call'.ok = TRUE
      /\ dev' = dev /\ hist'.asked = Asked(s, what, ns)
  BY DEF Called
<1>4. s # "compass" => s \in Devices
  BY DEF Sensors
<1>5. CASE what = "init"
  <2>1. call'.todo = IF s = "compass" THEN Api2 ELSE Path2(s)
    BY <1>3, <1>5, CallSteps
  <2>2. Inits(call', dev', hist')
    BY <1>2, <1>3, <1>4, <1>5, <2>1 DEF Inits
  <2>3. QED
    BY <2>2 DEF Stage
<1>6. CASE what = "enable" /\ s # "compass"
  <2>1. call'.todo = Enable(s, EXTERNAL, <<>>, dev'[s])
    BY <1>3, <1>6, CallSteps
  <2>2. Settled(s, dev'[s], hist'.want, hist'.left) /\ Besides(s, dev', hist')
    BY <1>2, <1>4, <1>6 DEF Quiet, Besides
  <2>3. EnablesOne(call', dev', hist')
    BY <1>3, <1>4, <1>6, <2>1, <2>2 DEF EnablesOne, EnStage, Enabling
  <2>4. QED
    BY <2>3 DEF Stage
<1>7. CASE what = "enable" /\ s = "compass"
  <2>1. call'.todo = EnableCompass(dev')
    BY <1>3, <1>7, CallSteps
  <2>2. "compass" \in hist'.want => "twice" \in hist'.odd
    BY <1>7 DEF Called
  <2>3. EnablesCompass(call', dev', hist')
    BY <1>2, <1>3, <1>7, <2>1, <2>2 DEF EnablesCompass, UsesCompass, Enabling
  <2>4. QED
    BY <2>3 DEF Stage
<1>8. CASE what = "disable" /\ s # "compass"
  <2>1. call'.todo = Disable(s, EXTERNAL, <<>>, dev'[s])
    BY <1>3, <1>8, CallSteps
  <2>2. Minds(s, EXTERNAL, dev'[s], hist'.want, hist'.left) /\ Besides(s, dev', hist')
    BY <1>2, <1>4, <1>8 DEF Quiet, Besides, Settled, Users
  <2>3. DisablesOne(call', dev', hist')
    BY <1>3, <1>4, <1>8, <2>1, <2>2 DEF DisablesOne, UnStage
  <2>4. QED
    BY <2>3 DEF Stage
<1>9. CASE what = "disable" /\ s = "compass"
  <2>1. call'.todo = DisableCompass(dev')
    BY <1>3, <1>9, CallSteps
  <2>2. DisablesCompass(call', dev', hist')
    BY <1>2, <1>3, <1>9, <2>1 DEF DisablesCompass, LeavesCompass
  <2>3. QED
    BY <2>2 DEF Stage
<1>10. CASE what = "set_delay" /\ s # "compass"
  <2>1. call'.todo = External(s, ns, <<>>)
    BY <1>3, <1>10, CallSteps
  <2>2. DelaysOne(call', dev', hist')
    BY <1>2, <1>3, <1>4, <1>10, <2>1 DEF DelaysOne
  <2>3. QED
    BY <2>2 DEF Stage
<1>11. CASE what = "set_delay" /\ s = "compass"
  <2>1. call'.todo = CompassDelay(ns) /\ hist'.asked = ns
    BY <1>3, <1>11, CallSteps DEF Asked
  <2>2. call'.todo = Internal("acc", hist'.asked, MagDelay(hist'))
    BY <2>1 DEF CompassDelay, MagDelay
  <2>3. DelaysCompass(call', dev', hist')
    BY <1>2, <1>3, <1>11, <2>2 DEF DelaysCompass
  <2>4. QED
    BY <2>3 DEF Stage
<1>12. QED
  BY <1>5, <1>6, <1>7, <1>8, <1>9, <1>10, <1>11

(* A call keeps the invariant.                                             *)
LEMMA CallKeepsInv ==
  ASSUME LsmInv, Call
  PROVE  LsmInv'
<1>1. Types /\ Known /\ UseInv /\ Rest
  BY DEF LsmInv, Call
<1>2. call = NoCall
  BY <1>1, BetweenCalls
<1>3. PICK s \in Sensors, what \in Whats, ns \in Nat : MayCall(s, what) /\ Called(s, what, ns) /\ Types'
  BY <1>1, CallCalls
<1>4. Registered' = Registered
  BY <1>3 DEF Registered, Called
<1>5. s \in Registered
  BY <1>1, <1>3 DEF MayCall, Known
<1>6. Known'
  BY <1>1, <1>3, <1>4, <1>5 DEF Known, Called
<1>7. /\ what = "init" => s \notin up /\ ~Closed
      /\ what \in {"enable", "disable", "set_delay"} => ~Closed /\ up = Registered
  BY <1>3 DEF MayCall
<1>8. Closed' <=> what = "close" \/ Closed
  BY <1>3 DEF Called
<1>9. what # "close" => ~Closed
  BY <1>7 DEF Whats
<1>10. UseInv'
  <2>1. CASE what = "close"
    BY <1>3, <1>8, <2>1, CallSteps DEF UseInv, Called
  <2>2. CASE what # "close"
    <3>1. what \in {"init", "enable", "disable", "set_delay"}
      BY <2>2 DEF Whats
    <3>2. Stage(call', dev', hist')
      BY <1>1, <1>3, <1>9, <2>2, <3>1, CallStage
    <3>3. QED
      BY <1>8, <1>9, <2>2, <3>2 DEF UseInv
  <2>3. QED
    BY <2>1, <2>2
<1>11. FreshInv'
  BY <1>3, <1>4, <1>7, <1>8 DEF FreshInv, Called, LsmInv
<1>12. FdInv'
  BY <1>3, <1>4 DEF FdInv, StaleOnlyIfEnabledTwice, Called, LsmInv
<1>13. RateInv'
  <2>1. \A d \in Devices : ~Closed => Serves(dev[d], <<d, "rate">> \in hist.refused)
    BY <1>1 DEF LsmInv, RateInv
  <2>2. QED
    BY <1>3, <1>8, <2>1 DEF RateInv, Called
<1>14. AskedInv'
  <2>1. SUFFICES ASSUME ~Closed'
                 PROVE  /\ Disabling(call') => hist'.asked = 0
                        /\ \/ Disabling(call') \/ (call'.what = "set_delay" /\ call'.sensor = "compass")
                           \/ \A d \in Devices : dev'[d].internal = hist'.asked
    BY DEF AskedInv
  <2>2. \A d \in Devices : dev[d].internal = hist.asked
    BY <1>2, <1>8, <2>1 DEF LsmInv, AskedInv, Disabling, NoCall, None
  <2>3. hist'.asked = Asked(s, what, ns) /\ call'.what = what /\ call'.sensor = s /\ dev' = dev
    BY <1>3 DEF Called
  <2>4. CASE s = "compass" /\ what \in {"set_delay", "disable"}
    BY <2>3, <2>4 DEF Disabling, Asked
  <2>5. CASE ~(s = "compass" /\ what \in {"set_delay", "disable"})
    BY <2>2, <2>3, <2>5 DEF Disabling, Asked
  <2>6. QED
    BY <2>4, <2>5
<1>15. ModeInv'
  BY <1>3 DEF ModeInv, Called, LsmInv
<1>16. EventsOnlyWanted'
  BY <1>3 DEF EventsOnlyWanted, Called, LsmInv
<1>17. QED
  BY <1>3, <1>6, <1>10, <1>11, <1>12, <1>13, <1>14, <1>15, <1>16 DEF LsmInv

(* A thread that reads keeps the invariant.                                *)
LEMMA ReadKeepsInv ==
  ASSUME LsmInv, Read
  PROVE  LsmInv'
<1>1. PICK s \in Sensors : dev[s].fd = "open" /\ reader' = s
  BY DEF Read
<1>2. found' = found /\ up' = up /\ call' = call /\ dev' = dev /\ hist' = hist
  BY DEF Read
<1>3. s \in Registered
  BY <1>1 DEF LsmInv, FdInv, None
<1>4. Known'
  BY <1>1, <1>2, <1>3 DEF LsmInv, Known, Registered
<1>5. FdInv'
  BY <1>1, <1>2 DEF LsmInv, FdInv, StaleOnlyIfEnabledTwice, Registered
<1>6. Types' /\ ModeInv' /\ EventsOnlyWanted'
  BY <1>2 DEF LsmInv, Types, ModeInv, EventsOnlyWanted
<1>7. UseInv' /\ FreshInv'
  BY <1>2 DEF LsmInv, UseInv, FreshInv, Closed, Registered
<1>8. RateInv' /\ AskedInv'
  BY <1>2 DEF LsmInv, RateInv, AskedInv, Closed, Rest
<1>9. QED
  BY <1>4, <1>5, <1>6, <1>7, <1>8 DEF LsmInv

(* While lock is free and nothing is closed, the users are those who want  *)
(* a sensor, or that an enable which failed left behind.                   *)
LEMMA LockFreeQuiet ==
  ASSUME LsmInv, LockFree, ~Closed
  PROVE  \A s \in Sensors : external(s) => s \in hist.want \/ <<s, EXTERNAL>> \in hist.left
<1>1. Types /\ Known /\ UseInv
  BY DEF LsmInv
<1>2. Quiet(dev, hist)
  <2>1. CASE Rest
    BY <1>1, <2>1, BetweenCalls
  <2>2. CASE ~Rest
    <3>1. /\ Stage(call, dev, hist) /\ Fits(Head(call.todo), Tail(call.todo), call, dev, hist) /\ call # NoCall
      BY <1>1, <2>2, UnderWay
    <3>2. call.what = "init"
      BY <2>2, <3>1 DEF LockFree, Fits
    <3>3. Inits(call, dev, hist)
      BY <3>1, <3>2 DEF Stage, AtRest, DelaysOne, DelaysCompass, EnablesOne, DisablesOne, EnablesCompass, Undoes,
        DisablesCompass, Enabling
    <3>4. QED
      BY <3>3 DEF Inits
  <2>3. QED
    BY <2>1, <2>2
<1>3. ASSUME NEW d \in Devices
      PROVE  external(d) => d \in hist.want \/ <<d, EXTERNAL>> \in hist.left
  <2>1. Minds(d, INTERNAL, dev[d], hist.want, hist.left) /\ Other(INTERNAL) = EXTERNAL /\ Of(d, EXTERNAL) = d
    BY <1>2 DEF Quiet, Settled, Users, Other, Of, INTERNAL, EXTERNAL
  <2>2. QED
    BY <2>1 DEF Minds, Shown, external
<1>4. external("compass") => "compass" \in hist.want \/ <<"compass", EXTERNAL>> \in hist.left
  BY <1>2 DEF Quiet, CSettled, external
<1>5. QED
  BY <1>3, <1>4 DEF Sensors

(* A callback that gives its events keeps the invariant.                   *)
LEMMA ProcessKeepsInv ==
  ASSUME LsmInv, Process
  PROVE  LsmInv'
<1>1. reader' = None /\ found' = found /\ up' = up /\ call' = call /\ dev' = dev
  BY DEF Process
<1>2. hist' = hist
  <2>1. LockFree /\ reader \in Sensors
    BY RegisteredAre DEF Process, LsmInv, Known
  <2>2. PICK computed \in BOOLEAN :
          LET own == {reader} \ {"compass"}
              compass == IF reader = "mag" /\ computed THEN {"compass"} ELSE {}
              put == {s \in own \cup compass : external(s)}
              stray == {s \in put \ hist.want : <<s, EXTERNAL>> \notin hist.left}
          IN  hist' = IF stray = {} \/ Closed THEN hist ELSE [hist EXCEPT !.odd = @ \cup {"stray"}]
    BY DEF Process
  <2> DEFINE own == {reader} \ {"compass"}
             compass == IF reader = "mag" /\ computed THEN {"compass"} ELSE {}
             put == {s \in own \cup compass : external(s)}
             stray == {s \in put \ hist.want : <<s, EXTERNAL>> \notin hist.left}
  <2>3. own \cup compass \subseteq Sensors
    BY <2>1 DEF Sensors
  <2>4. ~Closed => stray = {}
    <3>1. SUFFICES ASSUME ~Closed, NEW s \in stray
                   PROVE  FALSE
      OBVIOUS
    <3>2. s \in Sensors /\ external(s) /\ s \notin hist.want /\ <<s, EXTERNAL>> \notin hist.left
      BY <2>3
    <3>3. QED
      BY <2>1, <3>1, <3>2, LockFreeQuiet
  <2>5. hist' = IF stray = {} \/ Closed THEN hist ELSE [hist EXCEPT !.odd = @ \cup {"stray"}]
    BY <2>2
  <2> HIDE DEF stray
  <2>6. QED
    BY <2>4, <2>5
<1>3. Known' /\ FdInv'
  BY <1>1, <1>2 DEF LsmInv, Known, FdInv, StaleOnlyIfEnabledTwice, Registered
<1>4. Types' /\ ModeInv' /\ EventsOnlyWanted'
  BY <1>1, <1>2 DEF LsmInv, Types, ModeInv, EventsOnlyWanted
<1>5. UseInv' /\ FreshInv'
  BY <1>1, <1>2 DEF LsmInv, UseInv, FreshInv, Closed, Registered
<1>6. RateInv' /\ AskedInv'
  BY <1>1, <1>2 DEF LsmInv, RateInv, AskedInv, Closed, Rest
<1>7. QED
  BY <1>3, <1>4, <1>5, <1>6 DEF LsmInv

(* At first nothing is enabled.                                            *)
LEMMA LsmInitially ==
  ASSUME Init
  PROVE  LsmInv
<1> DEFINE r == [mode |-> None, fd |-> None, users |-> {}, internal |-> 0, external |-> 0,
                 applied |-> 0, path |-> FALSE, power |-> "default"]
<1>1. /\ call = NoCall /\ dev = [s \in Sensors |-> r] /\ reader = None /\ up = {} /\ found \in FoundType
      /\ hist = [want |-> {}, left |-> {}, asked |-> 0, refused |-> {}, odd |-> {}]
  BY DEF Init, FoundType
<1>2. /\ r \in Device /\ r.mode = None /\ r.fd = None /\ r.users = {} /\ r.internal = 0 /\ r.external = 0
      /\ r.applied = 0 /\ r.power = "default" /\ r.path = FALSE
  BY DEF Device
<1> HIDE DEF r
<1>3. /\ hist \in HistType /\ hist.want = {} /\ hist.left = {} /\ hist.asked = 0 /\ hist.refused = {} /\ hist.odd = {}
  BY <1>1 DEF HistType
<1>4. dev \in [Sensors -> Device] /\ \A s \in Sensors : dev[s] = r
  BY <1>1, <1>2
<1>5. /\ NoCall \in CallType /\ NoCall.what = None /\ NoCall.todo = <<>> /\ NoCall.sensor = None
  <2> DEFINE T == <<>>
  <2>1. T \in Seq(Step)
    OBVIOUS
  <2>2. NoCall = [sensor |-> None, what |-> None, todo |-> T, slider |-> FALSE, ok |-> TRUE]
    BY DEF NoCall
  <2> HIDE DEF T
  <2>3. NoCall \in CallType /\ NoCall.what = None /\ NoCall.todo = T /\ NoCall.sensor = None
    BY <2>1, <2>2 DEF CallType
  <2>4. QED
    BY <2>3 DEF T
<1>6. Types
  BY <1>1, <1>3, <1>4, <1>5 DEF Types
<1>7. ~Closed
  BY <1>3 DEF Closed
<1>8. Quiet(dev, hist)
  <2>1. ASSUME NEW d \in Devices, NEW u \in Users
        PROVE  Minds(d, u, dev[d], hist.want, hist.left)
    BY <1>2, <1>3, <1>4 DEF Minds, Shown, Sensors, None
  <2>2. \A d \in Devices : Settled(d, dev[d], hist.want, hist.left)
    BY <1>2, <1>4, <2>1 DEF Settled, Sensors
  <2>3. CSettled(dev["compass"], hist.want, hist.left)
    BY <1>2, <1>3, <1>4 DEF CSettled, Sensors
  <2>4. QED
    BY <2>2, <2>3 DEF Quiet
<1>9. UseInv
  BY <1>1, <1>7, <1>8 DEF UseInv, Stage, AtRest
<1>10. Known
  BY <1>1, <1>2, <1>3, <1>4 DEF Known, Sensors
<1>11. FreshInv
  BY <1>1, <1>2, <1>4, <1>5 DEF FreshInv, None
<1>12. FdInv
  BY <1>1, <1>2, <1>4 DEF FdInv, StaleOnlyIfEnabledTwice, None
<1>13. RateInv
  BY <1>2, <1>4 DEF RateInv, Serves, Sensors
<1>14. AskedInv
  BY <1>2, <1>3, <1>4 DEF AskedInv, Sensors
<1>15. ModeInv
  BY <1>2, <1>4 DEF ModeInv, Sensors, Devices
<1>16. EventsOnlyWanted
  BY <1>3 DEF EventsOnlyWanted
<1>17. QED
  BY <1>6, <1>9, <1>10, <1>11, <1>12, <1>13, <1>14, <1>15, <1>16 DEF LsmInv

(* The invariant is inductive.                                             *)
LEMMA LsmInductive ==
  ASSUME LsmInv, [Next]_vars
  PROVE  LsmInv'
<1>1. CASE Call
  BY <1>1, CallKeepsInv
<1>2. CASE CallStep
  BY <1>2, StepKeepsInv
<1>3. CASE Read
  BY <1>3, ReadKeepsInv
<1>4. CASE Process
  BY <1>4, ProcessKeepsInv
<1>5. CASE UNCHANGED vars
  <2>1. found' = found /\ up' = up /\ call' = call /\ dev' = dev /\ reader' = reader /\ hist' = hist
    BY <1>5 DEF vars
  <2>2. Known' /\ FdInv' /\ Types' /\ ModeInv' /\ EventsOnlyWanted'
    BY <2>1 DEF LsmInv, Known, FdInv, StaleOnlyIfEnabledTwice, Registered, Types, ModeInv, EventsOnlyWanted
  <2>3. UseInv' /\ FreshInv'
    BY <2>1 DEF LsmInv, UseInv, FreshInv, Closed, Registered
  <2>4. RateInv' /\ AskedInv'
    BY <2>1 DEF LsmInv, RateInv, AskedInv, Closed, Rest
  <2>5. QED
    BY <2>2, <2>3, <2>4 DEF LsmInv
<1>6. QED
  BY <1>1, <1>2, <1>3, <1>4, <1>5 DEF Next, CallStep

(* The invariant holds in every state the driver and its threads reach.    *)
THEOREM LsmInvariant == Spec => []LsmInv
<1>1. Init => LsmInv
  BY LsmInitially
<1>2. LsmInv /\ [Next]_vars => LsmInv'
  BY LsmInductive
<1>3. QED
  BY <1>1, <1>2, PTL DEF Spec

(***************************************************************************)
(* What the invariant says between the calls.                              *)
(***************************************************************************)

(* Every variable has its type.                                            *)
LEMMA TypesGiveTypeOK ==
  ASSUME LsmInv
  PROVE  TypeOK
<1>1. /\ up \subseteq Registered /\ hist.want \subseteq Registered /\ reader \in Registered \cup {None}
      /\ dev["compass"].users \subseteq {EXTERNAL}
  BY DEF LsmInv, Known
<1>2. call.sensor \in Registered \cup {None}
  <2>1. NoCall.sensor = None
    BY DEF NoCall
  <2>2. QED
    BY <2>1 DEF LsmInv, Known
<1>3. ASSUME NEW s \in Sensors
      PROVE  /\ dev[s].mode \in {None, "sleep", "run"} /\ dev[s].fd \in {None, "open", "stale"}
             /\ dev[s].users \subseteq (IF s = "compass" THEN {EXTERNAL} ELSE {EXTERNAL, INTERNAL})
             /\ dev[s].power \in {"default", "poll", "irq"} /\ dev[s].applied \in Nat
  <2>1. dev[s] \in Device
    BY DEF LsmInv, Types
  <2>2. dev[s].users \subseteq {INTERNAL, EXTERNAL}
    BY <2>1 DEF Device, Users
  <2>3. QED
    BY <1>1, <2>1, <2>2 DEF Device
<1>4. QED
  BY <1>1, <1>2, <1>3 DEF TypeOK

(* Between the calls a device runs for those who want it.                  *)
LEMMA QuietRuns ==
  ASSUME LsmInv
  PROVE  RunsWhileWanted
<1>1. SUFFICES ASSUME Rest, ~Closed, NEW s \in Devices
               PROVE  /\ {s, "compass"} \cap hist.want # {} => dev[s].fd = "open" /\ dev[s].mode = "run"
                      /\ dev[s].fd # None => \/ {s, "compass"} \cap hist.want # {}
                                             \/ \E user \in {INTERNAL, EXTERNAL} : <<s, user>> \in hist.left
                      /\ dev[s].mode = "run" => dev[s].fd # None
  BY DEF RunsWhileWanted
<1>2. Settled(s, dev[s], hist.want, hist.left)
  BY <1>1, BetweenCalls DEF LsmInv, Quiet
<1>3. /\ INTERNAL \in Users /\ EXTERNAL \in Users /\ Other(INTERNAL) = EXTERNAL /\ Other(EXTERNAL) = INTERNAL
      /\ Of(s, EXTERNAL) = s /\ Of(s, INTERNAL) = "compass" /\ None # "open"
  BY DEF Users, Other, Of, INTERNAL, EXTERNAL, None
<1>4. Minds(s, INTERNAL, dev[s], hist.want, hist.left) /\ Minds(s, EXTERNAL, dev[s], hist.want, hist.left)
  BY <1>2, <1>3 DEF Settled
<1>5. /\ s \in hist.want => dev[s].fd = "open"
      /\ "compass" \in hist.want => dev[s].fd = "open"
      /\ dev[s].fd # None <=> dev[s].mode = "run"
  BY <1>3, <1>4 DEF Minds
<1>6. /\ EXTERNAL \in dev[s].users => s \in hist.want \/ <<s, EXTERNAL>> \in hist.left
      /\ INTERNAL \in dev[s].users => "compass" \in hist.want \/ <<s, INTERNAL>> \in hist.left
  BY <1>3, <1>4 DEF Minds, Shown
<1>7. dev[s].users \subseteq {INTERNAL, EXTERNAL} /\ (dev[s].fd # None => dev[s].users # {})
  BY <1>2 DEF LsmInv, Types, Device, Users, Settled, Sensors
<1>8. QED
  BY <1>3, <1>5, <1>6, <1>7

\* The rate of a device serves its user and the compass.
RateServed(s) ==
  /\ <<s, "rate">> \notin hist.refused => served(s, dev[s].external) /\ served(s, hist.asked)
  /\ hist.asked = 0 => dev[s].internal = 0

(* Between the calls the rates serve the framework and the compass.        *)
LEMMA QuietServes ==
  ASSUME LsmInv
  PROVE  RatesServe
<1>1. ASSUME NEW s \in Devices, Rest, ~Closed
      PROVE  RateServed(s)
  <2>1. Serves(dev[s], <<s, "rate">> \in hist.refused)
    BY <1>1 DEF LsmInv, RateInv
  <2>2. call = NoCall
    BY <1>1, BetweenCalls DEF LsmInv
  <2>3. dev[s].internal = hist.asked
    BY <1>1, <2>2 DEF LsmInv, AskedInv, Disabling, NoCall, None
  <2>4. QED
    BY <2>1, <2>3 DEF Serves, RateServed, served
<1>2. \A s \in Devices : Rest /\ ~Closed => RateServed(s)
  BY <1>1
<1>3. RateServesUsers
  BY <1>2, Zenon DEF RateServesUsers, RateServed
<1>4. ModeFollowsRate
  BY DEF LsmInv, ModeInv, ModeFollowsRate
<1>5. QED
  BY <1>3, <1>4 DEF RatesServe

(* A call waits for its device's callback, with lock, to drop a file only. *)
LEMMA WaitsOnlyDropping ==
  ASSUME LsmInv
  PROVE  DeadlockOnlyDroppingFile
<1>1. SUFFICES ASSUME ~Rest, ~LockFree, reader # None, reader = Target, Do("set_fd") \/ Do("drop_fd")
               PROVE  \/ call.what = "disable"
                      \/ call.what = "enable" /\ (~call.ok \/ (Target = "compass" /\ "twice" \in hist.odd))
  BY DEF DeadlockOnlyDroppingFile
<1> DEFINE x == Head(call.todo)
<1>2. Types /\ Known /\ UseInv
  BY DEF LsmInv
<1>3. ~Closed
  BY <1>1, <1>2, UnderWay DEF LockFree
<1>4. Fits(x, Tail(call.todo), call, dev, hist)
  BY <1>1, <1>2, <1>3, UnderWay
<1>5. CASE x[1] = "drop_fd"
  BY <1>4, <1>5 DEF Fits
<1>6. CASE x[1] = "set_fd"
  <2>1. Target \in Sensors
    BY <1>1, RegisteredAre DEF LsmInv, Known
  <2>2. dev[Target].fd = "open" /\ None # "open"
    BY <1>1 DEF LsmInv, FdInv, None
  <2>3. Enabling(call) /\ Target = "compass" /\ "twice" \in hist.odd
    BY <1>4, <1>6, <2>1, <2>2 DEF Fits, Target, Sensors
  <2>4. QED
    BY <2>3 DEF Enabling
<1>7. QED
  BY <1>1, <1>5, <1>6 DEF Do

(* A device runs, on an open file, for all who want it, whatever was       *)
(* enabled, refused or disabled in between, and gives events to nobody     *)
(* else; no worker is left on a closed file but after a second enable of   *)
(* the compass (DevicesServe: sensor_activate_local, the compass, and      *)
(* sensor_read under lock).                                                *)
THEOREM LsmDevicesServe == Spec => []DevicesServe
<1>1. LsmInv => DevicesServe
  BY TypesGiveTypeOK, QuietRuns DEF DevicesServe, LsmInv, FdInv
<1>2. QED
  BY <1>1, LsmInvariant, PTL

(* The rate written to a device serves the framework and the compass, and  *)
(* the accelerometer's mode is that of its rate (RatesServe: update_delay, *)
(* set_pollrate and the compass's delays).                                 *)
THEOREM LsmRatesServe == Spec => []RatesServe
<1>1. LsmInv => RatesServe
  BY QuietServes
<1>2. QED
  BY <1>1, LsmInvariant, PTL

(* The lock order of lock and fd_mutex is only inverted where a file is    *)
(* dropped or replaced (DeadlockOnlyDroppingFile: sensor_select_set_fd     *)
(* under lock).                                                            *)
THEOREM LsmDeadlockOnlyDroppingFile == Spec => []DeadlockOnlyDroppingFile
<1>1. LsmInv => DeadlockOnlyDroppingFile
  BY WaitsOnlyDropping
<1>2. QED
  BY <1>1, LsmInvariant, PTL

=============================================================================
