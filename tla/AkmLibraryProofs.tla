-------------------------- MODULE AkmLibraryProofs --------------------------
(***************************************************************************)
(* Theorems about AkmLibrary, for any offsets, settings and lengths of its *)
(* buffers, and for any number of times the library is set up.             *)
(***************************************************************************)
EXTENDS AkmLibrary, FiniteSetTheorems, WellFoundedInduction, TLAPS

(* Any natural numbers, if there are some, have a least one.               *)
LEMMA LeastNatural ==
  ASSUME NEW T, T \subseteq Nat, T # {}
  PROVE  \E x \in T : \A y \in T : x <= y
<1>1. IsWellFoundedOn(OpToRel(<, Nat), Nat)
  BY NatLessThanWellFounded
<1>2. \E x \in T : \A y \in T : ~(<<y, x>> \in OpToRel(<, Nat))
  BY <1>1, WFMin
<1>3. \A x, y \in T : ~(<<y, x>> \in OpToRel(<, Nat)) => x <= y
  BY DEF OpToRel
<1>4. QED
  BY <1>2, <1>3

(* The smaller, and the larger, of two numbers is one of them and bounds   *)
(* both.                                                                   *)
LEMMA MinMaxOfTwo ==
  ASSUME NEW a \in Int, NEW b \in Int
  PROVE  /\ Min({a, b}) \in {a, b} /\ Min({a, b}) <= a /\ Min({a, b}) <= b
         /\ Max({a, b}) \in {a, b} /\ Max({a, b}) >= a /\ Max({a, b}) >= b
<1>1. \E x \in {a, b} : \A y \in {a, b} : x <= y
  OBVIOUS
<1>2. \E x \in {a, b} : \A y \in {a, b} : x >= y
  OBVIOUS
<1>3. Min({a, b}) \in {a, b} /\ \A y \in {a, b} : Min({a, b}) <= y
  BY <1>1 DEF Min
<1>4. Max({a, b}) \in {a, b} /\ \A y \in {a, b} : Max({a, b}) >= y
  BY <1>2 DEF Max
<1>5. QED
  BY <1>3, <1>4

\* A sequence, of whatever it holds.
IsSeq(s) == s \in Seq(ToSet(s))

(***************************************************************************)
(* Lemmas about the buffers.                                               *)
(***************************************************************************)

(* What a function on 1..n holds makes it a sequence.                      *)
LEMMA FunctionIsSeq ==
  ASSUME NEW n \in Nat, NEW f, f = [i \in 1..n |-> f[i]]
  PROVE  IsSeq(f) /\ Len(f) = n /\ (n > 0 => f # <<>>)
<1>1. DOMAIN f = 1..n
  OBVIOUS
<1>2. \A i \in 1..n : f[i] \in ToSet(f)
  BY <1>1 DEF ToSet
<1>3. f \in [1..n -> ToSet(f)]
  BY <1>2
<1>4. f \in Seq(ToSet(f))
  BY <1>3
<1>5. Len(f) = n
  BY <1>1, <1>4
<1>6. QED
  BY <1>4, <1>5 DEF IsSeq

(* Putting an element first and keeping n of them, n > 0, leaves some.     *)
LEMMA TakeFirst ==
  ASSUME NEW x, NEW s, IsSeq(s), NEW n \in Nat \ {0}
  PROVE  IsSeq(Take(<<x>> \o s, n)) /\ Take(<<x>> \o s, n) # <<>>
<1> DEFINE t == <<x>> \o s
           A == ToSet(s) \cup {x}
           m == Min({n, Len(t)})
<1>1. s \in Seq(A) /\ <<x>> \in Seq(A)
  BY DEF IsSeq
<1>2. t \in Seq(A) /\ Len(t) = Len(s) + 1 /\ Len(s) \in Nat
  BY <1>1
<1>3. m \in 1..Len(t) /\ m \in Nat
  <2>1. Len(t) \in Int /\ Len(t) >= 1 /\ n \in Int /\ n >= 1
    BY <1>2
  <2> HIDE DEF t
  <2>2. m \in {n, Len(t)} /\ m <= Len(t)
    BY <2>1, MinMaxOfTwo
  <2>3. QED
    BY <2>1, <2>2
<1>4. SubSeq(t, 1, m) = [i \in 1..m |-> t[i]]
  <2> HIDE DEF t, m
  <2>1. SubSeq(t, 1, m) \in Seq(A) /\ Len(SubSeq(t, 1, m)) = m
    BY <1>2, <1>3
  <2>2. \A i \in 1..m : SubSeq(t, 1, m)[i] = t[i]
    BY <1>2, <1>3
  <2>3. QED
    BY <2>1, <2>2, <1>3
<1>5. \A i \in 1..m : SubSeq(t, 1, m)[i] = t[i]
  <2> HIDE DEF t, m
  <2>1. QED
    BY <1>4
<1>6. SubSeq(t, 1, m) = [i \in 1..m |-> SubSeq(t, 1, m)[i]]
  BY <1>4, <1>5
<1>7. IsSeq(SubSeq(t, 1, m)) /\ SubSeq(t, 1, m) # <<>>
  <2> HIDE DEF t, m
  <2> DEFINE f == SubSeq(t, 1, m)
  <2>1. f = [i \in 1..m |-> f[i]] /\ m \in Nat /\ m > 0
    BY <1>3, <1>6
  <2> HIDE DEF f
  <2>2. IsSeq(f) /\ (m > 0 => f # <<>>)
    BY <2>1, FunctionIsSeq
  <2>3. QED
    BY <2>1, <2>2 DEF f
<1>8. QED
  BY <1>7 DEF Take

(* A shift keeps what is a sequence one, and empties none.                 *)
LEMMA ShiftKeeps ==
  ASSUME NEW s, IsSeq(s)
  PROVE  IsSeq(AKFS_BufShift(s)) /\ (s # <<>> => AKFS_BufShift(s) # <<>>)
<1>1. CASE s = <<>>
  BY <1>1 DEF AKFS_BufShift, IsSeq
<1>2. CASE s # <<>>
  <2> DEFINE n == Min({Len(s) + 1, AKFS_ADATA_SIZE})
             t == AKFS_BufShift(s)
  <2>1. Len(s) \in Nat
    BY DEF IsSeq
  <2>2. AKFS_ADATA_SIZE \in Nat \ {0}
    BY AkmAssumption DEF AkmAssumption
  <2>3. n \in Nat /\ n > 0
    <3> DEFINE k == Len(s) + 1
    <3>1. k \in Int /\ k > 0 /\ AKFS_ADATA_SIZE \in Int /\ AKFS_ADATA_SIZE > 0
      BY <2>1, <2>2
    <3>2. n = Min({k, AKFS_ADATA_SIZE})
      OBVIOUS
    <3> HIDE DEF n, k
    <3>3. n \in {k, AKFS_ADATA_SIZE}
      BY <3>1, <3>2, MinMaxOfTwo
    <3>4. QED
      BY <3>1, <3>3
  <2>4. t = [i \in 1..n |-> s[Max({i - 1, 1})]]
    BY <1>2 DEF AKFS_BufShift
  <2>5. t = [i \in 1..n |-> t[i]]
    BY <2>4
  <2> HIDE DEF n, t
  <2>6. IsSeq(t) /\ t # <<>>
    BY <2>3, <2>5, FunctionIsSeq
  <2>7. QED
    BY <2>6 DEF t
<1>3. QED
  BY <1>1, <1>2

(***************************************************************************)
(* What outlives a stop and a start.                                       *)
(***************************************************************************)

\* What is needed of the types.
ShapeInv ==
  /\ running \in BOOLEAN /\ fusing \in BOOLEAN /\ (running \/ fusing => handle.allocated)
  /\ flags \subseteq {"up_a", "up_m"} /\ flags # {"up_a", "up_m"}
  /\ DOMAIN handle = {"allocated", "shared", "nv", "ho", "hbuf", "hobuf", "hvbuf", "avbuf", "hstatus", "direction"}
  /\ DOMAIN hist = {"opens", "first", "fields", "basis", "since", "status", "carried", "odd"}
  /\ handle = [x \in DOMAIN handle |-> handle[x]] /\ hist = [x \in DOMAIN hist |-> hist[x]]
  /\ hist.carried \in BOOLEAN
  /\ IsSeq(handle.avbuf) /\ IsSeq(handle.hvbuf) /\ IsSeq(handle.hobuf)

(* Between a start and a stop the parameters are those start restored,     *)
(* which are what the settings file held at first, or the defaults, or     *)
(* what other code left where the library keeps them.                      *)
SavedInv ==
  /\ SettingsKeepFirst
  /\ running => \/ handle.nv \in {hist.first, 0}
                \/ "overwritten" \in hist.odd /\ handle.nv \in Elsewhere

\* The status as start leaves it, or backed by an offset.
StatusInv == StatusBacked

(* A flag that was not carried over a stop is one of this measurement:     *)
(* then its driver's buffer is not empty.                                  *)
FlagsInv ==
  /\ "put unknown" \notin hist.odd
  /\ ~hist.carried /\ "up_m" \in flags => running /\ handle.hvbuf # <<>>
  /\ ~hist.carried /\ "up_a" \in flags /\ running => handle.avbuf # <<>>

RestartInv == ShapeInv /\ SavedInv /\ StatusInv /\ FlagsInv

(* The empty buffer is a sequence.                                         *)
LEMMA EmptyIsSeq == IsSeq(<<>>)
  BY DEF IsSeq

(* Before the first AKL_DASH_Init nothing is held and nothing was put.     *)
LEMMA RestartInit == Init => RestartInv
<1> SUFFICES ASSUME Init PROVE RestartInv
  OBVIOUS
<1>1. ShapeInv
  BY EmptyIsSeq DEF Init, ShapeInv, Freed, Fresh
<1>2. SavedInv
  BY DEF Init, SavedInv, SettingsKeepFirst
<1>3. StatusInv /\ FlagsInv
  BY DEF Init, StatusInv, StatusBacked, FlagsInv
<1>4. QED
  BY <1>1, <1>2, <1>3 DEF RestartInv

(* Setting the library up: nothing runs, and the status that the memory    *)
(* happens to hold is not one of this measurement.                         *)
LEMMA InitStep == ASSUME RestartInv, AKL_DASH_Init PROVE RestartInv'
<1> USE DEF RestartInv
<1>1. PICK hstatus \in {0, 3}, shared \in BOOLEAN : handle' = Fresh(hstatus, shared)
  BY DEF AKL_DASH_Init
<1>2. ~running /\ ~fusing
  BY DEF AKL_DASH_Init, ShapeInv
<1>3. ShapeInv'
  BY <1>1, EmptyIsSeq DEF AKL_DASH_Init, ShapeInv, Fresh
<1>4. SavedInv'
  BY <1>2 DEF AKL_DASH_Init, ShapeInv, SavedInv, SettingsKeepFirst
<1>5. StatusInv' /\ FlagsInv'
  BY <1>2 DEF AKL_DASH_Init, ShapeInv, StatusInv, StatusBacked, FlagsInv
<1>6. QED
  BY <1>3, <1>4, <1>5

(* Giving the library back: nothing runs.                                  *)
LEMMA DeinitStep == ASSUME RestartInv, AKL_DASH_Deinit PROVE RestartInv'
<1> USE DEF RestartInv
<1>1. ShapeInv'
  BY EmptyIsSeq DEF AKL_DASH_Deinit, ShapeInv, Freed, Fresh
<1>2. SavedInv'
  BY DEF AKL_DASH_Deinit, SavedInv, SettingsKeepFirst
<1>3. StatusInv' /\ FlagsInv'
  BY DEF AKL_DASH_Deinit, StatusInv, StatusBacked, FlagsInv
<1>4. QED
  BY <1>1, <1>2, <1>3

(* A start empties the buffers, restores the offset of the file or the     *)
(* default, and notes a flag left set as carried.                          *)
LEMMA StartStep == ASSUME RestartInv, ak0991x_start PROVE RestartInv'
<1> USE DEF RestartInv
<1>0. PICK found \in {Restored(settings)} \cup Elsewhere :
        handle' = Aged(AKFS_InitMeasure([handle EXCEPT !.nv = found]))
  BY DEF ak0991x_start, AKL_StartMeasurement, Behind, ShapeInv
<1> DEFINE restored == [handle EXCEPT !.nv = found]
           started == [restored EXCEPT !.ho = restored.nv, !.hvbuf = <<>>, !.avbuf = <<>>, !.hbuf = 0, !.hobuf = <<>>]
<1>1. handle' = [started EXCEPT !.direction = IF @ = Unset THEN Unset ELSE "before"]
  BY <1>0 DEF Aged, AKFS_InitMeasure
<1>2. ShapeInv'
  <2> DEFINE Shaped(h) ==
               /\ DOMAIN h = {"allocated", "shared", "nv", "ho", "hbuf", "hobuf", "hvbuf", "avbuf", "hstatus", "direction"}
               /\ h = [x \in DOMAIN h |-> h[x]]
  <2>1. Shaped(handle) /\ handle.allocated
    BY DEF ShapeInv, ak0991x_start
  <2>2. Shaped(restored) /\ restored.allocated
    BY <2>1
  <2> HIDE DEF restored
  <2>3. Shaped(started) /\ started.allocated /\ started.avbuf = <<>> /\ started.hvbuf = <<>> /\ started.hobuf = <<>>
    BY <2>2
  <2> HIDE DEF started
  <2>4. Shaped(handle') /\ handle'.allocated /\ handle'.avbuf = <<>> /\ handle'.hvbuf = <<>> /\ handle'.hobuf = <<>>
    BY <1>1, <2>3
  <2>5. /\ DOMAIN hist' = {"opens", "first", "fields", "basis", "since", "status", "carried", "odd"}
        /\ hist' = [x \in DOMAIN hist' |-> hist'[x]] /\ hist'.carried \in BOOLEAN
    <3> DEFINE odd == Noted(hist.odd, handle'.nv # Restored(settings))
               status == IF hist.status = "now" THEN "before" ELSE hist.status
               carried == flags # {}
    <3>1. /\ hist' = [hist EXCEPT !.fields = 0, !.basis = <<>>, !.since = AKFS_HNAVE_V,
                                  !.carried = carried, !.status = status, !.odd = odd]
          /\ carried \in BOOLEAN
      BY DEF ak0991x_start
    <3> HIDE DEF odd, status, carried
    <3>2. QED
      BY <3>1 DEF ShapeInv
  <2>6. /\ running' = TRUE /\ fusing' = fusing /\ fusing \in BOOLEAN
        /\ flags' = flags /\ flags \subseteq {"up_a", "up_m"} /\ flags # {"up_a", "up_m"}
    BY DEF ak0991x_start, ShapeInv
  <2>7. IsSeq(handle'.avbuf) /\ IsSeq(handle'.hvbuf) /\ IsSeq(handle'.hobuf)
    BY <2>4, EmptyIsSeq
  <2>8. QED
    BY <2>4, <2>5, <2>6, <2>7 DEF ShapeInv, IsSeq
<1>3. handle'.nv = found
  BY <1>1 DEF ShapeInv
<1>4. SavedInv'
  <2>1. /\ settings' = settings /\ hist'.first = hist.first /\ settings # Short
        /\ hist'.odd = Noted(hist.odd, found # Restored(settings))
    BY <1>3 DEF ak0991x_start, ShapeInv
  <2>2. /\ "overwritten" \in hist.odd => "overwritten" \in hist'.odd
        /\ found # Restored(settings) => "overwritten" \in hist'.odd
    BY <2>1 DEF Noted
  <2>3. QED
    BY <1>0, <1>3, <2>1, <2>2 DEF SavedInv, SettingsKeepFirst, Restored
<1>5. StatusInv'
  BY DEF ak0991x_start, ShapeInv, StatusInv, StatusBacked
<1>6. FlagsInv'
  <2>1. "put unknown" \notin hist'.odd
    BY DEF ak0991x_start, ShapeInv, FlagsInv, Noted
  <2>2. QED
    BY <2>1 DEF ak0991x_start, ShapeInv, FlagsInv
<1>7. QED
  BY <1>2, <1>4, <1>5, <1>6

(* A stop writes what start restored, or what others have made of it, or   *)
(* leaves the file cut short.                                              *)
LEMMA StopStep == ASSUME RestartInv, ak0991x_stop PROVE RestartInv'
<1> USE DEF RestartInv
<1>1. PICK nv \in {handle.nv} \cup Elsewhere :
        /\ settings' \in {nv, settings, Short}
        /\ hist'.odd = Noted(hist.odd, nv # handle.nv) /\ hist'.first = hist.first
        /\ hist'.status = hist.status /\ hist'.carried = (flags # {})
        /\ DOMAIN hist' = DOMAIN hist /\ hist' = [x \in DOMAIN hist |-> hist'[x]]
  BY DEF ak0991x_stop, AKL_StopMeasurement, Behind, ShapeInv
<1>2. running /\ ~running' /\ ~fusing' /\ UNCHANGED <<handle, flags>> /\ running' \in BOOLEAN /\ fusing' \in BOOLEAN
  BY DEF ak0991x_stop
<1>3. ShapeInv'
  BY <1>1, <1>2 DEF ShapeInv
<1>4. /\ "overwritten" \in hist.odd => "overwritten" \in hist'.odd
      /\ nv # handle.nv => "overwritten" \in hist'.odd
      /\ "put unknown" \in hist'.odd => "put unknown" \in hist.odd
  <2>1. hist'.odd \in {hist.odd, hist.odd \cup {"overwritten"}}
        /\ (nv # handle.nv => hist'.odd = hist.odd \cup {"overwritten"})
    BY <1>1 DEF Noted
  <2> HIDE DEF RestartInv
  <2>2. QED
    BY <2>1
<1>5. SavedInv'
  BY <1>1, <1>2, <1>4 DEF SavedInv, SettingsKeepFirst
<1>6. StatusInv' /\ FlagsInv'
  BY <1>1, <1>2, <1>4 DEF StatusInv, StatusBacked, FlagsInv
<1>7. QED
  BY <1>3, <1>5, <1>6

(* Whether akm6d is active changes nothing the library holds.              *)
LEMMA FuseStep == ASSUME RestartInv, Fuse PROVE RestartInv'
  BY DEF RestartInv, Fuse, ShapeInv, SavedInv, SettingsKeepFirst, StatusInv, StatusBacked, FlagsInv

(***************************************************************************)
(* A sample.                                                               *)
(***************************************************************************)

HandleFields == {"allocated", "shared", "nv", "ho", "hbuf", "hobuf", "hvbuf", "avbuf", "hstatus", "direction"}
HistFields == {"opens", "first", "fields", "basis", "since", "status", "carried", "odd"}

Handle(h) ==
  /\ DOMAIN h = HandleFields /\ h = [x \in HandleFields |-> h[x]]
  /\ IsSeq(h.avbuf) /\ IsSeq(h.hvbuf) /\ IsSeq(h.hobuf)
Hist(h) == DOMAIN h = HistFields /\ h = [x \in HistFields |-> h[x]] /\ h.carried \in BOOLEAN

(* A field reaches the library: it is held, nothing else is lost, and what *)
(* the status then says is backed.                                         *)
LEMMA FieldHeld ==
  ASSUME NEW lib, Handle(lib), NEW estimate, NEW large \in BOOLEAN
  PROVE  LET next == AKFS_Set_MAGNETIC_FIELD(lib, estimate, large)
             success == AocSuccess(lib, estimate)
         IN  /\ Handle(next) /\ next.allocated = lib.allocated /\ next.nv = lib.nv
             /\ next.hvbuf # <<>> /\ (lib.avbuf # <<>> => next.avbuf # <<>>)
             /\ success => next.hobuf # <<>>
             /\ next.hstatus = IF large THEN 0 ELSE IF success THEN 3 ELSE lib.hstatus
<1> DEFINE aoc == AKFS_AOC(lib, estimate)
           success == AocSuccess(lib, estimate)
           next == AKFS_Set_MAGNETIC_FIELD(lib, estimate, large)
           hobuf == Take(<<estimate>> \o lib.hobuf, AKFS_HOBUF_SIZE)
<1>1. AKFS_HOBUF_SIZE \in Nat \ {0} /\ AKFS_HNAVE_V \in Nat \ {0}
  BY AkmAssumption DEF AkmAssumption
<1>2. IsSeq(hobuf) /\ hobuf # <<>>
  BY <1>1, TakeFirst DEF Handle
<1> HIDE DEF hobuf
<1>3. /\ DOMAIN aoc = HandleFields /\ aoc = [x \in HandleFields |-> aoc[x]]
      /\ aoc.hobuf \in {hobuf, lib.hobuf} /\ (success => aoc.hobuf = hobuf)
      /\ aoc.avbuf = lib.avbuf /\ aoc.hvbuf = lib.hvbuf
      /\ aoc.allocated = lib.allocated /\ aoc.nv = lib.nv /\ aoc.hstatus = lib.hstatus
  <2> DEFINE num == Min({lib.hbuf + 1, AKFS_HBUF_SIZE})
             left == Min({num, AKFS_HBUF_SIZE \div 2})
             agreed == Agreed(hobuf)
             mean == Mean(hobuf)
             none == num < 4 \/ estimate = NoOffset
  <2>1. aoc = IF none THEN [lib EXCEPT !.hbuf = num]
              ELSE [lib EXCEPT !.hbuf = left, !.hobuf = hobuf, !.ho = IF agreed THEN mean ELSE @]
    BY DEF AKFS_AOC, hobuf
  <2>2. success => ~none
    BY DEF AocSuccess
  <2> HIDE DEF left, agreed, mean, aoc
  <2>3. CASE none
    <3>1. aoc = [lib EXCEPT !.hbuf = num]
      BY <2>1, <2>3
    <3>2. ~success
      BY <2>2, <2>3
    <3> HIDE DEF num, success, none
    <3>3. QED
      BY <3>1, <3>2 DEF Handle, HandleFields
  <2>4. CASE ~none
    <3>1. aoc = [lib EXCEPT !.hbuf = left, !.hobuf = hobuf, !.ho = IF agreed THEN mean ELSE @]
      BY <2>1, <2>4
    <3> HIDE DEF num, success
    <3>2. QED
      BY <3>1 DEF Handle, HandleFields
  <2>5. QED
    BY <2>3, <2>4
<1> DEFINE avbuf == AKFS_BufShift(lib.avbuf)
           hvbuf == AKFS_VbNorm(lib.hvbuf, aoc.ho)
           status == IF large THEN 0 ELSE StatusAfter(lib, success)
<1>4. IsSeq(avbuf) /\ (lib.avbuf # <<>> => avbuf # <<>>)
  BY ShiftKeeps DEF Handle
<1>5. IsSeq(hvbuf) /\ hvbuf # <<>>
  <2> DEFINE ho == aoc.ho
  <2>1. hvbuf = Take(<<ho>> \o lib.hvbuf, AKFS_HNAVE_V)
    BY DEF AKFS_VbNorm
  <2> HIDE DEF ho, hvbuf
  <2>2. QED
    BY <1>1, <2>1, TakeFirst DEF Handle
<1>6. status = IF large THEN 0 ELSE IF success THEN 3 ELSE lib.hstatus
  BY DEF StatusAfter
<1>7. next = [aoc EXCEPT !.avbuf = avbuf, !.hvbuf = hvbuf, !.hstatus = status]
  <2>1. next = [aoc EXCEPT !.avbuf = AKFS_BufShift(aoc.avbuf), !.hvbuf = AKFS_VbNorm(aoc.hvbuf, aoc.ho),
                           !.hstatus = IF large THEN 0 ELSE StatusAfter(lib, success)]
    BY DEF AKFS_Set_MAGNETIC_FIELD
  <2> HIDE DEF aoc, success, next
  <2>2. QED
    BY <1>3, <2>1
<1> HIDE DEF aoc, success, next, avbuf, hvbuf, status
<1>8. /\ DOMAIN next = HandleFields /\ next = [x \in HandleFields |-> next[x]]
      /\ next.avbuf = avbuf /\ next.hvbuf = hvbuf /\ next.hobuf = aoc.hobuf
      /\ next.allocated = aoc.allocated /\ next.nv = aoc.nv /\ next.hstatus = status
  BY <1>3, <1>7 DEF HandleFields
<1>9. Handle(next)
  BY <1>2, <1>3, <1>4, <1>5, <1>8 DEF Handle
<1>10. QED
  BY <1>2, <1>3, <1>4, <1>5, <1>6, <1>8, <1>9 DEF next, success

(* A sample of an accelerometer is held; the fields are as they were.      *)
LEMMA AccelerationHeld ==
  ASSUME NEW lib, Handle(lib)
  PROVE  LET next == AKFS_Set_ACCELEROMETER(lib)
         IN  /\ Handle(next) /\ next.avbuf # <<>>
             /\ \A x \in HandleFields \ {"avbuf"} : next[x] = lib[x]
<1> DEFINE shifted == AKFS_BufShift(lib.avbuf)
           n == Max({Len(shifted), 1})
           avbuf == [i \in 1..n |-> IF i = 1 THEN 0 ELSE shifted[i] + 1]
           next == AKFS_Set_ACCELEROMETER(lib)
<1>1. Len(shifted) \in Nat
  BY ShiftKeeps DEF Handle, IsSeq
<1>2. n \in Nat /\ n > 0
  <2> DEFINE k == Len(shifted)
  <2>1. k \in Int /\ k >= 0
    BY <1>1
  <2>2. n = Max({k, 1})
    OBVIOUS
  <2> HIDE DEF k, n
  <2>3. n \in {k, 1} /\ n >= 1
    BY <2>1, <2>2, MinMaxOfTwo
  <2>4. QED
    BY <2>1, <2>3
<1>3. next = [lib EXCEPT !.avbuf = avbuf]
  BY DEF AKFS_Set_ACCELEROMETER
<1>4. avbuf = [i \in 1..n |-> avbuf[i]]
  <2> HIDE DEF n, shifted
  <2>1. QED
    OBVIOUS
<1> HIDE DEF n, avbuf, next
<1>5. IsSeq(avbuf) /\ avbuf # <<>>
  BY <1>2, <1>4, FunctionIsSeq
<1>6. QED
  BY <1>3, <1>5 DEF Handle, HandleFields, next

(* Both drivers have come, and none is left.                               *)
LEMMA BothCome == Cardinality({"up_a", "up_m"}) = 2
<1>1. IsFiniteSet({"up_a"}) /\ Cardinality({"up_a"}) = 1
  BY FS_Singleton
<1>2. {"up_a", "up_m"} = {"up_a"} \cup {"up_m"} /\ "up_m" \notin {"up_a"}
  OBVIOUS
<1>3. Cardinality({"up_a"} \cup {"up_m"}) = Cardinality({"up_a"}) + 1
  BY <1>1, <1>2, FS_AddElement
<1>4. QED
  BY <1>1, <1>2, <1>3

(* What a sample leaves when it comes to the fusion: an orientation put is *)
(* computed from this measurement, unless a flag was carried into it.      *)
LEMMA SampleFused ==
  ASSUME ShapeInv, FlagsInv, NEW lib, Handle(lib), NEW driver \in {"up_a", "up_m"},
         NEW h, Hist(h), h.carried = hist.carried, h.odd = hist.odd,
         driver = "up_m" => running /\ lib.hvbuf # <<>> /\ (handle.avbuf # <<>> => lib.avbuf # <<>>),
         driver = "up_a" => lib.avbuf # <<>> /\ lib.hvbuf = handle.hvbuf,
         akm6d_sensors_data(lib, driver, h)
  PROVE  /\ Handle(handle') /\ \A x \in HandleFields \ {"direction"} : handle'[x] = lib[x]
         /\ Hist(hist') /\ \A x \in HistFields \ {"carried"} : hist'[x] = h[x]
         /\ flags' \subseteq {"up_a", "up_m"} /\ flags' # {"up_a", "up_m"}
         /\ "put unknown" \notin hist'.odd
         /\ ~hist'.carried /\ "up_m" \in flags' => running /\ lib.hvbuf # <<>>
         /\ ~hist'.carried /\ "up_a" \in flags' /\ running => lib.avbuf # <<>>
<1> DEFINE come == flags \cup {driver}
           put == come = {"up_a", "up_m"}
           unknown(zero) == put /\ ~h.carried /\ ~zero /\ Direction(lib, zero) # "of this measurement"
<1>1. PICK zero \in BOOLEAN :
        /\ handle' = [lib EXCEPT !.direction = Direction(lib, zero)]
        /\ flags' = flags_left(come)
        /\ hist' = [h EXCEPT !.carried = @ /\ ~put,
                      !.odd = IF unknown(zero) THEN @ \cup {"put unknown"} ELSE @]
  BY DEF akm6d_sensors_data
<1>2. Handle(handle') /\ \A x \in HandleFields \ {"direction"} : handle'[x] = lib[x]
  BY <1>1 DEF Handle, HandleFields
<1>3. come \subseteq {"up_a", "up_m"} /\ flags' \in {{}, come} /\ (put => flags' = {})
  BY <1>1, BothCome DEF ShapeInv, flags_left
<1>4. put /\ ~h.carried => lib.avbuf # <<>> /\ lib.hvbuf # <<>>
  BY DEF FlagsInv
<1>5. ~unknown(zero)
  BY <1>4 DEF Direction
<1>6. /\ Hist(hist') /\ \A x \in HistFields \ {"carried", "odd"} : hist'[x] = h[x]
      /\ hist'.carried = (h.carried /\ ~put) /\ hist'.odd = h.odd
  <2>1. hist' = [h EXCEPT !.carried = h.carried /\ ~put, !.odd = h.odd]
    BY <1>1, <1>5
  <2> DEFINE carried == h.carried /\ ~put
  <2>2. carried \in BOOLEAN
    OBVIOUS
  <2>3. hist' = [h EXCEPT !.carried = carried, !.odd = h.odd]
    BY <2>1
  <2> HIDE DEF carried
  <2>4. Hist(hist') /\ (\A x \in HistFields \ {"carried", "odd"} : hist'[x] = h[x]) /\ hist'.carried = carried /\ hist'.odd = h.odd
    BY <2>2, <2>3 DEF Hist, HistFields
  <2>5. QED
    BY <2>4 DEF carried
<1>7. ~hist'.carried /\ flags' # {} => ~hist.carried /\ flags' = come
  BY <1>3, <1>6
<1>8. ~hist'.carried /\ "up_m" \in flags' => running /\ lib.hvbuf # <<>>
  BY <1>7 DEF FlagsInv
<1>9. ~hist'.carried /\ "up_a" \in flags' /\ running => lib.avbuf # <<>>
  BY <1>7 DEF FlagsInv
<1>10. QED
  BY <1>2, <1>3, <1>6, <1>8, <1>9 DEF FlagsInv, HistFields

(* What the invariant says of the records, by the names used below.        *)
LEMMA ShapeIsHandle ==
  ShapeInv <=> /\ running \in BOOLEAN /\ fusing \in BOOLEAN /\ (running \/ fusing => handle.allocated)
               /\ flags \subseteq {"up_a", "up_m"} /\ flags # {"up_a", "up_m"}
               /\ Handle(handle) /\ Hist(hist)
  BY DEF ShapeInv, Handle, Hist, HandleFields, HistFields

(* A sample of the accelerometer, whether a measurement runs or not.       *)
LEMMA AccStep == ASSUME RestartInv, AccSample PROVE RestartInv'
<1> DEFINE lib == AKFS_Set_ACCELEROMETER(handle)
<1>1. Handle(handle) /\ Hist(hist) /\ handle.allocated /\ running \in BOOLEAN /\ fusing \in BOOLEAN
  BY ShapeIsHandle DEF RestartInv, AccSample
<1>2. Handle(lib) /\ lib.avbuf # <<>> /\ \A x \in HandleFields \ {"avbuf"} : lib[x] = handle[x]
  BY <1>1, AccelerationHeld
<1>3. /\ lib.hvbuf = handle.hvbuf /\ lib.allocated = handle.allocated
      /\ lib.nv = handle.nv /\ lib.hstatus = handle.hstatus
  BY <1>2 DEF HandleFields
<1>4. akm6d_sensors_data(lib, "up_a", hist) /\ UNCHANGED <<running, fusing, settings>>
  BY DEF AccSample
<1> HIDE DEF lib
<1>5. /\ Handle(handle') /\ \A x \in HandleFields \ {"direction"} : handle'[x] = lib[x]
      /\ Hist(hist') /\ \A x \in HistFields \ {"carried"} : hist'[x] = hist[x]
      /\ flags' \subseteq {"up_a", "up_m"} /\ flags' # {"up_a", "up_m"}
      /\ "put unknown" \notin hist'.odd
      /\ ~hist'.carried /\ "up_m" \in flags' => running /\ lib.hvbuf # <<>>
      /\ ~hist'.carried /\ "up_a" \in flags' /\ running => lib.avbuf # <<>>
  BY <1>1, <1>2, <1>3, <1>4, SampleFused DEF RestartInv
<1>6. /\ handle'.hvbuf = lib.hvbuf /\ handle'.avbuf = lib.avbuf /\ handle'.allocated = lib.allocated
      /\ handle'.nv = lib.nv /\ handle'.hstatus = lib.hstatus
      /\ hist'.first = hist.first /\ hist'.status = hist.status /\ hist'.basis = hist.basis
      /\ hist'.odd = hist.odd
  BY <1>5 DEF HandleFields, HistFields
<1>7. ShapeInv'
  BY <1>1, <1>3, <1>4, <1>5, <1>6 DEF ShapeInv, Handle, Hist, HandleFields, HistFields
<1>8. SavedInv'
  BY <1>3, <1>4, <1>6 DEF RestartInv, SavedInv, SettingsKeepFirst
<1>9. StatusInv'
  BY <1>3, <1>4, <1>6 DEF RestartInv, StatusInv, StatusBacked
<1>10. FlagsInv'
  BY <1>4, <1>5, <1>6 DEF FlagsInv
<1>11. QED
  BY <1>7, <1>8, <1>9, <1>10 DEF RestartInv

(* A sample of the compass, with akm6d active or without.                  *)
LEMMA MagStep == ASSUME RestartInv, MagSample PROVE RestartInv'
<1>1. running /\ UNCHANGED <<running, fusing, settings>>
  BY DEF MagSample
<1>2. PICK estimate \in Estimates, large \in BOOLEAN :
        LET success == AocSuccess(handle, estimate)
            lib == AKFS_Set_MAGNETIC_FIELD(handle, estimate, large)
            h == [hist EXCEPT !.fields = Counted(@, FieldsCounted),
                              !.basis = IF success THEN lib.hobuf ELSE @,
                              !.since = IF lib.ho # handle.ho THEN 1 ELSE Counted(@, AKFS_HNAVE_V),
                              !.status = IF large \/ success THEN "now" ELSE @]
        IN  IF fusing THEN akm6d_sensors_data(lib, "up_m", h)
            ELSE handle' = lib /\ hist' = h /\ UNCHANGED flags
  BY DEF MagSample
<1> DEFINE success == AocSuccess(handle, estimate)
           lib == AKFS_Set_MAGNETIC_FIELD(handle, estimate, large)
           fields == Counted(hist.fields, FieldsCounted)
           since == IF lib.ho # handle.ho THEN 1 ELSE Counted(hist.since, AKFS_HNAVE_V)
           basis == IF success THEN lib.hobuf ELSE hist.basis
           status == IF large \/ success THEN "now" ELSE hist.status
           h == [hist EXCEPT !.fields = fields, !.basis = basis, !.since = since, !.status = status]
<1>3. IF fusing THEN akm6d_sensors_data(lib, "up_m", h)
      ELSE handle' = lib /\ hist' = h /\ UNCHANGED flags
  BY <1>2
<1>4. Handle(handle) /\ Hist(hist) /\ handle.allocated /\ running \in BOOLEAN /\ fusing \in BOOLEAN
  BY <1>1, ShapeIsHandle DEF RestartInv
<1>5. /\ Handle(lib) /\ lib.allocated = handle.allocated /\ lib.nv = handle.nv
      /\ lib.hvbuf # <<>> /\ (handle.avbuf # <<>> => lib.avbuf # <<>>)
      /\ success => lib.hobuf # <<>>
      /\ lib.hstatus = IF large THEN 0 ELSE IF success THEN 3 ELSE handle.hstatus
  BY <1>4, FieldHeld
<1> HIDE DEF lib, success, fields, since
<1>6. /\ Hist(h) /\ h.carried = hist.carried /\ h.odd = hist.odd /\ h.first = hist.first
      /\ h.basis = basis /\ h.status = status
  <2> HIDE DEF basis, status
  <2>1. QED
    BY <1>4 DEF Hist, HistFields
<1>7. lib.hstatus = 3 /\ status = "now" => basis # <<>>
  BY <1>1, <1>5 DEF RestartInv, StatusInv, StatusBacked
<1> HIDE DEF basis, status, h
<1>8. /\ Handle(handle') /\ \A x \in HandleFields \ {"direction"} : handle'[x] = lib[x]
      /\ Hist(hist') /\ \A x \in HistFields \ {"carried"} : hist'[x] = h[x]
      /\ flags' \subseteq {"up_a", "up_m"} /\ flags' # {"up_a", "up_m"}
      /\ "put unknown" \notin hist'.odd
      /\ ~hist'.carried /\ "up_m" \in flags' => running /\ lib.hvbuf # <<>>
      /\ ~hist'.carried /\ "up_a" \in flags' /\ running => lib.avbuf # <<>>
  <2>1. CASE fusing
    <3>1. akm6d_sensors_data(lib, "up_m", h)
      BY <1>3, <2>1
    <3>2. QED
      BY <1>1, <1>5, <1>6, <3>1, SampleFused DEF RestartInv
  <2>2. CASE ~fusing
    <3>1. handle' = lib /\ hist' = h /\ flags' = flags
      BY <1>3, <2>2
    <3>2. QED
      BY <1>1, <1>5, <1>6, <3>1 DEF RestartInv, ShapeInv, FlagsInv
  <2>3. QED
    BY <2>1, <2>2
<1>9. /\ handle'.hvbuf = lib.hvbuf /\ handle'.avbuf = lib.avbuf /\ handle'.allocated = lib.allocated
      /\ handle'.nv = lib.nv /\ handle'.hstatus = lib.hstatus
      /\ hist'.first = h.first /\ hist'.status = h.status /\ hist'.basis = h.basis
      /\ hist'.odd = h.odd
  BY <1>8 DEF HandleFields, HistFields
<1>10. ShapeInv'
  BY <1>1, <1>4, <1>5, <1>8, <1>9 DEF ShapeInv, Handle, Hist, HandleFields, HistFields
<1>11. SavedInv'
  BY <1>1, <1>5, <1>6, <1>9 DEF RestartInv, SavedInv, SettingsKeepFirst
<1>12. StatusInv'
  BY <1>1, <1>6, <1>7, <1>9 DEF StatusInv, StatusBacked
<1>13. FlagsInv'
  BY <1>1, <1>8, <1>9 DEF FlagsInv
<1>14. QED
  BY <1>10, <1>11, <1>12, <1>13 DEF RestartInv

(* What outlives a stop and a start is kept by every step.                 *)
LEMMA RestartNext == ASSUME RestartInv, [Next]_vars PROVE RestartInv'
<1>1. CASE AKL_DASH_Init
  BY <1>1, InitStep
<1>2. CASE AKL_DASH_Deinit
  BY <1>2, DeinitStep
<1>3. CASE ak0991x_start
  BY <1>3, StartStep
<1>4. CASE ak0991x_stop
  BY <1>4, StopStep
<1>5. CASE Fuse
  BY <1>5, FuseStep
<1>6. CASE MagSample
  BY <1>6, MagStep
<1>7. CASE AccSample
  BY <1>7, AccStep
<1>8. CASE UNCHANGED vars
  BY <1>8 DEF vars, RestartInv, ShapeInv, SavedInv, SettingsKeepFirst, StatusInv, StatusBacked, FlagsInv
<1>9. QED
  BY <1>1, <1>2, <1>3, <1>4, <1>5, <1>6, <1>7, <1>8 DEF Next

(* However often a measurement is stopped and started again: a status that *)
(* was written in it is good only after an offset was found in it, an      *)
(* orientation put is computed from its samples unless a flag was carried  *)
(* into it, and the settings are those held at first or the defaults, or   *)
(* a file cut short, as long as what the library keeps behind the memory   *)
(* it allocated was as it had written it whenever it was read.             *)
THEOREM AkmRestartsSound == Spec => []RestartsSound
<1>1. RestartInv /\ [Next]_vars => RestartInv'
  BY RestartNext
<1>2. RestartInv => RestartsSound
  BY DEF RestartInv, SavedInv, StatusInv, FlagsInv, RestartsSound, OrientationOfMeasurement, SettingsKeepFirst
<1>3. QED
  BY RestartInit, <1>1, <1>2, PTL DEF Spec

(***************************************************************************)
(* The order of the buffers, and the offset in use.                        *)
(***************************************************************************)

\* What the buffers and the history hold.
HeldInv ==
  /\ TypeOK
  /\ handle.ho \in Int /\ (running => handle.nv \in Nat)
  /\ handle.avbuf \in Seq(Int) /\ handle.hvbuf \in Seq(Int) /\ handle.hobuf \in Seq(Offsets)
  /\ hist.fields \in 0..FieldsCounted /\ hist.since \in 0..AKFS_HNAVE_V

(* Four fields are needed for an offset, so that there are three fewer     *)
(* offsets than fields came in.                                            *)
AgreeInv ==
  /\ OffsetAgreed
  /\ running => /\ handle.hbuf <= hist.fields \/ hist.fields >= 3
                /\ handle.hobuf # <<>> => Len(handle.hobuf) + 3 <= hist.fields

(* The fields that came since the offset changed were corrected by it.     *)
AverageInv ==
  running => \A i \in DOMAIN handle.hvbuf : i <= hist.since => handle.hvbuf[i] = handle.ho

OffsetInv == HeldInv /\ AccelerationsInOrder /\ AgreeInv /\ AverageInv

(* The lengths of the buffers, and the fields counted.                     *)
LEMMA Lengths ==
  /\ AKFS_ADATA_SIZE \in Nat \ {0} /\ AKFS_HNAVE_V \in Nat \ {0}
  /\ AKFS_HBUF_SIZE \in Nat \ {0} /\ AKFS_HOBUF_SIZE \in Nat \ {0}
  /\ Offsets \subseteq Nat /\ Offsets \subseteq Int
  /\ FieldsCounted \in Nat
  /\ FieldsCounted >= AKFS_HOBUF_SIZE + 3 /\ FieldsCounted >= AKFS_ADATA_SIZE
<1>1. /\ AKFS_ADATA_SIZE \in Nat \ {0} /\ AKFS_HNAVE_V \in Nat \ {0}
      /\ AKFS_HBUF_SIZE \in Nat \ {0} /\ AKFS_HOBUF_SIZE \in Nat \ {0}
      /\ Offsets \subseteq Nat
  BY AkmAssumption DEF AkmAssumption
<1> DEFINE offsets == AKFS_HOBUF_SIZE + 3
<1>2. offsets \in Int /\ AKFS_ADATA_SIZE \in Int
  BY <1>1
<1>3. FieldsCounted = Max({offsets, AKFS_ADATA_SIZE})
  BY DEF FieldsCounted
<1> HIDE DEF offsets
<1>4. FieldsCounted \in {offsets, AKFS_ADATA_SIZE} /\ FieldsCounted >= offsets /\ FieldsCounted >= AKFS_ADATA_SIZE
  BY <1>2, <1>3, MinMaxOfTwo
<1>5. QED
  BY <1>1, <1>2, <1>4 DEF offsets

(* A count goes up by one until it reaches its cap.                        *)
LEMMA CountedUp ==
  ASSUME NEW cap \in Nat, NEW n \in 0..cap
  PROVE  Counted(n, cap) \in 0..cap /\ Counted(n, cap) = IF n = cap THEN n ELSE n + 1
<1> DEFINE k == n + 1
<1>1. k \in Int /\ Counted(n, cap) = Min({k, cap})
  BY DEF Counted
<1>2. Min({k, cap}) \in {k, cap} /\ Min({k, cap}) <= k /\ Min({k, cap}) <= cap
  <2> HIDE DEF k
  <2>1. QED
    BY <1>1, MinMaxOfTwo
<1>3. QED
  BY <1>1, <1>2

\* The buffer taken begins with x and goes on with s, as far as it goes.
Begins(taken, x, s) ==
  /\ taken[1] = x
  /\ \A i \in 2..Len(taken) : i - 1 \in 1..Len(s) /\ taken[i] = s[i - 1]

(* What is put first in a buffer moves the others by one, and as many as   *)
(* the buffer has room for stay.                                           *)
LEMMA TakenFirst ==
  ASSUME NEW S, NEW x \in S, NEW s \in Seq(S), NEW n \in Nat \ {0}
  PROVE  LET taken == Take(<<x>> \o s, n)
         IN  /\ taken \in Seq(S) /\ Len(taken) <= n /\ Len(taken) <= Len(s) + 1 /\ Len(taken) >= 1
             /\ Begins(taken, x, s)
<1> DEFINE whole == <<x>> \o s
           size == Len(whole)
           m == Min({n, size})
           taken == Take(whole, n)
<1>1. whole \in Seq(S) /\ size = Len(s) + 1 /\ size \in Nat /\ Len(s) \in Nat
  OBVIOUS
<1>2. whole[1] = x /\ \A i \in 2..size : i - 1 \in 1..Len(s) /\ whole[i] = s[i - 1]
  BY <1>1
<1>3. taken = SubSeq(whole, 1, m)
  BY DEF Take
<1> HIDE DEF whole, taken
<1>4. m \in {n, size} /\ m <= n /\ m <= size
  <2>1. size \in Int /\ n \in Int
    BY <1>1
  <2> HIDE DEF size
  <2>2. QED
    BY <2>1, MinMaxOfTwo
<1> HIDE DEF m, size
<1>5. m \in 1..size /\ m \in Nat
  BY <1>1, <1>4
<1>6. taken \in Seq(S) /\ Len(taken) = m /\ \A i \in 1..m : taken[i] = whole[i]
  BY <1>1, <1>3, <1>5 DEF size
<1>7. Begins(taken, x, s)
  BY <1>1, <1>2, <1>4, <1>5, <1>6 DEF Begins
<1>8. QED
  BY <1>1, <1>4, <1>5, <1>6, <1>7 DEF taken, whole

(* The fields held after one more, which the offset given corrects.        *)
LEMMA FieldsNormed ==
  ASSUME NEW ho \in Int, NEW hvbuf \in Seq(Int)
  PROVE  LET fields == AKFS_VbNorm(hvbuf, ho)
         IN  /\ fields \in Seq(Int) /\ Len(fields) <= AKFS_HNAVE_V /\ Len(fields) >= 1 /\ fields[1] = ho
             /\ \A i \in 2..Len(fields) : i - 1 \in 1..Len(hvbuf) /\ fields[i] = hvbuf[i - 1]
<1>1. AKFS_HNAVE_V \in Nat \ {0}
  BY Lengths
<1>2. AKFS_VbNorm(hvbuf, ho) = Take(<<ho>> \o hvbuf, AKFS_HNAVE_V)
  BY DEF AKFS_VbNorm
<1> DEFINE taken == Take(<<ho>> \o hvbuf, AKFS_HNAVE_V)
<1>3. /\ taken \in Seq(Int) /\ Len(taken) <= AKFS_HNAVE_V /\ Len(taken) >= 1
      /\ Begins(taken, ho, hvbuf)
  BY <1>1, TakenFirst
<1> HIDE DEF taken
<1>4. QED
  BY <1>2, <1>3 DEF taken, Begins

(* A shift leaves the first where it is and moves every one by one, as far *)
(* as the array goes.                                                      *)
LEMMA Shifted ==
  ASSUME NEW s \in Seq(Int)
  PROVE  LET shifted == AKFS_BufShift(s)
         IN  /\ shifted \in Seq(Int) /\ Len(shifted) <= AKFS_ADATA_SIZE
             /\ s = <<>> => shifted = <<>>
             /\ \A i \in 1..Len(shifted) :
                  /\ i = 1 => 1 \in 1..Len(s) /\ shifted[i] = s[1]
                  /\ i > 1 => i - 1 \in 1..Len(s) /\ shifted[i] = s[i - 1]
<1>1. AKFS_ADATA_SIZE \in Nat /\ AKFS_ADATA_SIZE > 0
  BY Lengths
<1>2. CASE s = <<>>
  BY <1>1, <1>2 DEF AKFS_BufShift
<1>3. CASE s # <<>>
  <2> DEFINE shifted == AKFS_BufShift(s)
             size == Len(s) + 1
             n == Min({size, AKFS_ADATA_SIZE})
  <2>1. size \in Nat /\ size >= 2 /\ Len(s) \in Nat /\ Len(s) >= 1
    BY <1>3
  <2>2. n \in {size, AKFS_ADATA_SIZE} /\ n <= size /\ n <= AKFS_ADATA_SIZE
    <3>1. size \in Int /\ AKFS_ADATA_SIZE \in Int
      BY <1>1, <2>1
    <3> HIDE DEF size
    <3>2. QED
      BY <3>1, MinMaxOfTwo
  <2>3. shifted = [i \in 1..n |-> s[Max({i - 1, 1})]]
    BY <1>3 DEF AKFS_BufShift
  <2> HIDE DEF n, shifted
  <2>4. n \in Nat /\ n >= 1
    BY <1>1, <2>1, <2>2
  <2>5. \A i \in 1..n : Max({i - 1, 1}) = IF i = 1 THEN 1 ELSE i - 1
    <3> SUFFICES ASSUME NEW i \in 1..n PROVE Max({i - 1, 1}) = IF i = 1 THEN 1 ELSE i - 1
      OBVIOUS
    <3> DEFINE k == i - 1
               most == Max({k, 1})
    <3>1. k \in Int /\ k >= 0 /\ 1 \in Int
      BY <2>4
    <3>2. most \in {k, 1} /\ most >= k /\ most >= 1
      <4> HIDE DEF k
      <4>1. QED
        BY <3>1, MinMaxOfTwo
    <3> HIDE DEF most
    <3>3. most = IF k = 0 THEN 1 ELSE k
      BY <3>1, <3>2
    <3>4. QED
      BY <2>4, <3>3 DEF most
  <2>6. \A i \in 1..n : IF i = 1 THEN shifted[i] = s[1] /\ shifted[i] \in Int
                        ELSE i - 1 \in 1..Len(s) /\ shifted[i] = s[i - 1] /\ shifted[i] \in Int
    <3> SUFFICES ASSUME NEW i \in 1..n
                 PROVE  IF i = 1 THEN shifted[i] = s[1] /\ shifted[i] \in Int
                        ELSE i - 1 \in 1..Len(s) /\ shifted[i] = s[i - 1] /\ shifted[i] \in Int
      OBVIOUS
    <3>1. shifted[i] = s[Max({i - 1, 1})]
      BY <2>3
    <3>2. shifted[i] = s[IF i = 1 THEN 1 ELSE i - 1]
      BY <2>5, <3>1
    <3>3. i # 1 => i - 1 \in 1..Len(s)
      BY <2>1, <2>2
    <3>4. QED
      BY <2>1, <3>2, <3>3
  <2>7. shifted \in [1..n -> Int]
    <3>1. \A i \in 1..n : shifted[i] \in Int
      BY <2>6
    <3>2. QED
      BY <2>3, <3>1
  <2>8. shifted \in Seq(Int) /\ Len(shifted) = n
    BY <2>4, <2>7
  <2>9. QED
    BY <1>3, <2>1, <2>2, <2>4, <2>6, <2>8 DEF shifted
<1>4. QED
  BY <1>2, <1>3

(* Some offsets have a least and a largest one.                            *)
LEMMA OffsetsBounded ==
  ASSUME NEW s \in Seq(Nat), s # <<>>
  PROVE  LET held == ToSet(s)
         IN  /\ Min(held) \in held /\ \A i \in DOMAIN s : Min(held) <= s[i]
             /\ Max(held) \in held /\ \A i \in DOMAIN s : Max(held) >= s[i]
             /\ Min(held) \in Nat /\ Max(held) \in Nat /\ Min(held) <= Max(held)
<1> DEFINE held == ToSet(s)
           n == Len(s)
           MaxOf(k) == \E i \in 1..k : \A j \in 1..k : s[j] <= s[i]
           Without == {k \in 1..n : ~MaxOf(k)}
<1>1. n \in Nat /\ n >= 1 /\ DOMAIN s = 1..n /\ \A i \in 1..n : s[i] \in Nat
  OBVIOUS
<1>2. held \subseteq Nat /\ held # {} /\ \A x \in held : \E i \in 1..n : x = s[i]
  BY <1>1 DEF ToSet
<1>3. \A i \in 1..n : s[i] \in held
  BY <1>1 DEF ToSet
<1>4. MaxOf(n)
  <2>1. SUFFICES ASSUME ~MaxOf(n) PROVE FALSE
    OBVIOUS
  <2>2. Without \subseteq Nat /\ n \in Without
    BY <1>1, <2>1
  <2>3. PICK k \in Without : \A l \in Without : k <= l
    <3> HIDE DEF Without
    <3>1. QED
      BY <2>2, LeastNatural
  <2>4. k \in 1..n /\ ~MaxOf(k)
    BY <2>3
  <2>5. \A l \in 1..n : l < k => MaxOf(l)
    <3> SUFFICES ASSUME NEW l \in 1..n, l < k, ~MaxOf(l) PROVE FALSE
      OBVIOUS
    <3>1. l \in Without
      OBVIOUS
    <3>2. k <= l
      BY <2>3, <3>1
    <3>3. QED
      BY <2>4, <3>2
  <2>6. CASE k = 1
    <3>1. s[1] <= s[1]
      BY <1>1
    <3>2. QED
      BY <2>4, <2>6, <3>1
  <2>7. CASE k # 1
    <3>1. k - 1 \in 1..n /\ k - 1 < k
      BY <1>1, <2>4, <2>7
    <3>2. PICK i \in 1..(k - 1) : \A j \in 1..(k - 1) : s[j] <= s[i]
      BY <2>5, <3>1
    <3>3. i \in 1..k /\ i \in 1..n /\ k \in 1..k /\ k \in 1..n
      BY <1>1, <2>4, <3>2
    <3>4. \A j \in 1..k : j = k \/ j \in 1..(k - 1)
      BY <2>4
    <3> DEFINE value(j) == s[j]
    <3>5. \A j \in 1..k : value(j) \in Nat
      <4>1. 1..k \subseteq 1..n
        BY <1>1, <2>4
      <4>2. QED
        BY <1>1, <4>1
    <3>6. \A j \in 1..(k - 1) : value(j) <= value(i)
      BY <3>2
    <3>7. ~\E l \in 1..k : \A j \in 1..k : value(j) <= value(l)
      BY <2>4
    <3> HIDE DEF value
    <3>8. CASE value(i) <= value(k)
      <4>1. \A j \in 1..k : value(j) <= value(k)
        <5> SUFFICES ASSUME NEW j \in 1..k PROVE value(j) <= value(k)
          OBVIOUS
        <5>1. value(j) \in Nat /\ value(k) \in Nat /\ value(i) \in Nat
          BY <3>3, <3>5
        <5>2. CASE j = k
          BY <5>1, <5>2
        <5>3. CASE j \in 1..(k - 1)
          <6>1. value(j) <= value(i)
            BY <3>6, <5>3
          <6> DEFINE a == value(j)
                     b == value(i)
                     c == value(k)
          <6>2. a \in Nat /\ b \in Nat /\ c \in Nat /\ a <= b /\ b <= c
            BY <3>8, <5>1, <6>1
          <6> HIDE DEF a, b, c
          <6>3. a <= c
            BY <6>2
          <6>4. QED
            BY <6>3 DEF a, c
        <5>4. QED
          BY <3>4, <5>2, <5>3
      <4>2. QED
        BY <3>3, <3>7, <4>1
    <3>9. CASE ~(value(i) <= value(k))
      <4>1. \A j \in 1..k : value(j) <= value(i)
        BY <3>3, <3>4, <3>5, <3>6, <3>9
      <4>2. QED
        BY <3>3, <3>7, <4>1
    <3>10. QED
      BY <3>8, <3>9
  <2>8. QED
    BY <2>6, <2>7
<1>5. \E x \in held : \A y \in held : x >= y
  <2>1. PICK i \in 1..n : \A j \in 1..n : s[j] <= s[i]
    BY <1>4
  <2>2. \A y \in held : s[i] >= y
    BY <1>1, <1>2, <2>1
  <2>3. QED
    BY <1>3, <2>2
<1>6. \E x \in held : \A y \in held : x <= y
  <2> HIDE DEF held
  <2>1. QED
    BY <1>2, LeastNatural
<1> HIDE DEF held
<1>7. Max(held) \in held /\ \A y \in held : Max(held) >= y
  BY <1>5 DEF Max
<1>8. Min(held) \in held /\ \A y \in held : Min(held) <= y
  BY <1>6 DEF Min
<1>9. QED
  BY <1>1, <1>2, <1>3, <1>7, <1>8 DEF held

(* Offsets that agree lie within HO_TH of each other, and their middle     *)
(* between them.                                                           *)
LEMMA MiddleBetween ==
  ASSUME NEW s \in Seq(Nat), s # <<>>, Agreed(s)
  PROVE  /\ \A i, j \in DOMAIN s : s[i] - s[j] < HO_TH
         /\ Mean(s) \in Min(ToSet(s))..Max(ToSet(s))
<1> DEFINE low == Min(ToSet(s))
           high == Max(ToSet(s))
<1>1. /\ low \in Nat /\ high \in Nat /\ low <= high
      /\ \A i \in DOMAIN s : low <= s[i] /\ high >= s[i]
  BY OffsetsBounded
<1>2. high - low < HO_TH /\ HO_TH \in Nat
  BY AkmAssumption DEF AkmAssumption, Agreed, Spread
<1>3. Mean(s) = (high + low) \div 2
  BY DEF Mean
<1>4. \A i \in DOMAIN s : s[i] \in Nat
  OBVIOUS
<1> HIDE DEF low, high
<1>5. \A i, j \in DOMAIN s : s[i] - s[j] < HO_TH
  BY <1>1, <1>2, <1>4
<1>6. (high + low) \div 2 \in low..high
  BY <1>1
<1>7. QED
  BY <1>3, <1>5, <1>6 DEF low, high

(* What a field changes in the library, one buffer after the other.        *)
LEMMA FieldWritten ==
  ASSUME NEW lib, Handle(lib), NEW estimate, NEW large \in BOOLEAN
  PROVE  LET next == AKFS_Set_MAGNETIC_FIELD(lib, estimate, large)
             num == Min({lib.hbuf + 1, AKFS_HBUF_SIZE})
             none == num < 4 \/ estimate = NoOffset
             hobuf == Take(<<estimate>> \o lib.hobuf, AKFS_HOBUF_SIZE)
             success == AocSuccess(lib, estimate)
         IN  /\ next.avbuf = AKFS_BufShift(lib.avbuf) /\ next.hvbuf = AKFS_VbNorm(lib.hvbuf, next.ho)
             /\ success <=> ~none /\ Agreed(hobuf)
             /\ next.hbuf = IF none THEN num ELSE Min({num, AKFS_HBUF_SIZE \div 2})
             /\ next.hobuf = IF none THEN lib.hobuf ELSE hobuf
             /\ next.ho = IF success THEN Mean(hobuf) ELSE lib.ho
<1> DEFINE aoc == AKFS_AOC(lib, estimate)
           next == AKFS_Set_MAGNETIC_FIELD(lib, estimate, large)
           num == Min({lib.hbuf + 1, AKFS_HBUF_SIZE})
           left == Min({num, AKFS_HBUF_SIZE \div 2})
           none == num < 4 \/ estimate = NoOffset
           hobuf == Take(<<estimate>> \o lib.hobuf, AKFS_HOBUF_SIZE)
           agreed == Agreed(hobuf)
           mean == IF agreed THEN Mean(hobuf) ELSE lib.ho
           success == AocSuccess(lib, estimate)
<1>1. success <=> ~none /\ agreed
  BY DEF AocSuccess
<1>2. aoc = IF none THEN [lib EXCEPT !.hbuf = num]
            ELSE [lib EXCEPT !.hbuf = left, !.hobuf = hobuf, !.ho = mean]
  BY DEF AKFS_AOC, Handle, HandleFields
<1> HIDE DEF num, left, none, hobuf, agreed, success, mean, aoc
<1>3. /\ DOMAIN aoc = HandleFields /\ aoc.avbuf = lib.avbuf /\ aoc.hvbuf = lib.hvbuf
      /\ aoc.hbuf = IF none THEN num ELSE left
      /\ aoc.hobuf = IF none THEN lib.hobuf ELSE hobuf
      /\ aoc.ho = IF none THEN lib.ho ELSE mean
  <2>1. CASE none
    <3>1. aoc = [lib EXCEPT !.hbuf = num]
      BY <1>2, <2>1
    <3>2. QED
      BY <2>1, <3>1 DEF Handle, HandleFields
  <2>2. CASE ~none
    <3>1. aoc = [lib EXCEPT !.hbuf = left, !.hobuf = hobuf, !.ho = mean]
      BY <1>2, <2>2
    <3>2. QED
      BY <2>2, <3>1 DEF Handle, HandleFields
  <2>3. QED
    BY <2>1, <2>2
<1> DEFINE status == IF large THEN 0 ELSE StatusAfter(lib, success)
           avbuf == AKFS_BufShift(lib.avbuf)
           hvbuf == AKFS_VbNorm(lib.hvbuf, aoc.ho)
<1>4. next = [aoc EXCEPT !.avbuf = avbuf, !.hvbuf = hvbuf, !.hstatus = status]
  <2>1. next = [aoc EXCEPT !.avbuf = AKFS_BufShift(aoc.avbuf), !.hvbuf = AKFS_VbNorm(aoc.hvbuf, aoc.ho),
                           !.hstatus = IF large THEN 0 ELSE StatusAfter(lib, success)]
    BY DEF AKFS_Set_MAGNETIC_FIELD, aoc, success
  <2> HIDE DEF next
  <2>2. QED
    BY <1>3, <2>1
<1> HIDE DEF next, status, avbuf, hvbuf
<1>5. /\ next.avbuf = avbuf /\ next.hvbuf = hvbuf /\ next.hbuf = aoc.hbuf
      /\ next.hobuf = aoc.hobuf /\ next.ho = aoc.ho
  BY <1>3, <1>4 DEF HandleFields
<1>6. next.hvbuf = AKFS_VbNorm(lib.hvbuf, next.ho)
  BY <1>5 DEF hvbuf
<1>7. next.ho = IF success THEN Mean(hobuf) ELSE lib.ho
  BY <1>1, <1>3, <1>5 DEF mean
<1>8. QED
  BY <1>1, <1>3, <1>5, <1>6, <1>7 DEF next, num, left, none, hobuf, agreed, success, avbuf

\* The records as they were, but for the direction and what is noted of it.
DirectionWritten(lib, h) ==
  \E direction, carried, odd :
    handle' = [lib EXCEPT !.direction = direction] /\ hist' = [h EXCEPT !.carried = carried, !.odd = odd]

(* The fusion writes no buffer: only the direction, and what it notes.     *)
LEMMA FusionWrites ==
  ASSUME NEW lib, NEW driver, NEW h, akm6d_sensors_data(lib, driver, h)
  PROVE  DirectionWritten(lib, h)
<1> DEFINE come == flags \cup {driver}
           put == come = {"up_a", "up_m"}
<1>1. PICK zero \in BOOLEAN :
        LET direction == Direction(lib, zero)
        IN  /\ handle' = [lib EXCEPT !.direction = direction]
            /\ hist' = [h EXCEPT !.carried = @ /\ ~put,
                          !.odd = IF put /\ ~h.carried /\ ~zero /\ direction # "of this measurement"
                                  THEN @ \cup {"put unknown"} ELSE @]
  BY DEF akm6d_sensors_data
<1> DEFINE direction == Direction(lib, zero)
           carried == h.carried /\ ~put
           odd == IF put /\ ~h.carried /\ ~zero /\ direction # "of this measurement"
                  THEN h.odd \cup {"put unknown"} ELSE h.odd
<1>2. handle' = [lib EXCEPT !.direction = direction] /\ hist' = [h EXCEPT !.carried = carried, !.odd = odd]
  BY <1>1
<1> HIDE DEF direction, carried, odd
<1>3. QED
  BY <1>2 DEF DirectionWritten

(* What a sample of the compass leaves, fused or not.                      *)
LEMMA FieldTaken ==
  ASSUME RestartInv, MagSample
  PROVE  /\ running /\ UNCHANGED <<running, fusing, settings>>
         /\ handle'.nv = handle.nv /\ handle'.allocated = handle.allocated
         /\ handle'.hstatus \in {0, 3, handle.hstatus}
         /\ handle'.avbuf = AKFS_BufShift(handle.avbuf)
         /\ handle'.hvbuf = AKFS_VbNorm(handle.hvbuf, handle'.ho)
         /\ hist'.fields = Counted(hist.fields, FieldsCounted)
         /\ hist'.since = IF handle'.ho # handle.ho THEN 1 ELSE Counted(hist.since, AKFS_HNAVE_V)
         /\ \E estimate \in Estimates :
              LET num == Min({handle.hbuf + 1, AKFS_HBUF_SIZE})
                  none == num < 4 \/ estimate = NoOffset
                  hobuf == Take(<<estimate>> \o handle.hobuf, AKFS_HOBUF_SIZE)
                  success == ~none /\ Agreed(hobuf)
              IN  /\ handle'.hbuf = IF none THEN num ELSE Min({num, AKFS_HBUF_SIZE \div 2})
                  /\ handle'.hobuf = IF none THEN handle.hobuf ELSE hobuf
                  /\ handle'.ho = IF success THEN Mean(hobuf) ELSE handle.ho
                  /\ hist'.basis = IF success THEN hobuf ELSE hist.basis
<1>1. PICK estimate \in Estimates, large \in BOOLEAN :
        LET success == AocSuccess(handle, estimate)
            lib == AKFS_Set_MAGNETIC_FIELD(handle, estimate, large)
            h == [hist EXCEPT !.fields = Counted(@, FieldsCounted),
                              !.basis = IF success THEN lib.hobuf ELSE @,
                              !.since = IF lib.ho # handle.ho THEN 1 ELSE Counted(@, AKFS_HNAVE_V),
                              !.status = IF large \/ success THEN "now" ELSE @]
        IN  IF fusing THEN akm6d_sensors_data(lib, "up_m", h)
            ELSE handle' = lib /\ hist' = h /\ UNCHANGED flags
  BY DEF MagSample
<1>2. running /\ UNCHANGED <<running, fusing, settings>> /\ Handle(handle) /\ Hist(hist)
  BY ShapeIsHandle DEF MagSample, RestartInv
<1> DEFINE success == AocSuccess(handle, estimate)
           lib == AKFS_Set_MAGNETIC_FIELD(handle, estimate, large)
           fields == Counted(hist.fields, FieldsCounted)
           since == IF lib.ho # handle.ho THEN 1 ELSE Counted(hist.since, AKFS_HNAVE_V)
           basis == IF success THEN lib.hobuf ELSE hist.basis
           status == IF large \/ success THEN "now" ELSE hist.status
           h == [hist EXCEPT !.fields = fields, !.basis = basis, !.since = since, !.status = status]
           num == Min({handle.hbuf + 1, AKFS_HBUF_SIZE})
           left == Min({num, AKFS_HBUF_SIZE \div 2})
           none == num < 4 \/ estimate = NoOffset
           hobuf == Take(<<estimate>> \o handle.hobuf, AKFS_HOBUF_SIZE)
           agreed == Agreed(hobuf)
           mean == Mean(hobuf)
<1>3. IF fusing THEN akm6d_sensors_data(lib, "up_m", h)
      ELSE handle' = lib /\ hist' = h /\ UNCHANGED flags
  BY <1>1
<1>4. /\ Handle(lib) /\ lib.allocated = handle.allocated /\ lib.nv = handle.nv
      /\ lib.hstatus = IF large THEN 0 ELSE IF success THEN 3 ELSE handle.hstatus
  BY <1>2, FieldHeld
<1>5. /\ lib.avbuf = AKFS_BufShift(handle.avbuf) /\ lib.hvbuf = AKFS_VbNorm(handle.hvbuf, lib.ho)
      /\ success <=> ~none /\ agreed
      /\ lib.hbuf = IF none THEN num ELSE left
      /\ lib.hobuf = IF none THEN handle.hobuf ELSE hobuf
      /\ lib.ho = IF success THEN mean ELSE handle.ho
  BY <1>2, FieldWritten
<1> HIDE DEF lib, success, fields, since, basis, status
<1>6. Hist(h) /\ h.fields = fields /\ h.basis = basis /\ h.since = since
  BY <1>2 DEF Hist, HistFields
<1> HIDE DEF h
<1>7. /\ \A x \in HandleFields \ {"direction"} : handle'[x] = lib[x]
      /\ \A x \in HistFields \ {"carried", "odd"} : hist'[x] = h[x]
  <2>1. CASE fusing
    <3>1. akm6d_sensors_data(lib, "up_m", h)
      BY <1>3, <2>1
    <3>2. DirectionWritten(lib, h)
      BY <3>1, FusionWrites
    <3>3. QED
      BY <1>4, <1>6, <3>2 DEF DirectionWritten, Handle, Hist, HandleFields, HistFields
  <2>2. CASE ~fusing
    BY <1>3, <2>2
  <2>3. QED
    BY <2>1, <2>2
<1>8. /\ handle'.nv = lib.nv /\ handle'.allocated = lib.allocated /\ handle'.hstatus = lib.hstatus
      /\ handle'.avbuf = lib.avbuf /\ handle'.hvbuf = lib.hvbuf /\ handle'.hbuf = lib.hbuf
      /\ handle'.hobuf = lib.hobuf /\ handle'.ho = lib.ho
      /\ hist'.fields = fields /\ hist'.basis = basis /\ hist'.since = since
  BY <1>6, <1>7 DEF HandleFields, HistFields
<1>9. basis = IF ~none /\ agreed THEN hobuf ELSE hist.basis
  <2> HIDE DEF num, none, hobuf, agreed
  <2>1. QED
    BY <1>5 DEF basis
<1>10. since = IF handle'.ho # handle.ho THEN 1 ELSE Counted(hist.since, AKFS_HNAVE_V)
  BY <1>8 DEF since
<1>11. /\ handle'.hbuf = IF none THEN num ELSE left
       /\ handle'.hobuf = IF none THEN handle.hobuf ELSE hobuf
       /\ handle'.ho = IF ~none /\ agreed THEN mean ELSE handle.ho
       /\ hist'.basis = IF ~none /\ agreed THEN hobuf ELSE hist.basis
  <2> HIDE DEF num, left, none, hobuf, agreed, mean
  <2>1. QED
    BY <1>5, <1>8, <1>9
<1>12. handle'.hstatus \in {0, 3, handle.hstatus}
  BY <1>4, <1>8
<1>13. /\ handle'.avbuf = AKFS_BufShift(handle.avbuf)
       /\ handle'.hvbuf = AKFS_VbNorm(handle.hvbuf, handle'.ho)
  BY <1>5, <1>8
<1>14. hist'.fields = Counted(hist.fields, FieldsCounted)
  BY <1>8 DEF fields
<1>15. QED
  BY <1>2, <1>4, <1>8, <1>10, <1>11, <1>12, <1>13, <1>14

(* What a sample of the accelerometer leaves.                              *)
LEMMA AccelerationTaken ==
  ASSUME RestartInv, AccSample
  PROVE  LET shifted == AKFS_BufShift(handle.avbuf)
         IN  /\ UNCHANGED <<running, fusing, settings>>
             /\ handle'.avbuf = [i \in 1..Max({Len(shifted), 1}) |-> IF i = 1 THEN 0 ELSE shifted[i] + 1]
             /\ \A x \in HandleFields \ {"avbuf", "direction"} : handle'[x] = handle[x]
             /\ hist'.fields = hist.fields /\ hist'.since = hist.since /\ hist'.basis = hist.basis
<1> DEFINE lib == AKFS_Set_ACCELEROMETER(handle)
           shifted == AKFS_BufShift(handle.avbuf)
           avbuf == [i \in 1..Max({Len(shifted), 1}) |-> IF i = 1 THEN 0 ELSE shifted[i] + 1]
<1>1. Handle(handle) /\ Hist(hist)
  BY ShapeIsHandle DEF RestartInv
<1>2. akm6d_sensors_data(lib, "up_a", hist) /\ UNCHANGED <<running, fusing, settings>>
  BY DEF AccSample
<1>3. lib = [handle EXCEPT !.avbuf = avbuf]
  BY DEF AKFS_Set_ACCELEROMETER
<1> HIDE DEF lib, avbuf
<1>4. DOMAIN lib = HandleFields /\ lib.avbuf = avbuf /\ \A x \in HandleFields \ {"avbuf"} : lib[x] = handle[x]
  BY <1>1, <1>3 DEF Handle, HandleFields
<1>5. DirectionWritten(lib, hist)
  <2>1. akm6d_sensors_data(lib, "up_a", hist)
    BY <1>2
  <2>2. QED
    BY <2>1, FusionWrites
<1>6. /\ \A x \in HandleFields \ {"direction"} : handle'[x] = lib[x]
      /\ \A x \in HistFields \ {"carried", "odd"} : hist'[x] = hist[x]
  BY <1>1, <1>4, <1>5 DEF DirectionWritten, Hist, HandleFields, HistFields
<1>7. /\ handle'.avbuf = avbuf
      /\ \A x \in HandleFields \ {"avbuf", "direction"} : handle'[x] = handle[x]
      /\ hist'.fields = hist.fields /\ hist'.since = hist.since /\ hist'.basis = hist.basis
  BY <1>4, <1>6 DEF HandleFields, HistFields
<1>8. QED
  BY <1>2, <1>7 DEF avbuf

(* Before the first AKL_DASH_Init no buffer holds anything.                *)
LEMMA OffsetInit == Init => OffsetInv
<1> SUFFICES ASSUME Init PROVE OffsetInv
  OBVIOUS
<1>1. /\ running \in BOOLEAN /\ fusing \in BOOLEAN /\ ~running /\ ~fusing /\ flags = {}
      /\ handle = Freed /\ settings \in Saved \cup {NoFile, Short, Foreign}
      /\ hist.fields = 0 /\ hist.since = AKFS_HNAVE_V
  BY DEF Init
<1>2. /\ handle.allocated \in BOOLEAN /\ handle.ho \in Int /\ handle.hbuf = 0 /\ handle.hstatus = 0
      /\ handle.avbuf = <<>> /\ handle.hvbuf = <<>> /\ handle.hobuf = <<>>
  BY <1>1 DEF Freed, Fresh, NoOffset
<1>3. Saved \subseteq Nat
  BY AkmAssumption DEF AkmAssumption
<1>4. HeldInv
  <2>1. TypeOK
    <3>1. Len(handle.avbuf) = 0 /\ Len(handle.hvbuf) = 0 /\ Len(handle.hobuf) = 0
      BY <1>2
    <3>2. QED
      BY <1>1, <1>2, <1>3, <3>1, Lengths DEF TypeOK
  <2>2. 0 \in 0..FieldsCounted /\ AKFS_HNAVE_V \in 0..AKFS_HNAVE_V
    BY Lengths
  <2>3. QED
    BY <1>1, <1>2, <2>1, <2>2 DEF HeldInv
<1>5. AccelerationsInOrder /\ AgreeInv /\ AverageInv
  BY <1>1 DEF AccelerationsInOrder, AgreeInv, OffsetAgreed, AverageInv
<1>6. QED
  BY <1>4, <1>5 DEF OffsetInv

(* A step that is no sample and no start changes no buffer of a            *)
(* measurement: what is said of them stays.                                *)
LEMMA IdleStep ==
  ASSUME RestartInv, RestartInv', OffsetInv,
         AKL_DASH_Init \/ AKL_DASH_Deinit \/ ak0991x_stop \/ Fuse \/ UNCHANGED vars
  PROVE  OffsetInv'
<1> USE DEF OffsetInv
<1>1. CASE AKL_DASH_Init
  <2>1. PICK hstatus \in {0, 3}, shared \in BOOLEAN : handle' = Fresh(hstatus, shared)
    BY <1>1 DEF AKL_DASH_Init
  <2>2. ~running /\ ~fusing /\ UNCHANGED <<running, fusing, flags, settings>>
    BY <1>1 DEF AKL_DASH_Init, HeldInv, TypeOK
  <2>3. hist'.fields = hist.fields /\ hist'.since = hist.since
    BY <1>1 DEF AKL_DASH_Init, RestartInv, ShapeInv
  <2>4. /\ handle'.allocated \in BOOLEAN /\ handle'.ho \in Int /\ handle'.hbuf = 0 /\ handle'.hstatus = hstatus
        /\ handle'.avbuf = <<>> /\ handle'.hvbuf = <<>> /\ handle'.hobuf = <<>>
    BY <2>1 DEF Fresh, NoOffset
  <2>5. HeldInv'
    <3>1. TypeOK'
      <4>1. Len(handle'.avbuf) = 0 /\ Len(handle'.hvbuf) = 0 /\ Len(handle'.hobuf) = 0
        BY <2>4
      <4>2. QED
        BY <2>2, <2>4, <4>1, Lengths DEF HeldInv, TypeOK
    <3>2. QED
      BY <2>2, <2>3, <2>4, <3>1 DEF HeldInv
  <2>6. QED
    BY <2>2, <2>5 DEF AccelerationsInOrder, AgreeInv, OffsetAgreed, AverageInv
<1>2. CASE AKL_DASH_Deinit
  <2>1. /\ handle' = Freed /\ ~running /\ ~fusing /\ UNCHANGED <<running, fusing, flags, settings, hist>>
    BY <1>2 DEF AKL_DASH_Deinit
  <2>2. /\ handle'.allocated \in BOOLEAN /\ handle'.ho \in Int /\ handle'.hbuf = 0 /\ handle'.hstatus = 0
        /\ handle'.avbuf = <<>> /\ handle'.hvbuf = <<>> /\ handle'.hobuf = <<>>
    BY <2>1 DEF Freed, Fresh, NoOffset
  <2>3. HeldInv'
    <3>1. TypeOK'
      <4>1. Len(handle'.avbuf) = 0 /\ Len(handle'.hvbuf) = 0 /\ Len(handle'.hobuf) = 0
        BY <2>2
      <4>2. QED
        BY <2>1, <2>2, <4>1, Lengths DEF HeldInv, TypeOK
    <3>2. QED
      BY <2>1, <2>2, <3>1 DEF HeldInv
  <2>4. QED
    BY <2>1, <2>3 DEF AccelerationsInOrder, AgreeInv, OffsetAgreed, AverageInv
<1>3. CASE ak0991x_stop
  <2>1. /\ running /\ running' = FALSE /\ fusing' = FALSE /\ UNCHANGED <<handle, flags>>
        /\ settings' \in {handle.nv, settings, Short} \cup Elsewhere
    BY <1>3 DEF ak0991x_stop, AKL_StopMeasurement, Behind
  <2>2. hist'.fields = hist.fields /\ hist'.since = hist.since
    BY <1>3 DEF ak0991x_stop, RestartInv, ShapeInv
  <2>3. HeldInv'
    BY <2>1, <2>2, AkmAssumption DEF HeldInv, TypeOK, AkmAssumption
  <2>4. QED
    BY <2>1, <2>3 DEF AccelerationsInOrder, AgreeInv, OffsetAgreed, AverageInv
<1>4. CASE Fuse
  <2>1. handle.allocated /\ fusing \in BOOLEAN /\ fusing' = ~fusing /\ UNCHANGED <<handle, running, flags, settings, hist>>
    BY <1>4 DEF Fuse, HeldInv, TypeOK
  <2>2. fusing' \in BOOLEAN
    BY <2>1
  <2>3. HeldInv'
    BY <2>1, <2>2 DEF HeldInv, TypeOK
  <2>4. QED
    BY <2>1, <2>3 DEF AccelerationsInOrder, AgreeInv, OffsetAgreed, AverageInv
<1>5. CASE UNCHANGED vars
  BY <1>5 DEF vars, HeldInv, TypeOK, AccelerationsInOrder, AgreeInv, OffsetAgreed, AverageInv
<1>6. QED
  BY <1>1, <1>2, <1>3, <1>4, <1>5

(* A start empties the buffers and uses the offset restored.               *)
LEMMA StartOffset ==
  ASSUME RestartInv, RestartInv', OffsetInv, ak0991x_start
  PROVE  OffsetInv'
<1> USE DEF OffsetInv
<1>0. PICK nv \in {Restored(settings)} \cup Elsewhere :
        handle' = Aged(AKFS_InitMeasure([handle EXCEPT !.nv = nv]))
  BY DEF ak0991x_start, AKL_StartMeasurement, Behind, RestartInv, ShapeInv
<1>1. /\ handle.allocated /\ ~running /\ running' = TRUE /\ UNCHANGED <<fusing, flags, settings>>
      /\ settings # Short /\ settings \in Nat \cup {NoFile, Short, Foreign}
  BY DEF ak0991x_start, HeldInv, TypeOK
<1>2. nv \in Nat
  BY <1>0, <1>1, AkmAssumption DEF AkmAssumption, Restored
<1>3. /\ handle'.ho = nv /\ handle'.nv = nv /\ handle'.hbuf = 0 /\ handle'.hstatus = handle.hstatus
      /\ handle'.hvbuf = <<>> /\ handle'.avbuf = <<>> /\ handle'.hobuf = <<>> /\ handle'.allocated = handle.allocated
  <2> DEFINE started == [handle EXCEPT !.nv = nv, !.ho = nv, !.hvbuf = <<>>, !.avbuf = <<>>, !.hbuf = 0, !.hobuf = <<>>]
             direction == IF handle.direction = Unset THEN Unset ELSE "before"
  <2>1. DOMAIN handle = HandleFields
    BY DEF RestartInv, ShapeInv, HandleFields
  <2>2. handle' = [started EXCEPT !.direction = direction]
    BY <1>0, <2>1 DEF Aged, AKFS_InitMeasure, HandleFields
  <2> HIDE DEF direction
  <2>3. QED
    BY <2>1, <2>2 DEF HandleFields
<1>4. hist'.fields = 0 /\ hist'.since = AKFS_HNAVE_V /\ hist'.basis = <<>>
  BY DEF ak0991x_start, RestartInv, ShapeInv
<1>5. HeldInv'
  BY <1>1, <1>2, <1>3, <1>4, Lengths DEF HeldInv, TypeOK
<1>6. AccelerationsInOrder' /\ AgreeInv' /\ AverageInv'
  BY <1>3, <1>4 DEF AccelerationsInOrder, AgreeInv, OffsetAgreed, AverageInv
<1>7. QED
  BY <1>5, <1>6

(* A sample of the accelerometer makes those held one older.               *)
LEMMA AccelerationOffset ==
  ASSUME RestartInv, RestartInv', OffsetInv, AccSample
  PROVE  OffsetInv'
<1> USE DEF OffsetInv
<1> DEFINE s == handle.avbuf
           shifted == AKFS_BufShift(s)
           n == Max({Len(shifted), 1})
           f == hist.fields
<1>1. /\ UNCHANGED <<running, fusing, settings>>
      /\ handle'.avbuf = [i \in 1..n |-> IF i = 1 THEN 0 ELSE shifted[i] + 1]
      /\ \A x \in HandleFields \ {"avbuf", "direction"} : handle'[x] = handle[x]
      /\ hist'.fields = f /\ hist'.since = hist.since /\ hist'.basis = hist.basis
  BY AccelerationTaken
<1>2. /\ handle'.allocated = handle.allocated /\ handle'.nv = handle.nv /\ handle'.ho = handle.ho
      /\ handle'.hbuf = handle.hbuf /\ handle'.hobuf = handle.hobuf /\ handle'.hvbuf = handle.hvbuf
      /\ handle'.hstatus = handle.hstatus
  BY <1>1 DEF HandleFields
<1>3. s \in Seq(Int) /\ f \in 0..FieldsCounted /\ f \in Nat
  BY Lengths DEF HeldInv
<1>4. /\ shifted \in Seq(Int) /\ Len(shifted) <= AKFS_ADATA_SIZE
      /\ \A i \in 1..Len(shifted) : i > 1 => i - 1 \in 1..Len(s) /\ shifted[i] = s[i - 1]
  BY <1>3, Shifted
<1>5. n \in {Len(shifted), 1} /\ n >= Len(shifted) /\ n >= 1 /\ n \in Nat /\ Len(shifted) \in Nat
  <2> DEFINE k == Len(shifted)
  <2>1. k \in Int /\ k \in Nat /\ 1 \in Int
    BY <1>4
  <2>2. n = Max({k, 1})
    OBVIOUS
  <2> HIDE DEF k, n
  <2>3. n \in {k, 1} /\ n >= k /\ n >= 1
    BY <2>1, <2>2, MinMaxOfTwo
  <2>4. QED
    BY <2>1, <2>3 DEF k
<1> HIDE DEF n, shifted, f
<1>6. n <= AKFS_ADATA_SIZE
  BY <1>4, <1>5, Lengths
<1>7. \A i \in 2..n : /\ i \in 1..Len(shifted) /\ i - 1 \in 1..Len(s)
                      /\ handle'.avbuf[i] = s[i - 1] + 1 /\ s[i - 1] \in Int
  <2> SUFFICES ASSUME NEW i \in 2..n
               PROVE  /\ i \in 1..Len(shifted) /\ i - 1 \in 1..Len(s)
                      /\ handle'.avbuf[i] = s[i - 1] + 1 /\ s[i - 1] \in Int
    OBVIOUS
  <2>1. i \in 1..Len(shifted) /\ i > 1 /\ i \in 1..n /\ i # 1
    BY <1>5
  <2>2. handle'.avbuf[i] = shifted[i] + 1
    BY <1>1, <2>1
  <2>3. i - 1 \in 1..Len(s) /\ shifted[i] = s[i - 1]
    BY <1>4, <2>1
  <2>4. QED
    BY <1>3, <2>1, <2>2, <2>3
<1>8. handle'.avbuf[1] = 0 /\ handle'.avbuf \in Seq(Int) /\ Len(handle'.avbuf) = n /\ DOMAIN handle'.avbuf = 1..n
  <2>1. \A i \in 1..n : (IF i = 1 THEN 0 ELSE shifted[i] + 1) \in Int
    <3> SUFFICES ASSUME NEW i \in 1..n PROVE (IF i = 1 THEN 0 ELSE shifted[i] + 1) \in Int
      OBVIOUS
    <3>1. i # 1 => i \in 1..Len(shifted)
      BY <1>5
    <3>2. QED
      BY <1>4, <3>1
  <2>2. handle'.avbuf \in [1..n -> Int]
    BY <1>1, <2>1
  <2>3. QED
    BY <1>1, <1>5, <2>2
<1>9. HeldInv'
  <2>1. TypeOK'
    BY <1>1, <1>2, <1>6, <1>8 DEF HeldInv, TypeOK, RestartInv, ShapeInv
  <2>2. QED
    BY <1>1, <1>2, <1>8, <2>1 DEF HeldInv, f
<1>10. AccelerationsInOrder'
  <2> SUFFICES ASSUME running', NEW i \in DOMAIN handle'.avbuf
               PROVE  /\ handle'.avbuf[i] \in (i - 1 - f)..(i - 1) /\ handle'.avbuf[i] >= 0
                      /\ i > 1 => handle'.avbuf[i] - handle'.avbuf[i - 1] \in {0, 1}
    BY <1>1 DEF AccelerationsInOrder
  <2>1. i \in 1..n /\ i \in Nat
    BY <1>8
  <2> DEFINE Ordered(j) == /\ s[j] \in (j - 1 - f)..(j - 1) /\ s[j] >= 0
                           /\ j > 1 => s[j] - s[j - 1] \in {0, 1}
  <2>2. \A j \in 1..Len(s) : Ordered(j)
    <3>1. DOMAIN handle.avbuf = 1..Len(s) /\ running
      BY <1>1, <1>3
    <3>2. QED
      BY <3>1 DEF AccelerationsInOrder, f
  <2>3. CASE i = 1
    BY <1>3, <1>8, <2>1, <2>3
  <2>4. CASE i = 2
    <3>1. 1 \in 1..Len(s) /\ handle'.avbuf[2] = s[1] + 1 /\ s[1] \in Int
      BY <1>7, <2>1, <2>4
    <3>2. s[1] \in (0 - f)..0 /\ s[1] >= 0
      BY <2>2, <3>1
    <3>3. s[1] = 0
      BY <1>3, <3>2
    <3>4. handle'.avbuf[2] = 1
      BY <3>1, <3>3
    <3>5. QED
      BY <1>3, <1>8, <2>4, <3>4
  <2>5. CASE i > 2
    <3>1. i - 1 \in 2..n /\ i \in 2..n
      BY <1>5, <2>1, <2>5
    <3>2. /\ handle'.avbuf[i] = s[i - 1] + 1 /\ s[i - 1] \in Int /\ i - 1 \in 1..Len(s)
      BY <1>7, <3>1
    <3>3. handle'.avbuf[i - 1] = s[i - 1 - 1] + 1 /\ s[i - 1 - 1] \in Int
      BY <1>7, <3>1
    <3>4. Ordered(i - 1)
      BY <2>2, <3>2
    <3> DEFINE a == s[i - 1]
               b == s[i - 1 - 1]
               c == handle'.avbuf[i]
               d == handle'.avbuf[i - 1]
    <3>5. a \in (i - 1 - 1 - f)..(i - 1 - 1) /\ a >= 0 /\ (i - 1 > 1 => a - b \in {0, 1})
      BY <3>4
    <3>6. a \in Int /\ b \in Int /\ c = a + 1 /\ d = b + 1
      BY <3>2, <3>3
    <3> HIDE DEF a, b, c, d
    <3>7. c \in (i - 1 - f)..(i - 1) /\ c >= 0 /\ c - d \in {0, 1}
      BY <1>3, <2>1, <2>5, <3>5, <3>6
    <3>8. QED
      BY <3>7 DEF c, d
  <2>6. QED
    BY <2>1, <2>3, <2>4, <2>5
<1>11. AgreeInv' /\ AverageInv'
  BY <1>1, <1>2 DEF AgreeInv, OffsetAgreed, AverageInv, f
<1>12. QED
  BY <1>9, <1>10, <1>11

(* A field moves the accelerations by one, and joins the offsets and the   *)
(* fields held.                                                            *)
LEMMA FieldOffset ==
  ASSUME RestartInv, RestartInv', OffsetInv, MagSample
  PROVE  OffsetInv'
<1> USE DEF OffsetInv
<1> DEFINE s == handle.avbuf
           shifted == AKFS_BufShift(s)
           f == hist.fields
           g == hist'.fields
<1>1. /\ running /\ UNCHANGED <<running, fusing, settings>>
      /\ handle'.nv = handle.nv /\ handle'.allocated = handle.allocated
      /\ handle'.hstatus \in {0, 3, handle.hstatus}
      /\ handle'.avbuf = shifted
      /\ handle'.hvbuf = AKFS_VbNorm(handle.hvbuf, handle'.ho)
      /\ g = Counted(f, FieldsCounted)
      /\ hist'.since = IF handle'.ho # handle.ho THEN 1 ELSE Counted(hist.since, AKFS_HNAVE_V)
  BY FieldTaken
<1>2. PICK estimate \in Estimates :
        LET num == Min({handle.hbuf + 1, AKFS_HBUF_SIZE})
            none == num < 4 \/ estimate = NoOffset
            hobuf == Take(<<estimate>> \o handle.hobuf, AKFS_HOBUF_SIZE)
            success == ~none /\ Agreed(hobuf)
        IN  /\ handle'.hbuf = IF none THEN num ELSE Min({num, AKFS_HBUF_SIZE \div 2})
            /\ handle'.hobuf = IF none THEN handle.hobuf ELSE hobuf
            /\ handle'.ho = IF success THEN Mean(hobuf) ELSE handle.ho
            /\ hist'.basis = IF success THEN hobuf ELSE hist.basis
  BY FieldTaken
<1> DEFINE num == Min({handle.hbuf + 1, AKFS_HBUF_SIZE})
           half == AKFS_HBUF_SIZE \div 2
           left == Min({num, half})
           none == num < 4 \/ estimate = NoOffset
           hobuf == Take(<<estimate>> \o handle.hobuf, AKFS_HOBUF_SIZE)
           success == ~none /\ Agreed(hobuf)
           mean == Mean(hobuf)
<1>3. /\ handle'.hbuf = IF none THEN num ELSE left
      /\ handle'.hobuf = IF none THEN handle.hobuf ELSE hobuf
      /\ handle'.ho = IF success THEN mean ELSE handle.ho
      /\ hist'.basis = IF success THEN hobuf ELSE hist.basis
  BY <1>2
<1>4. /\ s \in Seq(Int) /\ handle.hvbuf \in Seq(Int) /\ handle.hobuf \in Seq(Offsets)
      /\ handle.hbuf \in 0..AKFS_HBUF_SIZE /\ handle.ho \in Int /\ hist.since \in 0..AKFS_HNAVE_V
      /\ Len(handle.hobuf) <= AKFS_HOBUF_SIZE
      /\ f \in 0..FieldsCounted /\ f \in Nat
  BY Lengths DEF HeldInv, TypeOK
<1>5. num \in {handle.hbuf + 1, AKFS_HBUF_SIZE} /\ num <= handle.hbuf + 1 /\ num <= AKFS_HBUF_SIZE
  <2> DEFINE k == handle.hbuf + 1
  <2>1. k \in Int /\ AKFS_HBUF_SIZE \in Int
    BY <1>4, Lengths
  <2>2. num = Min({k, AKFS_HBUF_SIZE})
    OBVIOUS
  <2> HIDE DEF k, num
  <2>3. num \in {k, AKFS_HBUF_SIZE} /\ num <= k /\ num <= AKFS_HBUF_SIZE
    BY <2>1, <2>2, MinMaxOfTwo
  <2>4. QED
    BY <2>3 DEF k
<1> HIDE DEF num
<1>6. num \in Nat
  BY <1>4, <1>5, Lengths
<1>7. left \in {num, half} /\ left <= num /\ half \in Nat
  <2>1. num \in Int /\ half \in Int /\ half \in Nat
    BY <1>6, Lengths
  <2> HIDE DEF half
  <2>2. QED
    BY <2>1, MinMaxOfTwo
<1> HIDE DEF left, half
<1>8. handle'.hbuf \in 0..AKFS_HBUF_SIZE /\ handle'.hbuf <= handle.hbuf + 1
  <2>1. left \in Nat /\ left <= num
    BY <1>6, <1>7
  <2>2. handle'.hbuf \in {num, left}
    BY <1>3
  <2>3. QED
    BY <1>4, <1>5, <1>6, <2>1, <2>2, Lengths
<1>9. ~none => /\ hobuf \in Seq(Offsets) /\ hobuf # <<>>
               /\ Len(hobuf) <= AKFS_HOBUF_SIZE /\ Len(hobuf) <= Len(handle.hobuf) + 1
  <2> SUFFICES ASSUME ~none
               PROVE  /\ hobuf \in Seq(Offsets) /\ hobuf # <<>>
                      /\ Len(hobuf) <= AKFS_HOBUF_SIZE /\ Len(hobuf) <= Len(handle.hobuf) + 1
    OBVIOUS
  <2>1. estimate \in Offsets
    BY DEF Estimates
  <2>2. AKFS_HOBUF_SIZE \in Nat \ {0}
    BY Lengths
  <2>3. /\ hobuf \in Seq(Offsets) /\ Len(hobuf) >= 1
        /\ Len(hobuf) <= AKFS_HOBUF_SIZE /\ Len(hobuf) <= Len(handle.hobuf) + 1
    BY <1>4, <2>1, <2>2, TakenFirst
  <2>4. QED
    BY <2>3
<1> HIDE DEF hobuf, mean
<1>10. success => /\ mean \in Int
                  /\ mean \in Min(ToSet(hobuf))..Max(ToSet(hobuf))
                  /\ \A i, j \in DOMAIN hobuf : hobuf[i] - hobuf[j] < HO_TH
  <2> SUFFICES ASSUME success
               PROVE  /\ mean \in Int
                      /\ mean \in Min(ToSet(hobuf))..Max(ToSet(hobuf))
                      /\ \A i, j \in DOMAIN hobuf : hobuf[i] - hobuf[j] < HO_TH
    OBVIOUS
  <2>1. hobuf \in Seq(Offsets) /\ hobuf # <<>> /\ Agreed(hobuf) /\ Offsets \subseteq Nat
    BY <1>9, Lengths
  <2>2. hobuf \in Seq(Nat)
    <3> DEFINE n == Len(hobuf)
    <3>1. n \in Nat /\ hobuf = [i \in 1..n |-> hobuf[i]] /\ \A i \in 1..n : hobuf[i] \in Nat
      BY <2>1
    <3> HIDE DEF n
    <3>2. hobuf \in [1..n -> Nat]
      BY <3>1
    <3>3. QED
      BY <3>1, <3>2
  <2>3. mean \in Min(ToSet(hobuf))..Max(ToSet(hobuf)) /\ \A i, j \in DOMAIN hobuf : hobuf[i] - hobuf[j] < HO_TH
    BY <2>1, <2>2, MiddleBetween DEF mean
  <2>4. QED
    BY <2>3
<1>11. handle'.ho \in Int
  <2>1. handle'.ho \in {mean, handle.ho} /\ (~success => handle'.ho = handle.ho)
    BY <1>3
  <2>2. QED
    BY <1>4, <1>10, <2>1
<1> DEFINE fields == handle'.hvbuf
<1>12. /\ fields \in Seq(Int) /\ Len(fields) <= AKFS_HNAVE_V /\ Len(fields) >= 1 /\ fields[1] = handle'.ho
       /\ \A i \in 2..Len(fields) : i - 1 \in 1..Len(handle.hvbuf) /\ fields[i] = handle.hvbuf[i - 1]
  <2>1. fields = AKFS_VbNorm(handle.hvbuf, handle'.ho) /\ handle.hvbuf \in Seq(Int) /\ handle'.ho \in Int
    BY <1>1, <1>4, <1>11
  <2> HIDE DEF fields
  <2>2. QED
    BY <2>1, FieldsNormed
<1>13. /\ shifted \in Seq(Int) /\ Len(shifted) <= AKFS_ADATA_SIZE
       /\ \A i \in 1..Len(shifted) :
            /\ i = 1 => 1 \in 1..Len(s) /\ shifted[i] = s[1]
            /\ i > 1 => i - 1 \in 1..Len(s) /\ shifted[i] = s[i - 1]
  BY <1>4, Shifted
<1> HIDE DEF shifted, f, g, none
<1>14. g \in 0..FieldsCounted /\ g \in Nat /\ g = IF f = FieldsCounted THEN f ELSE f + 1
  <2>1. FieldsCounted \in Nat
    BY Lengths
  <2>2. Counted(f, FieldsCounted) \in 0..FieldsCounted
        /\ Counted(f, FieldsCounted) = IF f = FieldsCounted THEN f ELSE f + 1
    BY <1>4, <2>1, CountedUp
  <2>3. QED
    BY <1>1, <2>1, <2>2
<1>15. /\ hist'.since \in 0..AKFS_HNAVE_V
       /\ handle'.ho = handle.ho => hist'.since <= hist.since + 1
       /\ handle'.ho # handle.ho => hist'.since = 1
  <2> DEFINE since == hist.since
  <2>1. AKFS_HNAVE_V \in Nat /\ AKFS_HNAVE_V >= 1 /\ since \in 0..AKFS_HNAVE_V
    BY <1>4, Lengths
  <2>2. Counted(since, AKFS_HNAVE_V) \in 0..AKFS_HNAVE_V
        /\ Counted(since, AKFS_HNAVE_V) = IF since = AKFS_HNAVE_V THEN since ELSE since + 1
    <3> HIDE DEF since
    <3>1. QED
      BY <2>1, CountedUp
  <2>3. QED
    BY <1>1, <2>1, <2>2
<1>16. HeldInv'
  <2>1. handle'.hobuf \in Seq(Offsets) /\ Len(handle'.hobuf) <= AKFS_HOBUF_SIZE
    BY <1>3, <1>4, <1>9
  <2>2. handle'.hstatus \in {0, 3}
    BY <1>1 DEF HeldInv, TypeOK
  <2>3. TypeOK'
    BY <1>1, <1>8, <1>12, <1>13, <2>1, <2>2 DEF HeldInv, TypeOK, RestartInv, ShapeInv
  <2>4. QED
    BY <1>1, <1>11, <1>12, <1>13, <1>14, <1>15, <2>1, <2>3 DEF HeldInv, g
<1>17. AccelerationsInOrder'
  <2> SUFFICES ASSUME NEW i \in DOMAIN handle'.avbuf
               PROVE  /\ handle'.avbuf[i] \in (i - 1 - g)..(i - 1) /\ handle'.avbuf[i] >= 0
                      /\ i > 1 => handle'.avbuf[i] - handle'.avbuf[i - 1] \in {0, 1}
    BY DEF AccelerationsInOrder, g
  <2>1. i \in 1..Len(shifted) /\ i \in Nat /\ i <= AKFS_ADATA_SIZE /\ Len(shifted) \in Nat
    BY <1>1, <1>13, Lengths
  <2> DEFINE Ordered(j) == /\ s[j] \in (j - 1 - f)..(j - 1) /\ s[j] >= 0
                           /\ j > 1 => s[j] - s[j - 1] \in {0, 1}
  <2>2. \A j \in 1..Len(s) : Ordered(j) /\ s[j] \in Int
    <3>1. DOMAIN handle.avbuf = 1..Len(s) /\ \A j \in 1..Len(s) : s[j] \in Int
      BY <1>4
    <3>2. QED
      BY <1>1, <3>1 DEF AccelerationsInOrder, f
  <2>3. CASE i = 1
    <3>1. 1 \in 1..Len(s) /\ handle'.avbuf[i] = s[1]
      BY <1>1, <1>13, <2>1, <2>3
    <3>2. s[1] \in (0 - f)..0 /\ s[1] >= 0
      BY <2>2, <3>1
    <3>3. QED
      BY <1>4, <1>14, <2>3, <3>1, <3>2
  <2>4. CASE i > 1
    <3> DEFINE a == s[i - 1]
               b == s[i - 1 - 1]
               c == handle'.avbuf[i]
               d == handle'.avbuf[i - 1]
    <3>1. i - 1 \in 1..Len(s) /\ c = a
      BY <1>1, <1>13, <2>1, <2>4
    <3>2. a \in Int /\ a \in (i - 1 - 1 - f)..(i - 1 - 1) /\ a >= 0 /\ (i - 1 > 1 => a - b \in {0, 1})
      BY <2>2, <3>1
    <3>3. i = 2 => d = a
      BY <1>1, <1>13, <2>1
    <3>4. i # 2 => i - 1 > 1 /\ d = b
      <4>1. i # 2 => i - 1 \in 1..Len(shifted) /\ i - 1 > 1
        BY <2>1, <2>4
      <4>2. QED
        BY <1>1, <1>13, <4>1
    <3> HIDE DEF a, b, c, d
    <3>5. i - 1 - g <= a
      <4>1. f = FieldsCounted => i - 1 - g < 0
        BY <1>14, <2>1, Lengths
      <4>2. f # FieldsCounted => i - 1 - g = i - 1 - 1 - f
        BY <1>4, <1>14, <2>1
      <4>3. QED
        BY <1>4, <1>14, <2>1, <3>2, <4>1, <4>2
    <3>6. c \in (i - 1 - g)..(i - 1) /\ c >= 0
      BY <1>14, <2>1, <3>1, <3>2, <3>5
    <3>7. c - d \in {0, 1}
      BY <3>1, <3>2, <3>3, <3>4
    <3>8. QED
      BY <3>6, <3>7 DEF c, d
  <2>5. QED
    BY <2>1, <2>3, <2>4
<1>18. AgreeInv'
  <2>1. /\ handle.hbuf <= f \/ f >= 3
        /\ handle.hobuf # <<>> => Len(handle.hobuf) + 3 <= f
    BY <1>1 DEF AgreeInv, f
  <2>2. FieldsCounted \in Nat /\ FieldsCounted >= AKFS_HOBUF_SIZE + 3 /\ AKFS_HOBUF_SIZE \in Nat /\ AKFS_HOBUF_SIZE >= 1
    BY Lengths
  <2>3. handle'.hbuf <= g \/ g >= 3
    <3> DEFINE hbuf == handle.hbuf
               next == handle'.hbuf
    <3>1. hbuf \in Nat /\ next \in Nat /\ next <= hbuf + 1 /\ (hbuf <= f \/ f >= 3)
      BY <1>4, <1>8, <2>1, Lengths
    <3> HIDE DEF hbuf, next
    <3>2. next <= g \/ g >= 3
      BY <1>4, <1>14, <2>2, <3>1
    <3>3. QED
      BY <3>2 DEF next
  <2>4. ~none => Len(hobuf) + 3 <= g
    <3> SUFFICES ASSUME ~none PROVE Len(hobuf) + 3 <= g
      OBVIOUS
    <3> DEFINE k == Len(handle.hobuf)
               l == Len(hobuf)
    <3>1. k \in Nat /\ l \in Nat /\ l <= AKFS_HOBUF_SIZE /\ l <= k + 1
      BY <1>4, <1>9
    <3>2. f >= 3
      <4>1. num >= 4
        BY <1>6 DEF none
      <4>2. QED
        BY <1>4, <1>5, <1>6, <2>1, <4>1
    <3>3. k # 0 => k + 3 <= f
      <4>1. k # 0 => handle.hobuf # <<>>
        BY <1>4
      <4>2. QED
        BY <2>1, <4>1
    <3> HIDE DEF k, l
    <3>4. l + 3 <= g
      BY <1>4, <1>14, <2>2, <3>1, <3>2, <3>3
    <3>5. QED
      BY <3>4 DEF l
  <2>5. handle'.hobuf # <<>> => Len(handle'.hobuf) + 3 <= g
    <3>1. CASE none
      <4>1. handle'.hobuf = handle.hobuf
        BY <1>3, <3>1
      <4>2. handle.hobuf # <<>> => Len(handle.hobuf) + 3 <= g
        BY <1>4, <1>14, <2>1, <2>2
      <4>3. QED
        BY <4>1, <4>2
    <3>2. CASE ~none
      BY <1>3, <2>4, <3>2
    <3>3. QED
      BY <3>1, <3>2
  <2>6. OffsetAgreed'
    <3>1. CASE success
      <4>1. handle'.ho = mean /\ hist'.basis = hobuf /\ hobuf # <<>> /\ Len(hobuf) + 3 <= g
        BY <1>3, <1>9, <2>4, <3>1
      <4>2. Len(hobuf) = AKFS_HOBUF_SIZE
        BY <3>1 DEF Agreed
      <4>3. g >= AKFS_HOBUF_SIZE + 3
        BY <1>14, <2>2, <4>1, <4>2
      <4>4. QED
        BY <1>1, <1>10, <3>1, <4>1, <4>3 DEF OffsetAgreed, g
    <3>2. CASE ~success
      <4>1. handle'.ho = handle.ho /\ hist'.basis = hist.basis /\ handle'.nv = handle.nv
        BY <1>1, <1>3, <3>2
      <4>2. f >= AKFS_HOBUF_SIZE + 3 => g >= AKFS_HOBUF_SIZE + 3
        BY <1>4, <1>14, <2>2
      <4>3. OffsetAgreed /\ running
        BY <1>1 DEF AgreeInv
      <4>4. QED
        BY <4>1, <4>2, <4>3 DEF OffsetAgreed, f, g
    <3>3. QED
      BY <3>1, <3>2
  <2>7. QED
    BY <2>3, <2>5, <2>6 DEF AgreeInv, g
<1>19. AverageInv'
  <2> SUFFICES ASSUME NEW i \in DOMAIN fields, i <= hist'.since PROVE fields[i] = handle'.ho
    BY DEF AverageInv
  <2>1. i \in 1..Len(fields) /\ i \in Nat
    BY <1>12
  <2>2. CASE i = 1
    BY <1>12, <2>2
  <2>3. CASE i > 1
    <3>1. i \in 2..Len(fields)
      BY <2>1, <2>3
    <3>2. i - 1 \in 1..Len(handle.hvbuf) /\ fields[i] = handle.hvbuf[i - 1]
      BY <1>12, <3>1
    <3>3. handle'.ho = handle.ho /\ hist'.since <= hist.since + 1
      BY <1>15, <2>1, <2>3
    <3>4. i - 1 <= hist.since /\ i - 1 \in DOMAIN handle.hvbuf
      <4> DEFINE old == hist.since
                 new == hist'.since
      <4>1. old \in Nat /\ new \in Nat /\ new <= old + 1 /\ i <= new
        BY <1>4, <1>15, <3>3, Lengths
      <4>2. i - 1 <= old
        <5> HIDE DEF old, new
        <5>1. QED
          BY <2>1, <4>1
      <4>3. DOMAIN handle.hvbuf = 1..Len(handle.hvbuf)
        BY <1>4
      <4>4. QED
        BY <3>2, <4>2, <4>3
    <3>5. handle.hvbuf[i - 1] = handle.ho
      BY <1>1, <3>4 DEF AverageInv
    <3>6. QED
      BY <3>2, <3>3, <3>5
  <2>4. QED
    BY <2>1, <2>2, <2>3
<1>20. QED
  BY <1>16, <1>17, <1>18, <1>19

(* However the samples of the two drivers alternate, and however long the  *)
(* buffers are: the accelerations averaged are held from the newest to the *)
(* oldest, the offset in use is the one restored until enough estimates of *)
(* this measurement agreed on another, and the fields averaged were        *)
(* corrected by it once as many have come since it changed.                *)
THEOREM AkmOffsetsAgreed == Spec => []OffsetsAgreed
<1>1. Init => RestartInv /\ OffsetInv
  BY RestartInit, OffsetInit
<1>2. RestartInv /\ OffsetInv /\ [Next]_vars => RestartInv' /\ OffsetInv'
  <2> SUFFICES ASSUME RestartInv, OffsetInv, [Next]_vars PROVE RestartInv' /\ OffsetInv'
    OBVIOUS
  <2>1. RestartInv'
    BY RestartNext
  <2>2. CASE AKL_DASH_Init \/ AKL_DASH_Deinit \/ ak0991x_stop \/ Fuse \/ UNCHANGED vars
    BY <2>1, <2>2, IdleStep
  <2>3. CASE ak0991x_start
    BY <2>1, <2>3, StartOffset
  <2>4. CASE MagSample
    BY <2>1, <2>4, FieldOffset
  <2>5. CASE AccSample
    BY <2>1, <2>5, AccelerationOffset
  <2>6. QED
    BY <2>1, <2>2, <2>3, <2>4, <2>5 DEF Next
<1>3. OffsetInv => OffsetsAgreed
  <2> SUFFICES ASSUME OffsetInv PROVE OffsetsAgreed
    OBVIOUS
  <2>1. TypeOK /\ AccelerationsInOrder /\ OffsetAgreed
    BY DEF OffsetInv, HeldInv, AgreeInv
  <2>2. OneOffsetAveraged
    <3> SUFFICES ASSUME running, hist.since >= AKFS_HNAVE_V, NEW i \in DOMAIN handle.hvbuf
                 PROVE  handle.hvbuf[i] = handle.ho
      BY DEF OneOffsetAveraged
    <3>1. /\ handle.hvbuf \in Seq(Int) /\ Len(handle.hvbuf) <= AKFS_HNAVE_V
          /\ hist.since \in 0..AKFS_HNAVE_V /\ AKFS_HNAVE_V \in Nat
      BY Lengths DEF OffsetInv, HeldInv, TypeOK
    <3> DEFINE n == Len(handle.hvbuf)
               since == hist.since
    <3>2. n \in Nat /\ i \in 1..n /\ n <= AKFS_HNAVE_V
      BY <3>1
    <3>3. i <= since
      <4>1. since \in Nat /\ since >= AKFS_HNAVE_V
        BY <3>1
      <4> HIDE DEF n, since
      <4>2. QED
        BY <3>1, <3>2, <4>1
    <3>4. QED
      BY <3>3 DEF OffsetInv, AverageInv
  <2>3. QED
    BY <2>1, <2>2 DEF OffsetsAgreed
<1>4. QED
  BY <1>1, <1>2, <1>3, PTL DEF Spec

=============================================================================
