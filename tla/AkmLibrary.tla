----------------------------- MODULE AkmLibrary -----------------------------
(***************************************************************************)
(* The open AKM library (libs/libakm/oss) as ak0991xna.c and the fusion of *)
(* akmoss_sensors.c use it: its buffers, the automatic offset calibration  *)
(* (AOC), what start restores and stop saves, and the orientation put when *)
(* a sample of each driver has come.                                       *)
(*                                                                         *)
(* Each call is made under AKL_DASH_Lock, and the calls of one sample      *)
(* under wrapper_mutex: a sample is one step. The vectors are not          *)
(* modelled: avbuf holds the ages of its accelerations, counted in         *)
(* accelerations, hvbuf the offset each field was corrected by, hbuf the   *)
(* number of fields held; an offset is a number, and the sphere through    *)
(* four points any of Offsets or none.                                     *)
(***************************************************************************)
EXTENDS Integers, Sequences, FiniteSets, SequencesExt, FiniteSetsExt

CONSTANTS
  Offsets,          (* the offsets the points may give                     *)
  Saved,            (* the offsets a settings file may hold at first       *)
  Elsewhere,        (* bound: what other code may leave behind the memory  *)
                    (* allocated, read as an offset                        *)
  HO_TH,            (* how far apart offsets must not lie to agree (really *)
                    (* 0.15 of the sphere's radius)                        *)
  AKFS_ADATA_SIZE,  (* bound of the real 32: accelerations held            *)
  AKFS_HNAVE_V,     (* bound of the real 8: fields averaged                *)
  AKFS_HBUF_SIZE,   (* bound of the real 20: fields held for the AOC       *)
  AKFS_HOBUF_SIZE,  (* bound of the real 4: offsets that must agree        *)
  OPENS             (* bound: how often the library is set up              *)

ASSUME AkmAssumption ==
  /\ Offsets \subseteq Nat /\ Saved \subseteq Nat /\ Elsewhere \subseteq Nat /\ HO_TH \in Nat
  /\ {AKFS_ADATA_SIZE, AKFS_HNAVE_V, AKFS_HBUF_SIZE, AKFS_HOBUF_SIZE, OPENS} \subseteq Nat \ {0}

VARIABLES
  handle,    (* the library's state; allocated, whether handle points to it;*)
             (* nv, what ps_nv points to, lies just behind the allocation;  *)
             (* shared, whether other code uses that memory too             *)
  running,   (* ak0991xna.c has started a measurement                      *)
  fusing,    (* akm6d is active: the samples of its drivers come to it      *)
  flags,     (* up_a and up_m, the drivers a sample has come of            *)
  settings,  (* the settings file: an offset, NoFile, Short or Foreign      *)
  hist       (* history: opens; first, the settings at first; fields since *)
             (* the start (capped); basis, the offsets of it that agreed;  *)
             (* since, fields since the offset changed (capped); status,   *)
             (* what wrote hstatus; carried, a flag outlived a stop;       *)
             (* odd, what went wrong: "put unknown", or "overwritten", nv  *)
             (* was not what the library had written                       *)

vars == <<handle, running, fusing, flags, settings, hist>>

Unset == "not written"
NoFile == -1
Short == -2
Foreign == -3
NoOffset == -1

Counted(n, cap) == Min({n + 1, cap})

\* What a count of fields tells apart: those that offsets to agree take, and
\* those that could move an acceleration through the whole array.
FieldsCounted == Max({AKFS_HOBUF_SIZE + 3, AKFS_ADATA_SIZE})

Take(seq, n) == SubSeq(seq, 1, Min({n, Len(seq)}))

\* Memory from malloc: only what is used before it is written is told apart.
Fresh(hstatus, shared) ==
  [allocated |-> TRUE, shared |-> shared, nv |-> NoOffset, ho |-> NoOffset, hbuf |-> 0, hobuf |-> <<>>, hvbuf |-> <<>>,
   avbuf |-> <<>>, hstatus |-> hstatus, direction |-> Unset]

Freed == [Fresh(0, FALSE) EXCEPT !.allocated = FALSE]

Init ==
  /\ handle = Freed
  /\ running = FALSE /\ fusing = FALSE /\ flags = {}
  /\ settings \in Saved \cup {NoFile, Short, Foreign}
  /\ hist = [opens |-> 0, first |-> settings, fields |-> 0, basis |-> <<>>, since |-> AKFS_HNAVE_V,
             status |-> Unset, carried |-> FALSE, odd |-> {}]

(***************************************************************************)
(* Buffers.                                                                *)
(***************************************************************************)

\* AKFS_BufShift of an array whose first Len(buf) elements were written: the
\* first is left where it is, twice.
AKFS_BufShift(buf) ==
  IF buf = <<>> THEN <<>>
  ELSE [i \in 1..Min({Len(buf) + 1, AKFS_ADATA_SIZE}) |-> buf[Max({i - 1, 1})]]

(***************************************************************************)
(* The automatic offset calibration.                                       *)
(***************************************************************************)

\* The centre of the sphere through four of the fields held, or none: they lie
\* in a plane, or too near each other.
Estimates == Offsets \cup {NoOffset}

\* The distance of the offsets held, and what lies in their middle (MeanVar).
Spread(hobuf) == Max(ToSet(hobuf)) - Min(ToSet(hobuf))
Mean(hobuf) == (Max(ToSet(hobuf)) + Min(ToSet(hobuf))) \div 2

\* Mutated form: the offsets need not agree.
agree_always(hobuf) == Len(hobuf) = AKFS_HOBUF_SIZE

Agreed(hobuf) == Len(hobuf) = AKFS_HOBUF_SIZE /\ Spread(hobuf) < HO_TH

\* The fields held after one more; four are needed to give an offset, and an
\* offset leaves the newer half of them. What ho was stays when it fails.
AKFS_AOC(lib, estimate) ==
  LET num == Min({lib.hbuf + 1, AKFS_HBUF_SIZE})
      hobuf == Take(<<estimate>> \o lib.hobuf, AKFS_HOBUF_SIZE)
  IN  IF num < 4 \/ estimate = NoOffset THEN [lib EXCEPT !.hbuf = num]
      ELSE [lib EXCEPT !.hbuf = Min({num, AKFS_HBUF_SIZE \div 2}), !.hobuf = hobuf,
                       !.ho = IF Agreed(hobuf) THEN Mean(hobuf) ELSE @]

\* Whether it returned AKFS_SUCCESS.
AocSuccess(lib, estimate) ==
  /\ ~(Min({lib.hbuf + 1, AKFS_HBUF_SIZE}) < 4 \/ estimate = NoOffset)
  /\ Agreed(Take(<<estimate>> \o lib.hobuf, AKFS_HOBUF_SIZE))

(***************************************************************************)
(* Setting up, start and stop: ak0991xna.c on the HAL's thread.            *)
(***************************************************************************)

\* The memory is not cleared, which AKL_Init expects of its caller. It has
\* AKL_GetParameterSize bytes and none for nv (AKL_GetNVdataSize), so that nv
\* lies in room the allocator left or in memory of somebody else.
AKL_DASH_Init ==
  /\ ~handle.allocated /\ hist.opens < OPENS
  /\ \E hstatus \in {0, 3}, shared \in {Elsewhere # {}, FALSE} : handle' = Fresh(hstatus, shared)
  /\ hist' = [hist EXCEPT !.opens = @ + 1, !.status = Unset]
  /\ UNCHANGED <<running, fusing, flags, settings>>

AKL_DASH_Deinit ==
  /\ handle.allocated /\ ~running /\ ~fusing
  /\ handle' = Freed
  /\ UNCHANGED <<running, fusing, flags, settings, hist>>

\* What a read of nv may find there.
Behind(lib) == {lib.nv} \cup IF lib.shared THEN Elsewhere ELSE {}

AKFS_InitMeasure(lib) ==
  [lib EXCEPT !.ho = lib.nv, !.hvbuf = <<>>, !.avbuf = <<>>, !.hbuf = 0, !.hobuf = <<>>]

\* The defaults are taken without a file and when its magic number is not
\* there; nv is written, and read again for ho. The status and the direction
\* computed last stay.
Restored(nv) == IF nv \in {NoFile, Foreign} THEN 0 ELSE nv
AKL_StartMeasurement(lib, nv) ==
  {AKFS_InitMeasure([lib EXCEPT !.nv = found]) : found \in Behind([lib EXCEPT !.nv = Restored(nv)])}

Noted(odd, overwritten) == IF overwritten THEN odd \cup {"overwritten"} ELSE odd

\* A direction computed before is no longer of this measurement.
Aged(lib) == [lib EXCEPT !.direction = IF @ = Unset THEN Unset ELSE "before"]

\* A file that is too short ends ak0991x_start, and with it the enable.
ak0991x_start ==
  /\ handle.allocated /\ ~running /\ settings # Short
  /\ \E lib \in AKL_StartMeasurement(handle, settings) : handle' = Aged(lib)
  /\ running' = TRUE
  /\ hist' = [hist EXCEPT !.fields = 0, !.basis = <<>>, !.since = AKFS_HNAVE_V, !.carried = flags # {},
                          !.status = IF @ = "now" THEN "before" ELSE @,
                          !.odd = Noted(@, handle'.nv # Restored(settings))]
  /\ UNCHANGED <<fusing, flags, settings>>

\* Mutated form: the offset in use is saved.
offset_saved(lib) == {lib.ho}

\* The magic number is written with whatever nv is.
AKL_StopMeasurement(lib) == Behind(lib)

\* The file may not be opened, or not written to its end.
ak0991x_stop ==
  /\ running
  /\ running' = FALSE /\ fusing' = FALSE
  /\ \E nv \in AKL_StopMeasurement(handle) :
       /\ settings' \in {nv, settings, Short}
       /\ hist' = [hist EXCEPT !.carried = flags # {}, !.odd = Noted(@, nv # handle.nv)]
  /\ UNCHANGED <<handle, flags>>

\* akm6d enabled or disabled while another client keeps the compass on, or
\* while the compass was refused: the wrapper leaves akm6d active.
Fuse == handle.allocated /\ fusing' = ~fusing /\ UNCHANGED <<handle, running, flags, settings, hist>>

(***************************************************************************)
(* Samples.                                                                *)
(***************************************************************************)

\* AKL_CalcFusion: without an acceleration, or with an average of zero, it
\* fails, and the direction stays; without a field the azimuth is that of none.
Direction(lib, zero) ==
  CASE lib.avbuf = <<>> \/ zero -> lib.direction
    [] lib.hvbuf = <<>> -> "no field"
    [] OTHER -> "of this measurement"

flags_left(come) == IF Cardinality(come) = 2 THEN {} ELSE come

\* akm6d_sensors_data: the orientation is put once both have come, whether or
\* not it could be computed.
akm6d_sensors_data(lib, driver, h) ==
  \E zero \in BOOLEAN :
    LET come == flags \cup {driver}
        put == come = {"up_a", "up_m"}
        direction == Direction(lib, zero)
    IN  /\ handle' = [lib EXCEPT !.direction = direction]
        /\ flags' = flags_left(come)
        /\ hist' = [h EXCEPT !.carried = @ /\ ~put,
                      !.odd = IF put /\ ~h.carried /\ ~zero /\ direction # "of this measurement"
                              THEN @ \cup {"put unknown"} ELSE @]

StatusAfter(lib, success) == IF success THEN 3 ELSE lib.hstatus

\* The fields corrected by ho, of which as many as are averaged are held.
AKFS_VbNorm(hvbuf, ho) == Take(<<ho>> \o hvbuf, AKFS_HNAVE_V)

\* Room is made in the accelerations, not in the fields. A field larger than
\* AKFS_GEOMAG_MAX makes the status 0.
AKFS_Set_MAGNETIC_FIELD(lib, estimate, large) ==
  LET aoc == AKFS_AOC(lib, estimate)
  IN  [aoc EXCEPT !.avbuf = AKFS_BufShift(@), !.hvbuf = AKFS_VbNorm(@, aoc.ho),
                  !.hstatus = IF large THEN 0 ELSE StatusAfter(lib, AocSuccess(lib, estimate))]

\* The accelerations held are one older.
AKFS_Set_ACCELEROMETER(lib) ==
  LET shifted == AKFS_BufShift(lib.avbuf)
  IN  [lib EXCEPT !.avbuf = [i \in 1..Max({Len(shifted), 1}) |-> IF i = 1 THEN 0 ELSE shifted[i] + 1]]

\* The compass's packet goes to the library, and then to the wrapper's clients.
MagSample ==
  /\ running
  /\ \E estimate \in Estimates, large \in BOOLEAN :
       LET success == AocSuccess(handle, estimate)
           lib == AKFS_Set_MAGNETIC_FIELD(handle, estimate, large)
           h == [hist EXCEPT !.fields = Counted(@, FieldsCounted),
                             !.basis = IF success THEN lib.hobuf ELSE @,
                             !.since = IF lib.ho # handle.ho THEN 1 ELSE Counted(@, AKFS_HNAVE_V),
                             !.status = IF large \/ success THEN "now" ELSE @]
       IN  IF fusing THEN akm6d_sensors_data(lib, "up_m", h)
           ELSE handle' = lib /\ hist' = h /\ UNCHANGED flags
  /\ UNCHANGED <<running, fusing, settings>>

\* A sample of the accelerometer, which runs without the library.
AccSample ==
  /\ fusing
  /\ akm6d_sensors_data(AKFS_Set_ACCELEROMETER(handle), "up_a", hist)
  /\ UNCHANGED <<running, fusing, settings>>

Next ==
  AKL_DASH_Init \/ AKL_DASH_Deinit \/ ak0991x_start \/ ak0991x_stop \/ Fuse \/ MagSample \/ AccSample

Spec == Init /\ [][Next]_vars

(***************************************************************************)
(* Properties.                                                             *)
(***************************************************************************)

(* Every variable has its type; no buffer is longer than its array.        *)
TypeOK ==
  /\ running \in BOOLEAN /\ fusing \in BOOLEAN /\ (running \/ fusing => handle.allocated)
  /\ flags \subseteq {"up_a", "up_m"} /\ flags # {"up_a", "up_m"}
  /\ settings \in Nat \cup {NoFile, Short, Foreign}
  /\ Len(handle.avbuf) <= AKFS_ADATA_SIZE /\ Len(handle.hvbuf) <= AKFS_HNAVE_V
  /\ Len(handle.hobuf) <= AKFS_HOBUF_SIZE /\ handle.hbuf \in 0..AKFS_HBUF_SIZE
  /\ handle.hstatus \in {0, 3} /\ handle.allocated \in BOOLEAN

(* The accelerations held are from the newest to the oldest, and none is   *)
(* lost before the array is full: a field that came in between makes the   *)
(* newest count once more in the average, and moves the others by one.     *)
AccelerationsInOrder ==
  running =>
    \A i \in DOMAIN handle.avbuf :
      /\ handle.avbuf[i] \in (i - 1 - hist.fields)..(i - 1) /\ handle.avbuf[i] >= 0
      /\ i > 1 => handle.avbuf[i] - handle.avbuf[i - 1] \in {0, 1}

(* The offset in use is the one restored, until enough offsets in a row    *)
(* have agreed, all of this measurement: they take at least three fields   *)
(* more than there are offsets to agree. It lies between them.             *)
OffsetAgreed ==
  running =>
    IF hist.basis = <<>> THEN handle.ho = handle.nv
    ELSE /\ hist.fields >= AKFS_HOBUF_SIZE + 3
         /\ \A i, j \in DOMAIN hist.basis : hist.basis[i] - hist.basis[j] < HO_TH
         /\ handle.ho \in Min(ToSet(hist.basis))..Max(ToSet(hist.basis))

(* The status is good only after an offset was found in this measurement;  *)
(* but it is not written by a start, so that a good one of the measurement *)
(* before, or of the memory allocated, stays with the offset restored.     *)
StatusBacked == running /\ handle.hstatus = 3 /\ hist.status = "now" => hist.basis # <<>>

(* Once as many fields have come as are averaged, all of them were         *)
(* corrected by the offset in use; before, the average mixes offsets while *)
(* the bias told is the new one.                                           *)
OneOffsetAveraged ==
  running /\ hist.since >= AKFS_HNAVE_V => \A i \in DOMAIN handle.hvbuf : handle.hvbuf[i] = handle.ho

(* An orientation put is computed from samples of this measurement, but    *)
(* for the first after a start that found a flag of the one before set,    *)
(* which may be the direction computed last or memory never written, and   *)
(* one put although the accelerations add up to nothing.                   *)
OrientationOfMeasurement == "put unknown" \notin hist.odd

(* An offset found is never saved: stop writes what start restored, so     *)
(* that the settings hold their first offset or the default, until other   *)
(* code overwrites nv, which the library keeps in memory it never          *)
(* allocated. What that code left is then saved and restored as an offset. *)
SettingsKeepFirst ==
  \/ settings \in {hist.first, 0, NoFile, Short, Foreign}
  \/ "overwritten" \in hist.odd /\ settings \in Elsewhere

(* Samples lie in the buffers in the order they came in, and an offset is  *)
(* used for them only once estimates have agreed on it.                    *)
OffsetsAgreed == TypeOK /\ AccelerationsInOrder /\ OffsetAgreed /\ OneOffsetAveraged

(* What outlives a stop and a start is the settings, which change only by  *)
(* what others write behind the library's memory, and what the measurement *)
(* before left in status, flags and direction.                             *)
RestartsSound == StatusBacked /\ OrientationOfMeasurement /\ SettingsKeepFirst

=============================================================================
