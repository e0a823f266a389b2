------------------------ MODULE SensorsSelectProofs ------------------------
(***************************************************************************)
(* Theorems about SensorsSelect, for any set of descriptor numbers, any    *)
(* pipe and every order of the calls in the drivers' activate.             *)
(***************************************************************************)
EXTENDS SensorsSelect, TLAPS

(* The descriptors, independently of the callback.                         *)
FdInv ==
  /\ files \in [Fds -> {"closed", "quiet", "ready"}]
  /\ fd # NoFd => fd \in Fds /\ files[fd] # "closed"
  /\ newfd # NoFd => /\ newfd \in Fds /\ files[newfd] # "closed"
                     /\ fd = NoFd
                     /\ todo # <<>> /\ Head(todo) = "set_fd"
  /\ OpenFdsHeld

(* What the callback knows once it has seen data.                          *)
CallbackInv ==
  /\ cb # "none" => pc = "polling"
  /\ watch # "none" => cb = "blocked" /\ snap # NoFd
  /\ cb \in {"wrapper", "fdlock", "run"} => snap # NoFd
  /\ cb = "run" => fd = snap

(* A driver that is not active has no descriptor.                          *)
ActiveInv == active \in BOOLEAN /\ (~active => fd = NoFd /\ newfd = NoFd)

SelectInv == FdInv /\ CallbackInv /\ ActiveInv

USE DEF NoFd

LEMMA FdsPositive == Fds \subseteq Nat \ {0} /\ NoFd \notin Fds
  BY SelectAssumption DEF SelectAssumption

LEMMA SelectInvInit == Init => SelectInv
  BY DEF Init, SelectInv, FdInv, CallbackInv, ActiveInv, OpenFdsHeld

(* The worker's own steps and those of the callback leave the descriptors  *)
(* alone, but for what a read takes from one.                              *)
LEMMA WorkerStepInv == ASSUME SelectInv, WorkerStep \/ SpuriousWake
                       PROVE  SelectInv'
<1> USE DEF SelectInv, FdInv, CallbackInv, ActiveInv, OpenFdsHeld
<1>1. CASE Outside \/ SpuriousWake
  BY <1>1 DEF Outside, SpuriousWake, selectVars, Worker!ReadMode, Worker!Wait, Worker!Wake,
              Worker!SpuriousWake, Worker!LoadDelay, Worker!EndSleep, Worker!Goto
<1>2. CASE Enter
  BY <1>2 DEF Enter, Worker!BeginPoll, Worker!Goto
<1>3. CASE Snapshot
  BY <1>3 DEF Snapshot, workerVars
<1>4. CASE Block \/ SelectFails
  BY <1>4 DEF Block, SelectFails, Leave, workerVars
<1>5. CASE ReadPipe
  BY <1>5 DEF ReadPipe, Leave
<1>6. CASE SeeData
  BY <1>6 DEF SeeData, FileReady, workerVars
<1>7. CASE LockWrapper
  BY <1>7 DEF LockWrapper, workerVars
<1>8. CASE LockFd
  <2>1. CASE SameFd
    BY <1>8, <2>1 DEF LockFd, SameFd, workerVars
  <2>2. CASE ~SameFd
    BY <1>8, <2>2 DEF LockFd, Leave
  <2>3. QED
    BY <2>1, <2>2
<1>9. CASE Read
  BY <1>9 DEF Read, Leave
<1>10. QED
  BY <1>1, <1>2, <1>3, <1>4, <1>5, <1>6, <1>7, <1>8, <1>9 DEF WorkerStep, CallbackStep

(* A call of the HAL opens, hands over or closes a descriptor; the ones    *)
(* that close one wait for fd_mutex.                                       *)
LEMMA CallInv == ASSUME SelectInv, Enable \/ Disable \/ Close \/ HalStep
                 PROVE  SelectInv'
<1> USE FdsPositive DEF SelectInv, FdInv, CallbackInv, ActiveInv, OpenFdsHeld
<1>1. CASE Enable
  BY <1>1 DEF Enable, MayCall, workerVars
<1>2. CASE Disable
  BY <1>2 DEF Disable, MayCall, workerVars
<1>3. CASE Close
  BY <1>3 DEF Close, MayCall, workerVars
<1>4. CASE SetFd
  <2>1. cb # "run"
    BY <1>4 DEF SetFd, FdMutexTaken, FdMutexFree
  <2>2. files' = [g \in Fds |-> IF g = fd THEN "closed" ELSE files[g]]
    BY <1>4 DEF SetFd, CloseOld, Shut
  <2>3. watch' # "none" => watch # "none"
    BY <1>4 DEF SetFd, CloseOld, Shut
  <2>4. fd' = newfd /\ newfd' = NoFd /\ UNCHANGED <<cb, snap, active, pc>>
    BY <1>4 DEF SetFd, workerVars
  <2>5. QED
    BY <2>1, <2>2, <2>3, <2>4
<1>5. CASE Notify
  <2>1. newfd = NoFd
    BY <1>5 DEF Notify, Call
  <2>2. active' \in BOOLEAN /\ (~active' => ~active \/ fd = NoFd)
    BY <1>5, Zenon DEF Notify
  <2>3. QED
    BY <1>5, <2>1, <2>2 DEF Notify, workerVars
<1>6. CASE ResumeCall \/ SuspendCall \/ DestroyCall \/ JoinReturns
  BY <1>6 DEF ResumeCall, SuspendCall, DestroyCall, JoinReturns, Call,
              Worker!Resume, Worker!Suspend, Worker!Destroy, Worker!JoinReturns
<1>7. CASE Cleanup
  <2>1. cb # "run" /\ newfd = NoFd
    BY <1>7 DEF Cleanup, FdMutexFree, Call
  <2>2. files' = [g \in Fds |-> IF g = fd THEN "closed" ELSE files[g]]
    BY <1>7 DEF Cleanup, Shut
  <2>3. watch' # "none" => watch # "none"
    BY <1>7 DEF Cleanup, Shut
  <2>4. fd' = NoFd /\ active' = FALSE /\ UNCHANGED <<cb, snap, newfd, pc>>
    BY <1>7 DEF Cleanup, workerVars
  <2>5. QED
    BY <2>1, <2>2, <2>3, <2>4
<1>8. QED
  BY <1>1, <1>2, <1>3, <1>4, <1>5, <1>6, <1>7 DEF HalStep

LEMMA InterruptInv == ASSUME SelectInv, Interrupt
                      PROVE  SelectInv'
  BY DEF SelectInv, FdInv, CallbackInv, ActiveInv, OpenFdsHeld, Interrupt,
         workerVars

(* SelectInv is the inductive invariant behind the theorems below.         *)
LEMMA SelectInvariant == Spec => []SelectInv
<1>1. Init => SelectInv
  BY SelectInvInit
<1>2. SelectInv /\ [Next]_vars => SelectInv'
  <2> SUFFICES ASSUME SelectInv, [Next]_vars
               PROVE  SelectInv'
    OBVIOUS
  <2>1. CASE Next
    BY <2>1, WorkerStepInv, CallInv, InterruptInv DEF Next
  <2>2. CASE UNCHANGED vars
    BY <2>2 DEF vars, steps, workerVars, selectVars, SelectInv, FdInv, CallbackInv, ActiveInv, OpenFdsHeld
  <2>3. QED
    BY <2>1, <2>2
<1>3. QED
  BY <1>1, <1>2, PTL DEF Spec, Safety

(* select_callback only ever reads the current, open descriptor: no close  *)
(* by a concurrent activate(0) falls into it (sensors_select.c:67-70,      *)
(* 118-122), whatever numbers open returns.                                *)
THEOREM SelectReadsOpenFd == Spec => []ReadsOpenFd
<1>1. SelectInv => ReadsOpenFd
  BY DEF SelectInv, FdInv, CallbackInv, ReadsOpenFd
<1>2. QED
  BY <1>1, SelectInvariant, PTL

(* After activate(0) has returned no callback runs until the next          *)
(* activate(1), for both orders in which the drivers suspend the worker    *)
(* and drop the descriptor.                                                *)
THEOREM SelectQuietAfterDisable == Spec => []QuietAfterDisable
<1>1. SelectInv => QuietAfterDisable
  BY DEF SelectInv, CallbackInv, ActiveInv, QuietAfterDisable
<1>2. QED
  BY <1>1, SelectInvariant, PTL

(* No descriptor is leaked by any sequence of activate and close.          *)
THEOREM SelectOpenFdsHeld == Spec => []OpenFdsHeld
<1>1. SelectInv => OpenFdsHeld
  BY DEF SelectInv, FdInv
<1>2. QED
  BY <1>1, SelectInvariant, PTL

=============================================================================
