---------------------------- MODULE SensorsSelect ----------------------------
(***************************************************************************)
(* An interrupt-driven sensor: the select callback of sensors_select.c on  *)
(* the worker thread of sensors_worker.c (the instance Worker), a driver   *)
(* whose activate and close a HAL thread calls (bma250na_input.c and the   *)
(* drivers written like it), and the kernel's file descriptors.            *)
(*                                                                         *)
(* The worker's callback is here the steps cb of sensors_select_callback.  *)
(* A HAL thread runs the driver's calls one by one (todo), with            *)
(* wrapper_mutex held throughout when the driver sits behind               *)
(* sensors_wrapper.c (Wrapped). fd_mutex is held across steps only while   *)
(* select_callback runs; wrapper_mutex is held by the worker from          *)
(* "fdlock" on. An enable of an enabled driver, and a disable of a         *)
(* disabled one, do nothing and are left out.                              *)
(***************************************************************************)
EXTENDS Integers, Sequences

CONSTANTS
  Fds,           (* the descriptor numbers open may return                *)
  PIPE_CAP,      (* bound: notifications that may wait in the pipe; calls *)
                 (* that could pass it are not made (the pipe holds 16384)*)
  Setups         (* the kinds of driver considered: see setup             *)

ASSUME SelectAssumption ==
  /\ Fds \subseteq Nat \ {0}
  /\ PIPE_CAP \in Nat
  /\ Setups \subseteq [wrapped : BOOLEAN, suspendFirst : BOOLEAN]

VARIABLES mode, delay_ns, pc, woken, loaded, caller, target, late, requested, missed

VARIABLES
  setup,     (* of the driver, fixed: called through sensors_wrapper.c;   *)
             (* disable suspends, then drops the fd (ak896xna.c), rather  *)
             (* than the other way round (bma250na_input.c)               *)
  cb,        (* where sensors_select_callback is, "none" outside it       *)
  snap,      (* its local fd                                              *)
  watch,     (* the file select is blocked on: still that of snap, or one *)
             (* closed meanwhile, ready or quiet                          *)
  fd,        (* s->fd                                                     *)
  pipe,      (* notifications in the control pipe                         *)
  files,     (* the files behind the descriptors                          *)
  todo,      (* the calls the HAL thread has still to make                *)
  newfd,     (* the argument of its set_fd                                *)
  active     (* history: no disable has returned since the last enable    *)

\* sensors_select_init sets the delay to 0 once, before any other call.
NoDelay == [hi |-> 0, lo |-> 0]

Worker == INSTANCE SensorsWorker
            WITH Words <- {0}, Delays <- {}, InitDelay <- NoDelay, TornAccess <- FALSE

workerVars == <<mode, delay_ns, pc, woken, loaded, caller, target, late, requested, missed>>
selectVars == <<cb, snap, watch, fd, pipe, files, todo, newfd, active>>
steps == <<workerVars, selectVars>>
vars == <<setup, steps>>

Wrapped == setup.wrapped
SuspendFirst == setup.suspendFirst

NoFd == -1

Init ==
  /\ setup \in Setups
  /\ Worker!WorkerInit
  /\ cb = "none"
  /\ snap = NoFd
  /\ watch = "none"
  /\ fd = NoFd
  /\ pipe = 0
  /\ files = [f \in Fds |-> "closed"]
  /\ todo = <<>>
  /\ newfd = NoFd
  /\ active = FALSE

HalHoldsWrapper == Wrapped /\ todo # <<>>
WorkerHoldsWrapper == cb \in {"fdlock", "run"}
FdMutexFree == cb # "run"

(***************************************************************************)
(* The worker thread: sensors_worker.c outside the callback.               *)
(***************************************************************************)

Outside ==
  /\ Worker!ReadMode \/ Worker!Wait \/ Worker!Wake \/ Worker!LoadDelay \/ Worker!EndSleep
  /\ UNCHANGED selectVars

SpuriousWake == Worker!SpuriousWake /\ UNCHANGED selectVars

Enter ==
  /\ Worker!BeginPoll
  /\ cb' = "snapshot"
  /\ UNCHANGED <<snap, watch, fd, pipe, files, todo, newfd, active>>

(***************************************************************************)
(* sensors_select_callback.                                                *)
(***************************************************************************)

\* Lines 50-57: s->fd is read under fd_mutex.
Snapshot ==
  /\ cb = "snapshot" /\ FdMutexFree
  /\ snap' = fd
  /\ cb' = "select"
  /\ UNCHANGED <<workerVars, watch, fd, pipe, files, todo, newfd, active>>

Leave == Worker!EndPoll /\ cb' = "none" /\ watch' = "none"

SnapOpen == IF snap = NoFd THEN TRUE ELSE files[snap] # "closed"

\* Line 58: select blocks on the pipe and on the file snap names by now.
Block ==
  /\ cb = "select"
  /\ SnapOpen
  /\ cb' = "blocked"
  /\ watch' = IF snap = NoFd THEN "none" ELSE "live"
  /\ UNCHANGED <<workerVars, snap, fd, pipe, files, todo, newfd, active>>

\* The descriptor was closed after line 57: select fails with EBADF.
SelectFails ==
  /\ cb = "select"
  /\ ~SnapOpen
  /\ Leave
  /\ UNCHANGED <<snap, fd, pipe, files, todo, newfd, active>>

\* Lines 63-64: one notification is read, whether or not there is data.
ReadPipe ==
  /\ cb = "blocked"
  /\ pipe > 0
  /\ pipe' = pipe - 1
  /\ Leave
  /\ UNCHANGED <<snap, fd, files, todo, newfd, active>>

FileReady == watch = "stale ready" \/ (watch = "live" /\ files[snap] = "ready")

\* Line 65: only the file was ready when select returned.
SeeData ==
  /\ cb = "blocked"
  /\ pipe = 0 /\ FileReady
  /\ cb' = "wrapper"
  /\ watch' = "none"
  /\ UNCHANGED <<workerVars, snap, fd, pipe, files, todo, newfd, active>>

LockWrapper ==
  /\ cb = "wrapper"
  /\ ~HalHoldsWrapper
  /\ cb' = "fdlock"
  /\ UNCHANGED <<workerVars, snap, watch, fd, pipe, files, todo, newfd, active>>

\* Mutated form: the descriptor is not compared again.
SameFdUnchecked == TRUE

\* Line 68.
SameFd == fd = snap

\* Line 67 and the test of line 68; when it fails both mutexes are released.
LockFd ==
  /\ cb = "fdlock"
  /\ IF SameFd
     THEN cb' = "run" /\ UNCHANGED <<workerVars, watch>>
     ELSE Leave
  /\ UNCHANGED <<snap, fd, pipe, files, todo, newfd, active>>

\* Line 69: the driver's read, which takes what there is without blocking.
Read ==
  /\ cb = "run"
  /\ files' = [f \in Fds |-> IF f = fd /\ files[f] = "ready" THEN "quiet" ELSE files[f]]
  /\ Leave
  /\ UNCHANGED <<snap, fd, pipe, todo, newfd, active>>

CallbackStep ==
  Snapshot \/ Block \/ SelectFails \/ ReadPipe \/ SeeData \/ LockWrapper \/ LockFd \/ Read

(***************************************************************************)
(* The HAL thread: the driver's activate and close.                        *)
(***************************************************************************)

MayCall == todo = <<>> /\ caller = "idle" /\ (Wrapped => ~WorkerHoldsWrapper)

\* activate(1): the input device is opened at some free number.
Enable ==
  /\ MayCall /\ fd = NoFd
  /\ pipe + 4 <= PIPE_CAP
  /\ \E f \in Fds :
       /\ files[f] = "closed"
       /\ files' = [files EXCEPT ![f] = "quiet"]
       /\ newfd' = f
  /\ todo' = <<"set_fd", "notify", "resume", "notify">>
  /\ active' = TRUE
  /\ UNCHANGED <<workerVars, cb, snap, watch, fd, pipe>>

Disabling == IF SuspendFirst THEN <<"suspend", "notify", "set_fd", "notify">>
             ELSE <<"set_fd", "notify", "suspend", "notify">>

\* activate(0).
Disable ==
  /\ MayCall /\ fd # NoFd
  /\ newfd' = NoFd
  /\ todo' = Disabling
  /\ UNCHANGED <<workerVars, cb, snap, watch, fd, pipe, files, active>>

\* The driver's close, and so sensors_select_destroy.
Close ==
  /\ MayCall
  /\ todo' = <<"destroy", "join", "close">>
  /\ UNCHANGED <<workerVars, cb, snap, watch, fd, pipe, files, newfd, active>>

Call(name) == todo # <<>> /\ Head(todo) = name /\ todo' = Tail(todo)

\* The files left open, and what a select blocked on the closed one sees.
Shut(f) ==
  /\ files' = [g \in Fds |-> IF g = f THEN "closed" ELSE files[g]]
  /\ watch' = IF watch = "live" /\ snap = f
              THEN (IF files[f] = "ready" THEN "stale ready" ELSE "stale quiet")
              ELSE watch

\* Mutated form: set_fd does not wait for the callback.
FdMutexIgnored == TRUE

\* Mutated form: set_fd leaves the old descriptor open.
KeepOpen(f) == UNCHANGED <<files, watch>>

CloseOld(f) == Shut(f)

\* Mutated form: the callback keeps fd_mutex while it waits in select.
FdMutexAcrossSelect == cb \notin {"blocked", "run"}

FdMutexTaken == FdMutexFree

\* sensors_select_set_fd up to its unlock; Disable is over with its last call.
SetFd ==
  /\ FdMutexTaken
  /\ Call("set_fd")
  /\ CloseOld(fd)
  /\ fd' = newfd
  /\ newfd' = NoFd
  /\ UNCHANGED <<workerVars, cb, snap, pipe, active>>

\* Mutated form: nothing is written.
NotSent == pipe

Sent == pipe + 1

\* scheduler_select_notify; after the last one of a disable it has returned.
Notify ==
  /\ Call("notify")
  /\ pipe' = Sent
  /\ active' = (active /\ (Len(todo) > 1 \/ fd # NoFd))
  /\ UNCHANGED <<workerVars, cb, snap, watch, fd, files, newfd>>

ResumeCall ==
  /\ Call("resume")
  /\ Worker!Resume
  /\ UNCHANGED <<cb, snap, watch, fd, pipe, files, newfd, active>>

SuspendCall ==
  /\ Call("suspend")
  /\ Worker!Suspend
  /\ UNCHANGED <<cb, snap, watch, fd, pipe, files, newfd, active>>

DestroyCall ==
  /\ Call("destroy")
  /\ Worker!Destroy
  /\ UNCHANGED <<cb, snap, watch, fd, pipe, files, newfd, active>>

JoinReturns ==
  /\ Call("join")
  /\ Worker!JoinReturns
  /\ UNCHANGED <<cb, snap, watch, fd, pipe, files, newfd, active>>

\* Lines 104-113.
Cleanup ==
  /\ FdMutexFree
  /\ Call("close")
  /\ Shut(fd)
  /\ fd' = NoFd
  /\ pipe' = 0
  /\ active' = FALSE
  /\ UNCHANGED <<workerVars, cb, snap, newfd>>

HalStep ==
  SetFd \/ Notify \/ ResumeCall \/ SuspendCall \/ DestroyCall \/ JoinReturns \/ Cleanup

(***************************************************************************)
(* The device.                                                             *)
(***************************************************************************)

Interrupt ==
  \/ /\ \E f \in Fds : files[f] = "quiet" /\ files' = [files EXCEPT ![f] = "ready"]
     /\ UNCHANGED <<workerVars, cb, snap, watch, fd, pipe, todo, newfd, active>>
  \/ /\ watch = "stale quiet" /\ watch' = "stale ready"
     /\ UNCHANGED <<workerVars, cb, snap, fd, pipe, files, todo, newfd, active>>

WorkerStep == Outside \/ Enter \/ CallbackStep

Next ==
  /\ WorkerStep \/ SpuriousWake \/ Enable \/ Disable \/ Close \/ HalStep \/ Interrupt
  /\ UNCHANGED setup

(* Both threads are scheduled, and a worker that keeps finding the         *)
(* wrapper_mutex free in the end gets it. Calls, data and spurious wakeups *)
(* need not come.                                                          *)
Fairness == WF_steps(WorkerStep) /\ SF_steps(LockWrapper) /\ WF_steps(HalStep)

Safety == Init /\ [][Next]_vars
Spec == Safety /\ Fairness

(***************************************************************************)
(* Properties.                                                             *)
(***************************************************************************)

(* Every variable has its type, and the worker is in its poll callback     *)
(* exactly while a step of sensors_select_callback is under way.           *)
TypeOK ==
  /\ setup \in Setups
  /\ Worker!WorkerTypes
  /\ cb \in {"none", "snapshot", "select", "blocked", "wrapper", "fdlock", "run"}
  /\ cb # "none" <=> pc = "polling"
  /\ snap \in Fds \cup {NoFd} /\ fd \in Fds \cup {NoFd} /\ newfd \in Fds \cup {NoFd}
  /\ watch \in {"none", "live", "stale quiet", "stale ready"}
  /\ watch # "none" => cb = "blocked"
  /\ pipe \in 0..PIPE_CAP
  /\ files \in [Fds -> {"closed", "quiet", "ready"}]
  /\ active \in BOOLEAN

(* While select_callback runs, the descriptor it reads is the current one  *)
(* and open: no activate(0) closes it in the middle (lines 67-70, 118-122).*)
ReadsOpenFd == cb = "run" => fd \in Fds /\ fd = snap /\ files[fd] # "closed"

(* Once activate(0) has returned no callback runs until the next           *)
(* activate(1), although the worker may have seen data before.             *)
QuietAfterDisable == ~active => cb # "run"

(* No descriptor leaks: every open one is s->fd, or is on its way there.   *)
OpenFdsHeld == \A f \in Fds : files[f] # "closed" => f \in {fd, newfd}

Readable == fd # NoFd /\ files[fd] = "ready" /\ mode = "RUNNING" /\ todo = <<>>

(* Data on the descriptor of an enabled driver is read, unless the         *)
(* driver's resume fell where the worker could not hear it.                *)
DataIsRead == (Readable /\ ~missed) ~> ~Readable

(* A disabled driver's worker goes to sleep, however many notifications    *)
(* wait in the pipe and wherever it was when it was suspended.             *)
DisabledSleeps ==
  (mode = "SLEEP" /\ todo = <<>>) ~> (pc = "waiting" \/ mode # "SLEEP" \/ todo # <<>>)

(* destroy returns when it finds the worker outside the callback and past  *)
(* the choice to enter it, unless the broadcast was missed. (Inside it the *)
(* worker may block for ever: nothing is written to the pipe before the    *)
(* join of sensors_select.c:103.)                                          *)
DestroyOutsideReturns ==
  (caller = "joining" /\ ~missed /\ pc \notin {"poll", "polling"}) ~> caller = "joined"

(* Behind the wrapper an enable or a disable returns, however often data   *)
(* comes and wherever the worker is: the callback holds fd_mutex only while *)
(* it reads, and does not get there while the HAL holds wrapper_mutex. (A  *)
(* close may wait for ever: it joins with wrapper_mutex held.)             *)
ActivateReturns ==
  Wrapped /\ todo # <<>> /\ caller = "idle" /\ Head(todo) # "destroy" ~> todo = <<>>

(* The worker's thread follows its driver: it reads what an enabled one is *)
(* sent, and sleeps once a disabled one has been suspended.                *)
ThreadFollows == DataIsRead /\ DisabledSleeps

(* The caller gets its thread back: from an enable or a disable always,    *)
(* from destroy when it meets the worker outside its callback.             *)
CallsReturn == ActivateReturns /\ DestroyOutsideReturns

=============================================================================
