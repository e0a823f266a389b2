--------------------------- MODULE SensorsWorker ---------------------------
(***************************************************************************)
(* The polling thread of sensors_worker.c and the thread that controls it. *)
(*                                                                         *)
(* Every critical section of the code under worker->mode_mutex runs        *)
(* without blocking inside, so it is one action; the only sections with    *)
(* an inner step are the two stores of a 64-bit delay_ns that a 32-bit     *)
(* build may use (CONSTANT TornAccess), with the mutex held: MutexFree.    *)
(*                                                                         *)
(* The control thread (a sensor driver called through the HAL) calls one   *)
(* function at a time and calls nothing after destroy.                     *)
(***************************************************************************)
EXTENDS Integers

CONSTANTS
  Words,        (* values of one half of the 64-bit delay_ns              *)
  Delays,       (* the delays set_delay is called with                    *)
  InitDelay,    (* the 200 ms of sensors_worker_init                      *)
  TornAccess    (* TRUE: a 64-bit access may be two 32-bit ones           *)

Halves == {"hi", "lo"}

ASSUME WorkerAssumption ==
  /\ Delays \subseteq [Halves -> Words]
  /\ InitDelay \in [Halves -> Words]
  /\ TornAccess \in BOOLEAN

VARIABLES
  mode,       (* worker->mode                                             *)
  delay_ns,   (* worker->delay_ns                                         *)
  pc,         (* where the worker thread is                               *)
  woken,      (* the waiting worker has been signalled on suspend_cond    *)
  loaded,     (* the halves of delay_ns the worker has loaded             *)
  caller,     (* where the control thread is                              *)
  target,     (* the argument of the set_delay in progress                *)
  late,       (* history: callbacks begun since the mode left RUNNING     *)
  requested,  (* history: every delay set so far                          *)
  missed      (* history: the mode last left SLEEP while the thread was   *)
              (* at "wait", where it cannot hear the broadcast            *)

workerVars == <<mode, delay_ns, pc, woken, loaded, caller, target, late, requested, missed>>

Modes == {"SLEEP", "RUNNING", "DESTROY"}

(* "loop": before the lock of line 43; "wait": mode read SLEEP, mutex      *)
(* released, before the lock of line 52; "waiting": in pthread_cond_wait;  *)
(* "poll": mode read RUNNING, mutex released; "polling": in the callback;  *)
(* "load1", "load2": loading delay_ns; "asleep": in nanosleep.             *)
Places == {"loop", "wait", "waiting", "poll", "polling", "load1", "load2",
           "asleep", "exited"}

\* worker->mode = SENSOR_SLEEP.
InitMode == mode = "SLEEP"

WorkerInit ==
  /\ InitMode
  /\ delay_ns = InitDelay
  /\ pc = "loop"
  /\ woken = FALSE
  /\ loaded = InitDelay
  /\ caller = "idle"
  /\ target = InitDelay
  /\ late = 0
  /\ requested = {InitDelay}
  /\ missed = FALSE

MutexFree == caller # "storing"

Goto(from, to) == pc = from /\ pc' = to

(***************************************************************************)
(* The worker thread.                                                      *)
(***************************************************************************)

\* Mutated form: SENSOR_SLEEP has no case of its own.
BranchNoSleep(m) == IF m = "DESTROY" THEN "exited" ELSE "poll"

\* What the thread does next with the mode it has just read.
Branch(m) == CASE m = "DESTROY" -> "exited"
               [] m = "SLEEP"   -> "wait"
               [] OTHER         -> "poll"

ReadMode ==
  /\ MutexFree
  /\ Goto("loop", Branch(mode))
  /\ UNCHANGED <<mode, delay_ns, woken, loaded, caller, target, late, requested, missed>>

\* pthread_cond_wait releases the mutex and waits in one step; the mode is
\* not looked at again.
Wait ==
  /\ MutexFree
  /\ Goto("wait", "waiting")
  /\ woken' = FALSE
  /\ UNCHANGED <<mode, delay_ns, loaded, caller, target, late, requested, missed>>

Wake ==
  /\ MutexFree
  /\ woken
  /\ Goto("waiting", "load1")
  /\ UNCHANGED <<mode, delay_ns, woken, loaded, caller, target, late, requested, missed>>

\* pthread_cond_wait may return unsignalled.
SpuriousWake ==
  /\ MutexFree
  /\ ~woken
  /\ Goto("waiting", "load1")
  /\ missed' = FALSE
  /\ UNCHANGED <<mode, delay_ns, woken, loaded, caller, target, late, requested>>

BeginPoll ==
  /\ Goto("poll", "polling")
  /\ late' = IF mode = "RUNNING" \/ late = 2 THEN late ELSE late + 1
  /\ UNCHANGED <<mode, delay_ns, woken, loaded, caller, target, requested, missed>>

EndPoll ==
  /\ Goto("polling", "load1")
  /\ UNCHANGED <<mode, delay_ns, woken, loaded, caller, target, late, requested, missed>>

\* The load of delay_ns, outside the mutex: one step, or a half at a time.
LoadDelay ==
  /\ \/ Goto("load1", "asleep") /\ loaded' = delay_ns
     \/ /\ TornAccess
        /\ Goto("load1", "load2")
        /\ loaded' = [loaded EXCEPT !["lo"] = delay_ns["lo"]]
     \/ Goto("load2", "asleep") /\ loaded' = [loaded EXCEPT !["hi"] = delay_ns["hi"]]
  /\ UNCHANGED <<mode, delay_ns, woken, caller, target, late, requested, missed>>

\* nanosleep returns (at once when nothing positive was loaded).
EndSleep ==
  /\ Goto("asleep", "loop")
  /\ UNCHANGED <<mode, delay_ns, woken, loaded, caller, target, late, requested, missed>>

WorkerStep ==
  \/ ReadMode \/ Wait \/ Wake \/ BeginPoll \/ EndPoll \/ LoadDelay \/ EndSleep

(***************************************************************************)
(* The control thread.                                                     *)
(***************************************************************************)

\* Mutated form: no broadcast.
SignalNever == UNCHANGED woken

\* Broadcast on suspend_cond, which only a mode change out of SLEEP does.
Signal == woken' = (woken \/ (mode = "SLEEP" /\ pc = "waiting"))

Missed == IF mode = "SLEEP" THEN pc = "wait" ELSE missed

Suspend ==
  /\ caller = "idle"
  /\ mode' = "SLEEP"
  /\ late' = IF mode = "RUNNING" THEN 0 ELSE late
  /\ missed' = FALSE
  /\ UNCHANGED <<delay_ns, pc, woken, loaded, caller, target, requested>>

Resume ==
  /\ caller = "idle"
  /\ mode' = "RUNNING"
  /\ Signal
  /\ late' = 0
  /\ missed' = Missed
  /\ UNCHANGED <<delay_ns, pc, loaded, caller, target, requested>>

\* destroy up to the unlock of line 110; the join is JoinReturns.
Destroy ==
  /\ caller = "idle"
  /\ mode' = "DESTROY"
  /\ Signal
  /\ caller' = "joining"
  /\ late' = IF mode = "RUNNING" THEN 0 ELSE late
  /\ missed' = Missed
  /\ UNCHANGED <<delay_ns, pc, loaded, target, requested>>

JoinReturns ==
  /\ caller = "joining"
  /\ pc = "exited"
  /\ caller' = "joined"
  /\ UNCHANGED <<mode, delay_ns, pc, woken, loaded, target, late, requested, missed>>

\* set_delay: the store of line 71, or its first half with the mutex held.
SetDelay(d) ==
  /\ caller = "idle"
  /\ requested' = requested \cup {d}
  /\ \/ /\ delay_ns' = d
        /\ UNCHANGED <<caller, target>>
     \/ /\ TornAccess
        /\ \E h \in Halves : delay_ns' = [delay_ns EXCEPT ![h] = d[h]]
        /\ caller' = "storing"
        /\ target' = d
  /\ UNCHANGED <<mode, pc, woken, loaded, late, missed>>

\* The other half is stored and the mutex released.
SetDelayEnd ==
  /\ caller = "storing"
  /\ delay_ns' = target
  /\ caller' = "idle"
  /\ UNCHANGED <<mode, pc, woken, loaded, target, late, requested, missed>>

ControlStep ==
  \/ Suspend \/ Resume \/ Destroy \/ JoinReturns \/ SetDelayEnd
  \/ \E d \in Delays : SetDelay(d)

\* Both threads are gone.
Finished == caller = "joined" /\ UNCHANGED workerVars

WorkerNext == WorkerStep \/ SpuriousWake \/ ControlStep \/ Finished

(* The threads are scheduled: the worker never stops between two of its    *)
(* steps, and the control thread finishes the call it has begun. A worker  *)
(* that keeps finding mode_mutex free in the end gets it (calls of the HAL *)
(* do not follow each other so closely for ever that it never does): this  *)
(* is strong fairness of the steps that lock. Nothing makes a spurious     *)
(* wakeup, or a call, happen.                                              *)
Fairness ==
  /\ WF_workerVars(WorkerStep)
  /\ SF_workerVars(ReadMode \/ Wait \/ Wake)
  /\ WF_workerVars(SetDelayEnd \/ JoinReturns)

WorkerSafety == WorkerInit /\ [][WorkerNext]_workerVars
WorkerSpec == WorkerSafety /\ Fairness

(***************************************************************************)
(* Properties.                                                             *)
(***************************************************************************)

(* Every variable has its type; late counts to 2, enough to tell one late  *)
(* callback from several.                                                  *)
WorkerTypes ==
  /\ mode \in Modes
  /\ delay_ns \in [Halves -> Words]
  /\ pc \in Places
  /\ woken \in BOOLEAN
  /\ loaded \in [Halves -> Words]
  /\ caller \in {"idle", "storing", "joining", "joined"}
  /\ target \in [Halves -> Words]
  /\ late \in 0..2
  /\ requested \subseteq [Halves -> Words]
  /\ missed \in BOOLEAN

(* After suspend or destroy has returned the mutex (lines 82 and 110), at  *)
(* most one poll callback still begins before the next resume: the one     *)
(* whose thread had already read RUNNING at line 44.                       *)
AtMostOneLatePoll == mode # "RUNNING" => late <= 1

(* README section 2.5: work_func is called at the delay set. The thread    *)
(* never sleeps for a duration no set_delay asked for.                     *)
SleepsRequestedDelay == pc = "asleep" => loaded \in requested

\* In pthread_cond_wait, not signalled, and not asked to sleep.
Stuck == pc = "waiting" /\ ~woken /\ mode # "SLEEP"

(* The thread is stuck only when the resume or destroy fell between the    *)
(* unlock of line 45 and the wait of line 53.                              *)
StuckOnlyIfMissed == Stuck => missed

(* A running worker polls, or is suspended or destroyed, as long as the    *)
(* resume did not fall between lines 45 and 53.                            *)
RunningPolls == (mode = "RUNNING" /\ ~missed) ~> (pc = "polling" \/ mode # "RUNNING")

(* destroy returns, unless its broadcast, or that of the resume before it, *)
(* fell between lines 45 and 53.                                           *)
DestroyReturns == (caller = "joining" /\ ~missed) ~> (caller = "joined")

(* README section 2.5: the worker calls work_func at the delay set; a      *)
(* resumed worker therefore calls it, unless it is stopped again.          *)
ResumedWorkerPolls == (mode = "RUNNING") ~> (pc = "polling" \/ mode # "RUNNING")

=============================================================================
