-------------------------- MODULE SensorsCoreProofs --------------------------
(***************************************************************************)
(* Theorems about the parts every sensor goes through. SensorsWorker: for  *)
(* any delays and any width of access. SensorsFifo: for any length of the  *)
(* array and any buffers. SensorsHal: for any sensors, handles and list    *)
(* length. SensorsOpen: for any files, drivers, devices and changes of the *)
(* devices.                                                                *)
(***************************************************************************)
EXTENDS SensorsWorker, SensorsFifo, SensorsOpen,
        SequenceTheorems, FiniteSetTheorems, WellFoundedInduction, TLAPS

(***************************************************************************)
(* The worker thread.                                                      *)
(***************************************************************************)

(* LateInv strengthens AtMostOneLatePoll to an inductive invariant: with   *)
(* the mode off RUNNING, a thread that is still about to poll ("poll") has *)
(* not yet polled late.                                                    *)
LateInv == mode # "RUNNING" => /\ late \in 0..1
                               /\ pc = "poll" => late = 0

(* Every variable of the worker keeps its type (sensors_worker.c).         *)
THEOREM WorkerTypeOK == WorkerSpec => []WorkerTypes
<1>1. WorkerInit => WorkerTypes
  <2> SUFFICES ASSUME WorkerInit
               PROVE  WorkerTypes
    OBVIOUS
  <2>1. InitDelay \in [Halves -> Words]
    BY WorkerAssumption DEF WorkerAssumption
  <2>2. requested \subseteq [Halves -> Words]
    BY <2>1 DEF WorkerInit
  <2>3. mode \in Modes /\ pc \in Places
    BY DEF WorkerInit, InitMode, Modes, Places
  <2>4. caller \in {"idle", "storing", "joining", "joined"}
    BY DEF WorkerInit
  <2>5. late \in 0..2
    BY DEF WorkerInit
  <2>6. woken \in BOOLEAN /\ missed \in BOOLEAN
    BY DEF WorkerInit
  <2>7. {delay_ns, loaded, target} \subseteq [Halves -> Words]
    BY <2>1 DEF WorkerInit
  <2>8. QED
    BY <2>2, <2>3, <2>4, <2>5, <2>6, <2>7 DEF WorkerTypes
<1>2. WorkerTypes /\ [WorkerNext]_workerVars => WorkerTypes'
  <2> SUFFICES ASSUME WorkerTypes, [WorkerNext]_workerVars
               PROVE  WorkerTypes'
    OBVIOUS
  <2> USE DEF WorkerTypes
  <2>1. CASE ReadMode
    BY <2>1 DEF ReadMode, Goto, Branch, Modes, Places
  <2>2. CASE Wait
    BY <2>2 DEF Wait, Goto, Places
  <2>3. CASE Wake
    BY <2>3 DEF Wake, Goto, Places
  <2>4. CASE SpuriousWake
    BY <2>4 DEF SpuriousWake, Goto, Places
  <2>5. CASE BeginPoll
    BY <2>5 DEF BeginPoll, Goto, Places
  <2>6. CASE EndPoll
    BY <2>6 DEF EndPoll, Goto, Places
  <2>7. CASE LoadDelay
    BY <2>7 DEF LoadDelay, Goto, Places, Halves
  <2>8. CASE EndSleep
    BY <2>8 DEF EndSleep, Goto, Places
  <2>9. CASE Suspend
    <3>1. missed' \in BOOLEAN
      BY <2>9, Zenon DEF Suspend
    <3>2. woken' \in BOOLEAN
      BY <2>9, Zenon DEF Suspend
    <3>3. QED
      BY <2>9, <3>1, <3>2 DEF Suspend, Modes
  <2>10. CASE Resume
    <3>1. missed' \in BOOLEAN
      BY <2>10, Zenon DEF Resume, Missed
    <3>2. woken' \in BOOLEAN
      BY <2>10, Zenon DEF Resume, Signal
    <3>3. QED
      BY <2>10, <3>1, <3>2 DEF Resume, Modes
  <2>11. CASE Destroy
    <3>1. missed' \in BOOLEAN
      BY <2>11, Zenon DEF Destroy, Missed
    <3>2. woken' \in BOOLEAN
      BY <2>11, Zenon DEF Destroy, Signal
    <3>3. QED
      BY <2>11, <3>1, <3>2 DEF Destroy, Modes
  <2>12. CASE JoinReturns
    BY <2>12 DEF JoinReturns
  <2>13. CASE SetDelayEnd
    BY <2>13 DEF SetDelayEnd
  <2>14. ASSUME NEW d \in Delays, SetDelay(d)
         PROVE  WorkerTypes'
    BY <2>14, WorkerAssumption DEF WorkerAssumption, SetDelay, Halves
  <2>15. CASE UNCHANGED workerVars
    BY <2>15 DEF workerVars
  <2>16. QED
    BY <2>1, <2>2, <2>3, <2>4, <2>5, <2>6, <2>7, <2>8, <2>9, <2>10, <2>11, <2>12,
       <2>13, <2>14, <2>15 DEF WorkerNext, WorkerStep, ControlStep, Finished
<1>3. QED
  BY <1>1, <1>2, PTL DEF WorkerSpec, WorkerSafety

(* LateInv is inductive: only ReadMode brings the thread to "poll", and    *)
(* only while the mode is RUNNING; only BeginPoll counts.                  *)
LEMMA LateInvStep == ASSUME WorkerTypes, LateInv, [WorkerNext]_workerVars
                     PROVE  LateInv'
<1> USE DEF LateInv
<1>1. CASE ReadMode
  BY <1>1 DEF ReadMode, Goto, Branch, WorkerTypes, Modes
<1>2. CASE BeginPoll
  BY <1>2 DEF BeginPoll, Goto
<1>3. CASE Wait \/ Wake \/ SpuriousWake \/ EndPoll \/ LoadDelay \/ EndSleep
  BY <1>3 DEF Wait, Wake, SpuriousWake, EndPoll, LoadDelay, EndSleep, Goto
<1>4. CASE Suspend
  BY <1>4 DEF Suspend
<1>5. CASE Resume
  BY <1>5 DEF Resume
<1>6. CASE Destroy
  BY <1>6 DEF Destroy
<1>7. CASE JoinReturns \/ SetDelayEnd
  BY <1>7 DEF JoinReturns, SetDelayEnd
<1>8. CASE \E d \in Delays : SetDelay(d)
  BY <1>8 DEF SetDelay
<1>9. CASE UNCHANGED workerVars
  BY <1>9 DEF workerVars
<1>10. QED
  BY <1>1, <1>2, <1>3, <1>4, <1>5, <1>6, <1>7, <1>8, <1>9
     DEF WorkerNext, WorkerStep, ControlStep, Finished

(* At most one poll callback begins after suspend or destroy and before    *)
(* the next resume, whatever the interleaving (sensors_worker.c:43-59).    *)
THEOREM WorkerAtMostOneLatePoll == WorkerSpec => []AtMostOneLatePoll
<1>1. WorkerInit => LateInv
  BY DEF WorkerInit, InitMode, LateInv
<1>2. WorkerTypes /\ LateInv /\ [WorkerNext]_workerVars => LateInv'
  BY LateInvStep
<1>3. LateInv => AtMostOneLatePoll
  BY DEF LateInv, AtMostOneLatePoll
<1>4. QED
  BY <1>1, <1>2, <1>3, WorkerTypeOK, PTL DEF WorkerSpec, WorkerSafety

(* DeafInv strengthens StuckOnlyIfMissed to an inductive invariant: the    *)
(* thread on its way to the wait is already deaf to the broadcast.         *)
Deaf == pc = "wait" \/ (pc = "waiting" /\ ~woken)
DeafInv == mode # "SLEEP" /\ Deaf => missed

(* Every stuck thread missed the broadcast between the unlock of line 45   *)
(* and the wait of line 53 of sensors_worker.c; no other step loses one.   *)
THEOREM WorkerStuckOnlyIfMissed == WorkerSpec => []StuckOnlyIfMissed
<1>1. WorkerInit => DeafInv
  BY DEF WorkerInit, InitMode, DeafInv
<1>2. WorkerTypes /\ DeafInv /\ [WorkerNext]_workerVars => DeafInv'
  <2> SUFFICES ASSUME WorkerTypes, DeafInv, [WorkerNext]_workerVars, mode' # "SLEEP", Deaf'
               PROVE  missed'
    BY DEF DeafInv
  <2> USE DEF DeafInv, Deaf
  <2>1. CASE ReadMode
    BY <2>1 DEF ReadMode, Goto, Branch, WorkerTypes, Modes
  <2>2. CASE Wait \/ Wake \/ SpuriousWake \/ BeginPoll \/ EndPoll \/ LoadDelay \/ EndSleep
    BY <2>2 DEF Wait, Wake, SpuriousWake, BeginPoll, EndPoll, LoadDelay, EndSleep, Goto
  <2>3. CASE Suspend
    BY <2>3 DEF Suspend
  <2>4. ASSUME Signal, missed' = Missed, UNCHANGED pc
        PROVE  missed'
    <3>1. CASE mode = "SLEEP"
      <4>1. pc = "waiting" => woken'
        BY <2>4, <3>1, Zenon DEF Signal
      <4>2. pc = "wait"
        BY <2>4, <4>1
      <4>3. QED
        BY <2>4, <3>1, <4>2 DEF Missed
    <3>2. CASE mode # "SLEEP"
      <4>1. woken => woken'
        BY <2>4, Zenon DEF Signal
      <4>2. Deaf
        BY <2>4, <4>1, Zenon DEF Deaf
      <4>3. QED
        BY <2>4, <3>2, <4>2, Zenon DEF Missed, DeafInv
    <3>3. QED
      BY <3>1, <3>2
  <2>5. CASE Resume \/ Destroy
    BY <2>4, <2>5 DEF Resume, Destroy
  <2>6. CASE JoinReturns \/ SetDelayEnd
    BY <2>6 DEF JoinReturns, SetDelayEnd
  <2>7. CASE \E d \in Delays : SetDelay(d)
    BY <2>7 DEF SetDelay
  <2>8. CASE UNCHANGED workerVars
    BY <2>8 DEF workerVars
  <2>9. QED
    BY <2>1, <2>2, <2>3, <2>5, <2>6, <2>7, <2>8 DEF WorkerNext, WorkerStep, ControlStep, Finished
<1>3. DeafInv => StuckOnlyIfMissed
  BY DEF DeafInv, Deaf, StuckOnlyIfMissed, Stuck
<1>4. QED
  BY <1>1, <1>2, <1>3, WorkerTypeOK, PTL DEF WorkerSpec, WorkerSafety

(* Where a 64-bit access is one step, the delay in force, and the one the  *)
(* thread has loaded when it sleeps, have been asked for.                  *)
DelayInv == /\ delay_ns \in requested
            /\ pc = "asleep" => loaded \in requested
            /\ pc # "load2" /\ caller # "storing"

(* On a build with 64-bit accesses the thread sleeps only for durations    *)
(* some set_delay asked for, although it loads delay_ns outside the mutex  *)
(* (sensors_worker.c:61-62). worker_torn_delay refutes it on a 32-bit one. *)
THEOREM WorkerSleepsRequestedDelay ==
  ASSUME TornAccess = FALSE
  PROVE  WorkerSpec => []SleepsRequestedDelay
<1> USE DEF DelayInv
<1>1. WorkerInit => DelayInv
  BY DEF WorkerInit
<1>2. DelayInv /\ [WorkerNext]_workerVars => DelayInv'
  <2> SUFFICES ASSUME DelayInv, [WorkerNext]_workerVars
               PROVE  DelayInv'
    OBVIOUS
  <2>1. CASE ReadMode
    BY <2>1 DEF ReadMode, Goto, Branch
  <2>2. CASE Wait \/ Wake \/ SpuriousWake \/ BeginPoll \/ EndPoll \/ EndSleep
    BY <2>2 DEF Wait, Wake, SpuriousWake, BeginPoll, EndPoll, EndSleep, Goto
  <2>3. CASE LoadDelay
    BY <2>3 DEF LoadDelay, Goto
  <2>4. CASE Suspend \/ Resume \/ Destroy \/ JoinReturns
    BY <2>4 DEF Suspend, Resume, Destroy, JoinReturns
  <2>5. CASE SetDelayEnd
    BY <2>5 DEF SetDelayEnd
  <2>6. CASE \E d \in Delays : SetDelay(d)
    BY <2>6 DEF SetDelay
  <2>7. CASE UNCHANGED workerVars
    BY <2>7 DEF workerVars
  <2>8. QED
    BY <2>1, <2>2, <2>3, <2>4, <2>5, <2>6, <2>7 DEF WorkerNext, WorkerStep, ControlStep, Finished
<1>3. DelayInv => SleepsRequestedDelay
  BY DEF SleepsRequestedDelay
<1>4. QED
  BY <1>1, <1>2, <1>3, PTL DEF WorkerSpec, WorkerSafety

(***************************************************************************)
(* The event FIFO.                                                         *)
(***************************************************************************)

(* fifo_i stays within the array, and each variable keeps its type         *)
(* (sensors_fifo.c:48-49).                                                 *)
THEOREM FifoTypeOK == FifoSafety => []FifoTypes
<1> USE FifoAssumption DEF FifoAssumption
<1>1. FifoInit => FifoTypes
  <2> SUFFICES ASSUME FifoInit
               PROVE  FifoTypes
    OBVIOUS
  <2>1. fifo = <<>> /\ data = <<>> /\ <<>> \in Seq(Events) /\ Len(fifo) <= FIFO_LEN
    BY DEF FifoInit
  <2>2. poller \in {"idle", "entry", "waiting"} /\ len \in Lens
    BY DEF FifoInit
  <2>3. signalled \in BOOLEAN
    BY DEF FifoInit
  <2>4. QED
    BY <2>1, <2>2, <2>3 DEF FifoTypes
<1>2. FifoTypes /\ [FifoNext]_fifoVars => FifoTypes'
  <2> SUFFICES ASSUME FifoTypes, [FifoNext]_fifoVars
               PROVE  FifoTypes'
    OBVIOUS
  <2>1. ASSUME NEW e \in Events, Put(e)
        PROVE  FifoTypes'
    <3>1. Stored(e) \in Seq(Events) /\ Len(Stored(e)) <= FIFO_LEN
      BY <2>1 DEF Stored, FifoFull, FifoTypes
    <3>2. signalled' \in BOOLEAN
      BY <2>1 DEF Put, SignalData, FifoTypes
    <3>3. QED
      BY <2>1, <3>1, <3>2 DEF Put, FifoTypes
  <2>2. ASSUME NEW n \in Lens, Poll(n)
        PROVE  FifoTypes'
    BY <2>2 DEF Poll, FifoTypes
  <2>3. CASE WaitForData
    BY <2>3 DEF WaitForData, FifoTypes
  <2>4. CASE TakeAll
    <3>1. fifo' = <<>> /\ <<>> \in Seq(Events) /\ Len(<<>>) = 0
      BY <2>4 DEF TakeAll
    <3>2. Copied \in 0..Len(fifo)
      BY DEF Copied, FifoTypes
    <3>3. SubSeq(fifo, 1, Copied) \in Seq(Events)
      BY <3>2 DEF FifoTypes
    <3>4. data' \in Seq(Events)
      BY <2>4, <3>3 DEF TakeAll, FifoTypes
    <3>5. poller' \in {"idle", "entry", "waiting"}
      BY <2>4 DEF TakeAll
    <3>6. signalled' = signalled /\ len' = len
      BY <2>4 DEF TakeAll
    <3>7. QED
      BY <3>1, <3>4, <3>5, <3>6 DEF FifoTypes
  <2>5. CASE UNCHANGED fifoVars
    BY <2>5 DEF fifoVars, FifoTypes
  <2>6. QED
    BY <2>1, <2>2, <2>3, <2>4, <2>5 DEF FifoNext, Take, SpuriousTake
<1>3. QED
  BY <1>1, <1>2, PTL DEF FifoSafety

(* Between the broadcast and the copy nobody empties the FIFO: a signalled *)
(* poll always finds an event (sensors_fifo.c:51, 61-65).                  *)
THEOREM FifoWokenHasData == FifoSafety => []WokenHasData
<1> USE FifoAssumption DEF FifoAssumption
<1>1. FifoInit => WokenHasData
  BY DEF FifoInit, WokenHasData
<1>2. FifoTypes /\ WokenHasData /\ [FifoNext]_fifoVars => WokenHasData'
  <2> SUFFICES ASSUME FifoTypes, WokenHasData, [FifoNext]_fifoVars
               PROVE  WokenHasData'
    OBVIOUS
  <2> USE DEF WokenHasData
  <2>1. ASSUME NEW e \in Events, Put(e)
        PROVE  fifo' # <<>>
    <3>1. Len(Stored(e)) # 0
      BY DEF Stored, FifoFull, FifoTypes
    <3>2. QED
      BY <2>1, <3>1 DEF Put
  <2>2. ASSUME NEW n \in Lens, Poll(n)
        PROVE  WokenHasData'
    BY <2>2 DEF Poll
  <2>3. CASE WaitForData
    BY <2>3 DEF WaitForData
  <2>4. CASE TakeAll
    BY <2>4 DEF TakeAll
  <2>5. CASE UNCHANGED fifoVars
    BY <2>5 DEF fifoVars
  <2>6. QED
    BY <2>1, <2>2, <2>3, <2>4, <2>5 DEF FifoNext, Take, SpuriousTake
<1>3. QED
  BY <1>1, <1>2, FifoTypeOK, PTL DEF FifoSafety

(* A step of the FIFO is a step of the channel, or changes neither what is *)
(* pending nor what was returned.                                          *)
LEMMA ChannelStep == ASSUME FifoTypes, [FifoNext]_fifoVars
                     PROVE  [Channel!Next]_(Channel!channelVars)
<1> USE FifoAssumption DEF FifoAssumption, Channel!channelVars
<1>1. ASSUME NEW e \in Events, Put(e)
      PROVE  [Channel!Next]_(Channel!channelVars)
  <2>1. CASE FifoFull
    BY <1>1, <2>1 DEF Put, Stored, FifoFull, Channel!Next, Channel!Lose
  <2>2. CASE ~FifoFull
    <3>1. Channel!Accept(e)
      BY <1>1, <2>2 DEF Put, Stored, FifoFull, FifoTypes, Channel!Accept
    <3>2. QED
      BY <3>1 DEF Channel!Next
  <2>3. QED
    BY <2>1, <2>2
<1>2. ASSUME NEW n \in Lens, Poll(n)
      PROVE  UNCHANGED <<fifo, data>>
  BY <1>2 DEF Poll
<1>3. CASE WaitForData
  BY <1>3 DEF WaitForData
<1>4. CASE TakeAll
  <2>1. CASE fifo = <<>>
    <3>1. Copied = 0
      BY <2>1 DEF Copied, FifoTypes
    <3>2. QED
      BY <1>4, <2>1, <3>1 DEF TakeAll
  <2>2. CASE fifo # <<>>
    <3>1. Len(fifo) \in Nat /\ Len(fifo) # 0 /\ len \in Nat \ {0}
      BY <2>2 DEF FifoTypes
    <3>2. Copied # 0
      BY <3>1 DEF Copied
    <3>3. Channel!Return(len)
      BY <1>4, <2>2, <3>2 DEF TakeAll, Copied, Channel!Return
    <3>4. QED
      BY <3>3 DEF Channel!Next, FifoTypes
  <2>3. QED
    BY <2>1, <2>2
<1>5. CASE UNCHANGED fifoVars
  BY <1>5 DEF fifoVars
<1>6. QED
  BY <1>1, <1>2, <1>3, <1>4, <1>5 DEF FifoNext, Take, SpuriousTake

(* The FIFO with its mutex, wait and broadcast implements the channel: it  *)
(* loses only at the bound, and returns the oldest events in their order.  *)
THEOREM FifoImplementsChannel == FifoSafety => ImplementsChannel
<1>1. FifoInit => Channel!Init
  BY DEF FifoInit, Channel!Init
<1>2. FifoTypes /\ [FifoNext]_fifoVars => [Channel!Next]_(Channel!channelVars)
  BY ChannelStep
<1>3. QED
  BY <1>1, <1>2, FifoTypeOK, PTL DEF FifoSafety, ImplementsChannel, Channel!Spec

(* An event put last was put after all that were put before it, and the    *)
(* order of those does not change (sensors_fifo.c:48).                     *)
LEMMA PutLast ==
  ASSUME sent \in Seq(Tagged), NEW e \in Tagged, sent' = Append(sent, e)
  PROVE  /\ sent' \in Seq(Tagged) /\ ToSet(sent') = ToSet(sent) \cup {e}
         /\ \A c, d : Before(sent, c, d) => Before(sent', c, d)
         /\ \A c \in ToSet(sent) : Before(sent', c, e)
<1> DEFINE n == Len(sent)
<1>1. /\ n \in Nat /\ DOMAIN sent = 1..n
      /\ sent' \in Seq(Tagged) /\ DOMAIN sent' = 1..(n + 1)
      /\ \A i \in 1..n : sent'[i] = sent[i]
      /\ sent'[n + 1] = e
  OBVIOUS
<1> HIDE DEF n
<1>2. ToSet(sent') = ToSet(sent) \cup {e}
  <2>1. \A x : x \in ToSet(sent) <=> \E i \in 1..n : x = sent[i]
    BY <1>1 DEF ToSet
  <2>2. \A x : x \in ToSet(sent') <=> \E i \in 1..(n + 1) : x = sent'[i]
    BY <1>1 DEF ToSet
  <2>3. \A x : x \in ToSet(sent') => x \in ToSet(sent) \/ x = e
    <3> SUFFICES ASSUME NEW x \in ToSet(sent') PROVE x \in ToSet(sent) \/ x = e
      OBVIOUS
    <3>1. PICK i \in 1..(n + 1) : x = sent'[i]
      BY <2>2
    <3>2. i = n + 1 \/ i \in 1..n
      BY <1>1
    <3>3. QED
      BY <1>1, <2>1, <3>1, <3>2
  <2>4. \A x \in ToSet(sent) : x \in ToSet(sent')
    <3> SUFFICES ASSUME NEW x \in ToSet(sent) PROVE x \in ToSet(sent')
      OBVIOUS
    <3>1. PICK i \in 1..n : x = sent[i]
      BY <2>1
    <3>2. i \in 1..(n + 1) /\ x = sent'[i]
      BY <1>1, <3>1
    <3>3. QED
      BY <2>2, <3>2
  <2>5. e \in ToSet(sent')
    <3>1. n + 1 \in 1..(n + 1)
      BY <1>1
    <3>2. QED
      BY <1>1, <2>2, <3>1
  <2>6. QED
    BY <2>3, <2>4, <2>5
<1>3. ASSUME NEW c, NEW d, Before(sent, c, d)
      PROVE  Before(sent', c, d)
  <2>1. PICK i \in 1..n, j \in 1..n : i < j /\ sent[i] = c /\ sent[j] = d
    BY <1>1, <1>3 DEF Before
  <2>2. i \in 1..(n + 1) /\ j \in 1..(n + 1) /\ sent'[i] = c /\ sent'[j] = d
    BY <1>1, <2>1
  <2>3. QED
    BY <1>1, <2>1, <2>2 DEF Before
<1>4. ASSUME NEW c \in ToSet(sent)
      PROVE  Before(sent', c, e)
  <2>1. PICK i \in 1..n : c = sent[i]
    BY <1>1 DEF ToSet
  <2>2. i \in 1..(n + 1) /\ n + 1 \in 1..(n + 1) /\ i < n + 1 /\ sent'[i] = c
    BY <1>1, <2>1
  <2>3. QED
    BY <1>1, <2>2 DEF Before
<1>5. QED
  BY <1>1, <1>2, <1>3, <1>4

(* A put keeps every event accounted for, and joins the end of the queue.  *)
LEMMA PutOnce ==
  ASSUME FifoTypes, sent \in Seq(Tagged), OrderedOnce, NEW e \in Events, Put(e)
  PROVE  sent' \in Seq(Tagged) /\ OrderedOnce'
<1> USE FifoAssumption DEF FifoAssumption
<1>1. fifo' = Stored(e) /\ UNCHANGED <<data, delivered>>
  BY DEF Put
<1>2. \A x : x \in TaggedIn(<<e>>) <=> x = e /\ e \in Tagged
  BY DEF TaggedIn, ToSet
<1>3. fifo \in Seq(Events) /\ DOMAIN fifo = 1..Len(fifo) /\ Len(fifo) \in Nat
  BY DEF FifoTypes
<1>4. ~FifoFull => /\ fifo' \in Seq(Events) /\ DOMAIN fifo' = 1..(Len(fifo) + 1)
                   /\ \A i \in 1..Len(fifo) : fifo'[i] = fifo[i]
                   /\ fifo'[Len(fifo) + 1] = e
  BY <1>1, <1>3 DEF Stored
<1>5. fifo' = IF FifoFull THEN fifo ELSE fifo'
  BY <1>1 DEF Stored
<1>6. \A x : x \in TaggedIn(fifo)' <=> x \in TaggedIn(fifo) \/ (~FifoFull /\ x = e /\ e \in Tagged)
  <2>1. CASE FifoFull
    BY <1>5, <2>1 DEF TaggedIn
  <2>2. CASE ~FifoFull
    <3> DEFINE n == Len(fifo)
    <3>1. \A x : x \in ToSet(fifo) <=> \E i \in 1..n : x = fifo[i]
      BY <1>3 DEF ToSet
    <3>2. \A x : x \in ToSet(fifo') <=> \E i \in 1..(n + 1) : x = fifo'[i]
      BY <1>4, <2>2 DEF ToSet
    <3>3. n \in Nat /\ (\A i \in 1..n : fifo'[i] = fifo[i]) /\ fifo'[n + 1] = e
      BY <1>3, <1>4, <2>2
    <3> HIDE DEF n
    <3>4. \A i \in 1..(n + 1) : i \in 1..n \/ i = n + 1
      BY <3>3
    <3>5. \A i \in 1..n : i \in 1..(n + 1)
      BY <3>3
    <3>6. n + 1 \in 1..(n + 1)
      BY <3>3
    <3>7. \A x : x \in ToSet(fifo') <=> x \in ToSet(fifo) \/ x = e
      BY <3>1, <3>2, <3>3, <3>4, <3>5, <3>6
    <3>8. QED
      BY <2>2, <3>7 DEF TaggedIn
  <2>3. QED
    BY <2>1, <2>2
<1>7. CASE e = Plain
  <2>1. sent' = sent /\ e \notin Tagged
    BY <1>7 DEF Put
  <2>2. dropped' = dropped
    BY <1>2, <2>1 DEF Put
  <2>3. TaggedIn(fifo)' = TaggedIn(fifo)
    BY <1>6, <2>1
  <2>4. \A c, d : Before(sent, c, d) <=> Before(sent', c, d)
    BY <2>1 DEF Before
  <2>5. NoneLost'
    BY <1>1, <2>1, <2>2, <2>3 DEF OrderedOnce, NoneLost
  <2>6. InPutOrder(fifo)'
    <3>1. CASE FifoFull
      BY <1>5, <2>4, <3>1 DEF OrderedOnce, ReturnedInOrder, InPutOrder
    <3>2. CASE ~FifoFull
      <4> SUFFICES ASSUME NEW i \in DOMAIN fifo', NEW j \in DOMAIN fifo',
                          i < j, fifo'[i] \in Tagged, fifo'[j] \in Tagged
                   PROVE  fifo'[i] # fifo'[j] /\ Before(sent', fifo'[i], fifo'[j])
        BY DEF InPutOrder
      <4>1. i # Len(fifo) + 1 /\ j # Len(fifo) + 1
        BY <1>4, <2>1, <3>2
      <4>2. i \in 1..Len(fifo) /\ j \in 1..Len(fifo)
        BY <1>3, <1>4, <3>2, <4>1
      <4>3. fifo'[i] = fifo[i] /\ fifo'[j] = fifo[j]
        BY <1>4, <3>2, <4>2
      <4>4. fifo[i] # fifo[j] /\ Before(sent, fifo[i], fifo[j])
        BY <1>3, <4>2, <4>3 DEF OrderedOnce, ReturnedInOrder, InPutOrder
      <4>5. QED
        BY <2>4, <4>3, <4>4
    <3>3. QED
      BY <3>1, <3>2
  <2>7. ReturnedInOrder'
    BY <1>1, <2>3, <2>4, <2>6 DEF OrderedOnce, ReturnedInOrder, InPutOrder, TaggedIn
  <2>8. QED
    BY <2>1, <2>5, <2>7 DEF OrderedOnce
<1>8. CASE e # Plain
  <2>1. e \in Tagged /\ e \notin ToSet(sent) /\ sent' = Append(sent, e)
    BY <1>8 DEF Put, Events
  <2>2. dropped' = IF FifoFull THEN dropped \cup {e} ELSE dropped
    <3>1. TaggedIn(<<e>>) = {e}
      BY <1>2, <2>1
    <3>2. QED
      BY <3>1 DEF Put
  <2>3. /\ sent' \in Seq(Tagged) /\ ToSet(sent') = ToSet(sent) \cup {e}
        /\ \A c, d : Before(sent, c, d) => Before(sent', c, d)
        /\ \A c \in ToSet(sent) : Before(sent', c, e)
    BY <2>1, PutLast
  <2>4. /\ ToSet(sent) = delivered \cup dropped \cup TaggedIn(fifo)
        /\ delivered \cap dropped = {} /\ (delivered \cup dropped) \cap TaggedIn(fifo) = {}
    BY DEF OrderedOnce, NoneLost
  <2>5. NoneLost'
    <3>1. CASE FifoFull
      <4>1. TaggedIn(fifo)' = TaggedIn(fifo)
        BY <1>6, <3>1
      <4>2. dropped' = dropped \cup {e}
        BY <2>2, <3>1
      <4>3. QED
        BY <1>1, <2>1, <2>3, <2>4, <4>1, <4>2 DEF NoneLost
    <3>2. CASE ~FifoFull
      <4>1. TaggedIn(fifo)' = TaggedIn(fifo) \cup {e}
        BY <1>6, <2>1, <3>2
      <4>2. dropped' = dropped
        BY <2>2, <3>2
      <4>3. QED
        BY <1>1, <2>1, <2>3, <2>4, <4>1, <4>2 DEF NoneLost
    <3>3. QED
      BY <3>1, <3>2
  <2>6. InPutOrder(fifo)'
    <3>1. CASE FifoFull
      BY <1>5, <2>3, <3>1 DEF OrderedOnce, ReturnedInOrder, InPutOrder
    <3>2. CASE ~FifoFull
      <4> SUFFICES ASSUME NEW i \in DOMAIN fifo', NEW j \in DOMAIN fifo',
                          i < j, fifo'[i] \in Tagged, fifo'[j] \in Tagged
                   PROVE  fifo'[i] # fifo'[j] /\ Before(sent', fifo'[i], fifo'[j])
        BY DEF InPutOrder
      <4>1. i \in 1..Len(fifo) /\ fifo'[i] = fifo[i] /\ (j \in 1..Len(fifo) \/ j = Len(fifo) + 1)
        BY <1>3, <1>4, <3>2
      <4>2. fifo[i] \in ToSet(sent)
        <5>1. fifo[i] \in ToSet(fifo) /\ fifo[i] \in Tagged
          BY <1>3, <4>1 DEF ToSet
        <5>2. QED
          BY <2>4, <5>1 DEF TaggedIn
      <4>3. CASE j = Len(fifo) + 1
        <5>1. fifo'[j] = e
          BY <1>4, <3>2, <4>3
        <5>2. fifo[i] # e /\ Before(sent', fifo[i], e)
          BY <2>1, <2>3, <4>2
        <5>3. QED
          BY <4>1, <5>1, <5>2
      <4>4. CASE j \in 1..Len(fifo)
        <5>1. fifo'[j] = fifo[j]
          BY <1>4, <3>2, <4>4
        <5>2. fifo[i] # fifo[j] /\ Before(sent, fifo[i], fifo[j])
          BY <1>3, <4>1, <4>4, <5>1 DEF OrderedOnce, ReturnedInOrder, InPutOrder
        <5>3. QED
          BY <2>3, <4>1, <5>1, <5>2
      <4>5. QED
        BY <4>1, <4>3, <4>4
    <3>3. QED
      BY <3>1, <3>2
  <2>7. \A c \in delivered', d \in TaggedIn(fifo)' : Before(sent', c, d)
    <3> SUFFICES ASSUME NEW c \in delivered', NEW d \in TaggedIn(fifo)' PROVE Before(sent', c, d)
      OBVIOUS
    <3>1. c \in delivered /\ c \in ToSet(sent)
      BY <1>1, <2>4
    <3>2. d \in TaggedIn(fifo) \/ d = e
      BY <1>6
    <3>3. QED
      BY <2>3, <3>1, <3>2 DEF OrderedOnce, ReturnedInOrder
  <2>8. InPutOrder(data)'
    BY <1>1, <2>3 DEF OrderedOnce, ReturnedInOrder, InPutOrder
  <2>9. ReturnedInOrder'
    BY <1>1, <2>3, <2>6, <2>7, <2>8 DEF OrderedOnce, ReturnedInOrder, TaggedIn
  <2>10. QED
    BY <2>3, <2>5, <2>9 DEF OrderedOnce
<1>9. QED
  BY <1>7, <1>8

(* A poll returns the oldest events and loses the others.                  *)
LEMMA TakeOnce ==
  ASSUME FifoTypes, OrderedOnce, TakeAll
  PROVE  OrderedOnce'
<1> USE FifoAssumption DEF FifoAssumption
<1> DEFINE n == Len(fifo)
           k == Copied
           first == SubSeq(fifo, 1, k)
           rest == SubSeq(fifo, k + 1, n)
<1>1. fifo \in Seq(Events) /\ n \in Nat /\ DOMAIN fifo = 1..n /\ len \in Nat \ {0}
  BY DEF FifoTypes
<1>2. k \in 0..n /\ (k = 0 => n = 0)
  BY <1>1 DEF Copied
<1>3. first \in Seq(Events) /\ DOMAIN first = 1..k /\ \A i \in 1..k : i \in 1..n /\ first[i] = fifo[i]
  BY <1>1, <1>2
<1>4. DOMAIN rest = 1..(n - k) /\ \A i \in 1..(n - k) : i + k \in 1..n /\ rest[i] = fifo[i + k]
  BY <1>1, <1>2
<1>5. /\ fifo' = <<>> /\ sent' = sent
      /\ delivered' = delivered \cup TaggedIn(first) /\ dropped' = dropped \cup TaggedIn(rest)
      /\ data' = IF k = 0 THEN data ELSE first
  BY DEF TakeAll
<1> HIDE DEF n, k, first, rest
<1>6. \A x : x \in TaggedIn(fifo) <=> x \in TaggedIn(first) \/ x \in TaggedIn(rest)
  <2>1. \A x : x \in ToSet(fifo) <=> \E i \in 1..n : x = fifo[i]
    BY <1>1 DEF ToSet
  <2>2. \A x : x \in ToSet(first) <=> \E i \in 1..k : x = first[i]
    BY <1>3 DEF ToSet
  <2>3. \A x : x \in ToSet(rest) <=> \E i \in 1..(n - k) : x = rest[i]
    BY <1>4 DEF ToSet
  <2>4. \A x \in ToSet(first) : x \in ToSet(fifo)
    BY <1>3, <2>1, <2>2
  <2>5. \A x \in ToSet(rest) : x \in ToSet(fifo)
    BY <1>4, <2>1, <2>3
  <2>6. \A x \in ToSet(fifo) : x \in ToSet(first) \/ x \in ToSet(rest)
    <3> SUFFICES ASSUME NEW x \in ToSet(fifo) PROVE x \in ToSet(first) \/ x \in ToSet(rest)
      OBVIOUS
    <3>1. PICK i \in 1..n : x = fifo[i]
      BY <2>1
    <3>2. CASE i <= k
      <4>1. i \in 1..k
        BY <1>1, <1>2, <3>2
      <4>2. QED
        BY <1>3, <2>2, <3>1, <4>1
    <3>3. CASE ~(i <= k)
      <4>1. i - k \in 1..(n - k) /\ i - k + k = i
        BY <1>1, <1>2, <3>3
      <4>2. QED
        BY <1>4, <2>3, <3>1, <4>1
    <3>4. QED
      BY <3>2, <3>3
  <2>7. QED
    BY <2>4, <2>5, <2>6 DEF TaggedIn
<1>7. \A i, j \in DOMAIN fifo :
        i < j /\ fifo[i] \in Tagged /\ fifo[j] \in Tagged => fifo[i] # fifo[j] /\ Before(sent, fifo[i], fifo[j])
  BY DEF OrderedOnce, ReturnedInOrder, InPutOrder
<1>8. TaggedIn(first) \cap TaggedIn(rest) = {}
  <2> SUFFICES ASSUME NEW x \in TaggedIn(first), x \in TaggedIn(rest) PROVE FALSE
    OBVIOUS
  <2>1. PICK i \in 1..k : x = first[i]
    BY <1>3 DEF TaggedIn, ToSet
  <2>2. PICK j \in 1..(n - k) : x = rest[j]
    BY <1>4 DEF TaggedIn, ToSet
  <2>3. i \in DOMAIN fifo /\ fifo[i] = x
    BY <1>1, <1>3, <2>1
  <2>4. j + k \in DOMAIN fifo /\ fifo[j + k] = x
    BY <1>1, <1>4, <2>2
  <2>5. i < j + k
    BY <1>1, <1>2, <2>1, <2>2
  <2>6. x \in Tagged
    BY DEF TaggedIn
  <2>7. QED
    BY <1>7, <2>3, <2>4, <2>5, <2>6
<1>9. TaggedIn(fifo)' = {}
  BY <1>5 DEF TaggedIn, ToSet
<1>10. NoneLost'
  BY <1>5, <1>6, <1>8, <1>9 DEF OrderedOnce, NoneLost
<1>11. \A c, d : Before(sent, c, d) <=> Before(sent', c, d)
  BY <1>5 DEF Before
<1>12. InPutOrder(fifo)'
  BY <1>5 DEF InPutOrder
<1>13. CASE k = 0
  <2>1. data' = data /\ n = 0
    BY <1>2, <1>5, <1>13
  <2>2. TaggedIn(first) = {}
    BY <1>3, <1>13 DEF TaggedIn, ToSet
  <2>3. delivered' = delivered
    BY <1>5, <2>2
  <2>4. QED
    BY <1>9, <1>10, <1>11, <1>12, <2>1, <2>3 DEF OrderedOnce, ReturnedInOrder, InPutOrder, TaggedIn
<1>14. CASE k # 0
  <2>1. data' = first
    BY <1>5, <1>14
  <2>2. InPutOrder(data)'
    <3> SUFFICES ASSUME NEW i \in DOMAIN first, NEW j \in DOMAIN first,
                        i < j, first[i] \in Tagged, first[j] \in Tagged
                 PROVE  first[i] # first[j] /\ Before(sent', first[i], first[j])
      BY <2>1 DEF InPutOrder
    <3>1. i \in DOMAIN fifo /\ j \in DOMAIN fifo /\ first[i] = fifo[i] /\ first[j] = fifo[j]
      BY <1>1, <1>3
    <3>2. QED
      BY <1>7, <1>11, <3>1
  <2>3. TaggedIn(data)' = TaggedIn(first)
    BY <2>1 DEF TaggedIn
  <2>4. \A c \in delivered' \ TaggedIn(first), d \in TaggedIn(first) : Before(sent', c, d)
    <3> SUFFICES ASSUME NEW c \in delivered' \ TaggedIn(first), NEW d \in TaggedIn(first) PROVE Before(sent', c, d)
      OBVIOUS
    <3>1. c \in delivered /\ d \in TaggedIn(fifo)
      BY <1>5, <1>6
    <3>2. QED
      BY <1>11, <3>1 DEF OrderedOnce, ReturnedInOrder
  <2>5. ReturnedInOrder'
    BY <1>5, <1>9, <1>12, <2>2, <2>3, <2>4 DEF ReturnedInOrder
  <2>6. QED
    BY <1>10, <2>5 DEF OrderedOnce
<1>15. QED
  BY <1>13, <1>14

(* For any length of the array and any buffers: every event put is         *)
(* returned, queued or dropped, no two of them, and what one poll returns  *)
(* is in the order of the puts, after all that was returned before         *)
(* (sensors_fifo.c:41-71).                                                 *)
THEOREM FifoOrderedOnce == FifoSafety => []OrderedOnce
<1> DEFINE OnceInv == sent \in Seq(Tagged) /\ OrderedOnce
<1>1. FifoInit => OnceInv
  <2> SUFFICES ASSUME FifoInit PROVE OnceInv
    OBVIOUS
  <2>1. fifo = <<>> /\ data = <<>> /\ sent = <<>> /\ delivered = {} /\ dropped = {}
    BY DEF FifoInit
  <2>2. ToSet(<<>>) = {}
    BY DEF ToSet
  <2>3. QED
    BY <2>1, <2>2 DEF OrderedOnce, NoneLost, ReturnedInOrder, InPutOrder, TaggedIn
<1>2. FifoTypes /\ OnceInv /\ [FifoNext]_fifoVars => OnceInv'
  <2> SUFFICES ASSUME FifoTypes, OnceInv, [FifoNext]_fifoVars PROVE OnceInv'
    OBVIOUS
  <2>1. ASSUME NEW e \in Events, Put(e)
        PROVE  OnceInv'
    BY <2>1, PutOnce
  <2>2. CASE UNCHANGED <<fifo, data, sent, delivered, dropped>>
    BY <2>2 DEF OrderedOnce, NoneLost, ReturnedInOrder, InPutOrder, Before, TaggedIn
  <2>3. ASSUME NEW n \in Lens, Poll(n)
        PROVE  UNCHANGED <<fifo, data, sent, delivered, dropped>>
    BY <2>3 DEF Poll
  <2>4. CASE WaitForData
    BY <2>2, <2>4 DEF WaitForData
  <2>5. CASE TakeAll
    <3>1. sent' = sent
      BY <2>5 DEF TakeAll
    <3>2. QED
      BY <2>5, <3>1, TakeOnce
  <2>6. CASE UNCHANGED fifoVars
    BY <2>2, <2>6 DEF fifoVars
  <2>7. QED
    BY <2>1, <2>2, <2>3, <2>4, <2>5, <2>6 DEF FifoNext, Take, SpuriousTake
<1>3. OnceInv => OrderedOnce
  OBVIOUS
<1>4. QED
  BY <1>1, <1>2, <1>3, FifoTypeOK, PTL DEF FifoSafety

(***************************************************************************)
(* The sensor list, and what an open reads.                                *)
(***************************************************************************)

(* Any natural numbers, if there are some, have a least one.               *)
LEMMA LeastNatural ==
  ASSUME NEW T, T \subseteq Nat, T # {}
  PROVE  \E x \in T : \A y \in T : x <= y
<1>1. IsWellFoundedOn(OpToRel(<, Nat), Nat)
  BY NatLessThanWellFounded
<1>2. \E x \in T : \A y \in T : ~(<<y, x>> \in OpToRel(<, Nat))
  BY <1>1, WFMin
<1>3. \A x, y \in T : ~(<<y, x>> \in OpToRel(<, Nat)) => x <= y
  BY DEF OpToRel
<1>4. QED
  BY <1>2, <1>3

Used == 1..number_of_sensors

\* The two arrays stay parallel, and no sensor is listed twice.
ListInv ==
  /\ \A k \in Used : sensor_apis[k] \in Apis /\ sensors[k] = Handle[sensor_apis[k]]
  /\ \A j, k \in Used : sensor_apis[j] = sensor_apis[k] => j = k

Passed == {sensor_apis[k] : k \in {j \in Used : j < at}}

(* From the start of an open on, the sensors the list held then are those  *)
(* still listed and those that failed; the ones that failed, and the ones  *)
(* at positions the loop has passed, have been initialised once, the       *)
(* others not yet.                                                         *)
WalkInv ==
  /\ failed \cap {sensor_apis[k] : k \in Used} = {}
  /\ ToSet(registered) = failed \cup {sensor_apis[k] : k \in Used}
  /\ \A s \in Apis : inits[s] = IF s \in failed \cup Passed THEN 1 ELSE 0
  /\ phase = "open" => at > number_of_sensors

\* What is left of the list is in the order in which open found it.
OrderInv ==
  \A j, k \in Used, p, q \in DOMAIN registered :
    registered[p] = sensor_apis[j] /\ registered[q] = sensor_apis[k] => (j < k <=> p < q)

\* The answer to the last request is still what the list says.
ReplyInv == reply # NoReply => phase = "open" /\ reply.api = Routed(reply.handle)

HalInv ==
  /\ TypeOK
  /\ ListInv
  /\ phase \in {"opening", "open"} => WalkInv /\ OrderInv
  /\ ReplyInv

(* HalInv holds at the start.                                              *)
LEMMA HalInvInit == Init => HalInv
<1> SUFFICES ASSUME Init
             PROVE  HalInv
  OBVIOUS
<1>1. TypeOK
  <2>1. sensors \in [Indices -> Handles \cup {NoHandle}]
    BY DEF Init
  <2>2. sensor_apis \in [Indices -> Apis \cup {NoApi}]
    BY DEF Init
  <2>3. registered \in Seq(Apis) /\ inits \in [Apis -> Nat]
    BY DEF Init
  <2>4. reply \in [handle : Handles \cup {NoHandle}, api : Apis \cup {NoApi}]
    BY DEF Init, NoReply
  <2>5. QED
    BY <2>1, <2>2, <2>3, <2>4, HalAssumption DEF Init, TypeOK, HalAssumption
<1>2. ListInv
  BY DEF Init, ListInv, Used
<1>3. QED
  BY <1>1, <1>2 DEF HalInv, ReplyInv, Init

(* A constructor's register keeps the positions parallel and distinct.     *)
LEMMA RegisterInv == ASSUME HalInv, NEW s \in Apis, sensors_list_register(s)
                     PROVE  HalInv'
<1>1. CASE Full
  <2>1. UNCHANGED halVars
    BY <1>1 DEF sensors_list_register, halVars
  <2>2. phase = "loading" /\ reply = NoReply
    BY DEF sensors_list_register, HalInv, ReplyInv
  <2>3. QED
    BY <2>1, <2>2 DEF halVars, HalInv, TypeOK, ListInv, ReplyInv, Used
<1>2. CASE ~Full
  <2> DEFINE n == number_of_sensors + 1
  <2>1. n \in Indices /\ n \in 1..DASH_MAX_SENSORS /\ number_of_sensors \in Nat
    BY <1>2, HalAssumption DEF Full, HalInv, TypeOK, Indices, HalAssumption
  <2>2. /\ sensor_apis' = [sensor_apis EXCEPT ![n] = s]
        /\ sensors' = [sensors EXCEPT ![n] = Handle[s]]
        /\ number_of_sensors' = n
    BY <1>2 DEF sensors_list_register
  <2>3. UNCHANGED <<phase, at, reply, opens, registered, inits, failed>> /\ phase = "loading"
    BY DEF sensors_list_register
  <2>4. TypeOK'
    <3>1. Handle[s] \in Handles
      BY DEF Handles
    <3>2. QED
      BY <2>1, <2>2, <2>3, <3>1 DEF HalInv, TypeOK
  <2>5. \A k \in Used : sensor_apis[k] # s
    BY DEF sensors_list_register, ToSet, Listed, Used
  <2>6. \A k \in Used' : k = n \/ (k \in Used /\ k # n)
    BY <2>1, <2>2 DEF Used
  <2>7. \A k \in Used : sensor_apis'[k] = sensor_apis[k] /\ sensors'[k] = sensors[k]
    BY <2>1, <2>2 DEF Used, HalInv, TypeOK, Indices
  <2>8. sensor_apis'[n] = s /\ sensors'[n] = Handle[s]
    BY <2>1, <2>2 DEF HalInv, TypeOK
  <2>9. ListInv'
    BY <2>5, <2>6, <2>7, <2>8 DEF HalInv, ListInv
  <2>10. QED
    BY <2>3, <2>4, <2>9 DEF HalInv, ReplyInv
<1>3. QED
  BY <1>1, <1>2

(* At the start of an open everything listed is still to be initialised.   *)
LEMMA OpenInv == ASSUME HalInv, Open
                 PROVE  HalInv'
<1> USE DEF HalInv
<1>1. Listed \in Seq(Apis)
  BY DEF ListInv, Used, Listed, TypeOK
<1>2. ToSet(Listed) = {sensor_apis[k] : k \in Used}
  BY DEF ToSet, Listed, Used
<1>3. opens + 1 \in 0..MAX_OPENS
  BY HalAssumption DEF Open, TypeOK, HalAssumption
<1>4. TypeOK'
  <2>1. [s \in Apis |-> 0] \in [Apis -> Nat]
    OBVIOUS
  <2>2. NoReply \in [handle : Handles \cup {NoHandle}, api : Apis \cup {NoApi}]
    BY DEF NoReply
  <2>3. 1 \in 1..(DASH_MAX_SENSORS + 1)
    BY HalAssumption DEF HalAssumption
  <2>4. QED
    BY <1>1, <1>3, <2>1, <2>2, <2>3 DEF Open, TypeOK
<1>5. ListInv'
  BY DEF Open, ListInv, Used
<1>6. WalkInv'
  <2>1. Passed' = {}
    BY DEF Open, Passed, Used
  <2>2. (ToSet(registered) = failed \cup {sensor_apis[k] : k \in Used})'
    BY <1>2 DEF Open, Used
  <2>3. phase' # "open" /\ failed' = {} /\ inits' = [s \in Apis |-> 0]
    BY DEF Open
  <2>4. QED
    BY <2>1, <2>2, <2>3 DEF WalkInv
<1>7. OrderInv'
  <2>1. Used' = Used /\ sensor_apis' = sensor_apis /\ registered' = Listed
    BY DEF Open, Used
  <2>2. DOMAIN Listed = Used /\ \A p \in Used : Listed[p] = sensor_apis[p]
    BY DEF Listed, Used
  <2>3. QED
    BY <2>1, <2>2 DEF OrderInv, ListInv
<1>8. ReplyInv'
  BY DEF Open, ReplyInv
<1>9. QED
  BY <1>4, <1>5, <1>6, <1>7, <1>8

(* Moving the tail of an array down leaves the type of its elements.       *)
LEMMA ClosedGapType == ASSUME NEW S, NEW array \in [Indices -> S], NEW k \in Nat,
                              DASH_MAX_SENSORS \in Nat,
                              number_of_sensors \in 0..DASH_MAX_SENSORS
                       PROVE  ClosedGap(array, k) \in [Indices -> S]
<1>1. ASSUME NEW j \in Indices
      PROVE  (IF j \in k..(number_of_sensors - 1) THEN array[j + 1] ELSE array[j]) \in S
  <2>1. j \in k..(number_of_sensors - 1) => j + 1 \in Indices
    BY <1>1 DEF Indices
  <2>2. QED
    BY <2>1
<1>2. QED
  BY <1>1 DEF ClosedGap

(* A turn of foreach_api: the loop passes the sensor that initialised, and *)
(* stays where it is, on its successor, when the sensor is dropped.        *)
LEMMA InitSensorInv == ASSUME HalInv, NEW found \in BOOLEAN, InitSensor(found)
                       PROVE  HalInv'
<1> DEFINE s == sensor_apis[at]
           ok == found /\ ~Refuses(s)
<1>1. at \in Used /\ s \in Apis /\ phase = "opening" /\ number_of_sensors \in Nat
  BY HalAssumption DEF InitSensor, HalInv, TypeOK, ListInv, Used, HalAssumption
<1>2. WalkInv /\ TypeOK /\ ListInv /\ OrderInv /\ reply = NoReply
  BY <1>1 DEF HalInv, ReplyInv
<1>3. /\ inits' = [inits EXCEPT ![s] = @ + 1]
      /\ UNCHANGED <<phase, reply, opens, registered>>
      /\ s \notin failed
  BY <1>1, <1>2 DEF InitSensor, WalkInv
<1>4. s \notin Passed
  BY <1>1, <1>2 DEF Passed, ListInv, Used
<1>5. ASSUME failed' \cup Passed' = failed \cup Passed \cup {s}
      PROVE  \A t \in Apis : inits'[t] = IF t \in failed' \cup Passed' THEN 1 ELSE 0
  BY <1>1, <1>2, <1>3, <1>4, <1>5 DEF WalkInv, TypeOK
<1>6. CASE ok
  <2>1. at' = at + 1 /\ UNCHANGED <<sensors, sensor_apis, number_of_sensors, failed>>
    BY <1>6 DEF InitSensor
  <2>2. TypeOK'
    BY <1>1, <1>2, <1>3, <2>1, HalAssumption DEF TypeOK, Used, HalAssumption
  <2>3. ListInv'
    BY <1>2, <2>1 DEF ListInv, Used
  <2>4. Passed' = Passed \cup {s}
    BY <1>1, <1>2, <2>1 DEF Passed, Used, TypeOK
  <2>5. WalkInv'
    <3>1. (failed \cap {sensor_apis[k] : k \in Used} = {})'
      BY <1>2, <2>1 DEF WalkInv, Used
    <3>2. (ToSet(registered) = failed \cup {sensor_apis[k] : k \in Used})'
      BY <1>2, <1>3, <2>1 DEF WalkInv, Used
    <3>3. QED
      BY <1>1, <1>3, <1>5, <2>1, <2>4, <3>1, <3>2 DEF WalkInv
  <2>6. OrderInv'
    BY <1>2, <1>3, <2>1 DEF OrderInv, Used
  <2>7. QED
    BY <1>2, <1>3, <2>2, <2>3, <2>5, <2>6 DEF HalInv, ReplyInv
<1>7. CASE ~ok
  <2>1. /\ failed' = failed \cup {s}
        /\ at' = at
        /\ sensor_apis' = ClosedGap(sensor_apis, at)
        /\ sensors' = ClosedGap(sensors, at)
        /\ number_of_sensors' = number_of_sensors - 1
    BY <1>7 DEF InitSensor, sensors_list_deregister, Revisited
  <2>2. \A k \in Used' : /\ k \in Used /\ k + 1 \in Used
                         /\ k \in Indices /\ k + 1 \in Indices
    BY <1>1, <1>2, <2>1, HalAssumption DEF Used, TypeOK, Indices, HalAssumption
  <2>3. \A k \in Used' : LET j == IF k < at THEN k ELSE k + 1
                         IN  /\ j \in Used
                             /\ sensor_apis'[k] = sensor_apis[j]
                             /\ sensors'[k] = sensors[j]
    BY <1>1, <2>1, <2>2 DEF ClosedGap, Used
  <2>4. \A j \in Used : j # at => /\ j < at => j \in Used'
                                  /\ j > at => j - 1 \in Used'
    BY <1>1, <2>1 DEF Used
  <2>5. {sensor_apis'[k] : k \in Used'} = {sensor_apis[k] : k \in Used} \ {s}
    <3>1. ASSUME NEW k \in Used'
          PROVE  sensor_apis'[k] \in {sensor_apis[j] : j \in Used} \ {s}
      BY <1>1, <1>2, <2>2, <2>3 DEF ListInv, Used
    <3>2. ASSUME NEW j \in Used, sensor_apis[j] # s
          PROVE  \E k \in Used' : sensor_apis'[k] = sensor_apis[j]
      <4>1. CASE j < at
        BY <2>3, <2>4, <4>1, <1>1 DEF Used
      <4>2. CASE j > at
        <5>1. j - 1 \in Used' /\ ~(j - 1 < at) /\ (j - 1) + 1 = j
          BY <1>1, <2>4, <4>2 DEF Used
        <5>2. QED
          BY <2>3, <5>1
      <4>3. QED
        BY <1>1, <3>2, <4>1, <4>2 DEF Used
    <3>3. QED
      BY <3>1, <3>2
  <2>6. Passed' = Passed
    <3>1. \A k : k \in Used' /\ k < at' <=> k \in Used /\ k < at
      BY <1>1, <2>1, <2>4 DEF Used
    <3>2. \A k \in Used' : k < at => sensor_apis'[k] = sensor_apis[k]
      BY <2>3
    <3>3. QED
      BY <2>1, <3>1, <3>2 DEF Passed
  <2>7. TypeOK'
    <3>0. /\ at \in Nat /\ DASH_MAX_SENSORS \in Nat
          /\ number_of_sensors \in 0..DASH_MAX_SENSORS
      BY <1>1, <1>2, HalAssumption DEF TypeOK, Used, HalAssumption
    <3>1. sensor_apis' \in [Indices -> Apis \cup {NoApi}]
      BY <1>2, <2>1, <3>0, ClosedGapType, Zenon DEF TypeOK
    <3>2. sensors' \in [Indices -> Handles \cup {NoHandle}]
      BY <1>2, <2>1, <3>0, ClosedGapType, Zenon DEF TypeOK
    <3>3. number_of_sensors' \in 0..DASH_MAX_SENSORS
      BY <1>1, <1>2, <2>1, HalAssumption DEF TypeOK, Used, HalAssumption
    <3>4. inits' \in [Apis -> Nat] /\ failed' \subseteq Apis
      BY <1>1, <1>2, <1>3, <2>1 DEF TypeOK
    <3>5. QED
      BY <1>2, <1>3, <2>1, <3>1, <3>2, <3>3, <3>4 DEF TypeOK
  <2>8. ListInv'
    <3>1. \A k \in Used' : sensor_apis'[k] \in Apis /\ sensors'[k] = Handle[sensor_apis'[k]]
      BY <1>2, <2>3 DEF ListInv
    <3>2. ASSUME NEW j \in Used', NEW k \in Used', sensor_apis'[j] = sensor_apis'[k]
          PROVE  j = k
      BY <1>1, <1>2, <2>2, <2>3, <3>2 DEF ListInv, Used
    <3>3. QED
      BY <3>1, <3>2 DEF ListInv
  <2>9. WalkInv'
    <3>1. failed' \cup {sensor_apis'[k] : k \in Used'} = failed \cup {sensor_apis[k] : k \in Used}
      BY <1>1, <2>1, <2>5
    <3>2. failed' \cap {sensor_apis'[k] : k \in Used'} = {}
      BY <1>2, <2>1, <2>5 DEF WalkInv
    <3>3. QED
      BY <1>1, <1>2, <1>3, <1>5, <2>1, <2>6, <3>1, <3>2 DEF WalkInv
  <2>10. OrderInv'
    <3> DEFINE Old(k) == IF k < at THEN k ELSE k + 1
    <3>1. \A j, k \in Used' : j < k <=> Old(j) < Old(k)
      BY <1>1, <2>2 DEF Used
    <3>2. \A k \in Used' : Old(k) \in Used /\ sensor_apis'[k] = sensor_apis[Old(k)]
      BY <2>3
    <3> HIDE DEF Old
    <3>3. QED
      BY <1>2, <1>3, <3>1, <3>2 DEF OrderInv
  <2>11. QED
    BY <1>2, <1>3, <2>7, <2>8, <2>9, <2>10 DEF HalInv, ReplyInv
<1>8. QED
  BY <1>6, <1>7

(* Every step of the HAL keeps HalInv.                                     *)
LEMMA HalInvStep == HalInv /\ [Next]_halVars => HalInv'
<1> SUFFICES ASSUME HalInv, [Next]_halVars
             PROVE  HalInv'
  OBVIOUS
<1> USE DEF HalInv, TypeOK, ListInv, WalkInv, OrderInv, Used, Passed
<1>0. UNCHANGED <<sensors, sensor_apis, number_of_sensors>> => \A h : Routed(h)' = Routed(h)
  BY DEF Routed
<1>1. CASE Loaded
  BY <1>1 DEF Loaded, ReplyInv
<1>2. CASE Opened
  BY <1>2 DEF Opened, ReplyInv
<1>3. CASE Close
  BY <1>3 DEF Close, NoReply, ReplyInv
<1>4. ASSUME NEW h \in Handles, Request(h)
      PROVE  HalInv'
  <2>1. Routed(h) \in Apis \cup {NoApi}
    <3> DEFINE first == {k \in Used : sensors[k] = h /\ \A j \in 1..(k - 1) : sensors[j] # h}
    <3>1. first # {} => (CHOOSE k \in first : TRUE) \in Used
      OBVIOUS
    <3>2. Routed(h) = IF first = {} THEN NoApi ELSE sensor_apis[CHOOSE k \in first : TRUE]
      BY Zenon DEF Routed, Used
    <3>3. QED
      BY <3>1, <3>2
  <2>2. ReplyInv'
    BY <1>0, <1>4 DEF Request, ReplyInv
  <2>3. QED
    BY <1>4, <2>1, <2>2 DEF Request
<1>5. CASE UNCHANGED halVars
  BY <1>0, <1>5 DEF halVars, ReplyInv
<1>6. QED
  BY <1>1, <1>2, <1>3, <1>4, <1>5, RegisterInv, OpenInv, InitSensorInv DEF Next

(* Every variable keeps its type and the list its bound, for any number of *)
(* sensors and any length (sensors_list.c:40).                             *)
THEOREM HalTypeOK == Spec => []TypeOK
<1>1. HalInv => TypeOK
  BY DEF HalInv
<1>2. QED
  BY <1>1, HalInvInit, HalInvStep, PTL DEF Spec

(* When an open is over each sensor of the list has been initialised once  *)
(* and no other, although the list shrinks under the loop                  *)
(* (sensors_list.c:85-95).                                                 *)
THEOREM HalEachInitedOnce == Spec => []EachInitedOnce
<1>1. HalInv => EachInitedOnce
  <2> SUFFICES ASSUME HalInv, phase = "open", NEW s \in Apis
               PROVE  inits[s] = IF s \in ToSet(registered) THEN 1 ELSE 0
    BY DEF EachInitedOnce
  <2>1. Passed = {sensor_apis[k] : k \in Used}
    BY HalAssumption DEF HalInv, TypeOK, WalkInv, Passed, Used, HalAssumption
  <2>2. QED
    BY <2>1 DEF HalInv, WalkInv
<1>2. QED
  BY <1>1, HalInvInit, HalInvStep, PTL DEF Spec

(* The sensor a handle is routed to is the first of the list with it.      *)
LEMMA RoutedFirst ==
  ASSUME HalInv, NEW h
  PROVE  \/ (\A k \in Used : sensors[k] # h) /\ Routed(h) = NoApi
         \/ \E k \in Used : /\ sensors[k] = h /\ Routed(h) = sensor_apis[k]
                           /\ \A j \in Used : sensors[j] = h => k <= j
<1> DEFINE with == {k \in Used : sensors[k] = h}
           first == {k \in Used : sensors[k] = h /\ \A j \in 1..(k - 1) : sensors[j] # h}
<1>1. Routed(h) = IF first = {} THEN NoApi ELSE sensor_apis[CHOOSE k \in first : TRUE]
  BY Zenon DEF Routed, Used
<1>2. CASE with = {}
  BY <1>1, <1>2
<1>3. CASE with # {}
  <2>1. with \subseteq Nat
    BY DEF Used
  <2>2. PICK k \in with : \A j \in with : k <= j
    BY <1>3, <2>1, LeastNatural
  <2>3. number_of_sensors \in Nat
    BY HalAssumption DEF HalInv, TypeOK, HalAssumption
  <2>4. k \in first
    BY <2>2, <2>3 DEF Used
  <2>5. \A j \in first : j = k
    BY <2>2, <2>3, <2>4 DEF Used
  <2>6. (CHOOSE j \in first : TRUE) = k
    BY <2>4, <2>5
  <2>7. Routed(h) = sensor_apis[k]
    BY <1>1, <2>4, <2>6
  <2>8. QED
    BY <2>2, <2>7
<1>4. QED
  BY <1>2, <1>3

(* An open keeps the sensors that initialised, in their order              *)
(* (sensors_list.c:58-68), and a request reaches the first of those with   *)
(* its handle (sensors_list.c:73-83).                                      *)
THEOREM HalSurvivorsReached == Spec => []SurvivorsReached
<1>1. HalInv => SurvivorsInOrder
  <2> SUFFICES ASSUME HalInv, phase = "open"
               PROVE  SurvivorsInOrder
    BY DEF SurvivorsInOrder
  <2>1. DOMAIN Listed = Used /\ \A k \in Used : Listed[k] = sensor_apis[k]
    BY DEF Listed, Used
  <2>2. ToSet(Listed) = {sensor_apis[k] : k \in Used}
    BY <2>1 DEF ToSet
  <2>3. ToSet(Listed) = ToSet(registered) \ failed
    BY <2>2 DEF HalInv, WalkInv
  <2>4. QED
    BY <2>1, <2>3 DEF SurvivorsInOrder, HalInv, OrderInv
<1>2. HalInv => RoutedToSurvivor
  <2> DEFINE alive == {p \in DOMAIN registered :
                         registered[p] \notin failed /\ Handle[registered[p]] = reply.handle}
  <2> SUFFICES ASSUME HalInv, reply # NoReply
               PROVE  \/ alive = {} /\ reply.api = NoApi
                      \/ \E p \in alive : reply.api = registered[p] /\ \A q \in alive : p <= q
    BY DEF RoutedToSurvivor
  <2>1. reply.api = Routed(reply.handle) /\ WalkInv /\ OrderInv /\ ListInv
    BY DEF HalInv, ReplyInv
  <2>2. \A k \in Used : /\ sensors[k] = Handle[sensor_apis[k]]
                        /\ sensor_apis[k] \notin failed
                        /\ \E p \in DOMAIN registered : registered[p] = sensor_apis[k]
    BY <2>1 DEF ListInv, WalkInv, ToSet
  <2>3. \A p \in alive : \E k \in Used : registered[p] = sensor_apis[k] /\ sensors[k] = reply.handle
    <3>1. \A p \in DOMAIN registered : registered[p] \notin failed
                                        => \E k \in Used : registered[p] = sensor_apis[k]
      BY <2>1 DEF WalkInv, ToSet
    <3>2. QED
      BY <2>2, <3>1
  <2>4. CASE \A k \in Used : sensors[k] # reply.handle
    <3>1. alive = {}
      BY <2>3, <2>4
    <3>2. QED
      BY <2>1, <2>4, <3>1, RoutedFirst
  <2>5. CASE ~\A k \in Used : sensors[k] # reply.handle
    <3>1. PICK k \in Used : /\ sensors[k] = reply.handle /\ reply.api = sensor_apis[k]
                            /\ \A j \in Used : sensors[j] = reply.handle => k <= j
      BY <2>1, <2>5, RoutedFirst
    <3>2. PICK p \in DOMAIN registered : registered[p] = sensor_apis[k]
      BY <2>2
    <3>3. p \in alive
      BY <2>2, <3>1, <3>2
    <3>4. ASSUME NEW q \in alive
          PROVE  p <= q
      <4>1. PICK j \in Used : registered[q] = sensor_apis[j] /\ sensors[j] = reply.handle
        BY <2>3
      <4>2. k <= j
        BY <3>1, <4>1
      <4>3. ~(j < k) /\ q \in DOMAIN registered
        BY <4>2 DEF Used
      <4>4. ~(q < p)
        BY <2>1, <3>2, <4>1, <4>3 DEF OrderInv
      <4>5. p \in Nat /\ q \in Nat
        BY <3>2, <4>3 DEF HalInv, TypeOK
      <4>6. QED
        BY <4>4, <4>5
    <3>5. QED
      BY <3>1, <3>2, <3>3, <3>4
  <2>6. QED
    BY <2>4, <2>5
<1>3. HalInv => SurvivorsReached
  BY <1>1, <1>2 DEF SurvivorsReached
<1>4. QED
  BY <1>3, HalInvInit, HalInvStep, PTL DEF Spec

(***************************************************************************)
(* The cache of input devices.                                             *)
(***************************************************************************)

CacheTypes ==
  /\ kernel \in [Paths -> Names \cup {NoDevice}]
  /\ cache \in Seq([event_path : Paths, dev_name : Names])
  /\ replugged \in Seq(SUBSET Paths)

CacheInv == CacheTypes /\ EachPathOnce

(* A path that is found is that of an entry with the name.                 *)
LEMMA PathFound ==
  ASSUME NEW S, NEW list \in Seq(S), NEW name, PathOf(list, name) # NoPath
  PROVE  \E i \in DOMAIN list : list[i].dev_name = name /\ PathOf(list, name) = list[i].event_path
<1> DEFINE found == {i \in DOMAIN list : list[i].dev_name = name}
           least == CHOOSE i \in found : \A j \in found : i <= j
<1>1. found # {} /\ PathOf(list, name) = list[least].event_path
  BY DEF PathOf
<1>2. found \subseteq Nat
  OBVIOUS
<1>3. \E i \in found : \A j \in found : i <= j
  BY <1>1, <1>2, LeastNatural
<1>4. least \in found
  BY <1>3
<1>5. QED
  BY <1>1, <1>4

(* The entries of a sequence of entries have a path and a name.            *)
LEMMA EntryTypes ==
  ASSUME NEW list \in Seq([event_path : Paths, dev_name : Names]), NEW i \in DOMAIN list
  PROVE  list[i].event_path \in Paths /\ list[i].dev_name \in Names
<1> DEFINE Entries == [event_path : Paths, dev_name : Names]
<1>1. ASSUME NEW S, list \in Seq(S)
      PROVE  list[i] \in S
  BY <1>1
<1>2. list[i] \in Entries
  BY <1>1
<1>3. QED
  BY <1>2

(* A scan of the directory finds devices where they are, at paths that are *)
(* not cached, each once.                                                  *)
LEMMA ScannedEntries ==
  ASSUME CacheTypes, NEW answering \in SUBSET Paths
  PROVE  LET s == Scanned(answering)
         IN  /\ s \in Seq([event_path : Paths, dev_name : Names])
             /\ \A i \in DOMAIN s : s[i].event_path \notin Cached /\ kernel[s[i].event_path] = s[i].dev_name
             /\ \A i, j \in DOMAIN s : i # j => s[i].event_path # s[j].event_path
<1> DEFINE new == {p \in answering \ Cached : kernel[p] # NoDevice}
           paths == SetToSeq(new)
           s == Scanned(answering)
<1>1. IsFiniteSet(new)
  BY CacheAssumption, FS_Subset DEF CacheAssumption
<1>2. PICK n \in Nat : n = Cardinality(new) /\ ExistsBijection(1..n, new)
  BY <1>1, FS_CardinalityType
<1>3. \E f \in [1..n -> new] : IsInjective(f)
  <2>1. PICK f \in Bijection(1..n, new) : TRUE
    BY <1>2 DEF ExistsBijection
  <2>2. f \in [1..n -> new] /\ \A a, b \in 1..n : f[a] = f[b] => a = b
    BY <2>1 DEF Bijection, Injection, IsInjective
  <2>3. QED
    BY <2>2 DEF IsInjective
<1>4. paths \in [1..n -> new] /\ IsInjective(paths)
  BY <1>2, <1>3 DEF SetToSeq
<1> HIDE DEF paths
<1>5. s = [i \in 1..n |-> Entry(paths[i], kernel[paths[i]])]
  BY <1>4 DEF Scanned, paths
<1>6. \A i \in 1..n : /\ paths[i] \in Paths /\ paths[i] \notin Cached
                      /\ kernel[paths[i]] \in Names
  BY <1>4 DEF CacheTypes
<1>7. \A i, j \in 1..n : paths[i] = paths[j] => i = j
  BY <1>4 DEF IsInjective
<1>8. \A i \in 1..n : s[i] = [event_path |-> paths[i], dev_name |-> kernel[paths[i]]]
  BY <1>5 DEF Entry
<1>9. s \in Seq([event_path : Paths, dev_name : Names])
  <2> DEFINE Entries == [event_path : Paths, dev_name : Names]
  <2>0. \A p \in Paths, d \in Names : [event_path |-> p, dev_name |-> d] \in Entries
    OBVIOUS
  <2> HIDE DEF s, Entries
  <2>1. \A i \in 1..n : s[i] \in Entries
    BY <1>6, <1>8, <2>0, Zenon
  <2>2. s \in [1..n -> Entries]
    <3>1. s = [i \in 1..n |-> s[i]]
      BY <1>5, Zenon
    <3>2. QED
      BY <3>1, <2>1, Zenon
  <2>3. s \in Seq(Entries)
    BY <1>2, <2>2, SeqDef, Zenon
  <2>4. QED
    BY <2>3 DEF Entries
<1>10. DOMAIN s = 1..n
  BY <1>5
<1> HIDE DEF s
<1>11. QED
  BY <1>6, <1>7, <1>8, <1>9, <1>10 DEF s

(* A lookup keeps the cache sound, and the path it returns has the device  *)
(* looked for or has been changed.                                         *)
LEMMA CacheGetInv ==
  ASSUME CacheInv, NEW name, NEW path, sensors_input_cache_get(name, path),
         UNCHANGED <<kernel, replugged>>
  PROVE  /\ CacheInv'
         /\ path # NoPath => path \in Paths /\ (kernel[path] = name \/ Changed(path))
<1> DEFINE Entries == [event_path : Paths, dev_name : Names]
<1>0. CacheTypes /\ \A p : Changed(p)' = Changed(p)
  BY DEF CacheInv, Changed
<1>1. CASE PathOf(cache, name) # NoPath
  <2>1. path = PathOf(cache, name) /\ cache' = cache
    BY <1>1 DEF sensors_input_cache_get
  <2>2. CacheInv'
    BY <1>0, <2>1 DEF CacheInv, CacheTypes, EachPathOnce
  <2>3. \E i \in DOMAIN cache : cache[i].dev_name = name /\ path = cache[i].event_path
    BY <1>0, <1>1, <2>1, PathFound DEF CacheTypes
  <2>4. path \in Paths /\ (kernel[path] = name \/ Changed(path))
    BY <1>0, <2>3, EntryTypes DEF CacheInv, CacheTypes, EachPathOnce
  <2>5. QED
    BY <2>2, <2>4
<1>2. CASE ~(PathOf(cache, name) # NoPath)
  <2>1. PICK answering \in SUBSET Paths : /\ path = PathOf(Scanned(answering), name)
                                          /\ cache' = Scanned(answering) \o cache
    BY <1>2, Zenon DEF sensors_input_cache_get
  <2> DEFINE s == Scanned(answering)
  <2>2. /\ s \in Seq(Entries)
        /\ \A i \in DOMAIN s : s[i].event_path \notin Cached /\ kernel[s[i].event_path] = s[i].dev_name
        /\ \A i, j \in DOMAIN s : i # j => s[i].event_path # s[j].event_path
    BY <1>0, ScannedEntries
  <2> HIDE DEF s
  <2>3. cache \in Seq(Entries) /\ cache' = s \o cache
    BY <1>0, <2>1 DEF CacheTypes, s
  <2>4. /\ cache' \in Seq(Entries)
        /\ DOMAIN cache' = 1..(Len(s) + Len(cache))
        /\ \A i \in 1..Len(s) : cache'[i] = s[i]
        /\ \A i \in (Len(s) + 1)..(Len(s) + Len(cache)) : cache'[i] = cache[i - Len(s)]
    BY <2>2, <2>3
  <2>5. \A i \in DOMAIN cache' :
           \/ i \in DOMAIN s /\ cache'[i] = s[i]
           \/ i > Len(s) /\ i - Len(s) \in DOMAIN cache /\ cache'[i] = cache[i - Len(s)]
    BY <2>2, <2>3, <2>4
  <2>6. \A i \in DOMAIN cache : cache[i].event_path \in Cached
    BY DEF Cached
  <2>7. /\ \A i, j \in DOMAIN cache : i # j => cache[i].event_path # cache[j].event_path
        /\ \A i \in DOMAIN cache : kernel[cache[i].event_path] = cache[i].dev_name \/ Changed(cache[i].event_path)
    BY DEF CacheInv, EachPathOnce
  <2>8. \A i, j \in DOMAIN cache' : i # j => cache'[i].event_path # cache'[j].event_path
    <3> SUFFICES ASSUME NEW i \in DOMAIN cache', NEW j \in DOMAIN cache', i # j
                 PROVE  cache'[i].event_path # cache'[j].event_path
      OBVIOUS
    <3>1. i \in Nat /\ j \in Nat /\ Len(s) \in Nat
      BY <2>2, <2>4
    <3>2. QED
      BY <2>2, <2>5, <2>6, <2>7, <3>1
  <2>9. \A i \in DOMAIN cache' : kernel[cache'[i].event_path] = cache'[i].dev_name \/ Changed(cache'[i].event_path)
    BY <2>2, <2>5, <2>7
  <2>10. CacheInv'
    BY <1>0, <2>4, <2>8, <2>9 DEF CacheInv, CacheTypes, EachPathOnce
  <2>11. ASSUME path # NoPath
         PROVE  path \in Paths /\ kernel[path] = name
    <3>1. path = PathOf(s, name)
      BY <2>1 DEF s
    <3>2. PICK i \in DOMAIN s : s[i].dev_name = name /\ path = s[i].event_path
      BY <2>2, <2>11, <3>1, PathFound
    <3>3. s[i].event_path \in Paths
      BY <2>2, EntryTypes
    <3>4. QED
      BY <2>2, <3>2, <3>3
  <2>12. QED
    BY <2>10, <2>11
<1>3. QED
  BY <1>1, <1>2

(* What was changed stays changed, and a change of the devices is noted.   *)
LEMMA ReplugInv ==
  ASSUME CacheInv, Replug
  PROVE  CacheInv' /\ \A p : Changed(p) => Changed(p)'
<1>1. PICK p \in Paths, n \in Names \cup {NoDevice} :
        LET left == {q \in Paths \ {p} : n # NoDevice /\ kernel[q] = n}
        IN  /\ kernel' = [q \in Paths |-> CASE q = p -> n [] q \in left -> NoDevice [] OTHER -> kernel[q]]
            /\ replugged' = Append(replugged, {p} \cup left)
  BY DEF Replug
<1> DEFINE left == {q \in Paths \ {p} : n # NoDevice /\ kernel[q] = n}
           gone == {p} \cup left
<1>2. gone \in SUBSET Paths /\ cache' = cache /\ replugged' = Append(replugged, gone)
  BY <1>1 DEF Replug
<1>3. kernel' \in [Paths -> Names \cup {NoDevice}] /\ \A q \in Paths \ gone : kernel'[q] = kernel[q]
  BY <1>1 DEF CacheInv, CacheTypes
<1> HIDE DEF gone
<1>4. /\ replugged' \in Seq(SUBSET Paths)
      /\ DOMAIN replugged' = 1..(Len(replugged) + 1) /\ DOMAIN replugged = 1..Len(replugged)
      /\ replugged'[Len(replugged) + 1] = gone
      /\ \A i \in DOMAIN replugged : replugged'[i] = replugged[i]
  BY <1>2 DEF CacheInv, CacheTypes
<1>5. \A q : Changed(q) => Changed(q)'
  BY <1>4 DEF Changed, CacheInv, CacheTypes
<1>6. \A q \in gone : Changed(q)'
  BY <1>4 DEF Changed, CacheInv, CacheTypes
<1>7. CacheTypes'
  BY <1>2, <1>3, <1>4 DEF CacheInv, CacheTypes
<1>8. \A i \in DOMAIN cache : cache[i].event_path \in Paths
  BY EntryTypes DEF CacheInv, CacheTypes
<1>9. EachPathOnce'
  BY <1>2, <1>3, <1>5, <1>6, <1>8 DEF CacheInv, EachPathOnce
<1>10. QED
  BY <1>5, <1>7, <1>9 DEF CacheInv

(***************************************************************************)
(* The composition: every step of it is one of the HAL or leaves the HAL   *)
(* alone, so that what is proved of the HAL holds in it.                   *)
(***************************************************************************)

(* A step of the composition is a step of the HAL or leaves it alone.      *)
LEMMA OpenStep == OpenNext => Next \/ UNCHANGED halVars
<1> SUFFICES ASSUME OpenNext
             PROVE  Next \/ UNCHANGED halVars
  OBVIOUS
<1>1. CASE ListStep
  BY <1>1 DEF ListStep, Next
<1>2. CASE OpenDevice
  BY <1>2 DEF OpenDevice, Next
<1>3. CASE InitStep
  <2>1. PICK path \in Paths \cup {NoPath}, ok \in BOOLEAN :
          InitSensor(ok /\ DeviceAt(path) # NoDevice)
    BY <1>3 DEF InitStep
  <2>2. (ok /\ DeviceAt(path) # NoDevice) \in BOOLEAN
    OBVIOUS
  <2>3. QED
    BY <2>1, <2>2, Zenon DEF Next
<1>4. CASE CloseDevice
  BY <1>4 DEF CloseDevice, Next
<1>5. CASE Plug
  BY <1>5 DEF Plug
<1>6. QED
  BY <1>1, <1>2, <1>3, <1>4, <1>5 DEF OpenNext

(* With the configuration and the cache of devices the HAL still does only *)
(* what SensorsHal allows (sensors_module.c, sensors_list.c).              *)
THEOREM OpenImplementsHal == OpenSpec => Spec
<1>1. OpenInit => Init
  BY DEF OpenInit
<1>2. [OpenNext]_vars => [Next]_halVars
  BY OpenStep DEF vars, halVars
<1>3. QED
  BY <1>1, <1>2, PTL DEF OpenSpec, Spec

(* What a turn of foreach_api does to the sensors it has passed: one that  *)
(* is dropped is not one of them.                                          *)
LEMMA PassedStep ==
  ASSUME HalInv, HalInv', NEW found \in BOOLEAN, InitSensor(found)
  PROVE  /\ sensor_apis[at] \in Apis
         /\ Passed' \subseteq Passed \cup {sensor_apis[at]}
         /\ sensor_apis[at] \notin Passed
         /\ sensor_apis[at] \in Passed' => found
<1> DEFINE s == sensor_apis[at]
           ok == found /\ ~Refuses(s)
<1>1. at \in Used /\ s \in Apis /\ phase = "opening" /\ number_of_sensors \in Nat /\ phase' = "opening"
  BY HalAssumption DEF InitSensor, HalInv, TypeOK, ListInv, Used, HalAssumption
<1>2. s \notin Passed
  BY <1>1 DEF HalInv, Passed, ListInv, Used
<1>3. CASE ok
  <2>1. at' = at + 1 /\ UNCHANGED <<sensor_apis, number_of_sensors>>
    BY <1>3 DEF InitSensor
  <2>2. QED
    BY <1>1, <1>2, <1>3, <2>1 DEF Passed, Used
<1>4. CASE ~ok
  <2>1. /\ s \in failed' /\ at' = at
        /\ sensor_apis' = ClosedGap(sensor_apis, at)
        /\ number_of_sensors' = number_of_sensors - 1
    BY <1>4 DEF InitSensor, sensors_list_deregister, Revisited
  <2>2. Passed' \cap failed' = {}
    BY <1>1 DEF HalInv, WalkInv, Passed
  <2>3. \A k \in Used' : k < at => k \in Used /\ sensor_apis'[k] = sensor_apis[k]
    <3>1. \A k \in Used' : k < at => k \in Used /\ k \in Indices /\ k \notin at..(number_of_sensors - 1)
      BY <1>1, <2>1, HalAssumption DEF Used, HalInv, TypeOK, Indices, HalAssumption
    <3>2. QED
      BY <2>1, <3>1 DEF ClosedGap
  <2>4. Passed' \subseteq Passed
    BY <2>1, <2>3 DEF Passed
  <2>5. QED
    BY <1>1, <1>2, <2>1, <2>2, <2>4
<1>5. QED
  BY <1>3, <1>4

(***************************************************************************)
(* Each sensor is on its own device.                                       *)
(***************************************************************************)

\* Of the sensors the walk has passed.
OpenedInv ==
  phase \in {"opening", "open"} =>
    \A s \in Passed : opened[s].device = InputName[s] \/ Changed(opened[s].path)

DeviceInv ==
  /\ HalInv
  /\ CacheInv
  /\ opened \in [Apis -> [device : Names \cup {NoDevice}, path : Paths \cup {NoPath}]]
  /\ OpenedInv

(* DeviceInv holds at the start.                                           *)
LEMMA DeviceInvInit == OpenInit => DeviceInv
<1> SUFFICES ASSUME OpenInit
             PROVE  DeviceInv
  OBVIOUS
<1>1. HalInv
  BY HalInvInit DEF OpenInit
<1>2. CacheInv
  BY DEF OpenInit, CacheInit, CacheInv, CacheTypes, EachPathOnce
<1>3. opened \in [Apis -> [device : Names \cup {NoDevice}, path : Paths \cup {NoPath}]]
  BY DEF OpenInit, NotOpened
<1>4. OpenedInv
  BY DEF OpenInit, Init, OpenedInv
<1>5. QED
  BY <1>1, <1>2, <1>3, <1>4 DEF DeviceInv

(* Every step of the composition keeps DeviceInv.                          *)
LEMMA DeviceInvStep == DeviceInv /\ [OpenNext]_vars => DeviceInv'
<1> SUFFICES ASSUME DeviceInv, [OpenNext]_vars
             PROVE  DeviceInv'
  OBVIOUS
<1> DEFINE Opening == [device : Names \cup {NoDevice}, path : Paths \cup {NoPath}]
<1>1. HalInv /\ HalInv' /\ CacheInv
  BY HalInvStep, OpenStep DEF DeviceInv, vars, halVars
<1>2. UNCHANGED cacheVars => CacheInv' /\ \A p : Changed(p)' = Changed(p)
  BY <1>1 DEF CacheInv, CacheTypes, EachPathOnce, Changed, cacheVars
<1>3. ASSUME UNCHANGED <<cacheVars, opened>>, phase' = "opening" => Passed' = {}, phase' = "open" => Passed' = Passed /\ phase \in {"opening", "open"}
      PROVE  DeviceInv'
  BY <1>1, <1>2, <1>3 DEF DeviceInv, OpenedInv
<1>4. CASE ListStep
  <2>1. /\ UNCHANGED <<cacheVars, opened>>
        /\ phase' \in {"opening", "open"} => Passed' = Passed /\ phase \in {"opening", "open"}
    BY <1>4 DEF ListStep, sensors_list_register, Loaded, Opened, Request, Passed, Used
  <2>2. QED
    BY <1>1, <1>2, <2>1 DEF DeviceInv, OpenedInv
<1>5. CASE OpenDevice
  <2>1. phase' = "opening" /\ Passed' = {} /\ UNCHANGED <<cacheVars, opened>>
    BY <1>5 DEF OpenDevice, Open, Passed, Used
  <2>2. QED
    BY <1>3, <2>1
<1>6. CASE CloseDevice
  BY <1>3, <1>6 DEF CloseDevice, Close
<1>7. CASE Plug
  <2>1. CacheInv' /\ \A p : Changed(p) => Changed(p)'
    BY <1>1, <1>7, ReplugInv DEF Plug
  <2>2. UNCHANGED <<halVars, opened>>
    BY <1>7 DEF Plug
  <2>3. Passed' = Passed
    BY <2>2 DEF halVars, Passed, Used
  <2>4. QED
    BY <1>1, <2>1, <2>2, <2>3 DEF DeviceInv, OpenedInv, halVars
<1>8. CASE InitStep
  <2> DEFINE s == sensor_apis[at]
  <2>1. PICK path \in Paths \cup {NoPath}, ok \in BOOLEAN :
          /\ sensors_input_cache_get(InputName[s], path)
          /\ InitSensor(ok /\ DeviceAt(path) # NoDevice)
          /\ opened' = [opened EXCEPT ![s] = [device |-> DeviceAt(path), path |-> path]]
    BY <1>8 DEF InitStep
  <2> DEFINE found == ok /\ DeviceAt(path) # NoDevice
  <2>2. UNCHANGED <<kernel, replugged>> /\ phase = "opening"
    BY <1>8 DEF InitStep
  <2>3. /\ CacheInv'
        /\ path # NoPath => path \in Paths /\ (kernel[path] = InputName[s] \/ Changed(path))
    BY <1>1, <2>1, <2>2, CacheGetInv
  <2>4. found \in BOOLEAN /\ InitSensor(found)
    BY <2>1
  <2>5. /\ s \in Apis
        /\ Passed' \subseteq Passed \cup {s}
        /\ s \notin Passed
        /\ s \in Passed' => found
    BY <1>1, <2>4, PassedStep
  <2>6. DeviceAt(path) \in Names \cup {NoDevice}
    BY <1>1, <2>3 DEF DeviceAt, CacheInv, CacheTypes
  <2>7. [device |-> DeviceAt(path), path |-> path] \in Opening
    BY <2>6
  <2>8. opened' \in [Apis -> Opening] /\ opened'[s] = [device |-> DeviceAt(path), path |-> path]
        /\ \A t \in Apis : t # s => opened'[t] = opened[t]
    BY <2>1, <2>5, <2>7 DEF DeviceInv
  <2>9. \A p : Changed(p)' = Changed(p)
    BY <2>2 DEF Changed
  <2>10. s \in Passed' => opened'[s].device = InputName[s] \/ Changed(opened'[s].path)
    <3>1. opened'[s].device = DeviceAt(path) /\ opened'[s].path = path
      BY <2>8
    <3>2. found => path # NoPath /\ DeviceAt(path) = kernel[path]
      BY DEF DeviceAt
    <3>3. QED
      BY <2>3, <2>5, <3>1, <3>2
  <2>11. Passed \subseteq Apis
    BY <1>1 DEF HalInv, ListInv, Passed
  <2>12. OpenedInv'
    <3>1. ASSUME NEW t \in Passed'
          PROVE  opened'[t].device = InputName[t] \/ Changed(opened'[t].path)
      <4>1. CASE t = s
        BY <2>10, <3>1, <4>1
      <4>2. CASE t # s
        <5>1. t \in Passed /\ t \in Apis
          BY <2>5, <2>11, <3>1, <4>2
        <5>2. QED
          BY <2>2, <2>8, <4>2, <5>1 DEF DeviceInv, OpenedInv
      <4>3. QED
        BY <4>1, <4>2
    <3>2. QED
      BY <2>9, <3>1 DEF OpenedInv
  <2>13. QED
    BY <1>1, <2>3, <2>8, <2>12 DEF DeviceInv
<1>9. CASE UNCHANGED vars
  <2>1. UNCHANGED <<halVars, cacheVars, opened>>
    BY <1>9 DEF vars
  <2>2. Passed' = Passed /\ phase' = phase
    BY <2>1 DEF halVars, Passed, Used
  <2>3. QED
    BY <1>1, <1>2, <2>1, <2>2 DEF DeviceInv, OpenedInv
<1>10. QED
  BY <1>4, <1>5, <1>6, <1>7, <1>8, <1>9 DEF OpenNext

(* A sensor that an open initialised reads its own device unless the one   *)
(* at its path was changed, and the cache has every path once and tells    *)
(* its name as long as it does not change (sensors_input_cache.c:52-160).  *)
THEOREM OpenDeviceFound == OpenSpec => []DeviceFound
<1>1. DeviceInv => DeviceFound
  <2>1. DeviceInv => ReadsItsDevice
    <3> SUFFICES ASSUME DeviceInv, phase = "open", NEW s \in ToSet(registered) \ failed
                 PROVE  opened[s].device = InputName[s] \/ Changed(opened[s].path)
      BY DEF ReadsItsDevice
    <3>1. Passed = {sensor_apis[k] : k \in Used}
      BY HalAssumption DEF DeviceInv, HalInv, TypeOK, WalkInv, Passed, Used, HalAssumption
    <3>2. s \in Passed
      BY <3>1 DEF DeviceInv, HalInv, WalkInv
    <3>3. QED
      BY <3>2 DEF DeviceInv, OpenedInv
  <2>2. QED
    BY <2>1 DEF DeviceInv, CacheInv, DeviceFound
<1>2. QED
  BY <1>1, DeviceInvInit, DeviceInvStep, PTL DEF OpenSpec

(***************************************************************************)
(* The configuration.                                                      *)
(***************************************************************************)

\* The list after each line of the file.
IsParsing(after, list, f, m) ==
  after = [n \in 0..m |-> IF n = 0 THEN list ELSE ParseLine(after[n - 1], f[n])]

(* There is such a sequence of lists, so that Parsed is the last of one.   *)
LEMMA ParsingExists ==
  ASSUME NEW list, NEW f, Len(f) \in Nat
  PROVE  \E after : IsParsing(after, list, f, Len(f)) /\ Parsed(list, f) = after[Len(f)]
<1> DEFINE T == {m \in Nat : ~ \E after : IsParsing(after, list, f, m)}
<1>1. T = {}
  <2> SUFFICES ASSUME T # {}
               PROVE  FALSE
    OBVIOUS
  <2>1. T \subseteq Nat
    OBVIOUS
  <2>2. PICK x \in T : \A y \in T : x <= y
    BY <2>1, LeastNatural
  <2>3. CASE x = 0
    <3>1. IsParsing([n \in 0..0 |-> list], list, f, 0)
      BY DEF IsParsing
    <3>2. QED
      BY <2>2, <2>3, <3>1
  <2>4. CASE x # 0
    <3>1. x \in Nat /\ x - 1 \in Nat /\ x - 1 \notin T
      BY <2>2, <2>4
    <3>2. PICK g : IsParsing(g, list, f, x - 1)
      BY <3>1
    <3> DEFINE h == [n \in 0..x |-> IF n = x THEN ParseLine(g[x - 1], f[x]) ELSE g[n]]
    <3>3. \A n \in 0..(x - 1) : g[n] = IF n = 0 THEN list ELSE ParseLine(g[n - 1], f[n])
      BY <3>2 DEF IsParsing
    <3>4. \A n \in 0..x : h[n] = IF n = 0 THEN list ELSE ParseLine(h[n - 1], f[n])
      <4>1. \A n \in 0..(x - 1) : h[n] = g[n]
        BY <3>1
      <4>2. h[x] = ParseLine(g[x - 1], f[x])
        BY <3>1
      <4> HIDE DEF h
      <4>3. ASSUME NEW n \in 0..(x - 1)
            PROVE  h[n] = IF n = 0 THEN list ELSE ParseLine(h[n - 1], f[n])
        <5>1. n # 0 => n - 1 \in 0..(x - 1)
          BY <3>1
        <5>2. QED
          BY <3>3, <4>1, <5>1
      <4>4. h[x] = IF x = 0 THEN list ELSE ParseLine(h[x - 1], f[x])
        <5>1. x - 1 \in 0..(x - 1)
          BY <3>1
        <5>2. QED
          BY <2>4, <4>1, <4>2, <5>1
      <4>5. \A n \in 0..x : n = x \/ n \in 0..(x - 1)
        BY <3>1
      <4>6. QED
        BY <4>3, <4>4, <4>5
    <3>5. h = [n \in 0..x |-> h[n]]
      OBVIOUS
    <3> HIDE DEF h
    <3>6. IsParsing(h, list, f, x)
      BY <3>4, <3>5 DEF IsParsing
    <3>7. QED
      BY <2>2, <3>6
  <2>5. QED
    BY <2>3, <2>4
<1>2. \E after : IsParsing(after, list, f, Len(f))
  BY <1>1
<1>3. Parsed(list, f) = (CHOOSE after : IsParsing(after, list, f, Len(f)))[Len(f)]
  BY Zenon DEF Parsed, IsParsing
<1>4. IsParsing(CHOOSE after : IsParsing(after, list, f, Len(f)), list, f, Len(f))
  BY <1>2, Zenon
<1>5. QED
  BY <1>3, <1>4
HasEntry(f) == \E i \in DOMAIN f : f[i].what = "entry"
Misordered(f) == \E i, j \in DOMAIN f : i < j /\ f[i].what = "entry" /\ f[j].what \in {"error", "long comment"}

\* The entries are those of the first n lines, in their order.
OfLines(entries, f, n, line) ==
  /\ line \in [DOMAIN entries -> 1..n]
  /\ \A i \in DOMAIN entries : entries[i] = f[line[i]] /\ f[line[i]].what = "entry"
  /\ \A i, j \in DOMAIN entries : i < j => line[i] < line[j]
  /\ \A k \in 1..n : f[k].what = "entry" => \E i \in DOMAIN entries : line[i] = k
InOrder(entries, f, n) ==
  entries \in Seq(ToSet(f)) /\ \E line : OfLines(entries, f, n, line)

ListShape(list) ==
  /\ list = [entries |-> list.entries, freed |-> list.freed, corrupt |-> list.corrupt]
  /\ list.freed \in BOOLEAN /\ list.corrupt \in BOOLEAN
  /\ list.corrupt => list.freed

\* list is what old has become when n lines have been read.
Grown(old, list, f, n) ==
  /\ ListShape(list)
  /\ list.freed => old.freed \/ Misordered(f)
  /\ ~list.freed => ~old.freed /\ InOrder(list.entries, f, n)

(* Using freed entries changes nothing else.                               *)
LEMMA CorruptedShape ==
  ASSUME NEW list, ListShape(list), list.freed
  PROVE  ListShape(Corrupted(list)) /\ Corrupted(list).freed
<1>1. \A e, d, c, v : [[entries |-> e, freed |-> d, corrupt |-> c] EXCEPT !.corrupt = v]
                       = [entries |-> e, freed |-> d, corrupt |-> v]
  OBVIOUS
<1>2. [[entries |-> list.entries, freed |-> list.freed, corrupt |-> list.corrupt] EXCEPT !.corrupt = TRUE]
        = [entries |-> list.entries, freed |-> list.freed, corrupt |-> TRUE]
  BY ONLY <1>1, Zenon
<1> DEFINE whole == [entries |-> list.entries, freed |-> list.freed, corrupt |-> list.corrupt]
           marked == [entries |-> list.entries, freed |-> list.freed, corrupt |-> TRUE]
<1>3. [whole EXCEPT !.corrupt = TRUE] = marked /\ list = whole
  BY <1>2 DEF ListShape
<1>4. ListShape(marked) /\ marked.freed
  BY DEF ListShape
<1> HIDE DEF whole, marked
<1>5. Corrupted(list) = marked
  BY <1>3 DEF Corrupted
<1>6. QED
  BY <1>4, <1>5

(* One line more.                                                          *)
LEMMA ParseLineGrows ==
  ASSUME NEW f \in Files, NEW old, NEW list, NEW n \in Nat, n < Len(f), Grown(old, list, f, n)
  PROVE  Grown(old, ParseLine(list, f[n + 1]), f, n + 1)
<1> DEFINE line == f[n + 1]
<1>1. /\ f \in Seq(ToSet(f)) /\ Len(f) \in Nat /\ DOMAIN f = 1..Len(f)
      /\ n + 1 \in DOMAIN f /\ line \in ToSet(f) /\ line.what \in Lines
  <2>1. f \in Seq(ToSet(f)) /\ \A i \in DOMAIN f : f[i].what \in Lines
    BY ConfigAssumption DEF ConfigAssumption
  <2>2. Len(f) \in Nat /\ DOMAIN f = 1..Len(f)
    BY <2>1
  <2>3. n + 1 \in DOMAIN f
    BY <2>2
  <2>4. QED
    BY <2>1, <2>2, <2>3 DEF ToSet
<1> HIDE DEF line
<1>2. ListShape(list)
  BY DEF Grown
<1>3. CASE list.freed
  <2>1. Grown(old, list, f, n + 1)
    BY <1>3 DEF Grown
  <2>3. ListShape(Corrupted(list)) /\ Corrupted(list).freed
    BY <1>2, <1>3, CorruptedShape
  <2>4. Grown(old, Corrupted(list), f, n + 1)
    BY <1>3, <2>1, <2>3 DEF Grown
  <2>5. ParseLine(list, line) \in {list, Corrupted(list)}
    BY <1>1, <1>3 DEF ParseLine, insert_entry, destroyed, Lines
  <2>6. QED
    BY <2>1, <2>4, <2>5 DEF line
<1>4. CASE ~list.freed
  <2>1. ~old.freed /\ ~list.corrupt /\ list.entries \in Seq(ToSet(f))
    BY <1>2, <1>4 DEF Grown, ListShape, InOrder
  <2>2. PICK at0 : OfLines(list.entries, f, n, at0)
    BY <1>4 DEF Grown, InOrder
  <2>3. DOMAIN list.entries = 1..Len(list.entries) /\ Len(list.entries) \in Nat
    BY <2>1
  <2>4. CASE line.what = "entry"
    <3> DEFINE m == Len(list.entries)
               more == Append(list.entries, line)
               at1 == [i \in 1..(m + 1) |-> IF i = m + 1 THEN n + 1 ELSE at0[i]]
               grown == [list EXCEPT !.entries = more]
    <3>1. ParseLine(list, line) = grown
      BY <1>4, <2>4 DEF ParseLine, insert_entry
    <3>2. more \in Seq(ToSet(f)) /\ DOMAIN more = 1..(m + 1)
      BY <1>1, <2>1
    <3>3. more[m + 1] = line /\ \A i \in 1..m : more[i] = list.entries[i]
      BY <1>1, <2>1
    <3> HIDE DEF more
    <3>4. OfLines(more, f, n + 1, at1)
      <4>1. /\ at0 \in [1..m -> 1..n]
            /\ \A i \in 1..m : list.entries[i] = f[at0[i]] /\ f[at0[i]].what = "entry"
            /\ \A i, j \in 1..m : i < j => at0[i] < at0[j]
            /\ \A k \in 1..n : f[k].what = "entry" => \E i \in 1..m : at0[i] = k
        BY <2>2, <2>3 DEF OfLines
      <4>2. at1[m + 1] = n + 1 /\ \A i \in 1..m : at1[i] = at0[i]
        BY <2>3
      <4>3. at1 \in [1..(m + 1) -> 1..(n + 1)]
        BY <2>3, <4>1
      <4> HIDE DEF m, at1
      <4>4. m \in Nat /\ \A i \in 1..(m + 1) : i = m + 1 \/ i \in 1..m
        BY <2>3 DEF m
      <4>5. \A i \in 1..(m + 1) : more[i] = f[at1[i]] /\ f[at1[i]].what = "entry"
        BY <2>4, <3>3, <4>1, <4>2, <4>4 DEF line
      <4>6. \A i, j \in 1..(m + 1) : i < j => at1[i] < at1[j]
        <5>1. \A i \in 1..m : at0[i] < n + 1 /\ at0[i] \in Nat
          BY <4>1
        <5>2. ASSUME NEW i \in 1..(m + 1), NEW j \in 1..(m + 1), i < j
              PROVE  at1[i] < at1[j]
          <6>1. i \in 1..m
            BY <4>4, <5>2
          <6>2. QED
            BY <4>1, <4>2, <4>4, <5>1, <5>2, <6>1
        <5>3. QED
          BY <5>2
      <4>7. ASSUME NEW k \in 1..(n + 1), f[k].what = "entry"
            PROVE  \E i \in 1..(m + 1) : at1[i] = k
        <5>1. CASE k = n + 1
          BY <4>2, <4>4, <5>1
        <5>2. CASE k # n + 1
          <6>1. k \in 1..n
            BY <5>2
          <6>2. PICK i \in 1..m : at0[i] = k
            BY <4>1, <4>7, <6>1
          <6>3. i \in 1..(m + 1)
            BY <4>4
          <6>4. QED
            BY <4>2, <6>2, <6>3
        <5>3. QED
          BY <5>1, <5>2
      <4>8. QED
        BY <3>2, <4>3, <4>5, <4>6, <4>7 DEF OfLines
    <3>5. grown = [entries |-> more, freed |-> list.freed, corrupt |-> list.corrupt]
      BY <1>2 DEF ListShape
    <3> HIDE DEF grown
    <3>6. grown.entries = more /\ grown.freed = list.freed /\ grown.corrupt = list.corrupt
      BY <3>5
    <3>7. ListShape(grown)
      BY <1>2, <3>5, <3>6 DEF ListShape
    <3>8. InOrder(grown.entries, f, n + 1)
      BY <3>2, <3>4, <3>6 DEF InOrder
    <3>9. Grown(old, grown, f, n + 1)
      BY <1>4, <2>1, <3>6, <3>7, <3>8 DEF Grown
    <3>10. QED
      BY <3>1, <3>9 DEF line
  <2>5. CASE line.what # "entry"
    <3>1. InOrder(list.entries, f, n + 1)
      <4>1. OfLines(list.entries, f, n + 1, at0)
        <5>1. \A k \in 1..(n + 1) : f[k].what = "entry" => k \in 1..n
          BY <2>5 DEF line
        <5>2. at0 \in [DOMAIN list.entries -> 1..(n + 1)]
          BY <2>2 DEF OfLines
        <5>3. QED
          BY <2>2, <5>1, <5>2 DEF OfLines
      <4>2. QED
        BY <2>1, <4>1 DEF InOrder
    <3>2. Grown(old, list, f, n + 1)
      BY <1>2, <1>4, <2>1, <3>1 DEF Grown
    <3>3. CASE line.what \in {"error", "long comment"}
      <4> DEFINE empty == [entries |-> <<>>, freed |-> list.entries # <<>>, corrupt |-> list.corrupt]
      <4>1. ParseLine(list, line) = empty
        BY <1>4, <3>3 DEF ParseLine, destroyed
      <4>2. CASE list.entries = <<>>
        <5>1. empty = list
          BY <1>2, <1>4, <4>2 DEF ListShape
        <5>2. QED
          BY <3>2, <4>1, <5>1 DEF line
      <4>3. CASE list.entries # <<>>
        <5>1. empty.freed = TRUE /\ empty.corrupt = FALSE
          BY <1>2, <2>1, <4>3 DEF ListShape
        <5>2. Misordered(f)
          <6>1. 1 \in DOMAIN list.entries
            BY <2>1, <2>3, <4>3
          <6>2. at0[1] \in 1..n /\ f[at0[1]].what = "entry"
            BY <2>2, <6>1 DEF OfLines
          <6>3. at0[1] \in DOMAIN f /\ at0[1] < n + 1
            BY <1>1, <6>2
          <6>4. QED
            BY <1>1, <3>3, <6>2, <6>3 DEF Misordered, line
        <5>3. ListShape(empty)
          BY <5>1 DEF ListShape
        <5> HIDE DEF empty
        <5>4. QED
          BY <4>1, <5>1, <5>2, <5>3 DEF Grown, line
      <4>4. QED
        BY <4>2, <4>3
    <3>4. CASE line.what \in {"comment", "blank"}
      <4>1. ParseLine(list, line) = list
        BY <3>4 DEF ParseLine
      <4>2. QED
        BY <3>2, <4>1 DEF line
    <3>5. QED
      BY <1>1, <2>5, <3>3, <3>4 DEF Lines
  <2>6. QED
    BY <2>4, <2>5
<1>5. QED
  BY <1>3, <1>4

(* A whole file.                                                           *)
LEMMA ParsedGrown ==
  ASSUME NEW f \in Files, NEW old, Grown(old, old, f, 0)
  PROVE  Grown(old, Parsed(old, f), f, Len(f))
<1>1. Len(f) \in Nat
  BY ConfigAssumption DEF ConfigAssumption
<1>2. PICK after : IsParsing(after, old, f, Len(f)) /\ Parsed(old, f) = after[Len(f)]
  BY <1>1, ParsingExists
<1>3. \A n \in 0..Len(f) : after[n] = IF n = 0 THEN old ELSE ParseLine(after[n - 1], f[n])
  BY <1>2 DEF IsParsing
<1> DEFINE T == {n \in 0..Len(f) : ~Grown(old, after[n], f, n)}
<1>4. T = {}
  <2> SUFFICES ASSUME T # {}
               PROVE  FALSE
    OBVIOUS
  <2>1. T \subseteq Nat
    BY <1>1
  <2>2. PICK x \in T : \A y \in T : x <= y
    BY <2>1, LeastNatural
  <2>3. x # 0
    BY <1>1, <1>3, <2>2
  <2>4. x - 1 \in Nat /\ x - 1 \in 0..Len(f) /\ x - 1 < Len(f) /\ (x - 1) + 1 = x /\ x - 1 \notin T
    BY <1>1, <2>2, <2>3
  <2>5. Grown(old, after[x - 1], f, x - 1)
    BY <2>4
  <2>6. Grown(old, ParseLine(after[x - 1], f[(x - 1) + 1]), f, (x - 1) + 1)
    BY <2>4, <2>5, ParseLineGrows
  <2>7. Grown(old, after[x], f, x)
    BY <1>3, <2>2, <2>3, <2>4, <2>6
  <2>8. QED
    BY <2>2, <2>7
<1>5. QED
  BY <1>1, <1>2, <1>4

(* The first match of a reader's key is the first of the file's entries    *)
(* that begins like the one asked for.                                     *)
LEMMA FirstMatchOfFile ==
  ASSUME file \in Files, InOrder(config_list.entries, file, Len(file)),
         NEW s \in Readers, NEW k \in KeyIndices(s), Matches(Prefix[s], Keys[s][k].name) # {}
  PROVE  \E i \in DOMAIN file : /\ FirstAskedFor(s, k, i)
                                /\ FirstValue(Prefix[s], Keys[s][k].name) = file[i].value
                                /\ file[i].value \in Seq(Int)
<1> DEFINE entries == config_list.entries
           found == Matches(Prefix[s], Keys[s][k].name)
           first == FirstMatch(Prefix[s], Keys[s][k].name)
<1>2. found \subseteq Nat
  BY DEF InOrder, Matches
<1>3. \E i \in found : \A j \in found : i <= j
  BY <1>2, LeastNatural
<1>4. first \in found /\ \A j \in found : first <= j
  BY <1>3 DEF FirstMatch
<1>5. PICK line : OfLines(entries, file, Len(file), line)
  BY DEF InOrder
<1>6. \A i \in found : i \in DOMAIN entries /\ line[i] \in AskedFor(s, k)
  <2>1. DOMAIN file = 1..Len(file)
    BY ConfigAssumption DEF ConfigAssumption
  <2>2. QED
    BY <1>5, <2>1 DEF OfLines, Matches, AskedFor
<1>7. \A j \in AskedFor(s, k) : \E i \in found : line[i] = j
  <2>1. DOMAIN file = 1..Len(file)
    BY ConfigAssumption DEF ConfigAssumption
  <2>2. \A j \in AskedFor(s, k) : \E i \in DOMAIN entries : line[i] = j
    BY <1>5, <2>1 DEF OfLines, AskedFor
  <2>3. QED
    BY <1>5, <2>2 DEF OfLines, AskedFor, Matches
<1>8. \A i, j \in found : i <= j => line[i] <= line[j]
  <2>1. DOMAIN entries \subseteq Nat
    BY DEF InOrder
  <2>2. \A i \in DOMAIN entries : line[i] \in Nat
    BY <1>5 DEF OfLines
  <2>3. QED
    BY <1>5, <1>6, <2>1, <2>2 DEF OfLines
<1> DEFINE at0 == line[first]
<1>9. at0 \in AskedFor(s, k) /\ \A j \in AskedFor(s, k) : at0 <= j
  BY <1>4, <1>6, <1>7, <1>8
<1>10. entries[first].value = file[at0].value
  BY <1>4, <1>5, <1>6 DEF OfLines
<1>11. at0 \in DOMAIN file /\ file[at0].value \in Seq(Int)
  BY <1>9, ConfigAssumption DEF ConfigAssumption, AskedFor
<1>12. FirstAskedFor(s, k, at0)
  BY <1>9 DEF FirstAskedFor
<1> HIDE DEF at0
<1>13. QED
  BY <1>10, <1>11, <1>12 DEF FirstValue

(* A store past an array is one of too many values in the first of the     *)
(* file's entries that begins like the one asked for.                      *)
LEMMA StoreSound ==
  ASSUME file \in Files, InOrder(config_list.entries, file, Len(file)),
         NEW s \in Readers, NEW k \in KeyIndices(s),
         StoresPast(Prefix[s], Keys[s][k].name, Keys[s][k].type, Keys[s][k].size)
  PROVE  \E i \in DOMAIN file : /\ FirstAskedFor(s, k, i)
                                /\ Keys[s][k].type = "array" /\ Len(file[i].value) > Keys[s][k].size
<1>1. /\ Matches(Prefix[s], Keys[s][k].name) # {}
      /\ Keys[s][k].type = "array" /\ Len(FirstValue(Prefix[s], Keys[s][k].name)) > Keys[s][k].size
  BY DEF StoresPast, TooMany
<1>2. QED
  BY <1>1, FirstMatchOfFile

(* What a lookup may return has the size asked for. It is the first number *)
(* of the first of the file's entries that begins like the one asked for,  *)
(* or begins with all of them.                                             *)
LEMMA AskedSound ==
  ASSUME file \in Files, InOrder(config_list.entries, file, Len(file)),
         NEW s \in Readers, NEW k \in KeyIndices(s), NEW v \in Asked(s, k)
  PROVE  /\ Len(v) = Keys[s][k].size
         /\ \E i \in DOMAIN file : /\ FirstAskedFor(s, k, i)
                                   /\ IF Keys[s][k].type = "int" THEN v = <<atoi(file[i].value)>>
                                      ELSE IsPrefix(file[i].value, v)
<1> DEFINE size == Keys[s][k].size
           type == Keys[s][k].type
           found == Matches(Prefix[s], Keys[s][k].name)
           value == FirstValue(Prefix[s], Keys[s][k].name)
           past == StoresPast(Prefix[s], Keys[s][k].name, type, size)
           padded == {value \o rest : rest \in [1..(size - Len(value)) -> Garbage]}
<1>1. found # {} /\ ~past /\ (IF type = "int" THEN v = <<atoi(value)>> ELSE v \in padded)
  <2>1. v \in CASE found = {} \/ past -> {}
                [] found # {} /\ type = "int" -> {<<atoi(value)>>}
                [] OTHER -> padded
    BY Zenon DEF Asked, sensors_config_get_key
  <2>2. past => found # {} /\ type = "array"
    BY DEF StoresPast, TooMany
  <2> HIDE DEF found, value, size, padded, type, past
  <2>3. CASE found = {} \/ past
    BY <2>1, <2>2, <2>3
  <2>4. CASE found # {} /\ ~past /\ type = "int"
    BY <2>1, <2>4
  <2>5. CASE found # {} /\ ~past /\ type # "int"
    BY <2>1, <2>5
  <2>6. QED
    BY <2>3, <2>4, <2>5
<1>2. PICK i \in DOMAIN file : FirstAskedFor(s, k, i) /\ value = file[i].value /\ value \in Seq(Int)
  BY <1>1, FirstMatchOfFile
<1>3. size \in Nat /\ type \in {"int", "array"} /\ (type = "int" => size = 1)
  BY ConfigAssumption DEF ConfigAssumption, KeyIndices
<1>4. type # "int" => Len(value) <= size
  <2>1. type # "int" => ~(Len(value) > size)
    BY <1>1, <1>3 DEF StoresPast, TooMany
  <2> HIDE DEF value, size, type
  <2>2. QED
    BY <1>2, <1>3, <2>1
<1> HIDE DEF value, size, found, type, past
<1>5. CASE type = "int"
  BY <1>1, <1>2, <1>3, <1>5 DEF size, type
<1>6. CASE type # "int"
  <2>1. Len(value) <= size
    BY <1>4, <1>6
  <2>2. PICK rest \in [1..(size - Len(value)) -> Garbage] : v = value \o rest
    BY <1>1, <1>6 DEF padded
  <2>3. rest \in Seq(Int) /\ Len(rest) = size - Len(value)
    <3>1. size - Len(value) \in Nat /\ Garbage \subseteq Int
      BY <1>2, <1>3, <2>1, ConfigAssumption DEF ConfigAssumption
    <3>2. rest \in [1..(size - Len(value)) -> Int]
      BY <2>2, <3>1
    <3>3. QED
      BY <3>1, <3>2
  <2>4. Len(v) = size /\ v \in Seq(Int)
    BY <1>2, <1>3, <2>1, <2>2, <2>3
  <2>5. IsPrefix(value, v)
    <3>1. SubSeq(value, 1, Len(value)) = value
      BY <1>2
    <3>2. SubSeq(v, 1, Len(value)) = value
      BY <1>2, <2>2, <2>3
    <3>3. QED
      BY <1>2, <2>1, <2>4, <3>1, <3>2 DEF IsPrefix
  <2>6. QED
    BY <1>2, <1>6, <2>4, <2>5 DEF size, type
<1>7. QED
  BY <1>5, <1>6

(* What a driver keeps of a reading: each value is its default or one the  *)
(* list gave it, in range.                                                 *)
LEMMA ReadSound ==
  ASSUME NEW s \in Readers, NEW read \in Readings(s), NEW k \in KeyIndices(s), read[k] # Default
  PROVE  read[k] \in Asked(s, k) /\ InRange(s, k, read[k])
<1>1. read[k] \in {IF InRange(s, k, v) THEN v ELSE Default : v \in Asked(s, k)}
                    \cup (IF Asked(s, k) = {} THEN {Default} ELSE {})
  BY Zenon DEF Readings
<1>2. PICK v \in Asked(s, k) : read[k] = IF InRange(s, k, v) THEN v ELSE Default
  BY <1>1
<1>3. QED
  BY <1>2

ConfigInv ==
  /\ file \in Files /\ opens \in Nat
  /\ phase = "loading" => ~config_list.freed /\ opens = 0
  /\ phase \in {"opening", "open"} => opens > 0
  /\ ListShape(config_list)
  /\ config_list.freed => /\ opens > 0 /\ HasEntry(file)
                         /\ \/ phase = "closed"
                            \/ opens > 1 \/ Misordered(file)
  /\ ~config_list.freed =>
       IF phase \in {"opening", "open"} THEN InOrder(config_list.entries, file, Len(file))
       ELSE config_list.entries = <<>>
  /\ FreedUsedOnlyIf
  /\ axes = [s \in Readers |-> axes[s]]
  /\ AxesFromFirstMatch

(* ConfigInv holds at the start.                                           *)
LEMMA ConfigInvInit == OpenInit => ConfigInv
<1> SUFFICES ASSUME OpenInit
             PROVE  ConfigInv
  OBVIOUS
<1>1. /\ config_list = [entries |-> <<>>, freed |-> FALSE, corrupt |-> FALSE]
      /\ axes = [s \in Readers |-> [k \in KeyIndices(s) |-> Default]] /\ overrun = FALSE
      /\ phase = "loading" /\ opens = 0 /\ file \in Files
  BY DEF OpenInit, Init, ConfigInit
<1>2. /\ ListShape(config_list) /\ ~config_list.freed /\ ~config_list.corrupt
      /\ config_list.entries = <<>>
  BY <1>1 DEF ListShape
<1>3. AxesFromFirstMatch
  BY <1>1 DEF AxesFromFirstMatch
<1>4. axes = [s \in Readers |-> axes[s]]
  BY <1>1
<1>5. QED
  BY <1>1, <1>2, <1>3, <1>4 DEF ConfigInv, FreedUsedOnlyIf

(* A step that touches no axes and no array keeps what is said of them.    *)
LEMMA AxesUntouched ==
  ASSUME AxesFromFirstMatch, UNCHANGED <<axes, overrun, file>>
  PROVE  AxesFromFirstMatch'
<1>1. /\ axes' = axes /\ overrun' = overrun /\ file' = file
  OBVIOUS
<1>2. \A t, k, i : FirstAskedFor(t, k, i)' <=> FirstAskedFor(t, k, i)
  BY <1>1 DEF FirstAskedFor, AskedFor
<1> DEFINE Says(i, t, k, value) ==
             /\ FirstAskedFor(t, k, i)
             /\ IF Keys[t][k].type = "int" THEN value = <<atoi(file[i].value)>>
                ELSE IsPrefix(file[i].value, value)
           Gives(i, t, k) ==
             /\ FirstAskedFor(t, k, i)
             /\ Keys[t][k].type = "array" /\ Len(file[i].value) > Keys[t][k].size
<1>3. \A i, t, k, value : Says(i, t, k, value)' <=> Says(i, t, k, value)
  BY <1>1, <1>2
<1>4. \A i, t, k : Gives(i, t, k)' <=> Gives(i, t, k)
  BY <1>1, <1>2
<1>5. /\ \A s \in Readers :
           /\ \A k \in KeyIndices(s) : axes[s][k] # Default =>
                /\ InRange(s, k, axes[s][k]) /\ Len(axes[s][k]) = Keys[s][k].size
                /\ \E i \in DOMAIN file : Says(i, s, k, axes[s][k])
           /\ s \in AllAtOnce => \/ \A k \in KeyIndices(s) : axes[s][k] = Default
                                 \/ \A k \in KeyIndices(s) : axes[s][k] # Default
      /\ overrun => \E s \in Readers : \E k \in KeyIndices(s), i \in DOMAIN file : Gives(i, s, k)
  BY DEF AxesFromFirstMatch
<1> SUFFICES /\ \A s \in Readers :
                  /\ \A k \in KeyIndices(s) : axes[s][k] # Default =>
                       /\ InRange(s, k, axes[s][k]) /\ Len(axes[s][k]) = Keys[s][k].size
                       /\ \E i \in DOMAIN file : Says(i, s, k, axes[s][k])'
                  /\ s \in AllAtOnce => \/ \A k \in KeyIndices(s) : axes[s][k] = Default
                                        \/ \A k \in KeyIndices(s) : axes[s][k] # Default
             /\ overrun => \E s \in Readers : \E k \in KeyIndices(s), i \in DOMAIN file : Gives(i, s, k)'
  BY <1>1 DEF AxesFromFirstMatch
<1> HIDE DEF Says, Gives
<1>6. QED
  BY <1>3, <1>4, <1>5

(* Reading the file when there are no entries, or only freed ones.         *)
LEMMA ReadFileInv ==
  ASSUME ConfigInv, OpenDevice
  PROVE  ConfigInv'
<1>1. /\ phase = "closed" /\ phase' = "opening" /\ opens' = opens + 1
      /\ ~config_list.corrupt /\ config_list' = Parsed(config_list, file)
      /\ UNCHANGED <<axes, overrun, file>>
  BY DEF OpenDevice, Open, Goes, sensors_config_read
<1>2. file \in Files /\ ListShape(config_list) /\ opens \in Nat /\ opens' \in Nat /\ opens' > 0
  BY <1>1 DEF ConfigInv
<1>3. Grown(config_list, config_list, file, 0)
  <2>1. ~config_list.freed => InOrder(config_list.entries, file, 0)
    <3> SUFFICES ASSUME config_list.entries = <<>>
                 PROVE  InOrder(config_list.entries, file, 0)
      BY <1>1 DEF ConfigInv
    <3>1. OfLines(<<>>, file, 0, <<>>)
      BY DEF OfLines
    <3>2. QED
      BY <3>1 DEF InOrder
  <2>2. QED
    BY <1>2, <2>1 DEF Grown
<1>4. Grown(config_list, config_list', file, Len(file))
  BY <1>1, <1>2, <1>3, ParsedGrown
<1>5. Misordered(file) => HasEntry(file)
  BY DEF Misordered, HasEntry
<1>6. config_list'.freed => HasEntry(file) /\ (opens' > 1 \/ Misordered(file))
  <2>1. config_list.freed => opens > 0 /\ HasEntry(file)
    BY DEF ConfigInv
  <2>2. config_list.freed => opens' > 1
    BY <1>1, <1>2, <2>1
  <2>3. QED
    BY <1>4, <1>5, <2>1, <2>2 DEF Grown
<1>7. ListShape(config_list')
  BY <1>4 DEF Grown
<1>8. FreedUsedOnlyIf'
  <2>1. config_list'.corrupt => config_list'.freed
    BY <1>7 DEF ListShape
  <2>2. QED
    BY <1>1, <1>6, <2>1 DEF FreedUsedOnlyIf, HasEntry, Misordered
<1>9. AxesFromFirstMatch' /\ (axes = [s \in Readers |-> axes[s]])'
  BY <1>1, AxesUntouched DEF ConfigInv
<1>10. ~config_list'.freed => InOrder(config_list'.entries, file, Len(file))
  BY <1>4 DEF Grown
<1>11. ListShape(config_list)' /\ file' = file
  BY <1>1, <1>7 DEF ListShape
<1>12. QED
  BY <1>1, <1>2, <1>6, <1>8, <1>9, <1>10, <1>11 DEF ConfigInv

(* Freeing the entries at a close.                                         *)
LEMMA FreeListInv ==
  ASSUME ConfigInv, CloseDevice
  PROVE  ConfigInv'
<1>1. /\ phase = "open" /\ phase' = "closed" /\ opens' = opens
      /\ ~config_list.corrupt /\ config_list' = destroyed(config_list)
      /\ UNCHANGED <<axes, overrun, file>>
  BY DEF CloseDevice, Close, Goes, sensors_config_destroy
<1>2. ListShape(config_list) /\ opens \in Nat /\ opens > 0
  BY <1>1 DEF ConfigInv
<1>3. AxesFromFirstMatch' /\ (axes = [s \in Readers |-> axes[s]])'
  BY <1>1, AxesUntouched DEF ConfigInv
<1>4. CASE config_list.freed
  <2>1. config_list' = Corrupted(config_list)
    BY <1>1, <1>4 DEF destroyed
  <2>2. HasEntry(file) /\ (opens > 1 \/ Misordered(file))
    BY <1>1, <1>4 DEF ConfigInv
  <2>3. FreedUsedOnlyIf'
    BY <1>1, <2>2 DEF FreedUsedOnlyIf, HasEntry, Misordered
  <2>4. ListShape(config_list') /\ config_list'.freed
    BY <1>2, <1>4, <2>1, CorruptedShape
  <2>5. ListShape(config_list)'
    BY <2>4 DEF ListShape
  <2>6. QED
    BY <1>1, <1>2, <1>3, <2>2, <2>3, <2>4, <2>5 DEF ConfigInv
<1>5. CASE ~config_list.freed
  <2> DEFINE empty == [entries |-> <<>>, freed |-> config_list.entries # <<>>, corrupt |-> config_list.corrupt]
  <2>1. config_list' = empty
    BY <1>1, <1>5 DEF destroyed
  <2>2. empty.entries = <<>> /\ empty.freed \in BOOLEAN /\ (empty.freed <=> config_list.entries # <<>>)
        /\ empty.corrupt = FALSE
    BY <1>1, <1>2 DEF ListShape
  <2>3. ListShape(empty)
    BY <1>1, <1>2 DEF ListShape
  <2> HIDE DEF empty
  <2>4. empty.freed => HasEntry(file)
    <3>1. InOrder(config_list.entries, file, Len(file))
      BY <1>1, <1>5 DEF ConfigInv
    <3>2. DOMAIN file = 1..Len(file)
      BY ConfigAssumption DEF ConfigAssumption, ConfigInv
    <3>3. config_list.entries # <<>> => 1 \in DOMAIN config_list.entries
      BY <3>1 DEF InOrder
    <3>4. QED
      BY <2>2, <3>1, <3>2, <3>3 DEF InOrder, OfLines, HasEntry
  <2>5. ListShape(config_list)'
    BY <2>1, <2>3 DEF ListShape
  <2>6. FreedUsedOnlyIf'
    BY <2>1, <2>2 DEF FreedUsedOnlyIf
  <2>7. QED
    BY <1>1, <1>2, <1>3, <2>1, <2>2, <2>4, <2>5, <2>6 DEF ConfigInv
<1>6. QED
  BY <1>4, <1>5

(* A driver's reading of its configuration.                                *)
LEMMA ReaderInv ==
  ASSUME ConfigInv, NEW s \in Readers, config_read(s), ~config_list.corrupt,
         phase = "opening", UNCHANGED <<phase, opens, file>>
  PROVE  ConfigInv'
<1>1. CASE UNCHANGED configVars
  <2>1. UNCHANGED <<config_list, axes, overrun>>
    BY <1>1 DEF configVars
  <2>2. AxesFromFirstMatch'
    BY <2>1, AxesUntouched DEF ConfigInv
  <2>3. QED
    BY <2>1, <2>2 DEF ConfigInv, ListShape, FreedUsedOnlyIf
<1>2. CASE config_list.freed /\ config_list' = Corrupted(config_list) /\ UNCHANGED <<axes, overrun>>
  <2>1. ListShape(config_list') /\ config_list'.freed
    BY <1>2, CorruptedShape DEF ConfigInv
  <2>2. opens > 0 /\ HasEntry(file) /\ (opens > 1 \/ Misordered(file))
    BY <1>2 DEF ConfigInv
  <2>3. FreedUsedOnlyIf'
    BY <2>2 DEF FreedUsedOnlyIf, HasEntry, Misordered
  <2>4. AxesFromFirstMatch'
    BY <1>2, AxesUntouched DEF ConfigInv
  <2>5. ListShape(config_list)'
    BY <2>1 DEF ListShape
  <2>6. QED
    BY <1>2, <2>1, <2>2, <2>3, <2>4, <2>5 DEF ConfigInv
<1>3. CASE /\ ~config_list.freed /\ UNCHANGED <<config_list, overrun>>
           /\ \E read \in Readings(s) : axes' = [axes EXCEPT ![s] = Kept(s, read)]
  <2>1. PICK read \in Readings(s) : axes' = [axes EXCEPT ![s] = Kept(s, read)]
    BY <1>3
  <2>2. /\ axes = [t \in Readers |-> axes[t]] /\ AxesFromFirstMatch
        /\ file \in Files /\ InOrder(config_list.entries, file, Len(file))
    BY <1>3 DEF ConfigInv
  <2>3. /\ axes' = [t \in Readers |-> axes'[t]]
        /\ axes'[s] = Kept(s, read)
        /\ \A t \in Readers : t # s => axes'[t] = axes[t]
    BY <2>1, <2>2
  <2>4. \A t, k, i : FirstAskedFor(t, k, i)' = FirstAskedFor(t, k, i)
    BY DEF FirstAskedFor, AskedFor
  <2> DEFINE Taken(t, k, value) ==
               /\ InRange(t, k, value) /\ Len(value) = Keys[t][k].size
               /\ \E i \in DOMAIN file : /\ FirstAskedFor(t, k, i)
                                        /\ IF Keys[t][k].type = "int" THEN value = <<atoi(file[i].value)>>
                                           ELSE IsPrefix(file[i].value, value)
             Sound(t, values) ==
               /\ \A k \in KeyIndices(t) : values[k] # Default => Taken(t, k, values[k])
               /\ t \in AllAtOnce => \/ \A k \in KeyIndices(t) : values[k] = Default
                                     \/ \A k \in KeyIndices(t) : values[k] # Default
  <2>5. \A t \in Readers : Sound(t, axes[t])
    BY <2>2 DEF AxesFromFirstMatch
  <2>6. \A k \in KeyIndices(s) : read[k] # Default => Taken(s, k, read[k])
    BY <2>2, ReadSound, AskedSound, Zenon
  <2> HIDE DEF Taken
  <2>7. Sound(s, Kept(s, read))
    <3>1. CASE s \in AllAtOnce /\ \E k \in KeyIndices(s) : read[k] = Default
      <4>1. Kept(s, read) = axes[s]
        BY <3>1 DEF Kept
      <4>2. QED
        BY <2>5, <4>1
    <3>2. CASE ~(s \in AllAtOnce /\ \E k \in KeyIndices(s) : read[k] = Default)
      <4>1. Kept(s, read) = [k \in KeyIndices(s) |-> IF read[k] # Default THEN read[k] ELSE axes[s][k]]
        BY <3>2 DEF Kept
      <4>2. \A k \in KeyIndices(s) :
               /\ read[k] # Default => Kept(s, read)[k] = read[k]
               /\ read[k] = Default => Kept(s, read)[k] = axes[s][k]
        BY <4>1
      <4>3. QED
        BY <2>5, <2>6, <3>2, <4>2
    <3>3. QED
      BY <3>1, <3>2
  <2>8. \A t \in Readers : Sound(t, axes'[t])
    <3>1. ASSUME NEW t \in Readers
          PROVE  Sound(t, axes'[t])
      <4>1. CASE t = s
        BY <2>3, <2>7, <4>1
      <4>2. CASE t # s
        BY <2>3, <2>5, <4>2
      <4>3. QED
        BY <4>1, <4>2
    <3>2. QED
      BY <3>1
  <2>9. AxesFromFirstMatch'
    BY <1>3, <2>2, <2>4, <2>8 DEF AxesFromFirstMatch, Taken
  <2>10. ListShape(config_list)' /\ FreedUsedOnlyIf'
    BY <1>3 DEF ConfigInv, ListShape, FreedUsedOnlyIf
  <2>11. QED
    BY <1>3, <2>3, <2>9, <2>10 DEF ConfigInv
<1>4. CASE ~config_list.freed /\ UNCHANGED config_list /\ Overruns(s)
  <2>1. PICK k \in KeyIndices(s) : StoresPast(Prefix[s], Keys[s][k].name, Keys[s][k].type, Keys[s][k].size)
    BY <1>4 DEF Overruns
  <2>2. /\ UNCHANGED axes /\ AxesFromFirstMatch
        /\ file \in Files /\ InOrder(config_list.entries, file, Len(file))
    BY <1>4 DEF ConfigInv, Overruns
  <2>3. \E i \in DOMAIN file : /\ FirstAskedFor(s, k, i)
                              /\ Keys[s][k].type = "array" /\ Len(file[i].value) > Keys[s][k].size
    BY <2>1, <2>2, StoreSound
  <2>4. \A t, j, i : FirstAskedFor(t, j, i)' = FirstAskedFor(t, j, i)
    BY DEF FirstAskedFor, AskedFor
  <2>5. AxesFromFirstMatch'
    BY <2>2, <2>3, <2>4 DEF AxesFromFirstMatch
  <2>6. ListShape(config_list)' /\ FreedUsedOnlyIf' /\ (axes = [t \in Readers |-> axes[t]])'
    BY <1>4, <2>2 DEF ConfigInv, ListShape, FreedUsedOnlyIf
  <2>7. QED
    BY <1>4, <2>5, <2>6 DEF ConfigInv
<1>5. \/ UNCHANGED configVars
      \/ config_list.freed /\ config_list' = Corrupted(config_list) /\ UNCHANGED <<axes, overrun>>
      \/ ~config_list.freed /\ UNCHANGED config_list /\ Overruns(s)
      \/ /\ ~config_list.freed /\ UNCHANGED <<config_list, overrun>>
         /\ \E read \in Readings(s) : axes' = [axes EXCEPT ![s] = Kept(s, read)]
  <2>1. CASE ~sensors_have_config_file
    BY <2>1 DEF config_read
  <2>2. CASE sensors_have_config_file /\ config_list.freed
    BY <2>2, Zenon DEF config_read
  <2>3. CASE sensors_have_config_file /\ ~config_list.freed
    BY <2>3, Zenon DEF config_read
  <2>4. QED
    BY <2>1, <2>2, <2>3
<1>6. QED
  BY <1>1, <1>2, <1>3, <1>4, <1>5

(* Every step of the composition keeps ConfigInv.                          *)
LEMMA ConfigInvStep == ConfigInv /\ [OpenNext]_vars => ConfigInv'
<1> SUFFICES ASSUME ConfigInv, [OpenNext]_vars
             PROVE  ConfigInv'
  OBVIOUS
<1>1. ASSUME UNCHANGED <<configVars, file, opens>>,
             \/ phase' = phase
             \/ phase = "loading" /\ phase' = "closed"
             \/ phase = "opening" /\ phase' = "open"
      PROVE  ConfigInv'
  <2>1. UNCHANGED <<config_list, axes, overrun, file, opens>>
    BY <1>1 DEF configVars
  <2>2. ListShape(config_list)' /\ FreedUsedOnlyIf' /\ AxesFromFirstMatch'
    BY <2>1, AxesUntouched DEF ConfigInv, ListShape, FreedUsedOnlyIf
  <2>3. QED
    BY <1>1, <2>1, <2>2 DEF ConfigInv
<1>2. CASE ListStep
  <2>1. UNCHANGED <<configVars, file, opens>>
    BY <1>2 DEF ListStep, sensors_list_register, Loaded, Opened, Request
  <2>2. \/ phase' = phase
        \/ phase = "loading" /\ phase' = "closed"
        \/ phase = "opening" /\ phase' = "open"
    BY <1>2 DEF ListStep, sensors_list_register, Loaded, Opened, Request
  <2>3. QED
    BY <1>1, <2>1, <2>2
<1>3. CASE OpenDevice
  BY <1>3, ReadFileInv
<1>4. CASE CloseDevice
  BY <1>4, FreeListInv
<1>5. CASE Plug
  BY <1>1, <1>5 DEF Plug, halVars
<1>6. CASE InitStep
  <2> DEFINE s == sensor_apis[at]
  <2>1. /\ ~config_list.corrupt /\ phase = "opening"
        /\ UNCHANGED <<phase, opens, file>>
        /\ (s \in Readers /\ config_read(s)) \/ UNCHANGED configVars
    BY <1>6 DEF InitStep, Goes, InitSensor
  <2>2. CASE UNCHANGED configVars
    BY <1>1, <2>1, <2>2
  <2>3. CASE s \in Readers /\ config_read(s)
    BY <2>1, <2>3, ReaderInv
  <2>4. QED
    BY <2>1, <2>2, <2>3
<1>7. CASE UNCHANGED vars
  BY <1>1, <1>7 DEF vars, halVars
<1>8. QED
  BY <1>2, <1>3, <1>4, <1>5, <1>6, <1>7 DEF OpenNext

(* Freed entries are used only at a second open or with a file that does   *)
(* not parse behind an entry (sensors_config.c:111-163, 185-195).          *)
THEOREM OpenFreedUsedOnlyIf == OpenSpec => []FreedUsedOnlyIf
<1>1. ConfigInv => FreedUsedOnlyIf
  BY DEF ConfigInv
<1>2. QED
  BY <1>1, ConfigInvInit, ConfigInvStep, PTL DEF OpenSpec

(* What a driver uses comes from the first of the file's entries that      *)
(* begins like the one asked for, in range, and for those that read all at *)
(* once all of it or none (sensors_config.c:170-183, bma250_input.c).      *)
THEOREM OpenAxesFromFirstMatch == OpenSpec => []AxesFromFirstMatch
<1>1. ConfigInv => AxesFromFirstMatch
  BY DEF ConfigInv
<1>2. QED
  BY <1>1, ConfigInvInit, ConfigInvStep, PTL DEF OpenSpec

=============================================================================
