----------------------------- MODULE SensorsFifo -----------------------------
(***************************************************************************)
(* The event FIFO of sensors_fifo.c between the threads of the sensors,    *)
(* which put, and the one thread that is in sensors_module_poll.           *)
(*                                                                         *)
(* Each function runs under sensors_fifo.mutex: put is one action; get_all *)
(* is two, up to the wait of line 61 and from it. Events are told apart    *)
(* only where an order or a loss could show: each Tagged event is put at   *)
(* most once, and Plain stands for any number of others.                   *)
(***************************************************************************)
EXTENDS Naturals, Sequences, SequencesExt

CONSTANTS
  FIFO_LEN,
  Tagged,     (* events put at most once                                  *)
  Plain,      (* any other event                                          *)
  Lens        (* the sizes of the buffers poll is called with             *)

Events == Tagged \cup {Plain}

ASSUME FifoAssumption ==
  /\ FIFO_LEN \in Nat \ {0}
  /\ Plain \notin Tagged
  /\ Lens \subseteq Nat \ {0}

VARIABLES
  fifo,       (* sensors_fifo.fifo[0 .. fifo_i - 1]                       *)
  poller,     (* where the polling thread is                              *)
  signalled,  (* the poller, waiting, has been signalled on data_cond     *)
  len,        (* the buffer size of the poll in progress                  *)
  data,       (* what the last poll returned                              *)
  sent,       (* history: the tagged events put, in order                 *)
  delivered,  (* history: the tagged events returned                      *)
  dropped     (* history: the tagged events lost                          *)

fifoVars == <<fifo, poller, signalled, len, data, sent, delivered, dropped>>

FifoInit ==
  /\ fifo = <<>>
  /\ poller = "idle"
  /\ signalled = FALSE
  /\ len \in Lens
  /\ data = <<>>
  /\ sent = <<>>
  /\ delivered = {}
  /\ dropped = {}

TaggedIn(s) == ToSet(s) \cap Tagged

(***************************************************************************)
(* A sensor thread.                                                        *)
(***************************************************************************)

FifoFull == Len(fifo) = FIFO_LEN

\* Mutated forms: a full FIFO is emptied, or its last event overwritten.
StoredFlushing(e) == IF FifoFull THEN <<>> ELSE Append(fifo, e)
StoredOverwriting(e) == IF FifoFull THEN [fifo EXCEPT ![FIFO_LEN] = e] ELSE Append(fifo, e)

\* fifo[fifo_i++] = *data, unless there is no room.
Stored(e) == IF FifoFull THEN fifo ELSE Append(fifo, e)

\* Mutated form: only the event that ends emptiness is announced.
SignalFirst == signalled' = (signalled \/ (poller = "waiting" /\ fifo = <<>>))

\* pthread_cond_broadcast, whether the event was stored or not.
SignalData == signalled' = (signalled \/ poller = "waiting")

Put(e) ==
  /\ e = Plain \/ e \notin ToSet(sent)
  /\ fifo' = Stored(e)
  /\ SignalData
  /\ sent' = IF e = Plain THEN sent ELSE Append(sent, e)
  /\ dropped' = IF FifoFull THEN dropped \cup TaggedIn(<<e>>) ELSE dropped
  /\ UNCHANGED <<poller, len, data, delivered>>

(***************************************************************************)
(* The polling thread.                                                     *)
(***************************************************************************)

Poll(n) ==
  /\ poller = "idle"
  /\ poller' = "entry"
  /\ len' = n
  /\ UNCHANGED <<fifo, signalled, data, sent, delivered, dropped>>

\* Lines 60 and 61: the wait is entered whatever the FIFO holds.
WaitForData ==
  /\ poller = "entry"
  /\ poller' = "waiting"
  /\ signalled' = FALSE
  /\ UNCHANGED <<fifo, len, data, sent, delivered, dropped>>

\* Mutated form: the loop stops one event early.
CopiedShort ==
  IF Len(fifo) = 0 THEN 0 ELSE IF len < Len(fifo) - 1 THEN len ELSE Len(fifo) - 1

\* How many events the loop of line 63 copies.
Copied == IF len < Len(fifo) THEN len ELSE Len(fifo)

\* Lines 63 to 68, and the loop of poll, which calls again on 0 events.
TakeAll ==
  /\ poller = "waiting"
  /\ fifo' = <<>>
  /\ IF Copied = 0
     THEN poller' = "entry" /\ UNCHANGED data
     ELSE poller' = "idle" /\ data' = SubSeq(fifo, 1, Copied)
  /\ delivered' = delivered \cup TaggedIn(SubSeq(fifo, 1, Copied))
  /\ dropped' = dropped \cup TaggedIn(SubSeq(fifo, Copied + 1, Len(fifo)))
  /\ UNCHANGED <<signalled, len, sent>>

Take == signalled /\ TakeAll

\* pthread_cond_wait may return unsignalled.
SpuriousTake == ~signalled /\ TakeAll

FifoNext ==
  \/ \E e \in Events : Put(e)
  \/ \E n \in Lens : Poll(n)
  \/ WaitForData \/ Take \/ SpuriousTake

FifoSafety == FifoInit /\ [][FifoNext]_fifoVars

(* The polling thread is scheduled, and a signalled one gets the mutex.    *)
PollerFairness == WF_fifoVars(WaitForData) /\ WF_fifoVars(Take)

(* The framework polls again, and some enabled sensor goes on producing.   *)
TrafficFairness == WF_fifoVars(\E n \in Lens : Poll(n)) /\ WF_fifoVars(Put(Plain))

FifoSpec == FifoSafety /\ PollerFairness

(***************************************************************************)
(* Properties.                                                             *)
(***************************************************************************)

(* The code's variables have their types, and fifo_i never passes FIFO_LEN *)
(* (the histories are pinned down by OrderedOnce).                         *)
FifoTypes ==
  /\ fifo \in Seq(Events) /\ Len(fifo) <= FIFO_LEN
  /\ poller \in {"idle", "entry", "waiting"}
  /\ signalled \in BOOLEAN
  /\ len \in Lens
  /\ data \in Seq(Events)

(* A signalled poller finds an event: between the broadcast of line 51 and *)
(* the copy of line 63 nobody empties the FIFO, so poll's loop goes round  *)
(* again only after a spurious wakeup.                                     *)
WokenHasData == poller = "waiting" /\ signalled => fifo # <<>>

\* e comes before d in s.
Before(s, e, d) == \E i, j \in DOMAIN s : i < j /\ s[i] = e /\ s[j] = d

\* The tagged events of s are in the order they were put in, each once.
InPutOrder(s) ==
  \A i, j \in DOMAIN s :
    i < j /\ s[i] \in Tagged /\ s[j] \in Tagged => s[i] # s[j] /\ Before(sent, s[i], s[j])

(* An event put was returned, is queued or was dropped: one of the three.  *)
NoneLost ==
  /\ ToSet(sent) = delivered \cup dropped \cup TaggedIn(fifo)
  /\ delivered \cap dropped = {} /\ (delivered \cup dropped) \cap TaggedIn(fifo) = {}

(* What is queued, and what a poll returned, is in the order it was put    *)
(* in, after whatever earlier polls returned.                              *)
ReturnedInOrder ==
  /\ InPutOrder(fifo) /\ InPutOrder(data) /\ TaggedIn(data) \subseteq delivered
  /\ \A e \in delivered, d \in TaggedIn(fifo) : Before(sent, e, d)
  /\ \A e \in delivered \ TaggedIn(data), d \in TaggedIn(data) : Before(sent, e, d)

(* No event is duplicated, reordered, or lost without a full FIFO or a     *)
(* short buffer to blame.                                                  *)
OrderedOnce == NoneLost /\ ReturnedInOrder

(* The FIFO implements the channel.                                        *)
Channel == INSTANCE EventChannel
             WITH Capacity <- FIFO_LEN, pending <- fifo, returned <- data
ImplementsChannel == Channel!Spec

(* A signalled poll returns, with no further put needed.                   *)
WokenPollReturns == (poller = "waiting" /\ signalled) ~> (poller = "idle")

(* While sensors go on producing, no event stays in the FIFO for ever,     *)
(* even one put before the wait of line 61, whose broadcast nobody heard.  *)
QueuedIsReturned ==
  TrafficFairness =>
    \A e \in Tagged : (e \in ToSet(fifo)) ~> (e \in delivered \cup dropped)

(* Every event reaches the framework or is dropped in the two ways the     *)
(* code has, whether it was put before the wait or during it.              *)
EventsReturned == WokenPollReturns /\ QueuedIsReturned

=============================================================================
