# DASH, the Dynamic Android Sensor HAL: TLA+ models and proofs

DASH is a shared library that Android's sensor service loads. It finds the sensors a
product has, turns them on and off, sets their rates and hands their samples over. Almost
all of its hard behaviour is in a few hundred lines of C shared by thirty drivers: a thread
that must sleep and wake, a thread blocked in `select` on a descriptor another thread
closes, a multiplexer that lets several Android sensors share one chip, and a FIFO that
everything ends up in. These modules model that code and the drivers, wrappers and library
above and below it, check it with TLC on small instances and prove the central properties
with TLAPS for all instances.

## 1. The system

    framework threads      control calls (open, activate, setDelay)       poll
                                   |                                        ^
    sensors_module.c, sensors_list.c: one entry per Android sensor          |
                 |                                   |                      |
    direct drivers (sensors/*.c)      clients (sensors/wrappers/*.c)        |
                 |                                   |                      |
                 |                     sensors_wrapper.c: client <-> driver |
                 |                                   |                      |
                 |                       wrapped drivers (sensors/*.c)      |
                 |                                   |                      |
      sensors_worker.c / sensors_select.c: one thread per driver            |
                 |                                                          |
                 +------- samples ---> sensors_fifo_put ---> sensors_fifo.c-+

| Component | State | Operations | What makes it correct |
|---|---|---|---|
| Worker `sensors_worker.c` | `mode`, `delay_ns`, a mutex, a condition variable, a thread | suspend, resume, set_delay, destroy | polls while running, stops when told to, sleeps for the delay asked for, destroy returns |
| Select worker `sensors_select.c` | a worker, `fd`, a control pipe, `fd_mutex` | set_fd, suspend, resume, destroy, the callback | never reads a descriptor that is closed or not its own, reads what arrives, silent after disable, leaks nothing |
| FIFO `sensors_fifo.c` | array of 8, `fifo_i`, mutex, condition variable | put, get_all | order, no duplicates, known losses, nothing kept for ever |
| Wrapper `sensors_wrapper.c` | per driver an entry of slots (client, status bits, rate); per client its slots | init, activate, set_delay, close, data | a driver runs while somebody wants it, at the fastest rate wanted; data goes to those who want it |
| HAL and list `sensors_module.c`, `sensors_list.c` | two parallel arrays and a count | register, open (init all, drop failures), route by handle, poll, close | each sensor initialised once, the failed ones gone, requests reach the right one |
| Fused clients `sensors/wrappers/{ak*,akmoss,inemo,lsm303dlhx_compass}*.c` | enable mask, requested delays, sample flags | as a sensor; data of several drivers | drivers run while any fused sensor is enabled, at a rate that suits all |
| Compositions `lsm303dlh.c`, `ak897x.c`, `mpu3050.c`, `bma250_input.c` | user masks, active flags, delay requests | activate, set_delay, internal requests | shared devices run while used, failures are undone |
| Other drivers `sensors/*.c` | descriptor, applied delay | activate, set_delay, read | what is noted as applied is applied |
| `sensors_config.c`, `sensors_input_cache.c`, `sensors_sysfs.c`, `sensor_util.c` | a list of keys, a list of devices | read, get_key, destroy; lookup | right key, no stale entry |
| `libs/libakm` | library context and mutex, sample buffers, calibration | init, start, set vectors, get | buffers in order, context alive while used |
| vendor stand-ins in `libs/*` | none | stubs | nothing to check |

Interactions. Control calls come one at a time from one framework thread; `poll` is another
thread; each driver has a thread of its own. A wrapped driver's calls run with
`wrapper_mutex` held, and its thread takes `wrapper_mutex` and then `fd_mutex` before it
hands data up. Suspend and resume go through `mode` and the condition variable, and through
the control pipe when the thread may be in `select`. Only the settings file of the open AKM
library is persisted. There are no timeouts but the worker's sleep, and no retries but the
framework's: a call that fails is not repeated by the code.

The hard behaviours are listed, each at its line, in `PROJECT.json` under `hazards`.

## 2. Modules

| Module | Models |
|---|---|
| `SensorsWorker` | `sensors_worker.c` |
| `SensorsFifo`, refining `EventChannel` | `sensors_fifo.c` and `sensors_module_poll` |
| `SensorsSelect`, with an instance of `SensorsWorker` | `sensors_select.c`, a driver's activate and close, the kernel's files |
| `SensorsWrapper` | `sensors_wrapper.c` |
| `SensorsHal` | `sensors_list.c` and open, route, close of `sensors_module.c` |
| `SensorsConfig` | `sensors_config.c` and the readers of the drivers' axes |
| `SensorsInputCache` | `sensors_input_cache.c` and the kernel's input devices |
| `SensorsOpen`, of the three above | the opening of the HAL with its configuration and devices |
| `InputDrivers` | the drivers of one sensor and one device: twenty-one of `sensors/*.c` |
| `SharedDevices` | `ak897x.c` with `bma250_input.c` or `bma150_input.c`; `mpu3050.c` |
| `Lsm303dlh` | `lsm303dlh.c` |
| `FusedSensors`, which extends `SensorsWrapper` | the six modules of fused sensors in `sensors/wrappers` |
| `AkmLibrary` | `libs/libakm`: buffers, offset calibration, start and stop, the put of `akmoss_sensors.c` |
| `MC*` | the TLC instances |
| `SensorsCoreProofs` | theorems about the worker, the FIFO, the HAL and its opening |
| `SensorsSelectProofs`, `SensorsWrapperProofs`, `FusedSensorsProofs`, `InputDriversProofs`, `SharedDevicesProofs`, `Lsm303dlhProofs`, `AkmLibraryProofs` | theorems about the module of that name |

`SensorsSelect` shows once how a select thread runs against its driver: the callback holds
`fd_mutex` on the driver's current descriptor, and a `set_fd` waits for it. The modules of the
drivers take that over and let a read be one step, so that they can follow what a driver does
with its descriptor, its flags and its samples instead.

Mutated forms of an operator stand beside it (`StoredOverwriting` beside `Stored`): each is
a plausible slip that the property named for it in `PROJECT.json` detects.

### SensorsWorker

A section of code under `mode_mutex` does not block inside, so it is one action. The thread
is a program counter: `loop` (about to read the mode), `wait` (read SLEEP, about to lock
again), `waiting` (in `pthread_cond_wait`), `poll`, `polling`, the load of `delay_ns`,
`asleep`. `pthread_cond_wait` may return unsignalled (`SpuriousWake`). A 64-bit field is two
halves; with `TornAccess` an access may also take a half at a time, as on a 32-bit build, the
load outside the mutex and the store inside it. Histories: `late` counts the callbacks
begun since the mode left RUNNING, `requested` holds the delays set, `missed` says that the
mode last left SLEEP while the thread stood between its two critical sections.

### SensorsFifo

`get_all` waits first and looks afterwards (line 61 has no predicate), so put is one action
and get_all is two, the wait and what follows the wakeup. The poll loop is the return to
`entry` after a wakeup without events. A few tagged events, each put at most once, show
order and losses; `Plain` is any other event. What was returned is a set of copies that say
where each lay, so that order is a comparison of positions (`Before`). `EventChannel` is the promise: a bounded
channel with neither threads nor signals that loses what finds it full and what does not fit
the buffer of a return.

### SensorsSelect

The worker's callback becomes the steps of `sensors_select_callback`: copy `fd` under the
lock, block, see the pipe or the data, take the two mutexes, compare, read. The worker is an
instance of `SensorsWorker` whose actions are conjoined to those of the caller, so that every
behaviour is one of the worker's. The HAL thread runs a driver's activate as a list of calls
(`todo`), with other threads running in between; `setup`, chosen at the start, says whether
`wrapper_mutex` is held during them and which of the two orders of suspend and set_fd found
in the drivers is used. A file is closed, quiet or ready; `open` may return any free number,
so a number is used again. A `select` blocked on a descriptor that is closed under it keeps
the old file (`stale`).

### SensorsWrapper

Each function holds `wrapper_mutex` throughout, and data arrives with it held, so a function
is an action. Drivers in `Unreliable` may refuse any call. The scan of `sensors_wrapper_init`
is modelled by what it picks: for each match in turn the first driver of the type that is
initialised already or initialises now; the scan ends at a match nobody serves.

### SensorsHal, SensorsConfig, SensorsInputCache, SensorsOpen

Constructors register in any order. `open` is not atomic: each turn of
`sensors_list_foreach_api` is a step, which shifts both arrays when the sensor's init fails.
`SensorsOpen` gives an init what it rests on: the entries the file left, the device found
under a name, by a lookup that may read the directory while devices come, go and answer or
not. The configuration is a list of entries whose head is not reset when they are freed; a
name is a sequence of parts, since a stored key matches when it is a prefix of the one asked
for. An array of the file that is too short leaves its last elements unwritten (`Garbage`). One
that is too long has been written one int beyond the caller's array before `parse_value` counts
it: where that int was in use this is noted as `overrun`, where it was padding the lookup fails.
The first use of freed entries is noted as `corrupt`. Nothing is followed beyond either.

### InputDrivers

A driver is what its functions do: `init`, `activate`, `set_delay` and `close` are lists of
named steps (`"open"`, `"set_fd"`, `"resume"`, `"write_rate"`), written down in the order
of the code, and `read` is a function of the events it finds. `HalStep` gives each step its
effect and says whether its failure ends the call. Any open, attribute write or library call
may fail, and so may lookups during `init`. The fields of `struct sensor_desc` are
split in two, `own` (delay, library, path), which only calls change, and `d`, which a read may
change. What a call did that the promises make an exception of is kept in `hist.odd`
(`"failed"`, `"paced"`, `"enabled_twice"`, `"start_failed"`, ...) as long as it excuses
something. Between two steps the thread may read. The kernel
sends an axis only when it changed and a packet of one event more than it has axes; a read takes
any number of the events that wait, so packets arrive in parts. `hist.put` sets what an event
says beside what was measured when its packet was sent.

### SharedDevices

Several sensors share one descriptor, one worker and a set of active flags that the read looks
at without the lock of the writer: looking at a flag and putting the event are two steps. The
accelerometer's driver is its array of requests (Android's and the compass's), the rate it
last wrote, the handle it gave out, and whether an init has found its device (`hal.acc`): one
that never did leaves its select worker and its file unset, and `bma250_input.c` then calls
through null when an orientation sensor asks for a rate (`NullCall`). Opens of the HAL call that
init too; its place among the sensors makes no difference, so it is taken to be the first. The worker is set up by the first sensor that finds no
flag set; a sensor that is not found notes its flag all the same, and the calls through
null pointers that follow are a step into `crash`.

### Lsm303dlh

The calls of the HAL hold `lock` to their end and are lists of steps that a callback waits
out. A callback has read its event (`reader`) before it takes `lock`, with `fd_mutex` held:
the HAL's `set_fd` of that device then waits for the callback, which waits for `lock`. The
module does not forbid this; `DeadlockOnlyDroppingFile` says in which calls it can happen.

### FusedSensors

Each module is one client of the wrapper, next to a plain accelerometer that shares a driver;
`FusedSensors` extends `SensorsWrapper` and conjoins its actions to the steps of a module. A call
is a list of steps; those that call the wrapper are its actions, and an unreliable driver may
refuse each init, activate and set_delay in them. A refused rate stays noted in the wrapper and
is not tried again until the smallest request changes; `paced` is set while a driver has accepted
its last `set_delay`. The callback first lists the sensors it will look at, then looks at
each bit of the mask, then puts: the HAL thread may write the mask in between. The AKM library
is told by its calls (`lib`), inemo's engine by its runs.

### AkmLibrary

Every use is under `AKL_DASH_Lock`, so a sample is a step. Vectors are replaced by what the
properties tell apart: of an acceleration its age, of a field the offset it was corrected by,
of the fields held for the calibration their number. Fields are counted from the last change
of the offset up to `FieldsCounted`, the largest number `OffsetsAgreed` compares with. An estimate is any of `Offsets` or a
failure of the geometry. What `start` does not write (status, direction, the flags of
`akmoss_sensors.c`) stays. The settings of a measurement (`nv`) lie behind the block that
`AKL_DASH_Init` allocates, which has room for the parameters alone: where that memory is `shared`
other code may have left any of `Elsewhere` there whenever the library reads it, and
`"overwritten"` in `hist.odd` notes that the library read something else than it had written.
What the library's own writes do to that other code, or to the allocator, is not followed.

## 3. Runs

| Run | Shows |
|---|---|
| `worker` | after suspend at most one more callback begins; a thread is stuck only if the broadcast fell between lines 45 and 53; otherwise it polls, and destroy returns |
| `worker_lost_wakeup` | the README of the repository promises that a resumed worker polls: refuted |
| `fifo` | order, losses, the refinement of the channel, and that a missing predicate on the wait costs delay but no event |
| `select` | behind the wrapper and outside it: no read of a closed descriptor, none after disable, no leak; data is read, the thread sleeps after disable; enable and disable return, and destroy does when it finds the thread outside its callback |
| `wrapper` | two clients, and two drivers of one type of which the first may fail: a driver runs while wanted, at the fastest rate, heard by those who want it |
| `hal_open` | each sensor initialised once although the list shrinks; survivors in order and reached; on its device; freed entries are used only after an error or a close; the first matching entry of the file decides, and only one with too many values is written beyond the reader's array |
| `hal_reopen` | refuted: a request for a present sensor is routed. After a close and a second open the plain wrapper clients are dropped, because `sensors_wrapper_init` refuses a client it knows |
| `drivers` | no descriptor is lost, what the framework was told is so, the chip is off when disabled, events say what was measured, averages and the last distance are right; each with the exceptions the code has |
| `fused` | shared drivers run exactly while a fused sensor or the plain one is on; the smallest rate is asked for, and a driver that accepted it is no slower, although the accelerometer, and the magnetometer of `ak0991xna_sensors.c`, may refuse any init, activate and set_delay; the library runs while a sensor is on and gets no sample otherwise; no sample enters two runs of an engine |
| `devices` | the shared worker runs for whoever wants it; the request to the accelerometer lasts as long as an orientation sensor is on; which missing sensor or accelerometer leads to a crash |
| `lsm303dlh` | devices run for all who want them although any call fails half way; rates serve both users; where the two locks can deadlock |
| `akmlib` | samples lie in order, an offset is used only after estimates agreed; what a restart keeps; an offset found is never saved, and the settings change otherwise only where other code wrote in the memory behind the handle |

A property of a run may be a conjunction of parts that belong to one promise (`DevicesServe`); each part is a definition
with its comment above it, and TLC's trace shows the state in which one fails.

The refuted properties are quoted with the text they come from under `findings`. Where the
code keeps a promise only under a condition, the property states the condition, so that a
change that widens it is seen: `FilesHeld` (a light sensor enabled twice, or a library of
`ak0991xna.c` that does not start, loses a descriptor), `EnabledRuns` (`sys_als.c` returns
success for a refused enable), `ChipOnlyWhileEnabled`, `ReportsSample` (axes whose change was
dropped by a disable), `DividesOnlyReenabled`, `CrashesOnlyIfMissing`,
`PacedForAll` (a driver that refused its last rate runs at another), `AxesFromFirstMatch` (one
element too many is written), `SettingsKeepFirst` (memory that is not the library's),
`DeadlockOnlyDroppingFile`, `StaleOnlyIfEnabledTwice`, `FreedUsedOnlyIf`. Three further
observations have no run. The comment at `sensors_wrapper.c:258` says delays are applied to
enabled sensors; the code applies them always. On a 32-bit build a torn `delay_ns` may be one
nobody set (the theorem `WorkerSleepsRequestedDelay` assumes atomic accesses). A sensor's
close joins with `wrapper_mutex` held and may never return, but `sensors_list_destroy`, its
only caller, is called by nobody.

Bounds. Worker: one control thread, three delays whose halves tell every mixture apart; the
calls are unbounded. FIFO: length 2 with three tagged events, so that it is empty,
partly full, full and overfull, with buffers shorter and longer than the FIFO. Select: two descriptor numbers
(one that is used again, one that is not) and room in the pipe for one call beyond a backlog.
Wrapper: two clients, of which one matches two types, three drivers, two rates: enough for a
driver with no, one and two clients and for a minimum that goes up and down. HAL: three
sensors, two of them with one handle, in a list of three, two opens, one change of the devices,
four files that hold each kind of line in both orders where it matters, and arrays too short and
too long; the list that is too
short, and the clients of the wrapper, are in `hal_reopen` and the theorems. Drivers: two descriptors, two
values an axis, two pressures and an average of two (16 in the code), a queue of five events: a
packet and most of the next; two delays where set_delay compares. Fused: one driver of each
type and a second magnetometer for `ak0991xna_sensors.c` alone, of which the accelerometer and the
second magnetometer are unreliable; two rates; two sensors of each module; the plain sensor is given
a rate beside `akm6d` and `ecompass`, which choose theirs; `MAX_SENSOR_CONNECTIONS` 6 instead of 4
because all six modules are clients although one is used; `FRC_TRIGGER` 0, so that every bad sample
forces a calibration. Devices: no delay, one below and one above the accelerometer's
`minDelay`; two opens (one for `mpu3050.c`); packets come where the flags matter and no accelerometer is behind (`Sending`).
Lsm303dlh: a rate of the accelerometer and one of the compass, on either side of the mode's limit; the accelerometer refuses writes, the
opens of any device fail. AkmLibrary: three offsets of which two agree, one other that a file holds and one that
other code leaves; buffers of 2, 2, 4 and 2 (32, 8, 20 and 4), which fill, are half emptied and
overflow; one set-up. Every bound is a CONSTANT of its module.

Deadlock. `worker`, `worker_lost_wakeup` and `fifo` check it. The others stop where the system
does: all clients or devices closed, no more opens, a worker nobody resumes, a crash, the deadlock of `lsm303dlh`.

Fairness. Threads are scheduled (weak fairness of the worker's, the poller's and the caller's
next step). A thread that finds a mutex free again and again gets it (strong fairness of the
locking steps; POSIX does not promise it, but the calls of the HAL are far apart). No call,
sample or spurious wakeup is assumed, except inside `QueuedIsReturned`, which says what a
sensor that goes on producing and a framework that goes on polling guarantee. The other
modules state safety only: their calls end when their lists of steps do, and whether a
thread gets to run is the question of `worker` and `select`.

## 4. Theorems

TLAPS proves, for all values of the constants that satisfy the ASSUMEs of the modules:

| Theorem | Inductive invariant |
|---|---|
| `WorkerTypeOK` | itself |
| `WorkerAtMostOneLatePoll` | `LateInv`: with the mode off RUNNING, a thread still about to poll has not polled late yet |
| `WorkerStuckOnlyIfMissed` | `DeafInv`: a thread on its way to the wait, or in it unsignalled, while the mode is not SLEEP, has missed the broadcast |
| `WorkerSleepsRequestedDelay` (atomic accesses) | `DelayInv`: the delay in force was requested too |
| `FifoTypeOK`, `FifoWokenHasData` | themselves: whatever signals also leaves an event, and only the poller takes any |
| `FifoOrderedOnce` | itself, with `sent` a sequence of tagged events: what lies in the FIFO was put after what was returned, and each at most once |
| `FifoImplementsChannel` | `FifoTypes`: each step maps to a step of `EventChannel` or a stutter |
| `HalTypeOK`, `HalEachInitedOnce` | `HalInv`: the arrays are parallel and without repetition; during an open the sensors of the list at its start are those still listed and those that failed, and just the failed and the passed ones have been initialised |
| `HalSurvivorsReached` | `OrderInv` besides: what is listed keeps the order of the list at the start of the open |
| `OpenImplementsHal` | none: every step of `SensorsOpen` is one of `SensorsHal` or leaves its variables |
| `OpenDeviceFound` | `OpenedInv`: what the cache holds under a name was once a device of that name, and a sensor that was initialised got what the cache or the directory said |
| `OpenFreedUsedOnlyIf`, `OpenAxesFromFirstMatch` | `ConfigInv`: when the head of the list is not reset and an open fails or ends, the entries are the freed ones; otherwise they are those of the lines read, in order, so that what a lookup returns, or writes beyond an array (`StoreSound`), comes of the file's first match |
| `SelectReadsOpenFd`, `SelectQuietAfterDisable`, `SelectOpenFdsHeld` | `SelectInv`: who holds each open descriptor, what the callback knows at each step, and that an inactive driver has no descriptor |
| `WrapperTypeOK`, `WrapperAttachedBothWays`, `WrapperRunsWhileWanted`, `WrapperAtFastestRate`, `WrapperHeardByWanting`, `WrapperStopsOnlyUnused` | `WrapperInv`: the two records of every attachment agree and an entry uses as many slots as it has members (so a slot is left for each client that matches and is not attached yet); an active slot belongs to an enabled client; a driver that accepted its calls is on exactly when a slot is active, at the smallest rate of its slots |
| `FusedInvariant`, `FusedDriversFollow`, `FusedPacedForAll`, `FusedNothingStray`, `FusedNoSampleTwice` | `FusedInv`: `WrapperInv` of the wrapper under the modules; every call is at one of its stages, each named by the steps that are left, and the mask, the client of the wrapper, its slots at the drivers and the library are as that stage says; a callback in progress holds at most one event of a sensor disabled since it looked |
| `InputInvariant`, `InputFilesHeld`, `InputDeviceFollows` | `InputInv`: what is left of a call is a tail of its driver's list (`InitSteps`, `OnSteps`, `OffSteps`, `DelaySteps`); `OnStage` and `OffStage` say for each next step where the descriptors, the open files, the mode and the chip are; between calls the driver is `Settled`; the chip or library of a disabled sensor is on only with a failure or an early delay on record (`ChipInv`); the delay noted by `sensor_xyz.c` is the device's except just before the note (`RateInv`) |
| `InputLightsReadTheirFile` | `InputInv`, from which a light sensor's worker runs only on an open file: between `suspend` and `close_fd` the mode is already SLEEP |
| `AkmRestartsSound` | `RestartInv`: what `nv` holds while a measurement runs is the file's first offset or the default, or one of `Elsewhere` once the memory was seen overwritten; a status written in it is backed by an offset, and a flag that was not carried over a stop has a sample of its driver in the buffer; a shift loses no sample, so none of these buffers gets empty again |
| `SharedCrashesOnlyIfMissing` | `CrashInv`: while the first sensor is listed, a sensor noted as init, one that may be called, a call under way and one that is come to after the first each mean that the worker is set up; `AccInv`: a `bma250_input.c` that was never set up holds no request but the one that crashed, since Android does not reach it |
| `SharedRequestsServed` | `RateInv`: the compass has the handle exactly while its slot holds a request, and the rate written serves both slots (`ConfigDelayServes`, by arithmetic for every delay); `AskInv`: at each step of a call of the compass, what it has asked for so far follows from the flags it has written so far |
| `SharedWorkerServes` | `RunInv`: at each step of a call the worker runs or not as the flags before the call and the steps done say; `LateInv`: a callback that puts for a sensor whose flag is off read the flag before it was cleared |
| `AkmOffsetsAgreed` | `OffsetInv`: a buffer holds its samples in order up to the field count, it holds three fewer offsets than the fields counted, and the fields since an offset was found were corrected by it |
| `LsmDevicesServe`, `LsmRatesServe`, `LsmDeadlockOnlyDroppingFile` | `LsmInv`: `Stage` names every place a call can be at, with the steps it has left and what each device then is to its users: settled, or with one of them coming or going; a rate may fail to serve a delay only before the update that follows (`RateInv`), and the devices may differ on the compass's delay only while they are told (`AskedInv`) |

The wrapper's theorems rest on `WiringAssumption`: no client names a type twice and no type
has more clients than an entry has slots. The code checks neither; the wrappers under
`sensors/wrappers` keep to both. The calls of one client are shown to touch its own slots
only (`TouchSlots`), which is what the other steps use.

A call of `Lsm303dlh` is a list of up to ten steps, and a call that fails half way has others.
Its proof writes a list as a step before a list (`Then`), so that each stage is named by what
it has left, shows that every step leads from one stage to another (`StageGoesOn`: one lemma
for each stage of the compass, and one for the enable and one for the disable of a device that
both the framework and the compass use), and says once what each kind of step makes of a
record (`StepChanges`). A device's stage speaks only of the user that comes or goes: the other
one, whose calls are over, finds it `Settled` throughout. Nothing is assumed but that the
delays are natural numbers.

The theorems about `InputDrivers` hold for each of its twenty-one drivers. Each driver's lists
are looked up once (`ApiShapes`) and what may follow each step once (`OnLists`, `OffLists`,
`DelayLists`, `InitLists`); after that the proof has one lemma for each kind of step (a file
opened, handed over, closed, a thread resumed or suspended, a chip written, a call given up),
which speaks of all drivers that take it. The constants are assumed to be what they are in the
code: descriptors are positive, samples and delays natural numbers, pressures positive.

A call of `FusedSensors` runs steps of the wrapper. What they do to the wrapper is taken from
the lemmas of `SensorsWrapperProofs`, so the proof speaks only of what the module adds: its
mask, its requested delays, its engine and its callback. It rests on `WiringAssumption` as well.

The theorems about `SensorsOpen` assume that names and files are as `ConfigAssumption` says
(a line of a file is an entry with a key) and that the directory of devices is finite
(`CacheAssumption`). The library's induction theorems take an operator, which no installed
prover instantiates; where an induction is needed (the entries read so far, the maximum over
the estimates) the proof takes the least counterexample instead (`LeastNatural`).

A proof changed the model once: `AkmLibrary` counted the fields after a change of the offset
up to `AKFS_HOBUF_SIZE + 3` only, which is too few to order an acceleration buffer longer than
that. With the lengths of the code the property was false of the model, and true of the code.

Another changed the shape of a model, and nothing it says: `FusedSensors` held the wrapper as
an instance, whose definitions the provers meet under other names than the theorems about
them. It now extends `SensorsWrapper`, so that those theorems are theorems about it.

Only model-checked: everything that says "eventually" (the provers do no liveness), and two
properties of `InputDrivers`, `ReportsSample` and `EventsBacked` (of the latter, the part about
light is proved). They compare what a read hands up or adds to an average with the events of
the packets, that is, with what a fold over a sequence of any length computes, and no
induction over data is in reach of the provers.

## 5. Not modelled

- The stand-ins for vendor libraries in `libs/*`, which hold no state. Their callers'
  modules let each of their calls succeed or fail.
- Formatting, logging, paths and the scaling of values. `sensors_sysfs.c` and `sensor_util.c`
  have no state of their own; what remains of them is a write, an open or a lookup that may fail.
- The floating-point geometry of the AKM library: the sphere through four points, the norm,
  the rotation. TLC has no such numbers; an outcome is any of the offsets or none.
- The length of sleeps, and with it the rate at which samples really come.
- Memory that is never freed, the layout of structures, and what a write outside an object does to
  whoever owns that memory (`overrun`, `nv`): that it happens, and when, is modelled; reads of freed or unwritten memory
  are modelled where a step can reach them (`corrupt`, `Garbage`, `"not written"`, `crash`).
- A control pipe filled by thousands of notifications, and a write to it that fails.
- What the flags of `inemo.c` promise across a disable: they are kept, as in the code, so the first run
  after an enable may take a sample from before it.
- `sensors_fifo_deinit` under threads that go on putting: after a close the mutex and the
  condition variable they use are destroyed, and what follows is not defined by POSIX.
- `AKL_DASH_Deinit` without the lock, and every other thing a sensor's close would race with:
  nothing calls it. The modules of the drivers call it at rest, to show what it leaves.
