# Repeater-receiver: specification, model checking and proofs

This directory holds TLA+ specifications of the Repeater-receiver, the software
set-top box of an amateur-television repeater. Paths such as
`src/src/state/state.go:416` are relative to the directory that holds both the
repository (`src/`) and this project (`tla/`).

Contents: [the system](#1-the-system) · [the modules](#2-modules-and-code) ·
[the runs](#3-the-runs) · [what disagrees with the documentation](#4-findings) ·
[the proofs](#5-the-proofs) · [limits](#6-what-is-not-shown) · [plan](#7-plan)

## 1. The system

`main` (`src/src/main.go`) kills stray `tsp` processes, reads `config.yaml`, looks
for DVB adapters and starts one goroutine with a `StateMachine` for each `dvb`
entry, a web server, a UDP sender and a signal handler. An adapter listens
with one `tsp` process (TSDuck), analyses the signal with a second one, streams
RTP with a third, polls the frontend while it streams, and starts over when the
lock is lost.

| component | source | state it keeps | operations |
|---|---|---|---|
| Adapter state machine | `src/src/state/state.go`, `src/src/helpers/helpers.go` | `OsdStats`, `Service`, `tspCmd`, `AdapterStatusMap`, files `adapter(x).json/.txt`, `service(x).json` | `Start`, `AwaitSignal`, `FindServices`, `GetService`, `StartStreaming`, `MonitorSignal`, `monitorSignalLoop`, `handleLockLost`, `updateAdapterStatus` |
| Process life cycle and shutdown | `src/src/main.go`, `state.go` | `WaitGroup`, `StopMonitorChan`, signal channels, nested `Start` calls | start, relock, signal, close, `os.Exit`, return |
| Start-up | `src/src/main.go`, `src/src/config/config.go` | stray processes, old files, `TmpDir`, `availableAdapters` | `KillRunningTSPProcesses`, `ReadConfig`, `CheckAdapters`, `SetupTempDir` |
| UDP lock report | `src/src/net/net.go` | the `statuses` of a round | `SendLockStats` |
| OSD web server | `src/src/osd/osd.go`, `src/src/static/*.html` | one goroutine per connection with a copy of what it shows; `AdapterStatusMap` is read | root page, adapter page, two event streams |
| Frontend statistics | `src/src/frontend/frontend.go`, `state.go` | `Signal`, `SNR`, `BER` of `OsdStats`, attempts, `lockCount` | `GetStats`, `getStatsWithRetries`, `updateOsdStats`, `clearOsdStats` |
| Service extraction | `src/src/service/service.go` | the record being filled | `ExtractService`, one pass over the PIDs |
| Tuning arguments | `fontendCmdArgs` in `state.go`, `config.go` | `FreqOffset`, `sm.Config` | validation of an entry, arguments of `tsp` for each type |
| System monitor | `src/src/systemstats/systemstats.go` | none between calls | `GetSystemStats`, `formatBytes` |
| Build and image scripts | `src/build.sh`, `src/scripts/*.sh` | none | packaging |

How they interact:

* the goroutine that runs `Start` and the one that runs `monitorSignalLoop` share
  the fields of the `StateMachine`, partly under `sm.Mu`, and both write the
  adapter's entry of `AdapterStatusMap` from copies taken earlier;
* the adapter and its `tsp` processes communicate through files that the adapter
  polls, through exit statuses, and by contending for the frontend;
* the UDP sender reads `OsdStats` of every adapter, one after another; the
  repeater core, another program, switches to a stream on what the report says;
* a goroutine per open page reads `AdapterStatusMap` (or the figures of the machine) once a
  second and writes to its connection for ever; the browser reconnects when that ends;
* a termination signal is delivered to the handler of `main` and to every
  `MonitorSignal`, and each of them closes the same channel;
* an instance that ends leaves `tsp` processes and files to the next one.

What is hard in it, and what makes each part correct:

| part | hard behaviour | correctness |
|---|---|---|
| adapter | two goroutines publish old copies; `lockLost` is unbuffered; `Start` is called inside `Start`; files seen half-written; calls that fail half-way | no lock is reported unless there is a stream; the entry of the OSD is current and names the streamed service; one poller; what is streamed was analysed in this round; a loss leads back to listening, and a signal that is steady from then on to a stream |
| shutdown | same signal received several times, channels nil or closed already, relocks while stopping | nothing ends the process before a signal; a signal always does; an exit with status 0 leaves no stream but those begun after the handler had passed their adapter |
| start-up | crash at any point, adapters plugged and unplugged between starts, processes that end during the kill loop | older processes are gone before adapters tune; older files too; an entry always has an adapter |
| pages | handlers of lost connections go on, a sample fails, the receiver restarts with an empty table | a page never returns to older news and ends up with the last |
| figures | four ioctls per reading, any of which fails; raw values of any size; the lock comes and goes | bars within 0-100, all from one reading, and a recent one |
| service | PIDs in any order and number | each PID is shown with its own type; the clock is found |
| tuning | unsigned offset, repeated for three processes a round; types listed in two files | each `tsp` tunes the configured input; what is accepted is supported |
| monitor | a loop that indexes a string of suffixes | there is a suffix for every counter, and the figure is right |
| report | adapters change between samples, datagrams are lost | the core never switches to an adapter that does not stream, and has heard of a loss before the adapter can lock onto something else |

`PROJECT.json` lists every hazard at its line with the properties that guard it.

## 2. Modules and code

| module | what it models | implements | proofs in |
|---|---|---|---|
| `SetTopBox` | what one adapter promises (abstract) | | `SetTopBoxProofs` |
| `Rounds` | the order of a round, and the process `sm.tspCmd` refers to (abstract) | | |
| `SignalMonitor` | what the monitor loop does with its readings (abstract) | | |
| `StateMachine` | one adapter in detail | `SetTopBox`, `Rounds`, `SignalMonitor` | `StateMachineProofs` |
| `Shutdown` | how the process ends, with N adapters | `Rounds`, by each adapter until the first signal | `ShutdownProofs` |
| `Startup` | one instance after another | | `StartupProofs` |
| `LockReport` | N adapters (each a `SetTopBox` by construction), sender, network and repeater core | | `LockReportProofs` |
| `Pages` | event streams and browsers | | `PagesProofs` |
| `Figures` | signal, SNR and BER | `SignalMonitor` | `NumbersProofs` |
| `SystemStats` | figures of the monitor page | | `NumbersProofs` |
| `ServiceInfo` | `ExtractService` | | `TspProofs` |
| `Tuning` | validation, arguments of `tsp` | | `TspProofs` |


Where the modules meet: what `StateMachine` publishes as `board` is what `Pages` numbers as
`published`; the report that `CheckForPIDFile` reads as a whole in `StateMachine` is taken apart in
`ServiceInfo`; its `Reading` and `ReadingFails`, one step each, are the four questions of `Figures`, and both
modules are shown to implement `SignalMonitor`; the adapters of `Shutdown` go the rounds of `Rounds`, as does
`StateMachine`; its starts of `tsp` get their arguments in `Tuning`; and `SampleFails` of `Pages` is a failing
`GetSystemStats` of `SystemStats`.

`MC*` modules instantiate these for TLC. Every mutant (an operator whose comment
says so) is a plausible mistake in the definition beside it; it is never used by
a specification, only put in place of that definition to see that a property
notices.

### SetTopBox

The abstract specification of an adapter: `phase` (`LISTENING` … `STOPPING`, the
constants of `state.go:22-28`), the two flags everybody reads (`lock`,
`carrier`), `misses` and `up`. It says in which order phases follow each
other, that the stream is given up after exactly `LossLimit` unlocked readings in a
row, and that the flags are dark before the adapter listens again.

### Rounds and SignalMonitor

Two more abstract specifications, each with two implementations, which it keeps in agreement.

`Rounds` is an adapter as those see it who end the receiver: `place` in the round (listening, analysing, the streaming `tsp` started,
monitoring, ended) and `command`, the process that `sm.tspCmd` refers to and that `StopStreaming` therefore reaches. It says
that the analysing or streaming `tsp` of the place, and no older one, is what can be stopped, and that an adapter that monitors never ends the process
itself. `Others` says whether somebody else may end it: nobody in `StateMachine`, which is alone, anybody in `Shutdown`.

`SignalMonitor` is the monitor loop by what it makes of its readings: `attempts`, `misses`, `locked`, and the `place` that tells
whether there is a loop. A failed reading is tried `MaxRetries` times and is not a miss; `LossLimit` misses in a row are a loss, and
the locks are withdrawn after it; after failed readings they are not. Unlike `SetTopBox` it holds of `StateMachine` without any
condition on what fails.

### StateMachine

One adapter, one goroutine step per stretch of code that nothing can interrupt
(a mutex region, a file, process or channel operation).

| TLA+ | code |
|---|---|
| `mainPc` with `ret`, `mainSnap` | where `Start` is; `updateAdapterStatus` and its local copy |
| `loopPc`, `attempts`, `lockCount`, `loopSnap` | `monitorSignalLoop` and `getStatsWithRetries` |
| `osd`, `service`, `tspCmd` | `sm.OsdStats` (state, `Lock`, `CarrierLock`, the figures as `tuned`), `sm.Service`, `sm.tspCmd` |
| `board` | `AdapterStatusMap[sm.AdapterIndex]` |
| `adapterJson`, `adapterTxt`, `serviceJson` | the working files, with the torn and empty contents a reader can meet |
| `analyser`, `target`, `streamer`, `air` | the `tsp` processes and the transmitter (external) |

`AwaitSignal`, `Listen`, `Listened`/`ListenFails` are `AwaitSignal`; `FindServices`,
`GetService`, `Analyse`/`AnalyseFails` are `FindServices`; `Modulation`,
`CheckForPIDFile`, `StartStreaming` are `StartStreaming`; `MonitorSignal`,
`OpenFrontend`, `SelectDefault`, `ReceiveLockLost`, `HandleLockLost`,
`DeleteAdapterFiles` are the rest of the round. The loop's actions are
`Reading`, `ReadingFails`, `LoopStopping`, `ClearOsdStats`, `LoopSnapshot`,
`LoopPublish`, `LoopSleeps`. A transport stream stands for the ID of its first service; those
in `Clear` have an analysable service. `service` is the ID and name in `sm.Service`, `pids` the
stream its PIDs and types are from: `GetService` changes only the first. A service whose name is no string, which leaves a new ID beside an old
name (`state.go:576-586`), is left out. `StatsFail`, `ExecFail` and `Leftovers`
switch on failing frontend reads, failing file and process creation, and
working files left by a crash.

### Shutdown

`N` adapters reduced to where their goroutine is, the nested `Start` calls on
its stack (`frames`), `StopMonitorChan` (`nil`, `open`, `closed`), the signal that
may wait in its `sigChan`, and the `tsp` it runs; the WaitGroup's counter; the handler
of `main`, which closes and stops one adapter per two steps, interleaved with everything
the adapters do; `outcome` tells how the process ended. `late` is a history variable, kept only to state `OrderlyExit`: the
stream of the adapter was begun after the handler had passed it.

### Startup

One instance after another. `main` is one action per step from `Launch` to
`AllStarted`; what the running adapters do to their surroundings is reduced to
starting a `tsp`, writing files, and `HandleLockLost`; an instance ends by
`Crash`, `Exit` or `Reboot` of the machine at any moment. `tsps \ own` are the
processes of earlier instances, `killed` those that SIGKILL was sent to, `files`
the working files with the directory they are in (`"cwd"` while `TmpDir` is
empty). `Links` is `generateAdapterLinks` of `osd.go`.

### LockReport

Composes `N` instances of `SetTopBox` with `SendLockStats`, a network that holds one
datagram, and the repeater core. `Sample` is one critical section of the loop
over the adapters, `Send` the write and the sleep.

Whether a loss is noticed in time is about time, so `Tick` is half a second. The
assumptions are those under which such a promise can be made at all: a `Sleep` lasts
at least as long as it says (`rested` enforces it between two readings and before
`lockLost`), the sender does its work without delay once its sleep is over, and a
datagram arrives at once or never. `conn.Write` failing counts as a loss, as
in the code. A report that is sampled for several adapters is still taken
between two ticks, but any adapter may act between two samples.

### Pages

Each connection of a browser has a handler `h` with its own `copy`, a bounded `wire`, and no way back:
`Read` is the locked copy of the entry (or `GetSystemStats`), `Write` the `Fprintf` and
`Flush`, and there is no step that notices a browser that has gone. `Write` to a connection that
nobody reads changes nothing, since its error is dropped; it blocks while the buffer is full. `SampleFails` is the error
of the monitor page: before the first event `http.Error` is a refusal, which an `EventSource` does
not retry, later only the end of the response. What is shown is reduced to its age: entries are
numbered as they are published, across instances. `Visit`, `Deliver`, `EndOfStream` and `Lose` are the
browser and the network, `Crash` and `Restart` the receiver.

### Figures

`ReadStatus`, `ReadSignal`, `ReadSnr`, `ReadBer` are the four ioctls of `GetStats`, `IoctlFails` an error
at any of them with the retry of `getStatsWithRetries`; `UpdateOsdStats` joins `updateOsdStats` and the
count, which the same goroutine does without a step of another in between that writes these
fields; `ClearOsdStats` is the loss. Every figure carries the number of the call that read it (`by`), which the code
does not have; nor has it `inherited`, a history variable that remembers which figures a loop found when it began because the one before gave up
without clearing them. `locked` stands for both lock bits; the other three are only shown.

### ServiceInfo

`Decode`, one `NextPid` per turn of the loop, `EndOfPids`. A description is the set of the marks that
`strings.Contains` looks for, so that their order in the `switch` matters as in the code; PID 0 stands for "none", as there.

### Tuning

`Validate` is the struct tags that concern tuning, `FontendCmdArgs` the switch with uint32 arithmetic
modulo `Word`, called from its three places; `StartAgain` is the next round, with the stored entry as it then is.

### SystemStats

`Call` is one of the three library calls, `FormatBytes`, `Turn` and `Sprintf` the function of that name
with the widths of its integers and `fmt`'s rounding to one decimal, called for the bytes sent and then for those
received. The rounding may show 1024.0 of one suffix instead of 1.0 of the next; `NetworkIsRight` allows it.

## 3. The runs

`tlc -config <run>.cfg <module>`; distinct states and times on a small machine.

| run | module | result | what it shows |
|---|---|---|---|
| `core` | MCStateMachine | holds | without failing calls: the adapter implements `SetTopBox`, reports no lock unless it streams, streams what it analysed, gets back to listening after a loss, and in any round streams a signal that is steady while it listens, unless a working file is caught half-written (`SteadySignalIsStreamed`) |
| `faults` | MCStateMachine | holds (1.5 million states, about 80 s) | with failing reads, files and processes and with files of a crashed instance: single poller, current entry, right service, and the adapter implements `Rounds` and `SignalMonitor` |
| `stale_lock` | MCStateMachine | violated | see findings |
| `silence` | MCStateMachine | violated | see findings |
| `stop_tsp` | MCStateMachine | violated | see findings |
| `shutdown` | MCShutdown | holds (75 thousand states) | relocks never end the process, each adapter implements `Rounds` until the first signal, a signal always ends the process; at an exit with status 0 every stream that ran when the handler came to its adapter has been stopped, wherever the adapter is by then, and after a single signal no adapter has handled it as well (`OrderlyExit`) |
| `graceful` | MCShutdown | violated | see findings |
| `startup` | MCStartup | holds (103 thousand states) | older `tsp` processes were sent SIGKILL before adapters tune, and the index of an entry is in range |
| `leftovers` | MCStartup | violated | see findings |
| `links` | MCStartup | violated | see findings |
| `report` | MCLockReport | holds (386 thousand states) | two adapters whose samples interleave with their changes: the core is offered streams only, hears of a loss in time, and follows the lock |
| `osd` | MCOsd | holds (660 thousand states, about two minutes) | what the pages show: see below |

`osd` checks the five modules of the pages side by side. They share no state, so a behaviour
exercises one of them (`part`) while the others stay as they begin; the state space is the sum of five, not the product.

| part | states | what it shows |
|---|---|---|
| `Pages` | 276 thousand | a page never returns to older news (`NeverGoesBack`) and ends up with the last (`PageFollows`), across lost connections, failing samples, crashes and old handlers |
| `Figures` | 315 thousand | bars stay in range (`LevelsInRange`), are from one reading (`FiguresBelongTogether`), which is no older than the misses since unless a loop that gave up left it (`BarsAreRecent`); four questions make one reading of `SignalMonitor` (`ReadsAsTheLoop`) |
| `ServiceInfo` | 22 thousand | last video and audio PID with their own types (`TypesDescribePids`); the clock's PID (`ClockIsFound`) |
| `Tuning` | 13 thousand | frequency and offset make up the input for every `tsp` of every round (`TunesTheInput`); what the validation accepts is supported (`AcceptedIsSupported`) |
| `SystemStats` | 30 thousand | a suffix for every counter (`SuffixExists`), and the figure right to half a tenth (`NetworkIsRight`) |

The modules in which the system may end (`StateMachine`, `Shutdown`, `LockReport`, `Tuning`, `ServiceInfo`,
`SystemStats`) have an action `Ended` for those states, so deadlock is checked everywhere.

### Bounds

* `Streams`: three, one without a clear service: the stream now on the air, another
  that took its place and one that is remembered in a file or in `Service`; no
  definition compares more than these.
* `LossLimit = 10`, `MaxRetries = 3`: the numbers of the code. `faults` has `LossLimit = 4`: with fewer readings than a loss takes, one more
  than `MaxRetries`, failed and unlocked ones mix in every way; its properties are proved for all limits.
* `Shutdown`: `N = 2` adapters, of which the handler passes one while the other still relocks;
  `MaxFrames = 3` nested calls (a round, a relock, a relock while
  stopping); `MaxSignals = 2`, since the second signal finds handler and channels
  in any state the first may have left.
* `Startup`: `MaxAdapters = 2` gives three numbers and one more that is never
  looked at, enough for gaps; `MaxEntries = 4` exceeds what can be found; three
  interchangeable processes, one of each fate (killed, ended by itself, own).
  Processes are only compared with each other, so symmetry is sound, and no
  run with symmetry checks a liveness property.
* `LockReport`: two adapters, so that one changes between the samples of both. To keep their product small a report is sent
  every half second (`Period = 1`), one datagram may be lost in a row (`MaxDropped = 1`) and the
  limit is 3, the least for which `(MaxDropped + 1) * Period < LossLimit`, the condition of the theorem
  `LossNoticed`. That theorem is for all numbers; with those of the code, `Period = 2` and `LossLimit = 10`, it
  gives that three datagrams in a row may be lost.
* `Pages`: one adapter page and the monitor page; `MaxVisits = 3` connections, so that a page may have two
  old handlers beside its current one; `MaxNews = 2`, an old and a new entry; `Buffer = 1`, the smallest at which a
  write blocks.
* `Figures`: the scales of the code (65535, 100000) with answers at the ends, where a level first
  changes, and above the cap; `MaxReadings = 5` calls, `LossLimit = 2`: a locked call, a loss by two more, and two of the next loop, after
  which a bar that had survived the loss would be too old.
  `MaxRetries` is the code's 3. The theorems are for all values.
* `ServiceInfo`: lists of up to three PIDs out of ten, enough for two of one kind with another between; the theorems are for lists of any length.
* `Tuning`: words of 32 units of 128 MHz with the limits of the offset in proportion; frequencies below, at and
  above the offset, 0, and the largest.
* `SystemStats`: a unit of 16 and words of 26 bits, so that the largest counter needs the sixth suffix as 2^64 bytes do;
  counters at both sides of every power and of 15 times it, halves of a tenth, both ends.

### Fairness

* `StateMachine`: weak fairness of `MainNext`, `LoopNext` (the Go scheduler runs both
  goroutines, and neither blocks on a mutex for good) and `AnalyserNext` (the analysing
  `tsp` ends by itself: `until -s 2` and its own signal timeout). Nothing is assumed
  of the transmitter, of the streaming `tsp`, or of how soon a killed process is gone.
* `Shutdown`: weak fairness of `HandlerNext`: no step of the handler blocks.
* `LockReport`: weak fairness of the sender, of the network doing something with a datagram,
  and of time. An adapter may stand still for ever.
* `Pages`: weak fairness of each handler's `Read` and `Write` (the scheduler runs it) and of the browser's `Deliver` and
  `EndOfStream` (it reads what has arrived). Connections may be lost and the receiver may crash at any time; `PageFollows`
  speaks of a page that in the end keeps its connection while there is no more news.
* `Startup`, `Figures`, `ServiceInfo`, `Tuning` and `SystemStats` have none: only safety is claimed of them.

## 4. Findings

Each is a run whose one property states what the repository says and which TLC refutes.

* `stale_lock` — three failed readings end the loop without clearing the flags
  (`state.go:424`): the adapter listens again while report and OSD still say locked,
  although `README.md:34` has the loss signalled by the report.
* `silence` — `CheckForPIDFile` (`state.go:494`) waits for a report without looking at the
  process that should write it. If the signal goes during the analysis, the
  adapter stays in `FINDPIDS` for good instead of listening (`README.md:5`).
* `stop_tsp` — `StopStreaming` "stops the current tsp command" but does not wait for it;
  the next `tsp` may find the frontend taken, and that ends the whole receiver.
* `graceful` — on a termination signal "shutting down gracefully..." may be followed by
  a panic: `StopMonitorChan` is nil before the first stream, and otherwise two
  goroutines close it.
* `leftovers` — `CheckAdapters` is said to delete the files of a crashed instance
  (`config.go:100`) but runs before `TmpDir` is set, so it looks in the wrong directory.
* `links` — "each configured adapter has it own OSD" (`README.md:36`), but links carry
  positions in `config.yaml` and entries the numbers of devices.

Not a run, but seen while modelling `Tuning`: the offset is subtracted as a uint32 and the validation accepts frequencies
below it, which then wrap to about 4 GHz (`state.go:111`, `config.go:39`); `TunesTheInput` is modulo 2^32.

Nor while modelling `Shutdown`: the handler of `main` passes each adapter once. A relocked adapter that starts its stream after it was passed
(`state.go:90-99`) leaves that stream running when the process exits with status 0, and so does one that is passed, relocks and then takes a second
signal to itself, closing its new channel (`state.go:377-380`). `OrderlyExit` counts both as `late` and says that no other stream survives; no
document promises more. The next start kills what is left (`NoStrays`).

Where a finding shows that a promise fails, the property that remains is checked and
proved under a named condition: `StatsFail = FALSE` for `LockOnlyWhileStreaming`,
`LockedEntryNamesOneService` and `ImplementsSetTopBox`, `ExecFail = FALSE` and `Leftovers = FALSE` for
`StreamsWhatWasReported`. `LockReport` composes adapters as `SetTopBox` has
them, so its results hold of the code under the first condition.

## 5. The proofs

`tlapm <module>` checks each of the eight proof modules. The theorems hold for every
value of the constants that satisfies the `ASSUME` of the module they are about.

**StateMachineProofs.**
`TypeOK` is not inductive by itself: that `lockCount` stays within `LossLimit` depends on where
the loop is, and the contents of `service(x).json` on what was selected. `TypeInv` adds
`LoopControl` (the loop exists exactly while main waits in `MonitorSignal`) and `ReportsSelected`;
it gives `TypeCorrect` and `OnePoller`. `Control` adds which state main and the
loop have left in `osd.state` at each place, that flags are dark from
`ClearOsdStats` to the first reading of the next stream, and that a copy on its way
to the board holds the current service; it gives `BoardCurrent`, `BoardService` and, if no
reading fails three times over, `LockTruthful`. `Implementation` maps each
action to a step of `SetTopBox` or to a stutter, from `Control`. `StreamsReported` has
an invariant of its own, `FilesOfThisRound`, which ties the files to the process that
writes them, place by place. `OneServicePrinted`
needs `OneService`: from `GetService` to `CheckForPIDFile`, where `service` and `pids` may differ, the flags are dark in
`sm.OsdStats`, in both goroutines' copies and on the board.
`RoundsKept` needs to know which process `tspCmd` holds at each place (`CommandAtPlace`), and `LoopContract` that a
loop begins with fresh counts (`FreshAttempts`, on top of `TypeInv`); neither has a condition on what fails. The first follows a `tsp` through
the actions of the transmitter and of the processes themselves, which leave `tspCmd` alone; in the second every step of
main is a stutter but the start of the loop.

**SetTopBoxProofs.** `ReportTruthful` and `CountFresh`: what anything that implements the
promise inherits from it.

**ShutdownProofs.** `ShutdownTypeCorrect` and `NoEarlyEnd`: without a signal the counter is the number of
adapters plus the sender plus the web server if it still runs, however deep the calls nest,
because only `Return` of an adapter counts down and no adapter unwinds before a signal.
`ExitInOrder` follows the handler: an adapter it has passed is in order (`InOrder`: nothing streams but what is late) and stays so; at the exit
it has passed them all. That no adapter has handled the same signal (`LeftTheSignal`) holds from the moment its channel is closed: whoever closes it
second panics, and the channel of a later stream waits for a later signal.
`RoundsUntilSignal` rests on `Quiet`, the invariant of `NoEarlyEnd`, and on `TspAtPlace`: before a signal an adapter's `tsp` is the one of its
place, so each step is one of `Rounds` for the adapter that takes it and a stutter for the others, and a step that raises the signal
or ends the process is `EndedByOthers` for all of them, or `Fatal` for one.

**StartupProofs.** `StartupInv`: what is left of pgrep's list covers the strays not yet killed; entries
were compared with the adapters before the first start; the machines started are a set of available
adapters no larger than the number of entries. It gives `StartupTypeCorrect`,
`StraysKilled`, `IndexInRange`.

**LockReportProofs.** `ReportInv` follows a locked entry from the adapter to the core: an adapter that
is locked is streaming and has missed nothing (`BoxTruthful`), and a
sample keeps state and flag together; it gives `ReportTypeCorrect` and `CoreSwitchesToStreams`.
`LossNoticed` compares two clocks: `Streak`, how far the adapter is on its way to giving
the stream up, and `Silence`, the half seconds for which the core may have heard nothing new. Both advance
with `Tick`; `TimeInv` keeps `Streak <= Silence + Grace` while the core believes in a
lock, and `Silence` never exceeds `(MaxDropped + 1) * Period`.
That the adapters here take only steps of `SetTopBox` is how `AdapterStep` is defined; `NoStepIsLost` shows that the few values it tries for
the next state lose no step.

**PagesProofs.** `PagesInv` orders everything on the way from the receiver to a page by age: what the page shows, what is on
the wire, in the order of the wire, the copy in the handler of the current connection, and the source; old handlers are
not on that way because each writes to a connection of its own. It gives `PagesTypeCorrect` and `PagesOnlyAdvance`.

**NumbersProofs** is about `Figures` and `SystemStats`. `FiguresInv` says of each place in `GetStats` which figures are already from the
present call, and what of the kept figures and locks goes together; with arithmetic lemmas on the scaling (a quotient of
something between 0 and `100 * Top` by `Top`) it gives `FiguresTypeCorrect`, `LevelsFit` and `OneReading`.
`BarsStayRecent` needs `Ages`, the bound at every place of a call: a miss takes at most `MaxRetries` calls, so the age of a bar grows no faster than the
misses and the failed attempts (`CallsSince`) do.
`CallsAreReadings` is the refinement of `SignalMonitor`: questions stutter, `UpdateOsdStats` is a `Reading`, a failing question is `TryAgain` or
`GiveUp`; `Counts` says that no failed attempt is left over when a reading ends.
`StatsInv` has the loop invariant of `formatBytes`, `Dividing`: after `exp` turns the divisor is the power of the suffix and `n` the counter divided by it,
rounded down at every turn (dividing twice is dividing once, `DivideTwice`). The powers are a tuple, since the provers know no `^`, and the
assumption is that the sixth of them, 1024^6, fits a signed word and the seventh does not fit at all. It gives
`StatsTypeCorrect`, `SuffixForAll` and `CountersShown`, for every counter.

**TspProofs** is about `ServiceInfo` and `Tuning`. `LoopInv` is a loop invariant: after `n` PIDs the record describes the last of each kind among
the first `n`, and a clock of 0 means that none was found. It gives `ServiceTypeCorrect`, `LastPidsWin` and `ClockFound` for lists of any length.
`TuningInv` says that the stored entry is the one given, whatever round it is, and that an entry past the validation has an accepted type; with
lemmas on subtraction modulo `Word` it gives `TuningTypeCorrect`, `InputTuned` and `AcceptedSupported` for every width of the word and every
frequency.

## 6. What is not shown

* `SteadySignalIsStreamed` begins where the adapter listens. From elsewhere it would be false: an adapter in `FINDPIDS` may wait for ever (run `silence`),
  and a relock may find the frontend taken (run `stop_tsp`). The exit it allows, a file read half-written (`state.go:496`, `helpers.go:40`), is real: no
  document promises that it does not happen.
* `BarsAreRecent` says nothing of bars left by a loop that gave up on the frontend: they stay up, beside the lock that the run `stale_lock` shows.
* A page comes back after its stream ended only if the browser's `EventSource` does: nothing is assumed of it, and `PageFollows` is about pages that have
  their connection.
* Only model-checked: the liveness properties (`LossReachesBoard`, `SteadySignalIsStreamed`,
  `SignalEndsProcess`, `CoreFollows`, `PageFollows`): liveness under fairness is beyond the prover. Every other
  property of a passing run is stated by a theorem. `Powers` is a tuple that TLC and the reader can compare with `Unit ^ i`, which the provers cannot.
* `Shutdown` and `Figures` are tied to `StateMachine` by the abstract modules that both sides implement (`Rounds` and `SignalMonitor`). What these leave
  open is by inspection: the channels and nested calls of `Shutdown`, and an adapter of it after the first signal.
* `Startup` sees an adapter only through its effects on files and `tsp` processes; `ServiceInfo`, `Tuning` and `Pages` detail steps of
  `StateMachine` or read what it publishes. That they fit together is by inspection (see "Where the modules meet" in section 2), not by refinement.
* Not modelled: templates, static files and malformed addresses of the web server; the percentages of the system monitor, which are
  passed on; `StatusString`, which is only logged; command-line flags, wording, logging and the debug flag; the scripts,
  which are no part of the running receiver.
* No property covers, though the models show it: handlers of closed pages, nested `Start` calls and open frontend files pile up
  without limit; a streaming `tsp` that dies while the frontend stays locked is not started again; a `tsp` that ends between `pgrep` and `kill` ends the
  start; a type may be configured without the bandwidth or symbol rate it passes on. Nothing in the repository promises otherwise.
* Times other than those of `LockReport` are left out: elsewhere a sleep is a point at which others may act.
* A read of `sm.OsdStats` without the mutex (`state.go:430`) is by the goroutine that wrote the flags last,
  so it reads its own values; `sm.Service` is written without the mutex
  (`state.go:508`) while nobody else publishes, which the proof of `BoardService` establishes
  rather than assumes.

## 7. Plan

Done, in this order: `SetTopBox`, `StateMachine` (core of the system), `Shutdown`, `Startup`, `LockReport`, `Pages`, `Tuning`,
`Figures`, `ServiceInfo`, `SystemStats`, with the theorems above.

Then the abstract modules `Rounds` and `SignalMonitor`, their implementations, and the proofs about `Tuning` and `SystemStats`.

Left:

1. A composition of `Startup` and `StateMachine` over the files, so that `Leftovers` follows from
   `NoLeftovers` failing instead of being a constant.
2. The published entries of `StateMachine` as the `published` of `Pages`: one abstract board that both implement.
3. After the first signal, what `Shutdown` lets an adapter do, as a refinement of `Rounds` with the handler's steps added.
