# Verification of the wp-motor runtime

TLA+ models of the concurrent core of wp-motor: the control bus, the drain
handshake, the picker and its rate limit, the hot reload, the engine loop with
its task manager, the statistics, and the sink groups with their rescue files
and the replay of these. TLC checks them on small instances. TLAPS proves
safety properties of the control bus, the handshake, the reload, the task
manager, the picker, the rate limiter, and the fail-over of sinks with the
replay of their files, for every value of the constants. `PROJECT.json` lists
the components, the runs, the source lines behind every definition, the
hazards, and the points where code and documentation disagree.

## 1. The system

A wp-motor service is a set of Tokio tasks in *role groups*:

    sources -> picker -> ParseDispatchRouter -> parser workers -> sink groups
                                                             \-> infra task
    acceptor (feeds sources)   maintainer (reconnects sinks)   monitor (statistics)

| Part | Source | What it does |
|---|---|---|
| control bus | `src/facade/runtime_ctrl.rs` | admits reload requests one at a time, publishes a status, returns an answer |
| engine loop | `src/facade/engine.rs` | serves requests, polls the exit policy, reacts to signals |
| reload | `engine.rs` `reload_processing_p0`, `orchestrator/engine/service.rs` | builds a new processing set, isolates pickers, disconnects the router, drains or stops the old set, installs the new one, resumes |
| drain handshake | `runtime/reload_drain.rs` | every worker of an epoch reports Drained or Aborted, the tracker counts |
| router | `runtime/parser/workflow.rs` | round robin over the parse channels, answers Sent, Full, Reloading or Closed |
| picker | `runtime/collector/realtime/picker/` | takes batches from a source into a pending queue and posts them |
| parser workers | `runtime/parser/act_parser.rs`, `core/parser/wpl_engine/sender.rs` | parse and forward to sink groups and infra |
| sinks, infra | `runtime/sink/`, `sinks/routing/dispatcher` | consume until stopped, then drain |
| task manager | `runtime/actor/` | role groups, their command channels, exit policies, ordered stop |
| sink runtime, rescue | `sinks/runtime/manager.rs`, `sinks/rescue.rs` | buffers and writes batches, switches to a rescue file when a sink fails, switches back |
| maintainer | `runtime/supervisor/maintenance.rs` | takes failed backends from one bounded queue, reconnects them, returns them through another |
| recovery | `runtime/collector/recovery/`, `orchestrator/engine/recovery.rs` | wprescue: plays finished rescue files back into the sink groups |
| rate limit | `picker/auto_limit.rs`, `runtime/actor/limit.rs` | a limiter shared by the pickers, and a controller that moves its rate |
| statistics | `stat/`, `runtime/supervisor/monitor.rs`, `crates/wp-stats` | tasks count, the monitor merges reports into a slice and the slice into totals |
| the rest | sources, backends, WPL, OML, knowledge, generator, configuration, tools | I/O and data computation |

Paths are relative to the engine crate's directory. `PROJECT.json` has the full
list with status and reasons.

## 2. Modules

| Module | Models | State and actions |
|---|---|---|
| `RuntimeCtrl` | `RuntimeCommandSender::request` called concurrently, and the engine's command branch | one variable per field of `RuntimeControlState`, the gate's permits, the channel; a step ends at each lock, permit or channel operation |
| `ReloadDrain` | reporters, bus, tracker, `wait_processing_drained` | `send_pending`, `notify`, `drop`, `observe` as in the code; a failed wait may be repeated on the same tracker |
| `OrderedHandoff` | what a picker promises | events are accepted and handed over in one order, none twice, none skipped |
| `Picker` | `run_dispatch_loop` and `round_pick` | one action per stage: poll, fetch, plan, post, end of round; the router is seen through its four answers |
| `HotReload` | a reload while data flows | two or three generations of workers; the router call is split at snapshot, flag and each `try_send`; the engine's steps follow `reload_processing_p0` line by line |
| `ReloadHandshake` | what a reload implements | `HotReload` with the mapping of its first generation to `ReloadDrain` |
| `TaskManager` | `engine_working` in Batch and Daemon mode | the registry in order, exit policies, quiescing, ordered stop, command channels, prune; data as counts per channel |
| `RateLimit` | `SourceRateLimiter`, `SourceRateLease::consume`, `AutoRateController::observe` | pure operators with the code's names: each call is one critical section in the code |
| `RateLimitRuns` | the limiter and the controller over a run | folds the calls of the pickers and their samples over short sequences, for TLC |
| `Statistics` | `StatCollector`, `StatReport::merge`, `MetricSet`, `send_stat`, `stat_proc` | pure operators on caches, channel, slice and totals; a step gives the set of possible results, since the selection of the largest rows leaves ties open |
| `SinkGroup` | `async_proc` and `async_proc_infra`, the dispatcher's fan-out, `SinkRuntime`, `RescueFileSink`, `ActMaintainer::proc` | pending buffers, batch being written, primary and retired rescue file of each sink, the two handle queues; one action per outcome of a write and per step of the maintainer |
| `Recovery` | `ActCovPicker` | file and line being replayed, check point, received commands; one action per turn of `pick_data` and `pick_file` |
| `RescueCycle` | engine, crash, wprescue on one rescue directory | composes `SinkGroup` (extended) and `Recovery` (instantiated); adds crash, restart, signal and the order in which tasks are stopped |
| `ControlProofs`, `HotReloadStepProofs`, `HotReloadProofs`, `HotReloadPlaceProofs`, `TaskManagerProofs`, `PickerProofs`, `RescueCycleProofs`, `RescueRecordProofs` | | inductive invariants and theorems |
| `MC*` | | TLC instances |

How they fit together:

- `Picker` is shown to implement `OrderedHandoff` (`HandsOverInOrder`, with
  `accepted` and `handed` mapped to what was taken and what was posted; checked
  on the instance and proved for every one).
- `HotReload` is shown to implement the safety part of `ReloadDrain` for its
  first generation (`FollowsDrainHandshake`, checked on the instance and proved
  for every one), so what is proved of the handshake carries over to the reload.
- `TaskManager` takes the middle of a reload, which `HotReload` opens up, as
  one step; `RuntimeCtrl` takes the whole reload as one step with any result.

- In `RescueCycle` engine and wprescue run the same `SinkGroup`, one after the
  other, on the same files; `Recovery` feeds the channel that the parsers feed
  in the engine.
- `RateLimit` (through `RateLimitRuns`) and `Statistics` are checked in the runs of the tasks that use
  them (`picker`, `task_manager`): as invariants over all short sequences of
  their calls, and not in step with the task's own actions.

Abstractions: an event is a number, a batch in `HotReload` is one event, a
parsing rule is a fixed route per event, a group in `TaskManager` has one task.
Clock readings become nondeterministic choices: a deadline or a timeout may
pass at any moment at which the code would look at it. In `HotReload` a worker
may fail or panic at any moment, up to `MaxFaults`.

In `SinkGroup` a record is its event id, a condition is the set of records it
lets through, a rule is the meta of its records. A write succeeds or fails as a
whole; a failed one leaves no trace in the real sink. The counters of
`SinkHealth` become a flag, open or not. A tolerated error, a thrown one and a
switch to the rescue file are alternatives of the same write, because which
error a backend returns is not for this code to decide. A `stop_backends` that
fails has the effect of one that succeeds: dropping a `RescueFileSink` renames
its file, too. Rescue files are ordered by creation, as their time stamps are.
In `Recovery` the Isolate that precedes Stop only costs a turn of the loop and
is left out. In `RateLimit` the clock counts ticks, and whether a window is
over and whether the start-up time still runs are part of a sample. In
`Statistics` the target is `StatTarget::All`, and the `__runtime` rows assume
that a statistic for sinks is configured.

## 3. What the runs show

| Run | Instance | Result |
|---|---|---|
| `runtime_ctrl` | 3 callers, buffer 1, 2 results | at most one reload, no leaked permit; an admitted send never waits; the status names only an admitted, unfinished request; answers are final and the caller's own; every call ends |
| `reload_drain` | 2 parsers, 1 sink group, infra | counts are exact over repeated waits; quiesced means everyone drained; the wait ends when the workers have |
| `picker` | 4 batches, 2 of them empty and one longer than a payload, burst 1, byte cap 2, coalescing 2 by 2, back-off cap 4; blocking or not, fixed rate or not, limit 2 or none; 1 command, 1 reload or loss of the parsers; rate: 2 pickers, 3 rates, 4 calls of 18 kinds, 3 samples | ordered hand-over; pending queue and its byte count are exact; backpressure is bounded; what was taken is posted; pickers that share a limiter keep to its rate together (`FixedRateHeld`); a strained picker slows all down, whichever reports last (`AutoRateYields`) |
| `hot_reload` | 1 picker, 2 events (sink, infra), 1 worker per role, 2 generations, 1 fault | every event is in exactly one place; the old generation is over once it is replaced; pickers are resumed; the handshake is followed; reloads end |
| `hot_reload_bare` | 1 picker, 3 events, 2 parsers, no outputs, 3 generations | a graceful reload loses nothing; a quiesced generation holds nothing and no picker still holds its senders |
| `task_manager` | both modes, 2 events, 1 reload, 1 signal; statistics: 3 collectors, 2 targets, 3 keys, channel of 1, 5 operations | producers are stopped before the tasks they feed; a batch run delivers all and ends; a signal ends the service from any state; the monitor's totals never exceed what was counted, are exact when nothing was refused or cut, and lost reports and dropped records are themselves counted once (`MonitorTotals`) |
| `rescue_cycle` | a sink group or infra, 2 sinks of one name, 3 records of 2 rules, batch size 2, handle queues of 2, 2 faults, then wprescue with 1 fault, 1 crash or signal | a backend has one owner; nobody waits on the handle queues; one outage makes one file, finalized by a delivery or with the task; each sink settles what it was given in order, and is given all it should be; a file is removed only after all its lines were sent; a failed sink comes back; wprescue ends |

Every property has a mutant: an operator next to the original, changed the way
a plausible mistake would change the code, under which TLC finds the property
violated.

Five further runs state what a document or a comment says and find the code
doing something else:

| Run | What TLC finds |
|---|---|
| `picker_eof` | a source that ends while the picker is in post cooldown makes it leave with batches pending |
| `reload_no_deadline` | with sinks or infra a graceful drain never completes: the dispatcher owns a sender of its own channel and nobody sends Stop during the wait, so only the deadline ends it, by force replace |
| `router_race` | `try_send_round_robin` reads the snapshot, then the flag; a `replace` in between makes it answer Closed and the picker ends for good |
| `picker_pruned` | a reload prunes the finished picker group, and an absent picker is "not finished": the daemon goes on without pickers |
| `commands_fill` | a group's own receiver is never read, so commands stay in the broadcast channel; when it is full (after 500 reloads, 1 in the run) `isolate_picker` waits for ever |

### Bounds

Counters are capped by constants in the guards, each marked *bound* where it is
declared. They are chosen so that the cases matter: a channel of one batch is
full as soon as one batch is in it; three pending batches are the picker's high
watermark for burst 1, and the script is longer. Its first batch is longer than
a payload: a refused payload is put back in front of the rest of that batch, and
the queue is then one longer than the watermark, which is the exception
`PendingBounded` makes. The script lets a merge end
inside a batch with another batch behind it, and lets two empty batches be
merged to nothing; three generations let a snapshot be two reloads old; one
fault is enough to hit every stage of a reload. `CmdCap` stands for
`broadcast(1000)`: six is more than the messages of one reload and a stop, so
it is never reached in `task_manager`; two is one reload's worth, the smallest
value that shows what a full channel does. Deadlock checking is off because
every model may legitimately stop: all calls over, the service ended.

In `rescue_cycle` two faults are a failure of both sinks, or a second failure
during the same outage, or a failure and the death of the monitor; a batch size
of two lets records stay pending over a package and a change of meta force them
out; `Unit` is one, so that wprescue looks at its commands, and saves the check
point, between any two lines. `QueueCap` is as long as the group has sinks, the
least that `GroupAssumption` allows; the code has 100. That assumption is about
the configuration: nothing in the code limits a group to 100 sinks. In
`Statistics` a report keeps two rows and three keys are counted.

### Fairness

Weak fairness on the steps of each task: Tokio polls every woken task again.
Nothing makes events arrive, requests be made, signals be raised, workers fail
or commands be sent.

- `RuntimeCtrl`: a reload in service returns, because its waits have a
  deadline; leaving the loop is not fair.
- `ReloadDrain`: only the engine's reaction to a report is fair, neither the
  workers' end nor the deadline.
- `Picker`: parsers take batches and a reload ends.
- `HotReload`: a picker with pending data tries to post again and again; this
  is strong fairness on `Snapshot`, because polling a command can disable it
  for a moment. `DeadlinePasses` says that the clock passes the deadline;
  `SpecBeforeDeadline` leaves it out and is used by `reload_no_deadline` only.
- `RescueCycle`: weak fairness of the group task, the maintainer and the
  replay. Strong fairness of `ReconnectOk` says that a reconnect that is tried
  again and again succeeds at some time; it is what `SinkComesBack` is
  relative to. Strong fairness of `IdleExit` says that the idle time passes;
  of `MaintEnds` and `StopTask` in wprescue, that a broadcast Stop is received,
  which a task that is busy sees when it is back at its `select!`.
- `TaskManager`: as above. A quiescing timeout counts as an engine step,
  because the loop polls and the clock advances.

## 4. What is proved

Constants: `CtrlAssumption` (the markers for "none" are not requests or
results, there is a result, the buffer is positive), `DrainAssumption` (the
three sets of workers are finite and disjoint), `RateAssumption` (sizes are
positive, the minimal rate is not above the maximal one), `GroupAssumption`
(sizes are positive, the handle queues have room for every sink of the group),
`HotReloadAssumption` (sizes and capacities are positive, there is a parser, and
sink groups come with an infra task), `RouteAssumption` (an event is routed to an
existing sink group or infra task, or nowhere), `TaskManagerAssumption` (the run
modes are the code's, capacities are positive), `PickerAssumption` (the script
is a sequence of batches of sized events, all sizes are positive). TLC evaluates
all of them.

**RuntimeCtrl**, for any set of callers and any buffer (in
`ControlProofs`, with the next): `CtrlTypeCorrect`, `OneReloadAtATime`,
`AdmittedSendsAtOnce`, `SnapshotIsTruthful`, `AnswersAreFinal`. `SingleFlight` and
`StatusTruthful` are not inductive: that nobody else owns the permit says nothing
about what is queued. `CtrlInv` adds where a sent request is (`QueueOwned`, `SentIsSomewhere`: in the queue alone, or with
the engine), what the engine serves (`ServedIsSent`), that the channel closes
only after the loop (`ClosedIsEnded`), and that a marked submission stays the
current one until `finish()` (`MarkedIsCurrent`, `FinishedHasNoCurrent`). The
step proof has one lemma or case per action. `SendNeverBlocks` follows because a
marked call owns the permit, so nobody else's request is queued.
`AnswersAreFinal` is an action property from `CtrlInv` and the fact that between
`finish()` and the reply the published result is the served request's.

**ReloadDrain**, for any finite sets of workers and any number of waits:
`DrainTypeCorrect`, `CountsAreExact`, `GracefulMeansDrained`. The strengthening is
`BusFaithful`: a queued report says what its reporter sent, and no worker has
two. Then taking a Drained report moves exactly one worker of one role to the
counted ones (`CountOff`), and when all counts are zero the sets of workers not
counted off are empty.

**HotReload**, for any numbers of pickers, parsers, sink groups, events, reloads
and faults, any routes and any capacities. `HotReloadStepProofs` has
`TypeCorrect`, which includes that no channel exceeds its capacity, what each
step does (`PickerMoves`, `ForwardMoves`, `EngineMoves`...), and the parts of the
invariant; `HotReloadProofs` puts them together:

- `GenInv`: which generations exist, and how far the wait of each one is, at each
  point of `reload_processing_p0`;
- `StopInv`: Stop was only sent where a wait failed, or to a set that was given
  up;
- `RepInv`: a worker's state fits its report; one that drained has nothing left;
- `TailInv`: a parser whose loop ended without Stop has an empty channel and no
  sender left;
- `BusInv` and `CountInv`: as in `ReloadDrain`, for each generation;
- `OverInv`: the active workers that are not over are registered, the forced stop
  has them on its list, and none is left when the next generation is installed;
- `PickInv`: the router is connected and the last word to each picker is Execute,
  outside a reload; a picker that cannot be reached has ended.

They depend on each other: that nobody is left after a graceful wait comes from
the counts, and that the counts are right comes from `RepInv`. The theorems are
`OldIsOver`, `ReloadsResumePickers`, `GracefulLosesNothing`, `QuiescedIsEmpty`,
and `ImplementsHandshake`: initial states map to initial states of `ReloadDrain`
(`HandshakeInit`), a task's step to a report or a stutter (`HandshakeReport`), an
engine's step to an observation, the end of a wait or a stutter
(`HandshakeEngine`).

`HotReloadPlaceProofs` proves `EventsAreKept`: over any number of reloads, forced
ones too, each fetched event is in exactly one place. The places are counted by
`Cardinality` over all channel slots and hands, so the lemmas say what a change of
one channel or hand does to the whole count (`ChansMove`, `HandsMove`), reduce a
worker's step to the places it can touch (`OneWorkerPlaces`), and there balance
what it takes and gives (`RecvBooks`, `SendBooks`, `LetGoBooks`, `EndBooks`). The
property is inductive with the types: that an event is nowhere twice is what
shows that the event lost with a channel was not delivered before.

**TaskManager**, in both run modes, for any number of events and reloads and any
capacities: `TypeCorrect`, `ProducersGoFirst`, `BatchRunDelivers`.
`ProducersStopFirst` needs that the registry keeps each group after the groups it
sends to (`Ordered`) through prune and replacement, that the reversed registry is
the order of the stop, with the part to do at its end (`TodoIsRest`), and that a
group no longer registered is done. What `Retained` gives is proved by a least
counterexample (`LeastNatural`): it embeds in the sequence in order and has
exactly the kept elements. `BatchFacts` says why a batch run delivers: until the
parser has ended the engine stays in its loop and tells nobody to stop, so the
outputs take all they are sent.

**RescueCycle**, for any number of sinks and records, any conditions, batch
size and bounds, through crashes and restarts: `BackendHasOneOwner`,
`HandOverIsImmediate`, `OutageHasOneFile`, `FinalizedOnlyByDelivery`.
`RescueCycleProofs` has their invariant and what the jobs of a package hold,
`RescueRecordProofs` what becomes of the records.
`OneOwner` is not inductive, because a handle that comes back is only accepted
in rescue state: `HandleType` adds that `backup_used` holds exactly when the
primary is a file. `OutageInv` says that a file was made since the last
delivery exactly while the sink writes to it or keeps it as the retired one,
never both; `OpenInv` that the open files are those of the sinks, each of its
own sink, and none once the task is over. That the queues have room
(`RoomForOne`) is the pigeonhole principle: a queue without repetition that
misses one sink is shorter than the group. The steps that change owners or
files (`SwapStep`, `TakeBackStep`, `WriteRealStep`, `QueueBadStep`, the
maintainer's, `CrashStep`, `StartRescueStep`) have a lemma each, the others go
through `Neutral`. `FinalizedOnlyByDelivery` is an action property from the
same invariant.

Three more theorems rest on a larger invariant, `Whole`: `TypesHold`,
`RemovedOnlyAfterReplay` and `SettledInOrder`. It adds to `Inv`:

- `WorkType`: channel, jobs, batch, pending buffers and histories hold records.
  A package becomes jobs through `Picked`, which is recursive; `PickedHolds` says
  what its result consists of, by a least counterexample (`LeastNatural`), since
  induction theorems of the library cannot be used;
- `FileType`: the files hold records, the sinks have files of the directory, and
  every line the replay has passed is in `sent`. All steps but `EndOfFile` let
  the directory grow (`FilesGrow`): they make files and rename open ones, but do
  not touch a finished one. So the file under replay stays as it is until the
  replay itself removes it. That `rfile` is 0 while the replay waits is part of
  it: without that, a scan after a pause could start with a file in hand;
- `WaitsIdle`: where the task waits, no job and no batch is left, and after the
  last flush of a stop no sink has anything pending.

`SettlesInOrder` is then kept by each step: a job cuts what a sink was given
into the batch and what stays pending (`CutInOrder`, `NextJobOrdered`); a write
moves the batch to the settled records whatever becomes of it (`SettleOrdered`);
a task that fails drops the batch and the rest, so a prefix is left
(`FailsWithPrefix`); and a task that ends normally has, by `WaitsIdle`, nothing
left to drop.

`RecordsAreDispatched` shows that a sink is given what it is due. The property
speaks of the moments between two packages; the invariant behind it holds at
every moment. `Debt` is what the jobs still to do have for a sink, joined in
their order (`Joined`, whose laws are proved by a least counterexample, too).
`Served` says of each rule that what a sink was given, followed by the debt, is
what it wants of the records taken; in the infra task the same of all records
and those the sink is the replica for. A package adds to both sides the same
(`GroupJobsOwe`, for any order in which the rules are handled; `InfraJobsOwe`,
where the segments of a package cover it in order), a job moves its records from
the debt to the sink (`NextJobServed`), and a flush owes nothing
(`FlushServed`). Where the task waits, `WaitsIdle` leaves no debt. That infra
sinks are given records in order comes from `InTurn`: the channel holds them as
the parsers numbered them. That every name has exactly one owner of a record is
`ReplicaIs`. `NoReplay` keeps the lines of a replay out of this.

**Picker**, for any script of batches, any sizes, watermark, coalescing limits
and back-off, and any answers of the router: `PickerLosesNothing`,
`PickerStaysBounded`, `PickerHandsOverInOrder`. `EventsOf` and `batch_bytes` are
recursive functions; that they turn concatenation into concatenation and sum is
proved by a least counterexample (`EventsOfConcat`, `BatchBytesConcat`). With
that, what a post takes off the queue is a payload, a rest and their bytes that
together are the old queue, with coalescing and splitting or without
(`CoalescedTakenOff`, `PopTakesOff`), and it is either posted (`PostedOff`) or
put back (`PutBack`). The bound on the queue is not inductive: `PickerInv` adds
that a fetch has room for its whole budget (`FetchHasRoom`), and that above the
watermark the queue starts with a full payload, which the next post takes as it
is, so that a refusal cannot make it grow again (`FullPayloadFirst`). Such a
payload comes only from a source that gave a batch longer than a payload
(`LongIsOversize`). For the refinement, a fetch maps to `Accept`, a successful
post to `Hand`, every other step to a stutter (`PickerStepHandsOver`).

**RateLimit**, for any number of pickers and any fixed rate, lease size and
sequence of calls: `SharedRateHolds`. `LimSpec` makes a step of each call of
`consume`. The events granted so far, in ticks, never exceed the rate times the
booked deadline, but for less than a tick per grant, which is what
`duration_for` cuts off; and what a picker has passed and still holds is what
it was granted. Both are inductive as they stand, with types. The proof is in
`PickerProofs`.

Only model-checked:

- all liveness properties, because TLAPS 1.4.5 does not handle fairness and
  ENABLED;
- `StrainSlowsDown` and `StatTotals`, which are about folds over sequences of
  calls; `RateHeld`, which speaks of intervals between any two grants and is
  stronger than what is proved.

## 5. What is not modelled

- In the reload: the maintainer, monitor and acceptor groups; a prebuild that
  fails, which changes nothing; the abort of overdue detached groups, which
  have reported and hold nothing; the swap of the knowledge database and of
  the monitor's sink.
- In the picker: idle waits, statistics, the time a rate lease takes.
- In sinks: the OML transformation and its failures, which go to infra; tags;
  raw and FFV packages, whose `send_to_sink` repeats the error strategy for one
  datum; Suspend and Execute(One), which nothing sends; how much of a failed
  batch reached the real sink.
- In the rescue directory: the contents of a file whose process crashed. It
  keeps the suffix `.lock`, and neither engine nor wprescue looks at it again.
  Lines that do not parse; sink names that contain `-`, from which the file's
  time stamp is not read back correctly.
- What follows a replay: a file is removed when its lines are in the
  dispatcher's channel. A crash before they are written loses them; the
  property says "sent" and not "delivered".
- A torn `recover.lock` makes every later wprescue end at once. The model has
  this; no property forbids it.
- In the rate limit: `RateLimiter` of `limit.rs`, which paces the lines of a
  replay and which pickers use without a limit; reading the process size.
- In the statistics: times, rates, the table and its export.
- Sources: the file, TCP and syslog code below `src/sources` is not compiled;
  `mod.rs` re-exports an external crate. Backends, WPL, OML, configuration,
  generator and tools: I/O, or data computation without concurrent state. They
  are most of the repository, so the modelled lines are a small share of it:
  the models cover the runtime that moves data, not what is computed from it.

## 6. Plan

1. `HotReload` with the maintainer and the monitor, and a resume that fails.
2. Pure algorithms: condition evaluation (`orion_exp`), routing lookup.
3. The TCP back-pressure controller of the network sinks.
