# A TLA+ model of the performance monitor

The program monitors a group of Linux hosts. A **worker** on every host samples
CPU, memory, load, disk and network once a second and pushes each sample by gRPC
to one **manager**, which scores the hosts, keeps the latest sample of each in
memory, recommends a host, stores everything in MySQL and answers queries. A
kernel module and eBPF programs deliver the raw counters; a small web server
reads the database. Paths below are relative to `src/`.

## 1. Inventory

| Component | State it keeps | Operations | What makes it correct | Here |
|---|---|---|---|---|
| Ring buffer `worker/include/utils/ring_buffer.h` | vector, head, tail, size, mutex | Push (overwrites when full), Drain, Empty, Size | the newest items, oldest first; no emptied slot is read | `RingBuffer`, `KeepNewest` |
| Monitor pusher `worker/src/rpc/monitor_pusher.cpp` | `running_`, backlog ring, drained vector | Start, Stop, PushLoop, FlushBacklog, PushOnce, PushData | no sample forgotten or sent after its acknowledgement, oldest first, Stop returns | `MonitorPusher` |
| Metric collector `worker/src/monitor/metric_collector.cpp` | `collect_seq_`, seeded from the clock | constructor, CollectAll | no sequence number is used twice, across restarts | `MetricCollector`, `Sampling` |
| Kernel CPU collector `kernel/cpu_stat_module` | a shared page with a sequence counter | init, timer | the page is stable when `seq` is even | `CpuStatShared` |
| CPU monitor `worker/src/monitor/cpu_stat_monitor.cpp` | mapping, previous snapshot | UpdateOnce | it uses no torn or stale snapshot, keeps a live mapping, never hangs | `CpuStatShared` |
| gRPC server `manager/src/rpc/grpc_server.cpp` | last sample per host | SetMonitorInfo, GetMonitorInfo | an OK stands for a handled sample | `HostManager` (frame of a handler) |
| Host manager, receive path `manager/src/host_manager.cpp` | `host_scores_`, `last_sequences_`, `last_perf_samples` | OnDataReceived, ProcessLoop | deduplication drops repetitions only; nothing outlives its host | `HostManager` |
| Host manager, scheduler | `schedule_states_` | weight update, GetBestHost, cleanup | states follow scores; every eligible host has its turn | `Scheduler` |
| Host manager, MySQL writer | write queue, condition variable, connection | EnqueueMysqlWrite, MysqlWriteLoop, WriteToMysql, Start, Stop | a sample is stored whole or not at all; a stop drains the queue and returns | `MysqlWriter` |
| Query service `manager/src/rpc/query_service.cpp` | none of its own | QueryBestHost, overviews, history queries | answers describe one snapshot; statistics agree with the hosts | `Scheduler`, `QueryManager` |
| Query manager `manager/src/query_manager.cpp` | one connection, `initialized_` | Init, Close, paged queries | an answer is a page and the count of one snapshot; reading page after page misses nothing | `QueryManager`, `History` |
| eBPF counters `worker/src/ebpf/net_stats.bpf.c` and `net_ebpf_monitor.cpp` | maps, caches of the last values | packet and socket hooks; attaching; rates, removal of dead processes | no unit is lost or counted twice, no baseline outlives its entry, nothing stays half attached | `NetEbpf` |
| Disk monitor `worker/src/monitor/disk_monitor.cpp` | last counters and times per disk | UpdateOnce | rates are what happened, whatever wraps or resets | `Sampling` |
| Memory, load, host-information monitors | cached address | UpdateOnce | they copy fields | not modelled |
| Schema and retention `manager/sql` | tables, unique keys, daily event | | one row per idempotency key; only expired samples are incomplete | unique keys in `MysqlWriter`, event in `Retention` |
| Web server `frontend-simple/simple-api-server.py` | connection pool | four routes | connections are returned; answers are fresh | `ApiServer` |
| `proto/`, `libbpf/`, `vmlinux.h`, `测试/` | | | message definitions, third-party and generated code, test scripts and logs | not modelled |

**How they interact.** The push thread of a worker calls the collector, which
calls each monitor; the CPU monitor shares memory with the kernel's timer. A
failed push puts the sample into the ring, the next round replays it. `PushData`
is one gRPC call with a deadline of 3 s, after which the manager goes on with a
call nobody waits for. In the manager every call runs on a thread of the gRPC
server, through `OnDataReceived`, which takes `mtx_` twice and touches
`last_perf_samples` without it in between, then appends to a queue under another
mutex; the write thread stores samples one by one; the cleanup thread removes
stale hosts every 60 s. History queries use a second connection, of the query
manager; a daily event of the database deletes what is older than seven days; the
web server reads the same tables over a pool of its own.

**What is hard.** Deadlines race late answers; a replay interleaves with an
overtaken handler of the same host; the sequence is recorded long before the
sample is processed; a statement, a COMMIT or the connection may fail anywhere
in a transaction; both processes may die at any step; the stop of the write
thread races its wait; reports and queries share one rotation; counters of disks
wrap; rows come and go between the pages of a query; statements of a query fail,
and are answered all the same; connections to the database break at any moment.
`PROJECT.json` lists each hazard with its line.

## 2. Modules and their correspondence to the code

| Module | Models | One step of the model is |
|---|---|---|
| `KeepNewest` | what `RingBuffer<T>` promises its client | one method call |
| `RingBuffer` | `ring_buffer.h`: vector, indices, moved-from slots | one method call (all run under `mutex_`) |
| `MonitorPusher` | push thread and the main thread that stops it | a test of `running_`, the return of one `PushData`, one `CollectAll`, a sleep |
| `MetricCollector` | the numbering of samples, by the clock | a millisecond, a constructor, a `CollectAll`, the end of a process |
| `Sampling` | rounds in time: extends `MetricCollector` by `DiskMonitor::UpdateOnce` and a disk | a tick of the clock, a round, a disk that is removed or added |
| `CpuStatShared` | kernel timer and `CopyMappedCpuStats` | one field stored or copied, one load of `seq` |
| `HostManager` | `SetMonitorInfo` and `OnDataReceived`, `ProcessLoop`'s removal | one critical section, one field of the unprotected `PerfSample` |
| `MysqlWriter` | Start, Stop, `EnqueueMysqlWrite`, `MysqlWriteLoop`, `WriteToMysql` | one critical section, notification or wait; one SQL statement |
| `Scheduler` | weights, `GetBestHost`, `QueryBestHost`, cleanup by age; `BuildCurrentClusterSnapshot` as an operator | one critical section |
| `Retention` | the tables, `WriteToMysql`'s commits and the daily event | one SQL statement |
| `QueryManager` | handlers of the history queries and `QueryManager` | a request, one SQL statement, an answer |
| `History` | composes `QueryManager` and `Retention`; implements `Retention` | one step of either, a restart of the database server |
| `ApiServer` | `simple-api-server.py` over the tables of `Retention`; implements it | one call of the MySQL connector, an outage |
| `NetEbpf` | `net_stats.bpf.c` on several CPUs and `NetEbpfMonitor` | one map operation or addition of a CPU; one system call of the monitor |
| `Reporting` | composes `MonitorPusher`, `HostManager` and `MysqlWriter` | one step of one of them, joined at calls and replies |
| `SequenceNumbers` | the field `sequence` of `MonitorInfo`, which worker and manager share | |
| `MC*` | instances for TLC: model values, key tables, symmetry | |
| `*_proofs` | theorems and their proofs | |

Abstractions that are common to all: a sample is its sequence number (with its
host); a field holds the number of the sample that wrote it, which is all that
"torn", "stale" and "latest" need; logging is left out. History variables
(`acked`, `evicted`, `lost`, `written`, `dropped`, `enqueued`, `answered`,
`used`, `base`, `wait`, `afterStop`, `grown`, `replaced`, `missed`, `stored`,
`cutoff`, `query[c].rows`, `query[c].failed`, `request[r].before`, `struck`) record
what happened and guard no action of the program.

*RingBuffer.* A slot whose item was moved away, or never written, holds `Moved`.
`Push` stands for both overloads. The refinement maps `items` to the slots from
`tail` on.

*MonitorPusher.* `pc` is the place of the push thread: `loop` is the head of
`PushLoop`, `replay` is inside `FlushBacklog`'s loop, `collect` and `push` are
`PushOnce`. The ring is used through `KeepNewest`, which `RingBuffer` is proved
to implement. `PushData` returns either value; `Reporting` decides which.
`Restart` continues with any number not below the last, which is what
`MetricCollector` establishes. `SkipCollect` is the bound on samples: later
rounds replay but collect nothing.

*MetricCollector.* The clock is never set back; the constructor's comment names
that case as its known limit. `Round` and `Startup` are lower bounds, one
millisecond each where the program takes a second.

*Sampling.* One disk, and one of its counters at a time. `width` says which kind:
requests and sectors are printed by the kernel in full 64 bits, times as 32-bit
milliseconds, and the monitor subtracts all of them as `uint64_t`. `Elapse` lets
time pass in which the disk may serve one request per tick, so that the counter
is also its busy time. `Unplug` resets the counter, and the name may come back
with `Plug`; the entry in `last_samples_` stays, as in the code, which never
removes one. A rate is the pair of a difference and `dt`, which is what the
properties need; dividing them is left out. `grown` is the true growth.

*CpuStatShared.* `smp_wmb` orders the stores to `seq` against the fields; the
fields are stored and copied in any order. The loads of `seq` by the reader are
a data race, so what the second load returns is a choice of the build: with
`Reread` it is performed (unoptimised, the default of `CMakeLists.txt`), without
it the compiler uses the first. `AttemptIsShort` is an assumption and a bound:
a copy takes less than half a turn of the counter, 2^31 seconds in the program.
The module is never unloaded while mapped, because the open device holds a
reference to it.

*HostManager.* The handler's program counter goes through `dedup` (first critical
section), `readPerf` and `writePerf` (unprotected, one field per step), `update`
(second), `enqueue`, `reply`. An insertion into `last_perf_samples` by two
threads may bring the process down; that outcome is `KillManager`. Cleanup takes any
set of hosts, since the module has no clock; `Scheduler` has.

*MysqlWriter.* `test`, `sleepy` and `waiting` split the wait: the predicate is
evaluated with the mutex held, the thread is about to block, it blocks and
releases the mutex. Handlers cannot append while it is held (`Enqueue` needs
`writer # "sleepy"`), but `Stop` does not take it. MySQL is external: statements
fail at will, a failed COMMIT may have been carried out, a lost connection
discards the open transaction, and `START TRANSACTION` commits one that was left
open. The server is destroyed before the `HostManager`, so that no handler is
active when `Stop` runs.

*Scheduler.* Scores are small integers, the smoothing rounds down, ties go either
way (the code takes the order of an `unordered_map`). One tick is one minute in
the configurations: interval and window are 60 s each. Reports that have updated
and not yet asked for the best host are counted, not named.

The overview is a function of the state, not an action: `GetAllHostScores` copies
the map under `mtx_`, and what follows changes nothing. `Records` is sorted as the
code sorts; the names, which break the last ties, are in some order.

*Retention.* A sample has one row in each table and a timestamp in seconds, taken
when the manager received it. `Commit` is a whole transaction of `MysqlWriter`,
which is proved to store samples whole. `oldest` is the retention horizon, which
moves while the event runs; the loops of the event are one action per statement,
`event` counts the tables. The deletion of up to `Batch` rows takes any rows that
qualify, since the statement has no order.

*QueryManager.* One handler stands for all five queries. A query is two
statements: the SELECT, which remembers its number of rows in the connection
(`foundRows`), and `SELECT FOUND_ROWS()`; `locked` is the time between them. The
filter by host and time range is left out: all samples are of one host, and the
range includes them. `connection` is never opened again after it was lost,
because nothing in `QueryManager` does so. MySQL is external, and both statements
fail at will, as those of `MysqlWriter` do: refused, killed or timed out on a live
session, their result lost in transfer, or for the connection; a failed SELECT is an
empty answer, a failed `SELECT FOUND_ROWS()` a total of 0, and only the history field
`failed` tells them from true ones. The walker is a client that asks for
page after page until one is not full; the others ask for arbitrary pages.

*History.* The tables belong to `Retention`, the connection to `QueryManager`.
They share the tables, and `ServerRestarts` ends the event and the connection in
one step.

*ApiServer.* Flask runs each request on a thread. A request takes a connection,
opens a cursor, executes one statement, fetches and closes; each of these fails
when the session has ended, and `Leak` is the path on which `finally` raises
before it reaches `conn.close()`: the name `cursor` is unbound when `cursor()`
itself failed, and closing a cursor with unread rows may raise. A statement, or the
transfer of its rows, may fail on a live session too. The pool reopens
broken sessions when it hands them out. Timestamps, not sequence numbers, say
what is newest.

*NetEbpf.* `cpu` is where each CPU is in `update_stats` or `account_proc`: between
its first lookup and the creation, the second lookup or the addition. `pc` is
where the monitor is: attaching (`attach`, `send`, `recv`), idle (`ready`),
walking one of the maps (`net`, `proc`) or deleting (`delete`). Interfaces and
processes are keys of one function `map`, because the two programs and the two
walks differ only where an action asks for the kind of key. One unit stands for
the bytes of one packet or call; what separates rates from differences, the
time between two walks, only matters when it is zero (`VisitTooSoon`). Maps, TC
and probes are the kernel's: a key's place in the map is fixed, a deleted entry
that a CPU still holds is not reused until it lets go, destroying the qdisc
removes what was attached there, and the descriptors of a dead process close
while its TC filters stay. The set of physical interfaces is fixed and has at
most 64 members, the size of `net_stats_map`. The worst case of the wait between
a process's end and the deletion is included: ids are reused at any moment.

*Reporting.* The module extends `MonitorPusher` and `HostManager`, whose variables it
shares (`running` is the worker's, `mRunning` the manager's), and instantiates
`MysqlWriter` with rows for samples. `PushData` is `Send`, then `HandlerReplies` while the worker waits,
or `Deadline`; `Unreachable` fails before a handler runs. A reply after the
deadline reaches nobody. Every failure, kill, stop or cleanup spends one of
`MaxFaults`. An orderly stop of the manager is left out, since `main` waits for
its server for ever, and so are spurious wake-ups, which only repeat a test.

## 3. Runs

| Run | Bounds | Checks |
|---|---|---|
| `RingBuffer` | capacity 3, 3 items | `ImplementsKeepNewest`: every wrap, overwrite and reset is a step of the abstract buffer |
| `CpuStatShared` | 3 fields, counter modulo 6, 2 attempts, 4 samples | `NoTornSnapshot`, `SnapshotIsCurrent`, `LiveRegionStaysMapped`, `UpdateEnds` |
| `MonitorPusher` | capacity 2, 5 samples, any number of restarts | `OldestFirst`, `EverySampleAccounted`, `OnlyOldestEvicted`, `StopDelayBounded`, `StopEnds` |
| `Sampling` | 8 ticks, 2 of them a second; rounds of a second, restarts of half of one; counters modulo 32 and 16 | `NextIsFresh`, `DiskDeltaExact`, `WholeSecondsSuffice` |
| `HostManager` | 1 host, 2 handlers, sequences 0 to 2, 2 fields | `AnsweredIsHandled`, `NoGhostSequence` |
| `MysqlWriter` | 2 samples (one with and one without a detail row), queue of 2, 1 handler | `SnapshotWhole`, `WrittenIsStored`, `StopDrains`, `QueueServed`, `StopReturnsUnlessMissed` |
| `Reporting` | ring of 1, 2 samples, 2 handlers, queue of 1, 2 faults | `AckedIsTracked`, `ReplayCompletes` |
| `NetEbpf` | 1 interface, 3 process ids, room for 2, 2 CPUs, 3 units | `Conservation`, `ReportedOnce`, `BaselineValid`, `HooksPaired`, `WalkVisitsOnce`, `EntriesReclaimed` |
| `Scheduler` | 2 hosts, scores 0, 1, 3, up to 2 reports between their update and their choice | `StatesMatchScores`, `AgeBounded`, `NoStarvation` within 7 choices, `OverviewIsTrue` |
| `History` | 3 samples, two of one second, 2 tables, batches of 1, horizon up to 2; 2 clients, pages of 1 row, int modulo 8 | `HalvesAreExpired`, `EventCleansAll`, `AnswerIsOneSnapshot`, `LivingRowsSeen` |
| `ApiServer` | 2 requests, 2 connections, 2 samples, 2 tables, batches of 1, horizon up to 2 | `PoolIsKept` (`HeldByOne` and `OnlyStruckLeak`), `AnswerIsFresh` |

`MonitorPusher` and `HostManager` also check their `PusherTypeOK` and `ReceiveTypeOK`.
All type invariants are theorems, and those of the other modules are not checked
again.

*Why the bounds are enough.* Capacity 3 lets head and tail differ, coincide and
wrap in all ways; capacity 2 of the pusher makes a partial replay, an overflow
and both at once possible, and 5 samples overflow it twice. A counter modulo 6
wraps within four samples. Two handlers are what one worker can have in the
manager without a second deadline passing, and interleave with each other at
every field of the unprotected copy. Sequence 0 and two others give a
repetition, an older and a newer sample. Two samples with different numbers of
rows interleave in queue, transaction and failure. Two faults allow a deadline
or a kill to meet the failure of the replay it causes. Three ids for two entries
fill the process map, two CPUs race for each creation, two keys of one map let a
walk be sent back, and three units reach a baseline, a difference and a unit in
flight at once. Eight ticks give four rounds, in which a counter of either width
wraps (each starts at 0 or one below its width), a round falls on either half of a
second, and a disk is removed and added between two of them. Three samples fill
three pages while one expires and two share a second; page 6 of one row passes
an int of 8 values, page 0 is corrected to 1; two tables and single deletions
let a commit, an expiry and a query come between any two statements of the
event. Two threads empty a pool of two, and an outage takes one or both; the
sample numbered 2 is received before the one numbered 1, and expires within the
horizon while a request that found it is under way. `OverviewIsTrue` and the
rest of `Scheduler` were also checked once with three hosts and scores 0 and 1.

`Sampling` stops at `MaxTime`, the bound of its clock, hence without deadlock
checking; every other run checks for deadlock.

### Disagreements between the code and its documentation

One run ends in a counterexample: what a comment says does not hold of the code.
`HostManagerRates` violates `RatesFromOneSample`: an overtaken handler still writes
`last_perf_samples` while the next copies it, so that change rates come from two
samples (`host_manager.cpp:40` against 668 and 682).

More disagreements and limits can be read off the modules and have no run of their
own.

In the manager:

* Stop's notification, sent without the mutex, is lost when it falls between the
  wait's test of `running_` and its block: Stop never returns (`host_manager.h:76`
  against `host_manager.cpp:433`). `StopReturnsUnlessMissed` says that this is the
  only way. It matters to a program that stops its `HostManager`; this one never
  returns from `server->Wait()`.
* Every report calls `GetBestHost` to print its answer, which advances the rotation:
  with two equal hosts and one report between queries all queries get the same
  host (`host_manager.h:88` against `host_manager.cpp:704`). `NoStarvation` counts
  the turns of reports and queries together.
* A score of 0, as an overloaded host gets, takes the host's `current` back to 0
  (`host_manager.cpp:691` to 693), and with it the credit of the turns it waited for.
  A host that touches 0 between its turns may be passed over for ever when the others
  shed their debts in the same way, although `host_manager.h:88` promises that calls
  spread the load by weight. `wait` therefore starts anew at a score of 0, and
  `NoStarvation` speaks of one period with a weight.
* `Dedup` records a sequence before its sample is processed, so that a retry is
  answered OK meanwhile (`host_manager.h:121` against `host_manager.cpp:623`);
  `AnsweredIsHandled` is what holds instead.
* `Update` replaces a newer sample by one that was replayed late
  (`PROJECT_CONTEXT.md:149` against `host_manager.cpp:687`).
* `Rotate` also chooses hosts that have stopped reporting and were not removed
  yet (`host_manager.h:87` against `host_manager.cpp:797`): QueryBestHost may
  recommend a host that the same answer's statistics count as offline.
  `AgeBounded` bounds for how long.
* With one key for two samples, as workers that send no sequence have,
  `MysqlWriter` violates `WrittenIsStored`: `INSERT IGNORE` drops the second and
  `WriteToMysql` still returns true (`host_manager.h:106`, `host_manager.cpp:612`
  against 76).
* A query whose SELECT fails, for whatever reason, is answered OK, with no records and
  a total of 0, as if there were none (`query_manager.cpp:187` to 196); a client that
  reads page after page takes this for the end and misses the rest, and
  `LivingRowsSeen` excepts it. If only `SELECT FOUND_ROWS()` fails, the page comes with
  a total of 0 (71 to 84). After a lost connection every later query is answered so,
  since `initialized_` stays true and nothing connects again.

In the worker:

* `CpuStatShared` with `Reread = FALSE`, the loop as an optimising compiler may
  build it, violates `NoTornSnapshot` (`cpu_stat_monitor.cpp:148` against 165).
* A process id reused between two walks keeps its entry and its baseline:
  the counters go on, so that the traffic of the new process appears under the
  old name (`net_stats.bpf.c:180` writes `comm` once) and the reset test, which
  `net_ebpf_monitor.cpp:511` says is for this case, is not reached
  (`BaselineValid`).
* The times of a disk wrap at 2^32 ms, 49.7 days of activity, and a disk that is
  replaced starts from 0; `disk_monitor.cpp:58` to 62 subtracts without a test, and
  the difference of 64-bit numbers is reported as a rate. `DiskDeltaExact` excepts
  exactly these two.
* `util_percent` divides by whole seconds: a disk that is always busy may show
  anything below 200 % (`WholeSecondsSuffice`).

In the web server:

* "All rows of one sampling point share one timestamp" (`simple-api-server.py:150`)
  holds, but two sampling points may share one too, after a replay: the answer then
  adds up the rates of both, and `/api/servers` lists the host twice.
* The comment on `MAX(sequence)` (`simple-api-server.py:151`) says that a restarted
  worker numbers from 1; it numbers from the clock (`metric_collector.cpp:46`).
  What remains true is that sequence order is not the order of arrival, as the
  mutant of `AnswerIsFresh` shows.
* `cursor` is unbound in `finally` when `cursor()` failed: the connection is not
  returned, and after five of these the pool refuses every request until the
  server is restarted. Closing a cursor whose fetch broke off may raise there too,
  before `conn.close()` (104). `PoolIsKept` says when this may happen.

### Fairness

* `MonitorPusher`: the thread is scheduled, and `PushData` returns, by its
  deadline. Which value it returns is not constrained.
* `CpuStatShared`: the reader runs once it has begun an update; the timer need
  not fire.
* `MysqlWriter`: threads are scheduled and calls of the MySQL client return, with
  success or failure. Enqueuing, stopping, killing and spurious wake-ups are not
  fair.
* `Reporting`: threads run, the operator starts a dead manager again, and a
  request finds a free thread. Faults are never fair, and finite because of
  `MaxFaults`: `ReplayCompletes` says what happens when they have stopped.
* `NetEbpf`: the push thread calls `UpdateOnce` again and again and none of its
  calls blocks. Packets, processes, stops and kills are not fair;
  `EntriesReclaimed` speaks of a worker that keeps running.
* `MysqlWriter`, for `StopReturnsUnlessMissed`, needs no more than that.
* `ApiServer`, `History`, `HostManager`, `RingBuffer`, `Sampling`, `Scheduler`: safety
  only. A client of the history may read pages for ever, and the pool may stay
  empty for ever.

## 4. Proofs

The theorems hold for every value of the constants that satisfies the named
assumptions of the modules: any number of hosts, threads, CPUs, samples, tables and
connections, any capacity and any width of a counter. Every invariant and action
property of the runs that end without a counterexample is a theorem.

* `RingBuffer_proofs` — assumes a positive capacity. The invariant adds to the
  type and to `LiveSlotsHoldItems` that `head` is `size` slots after `tail`
  modulo the capacity (`IndicesAgree`), without which a full ring could overwrite
  any slot. `RingImplementsKeepNewest` maps each action: a push below the
  capacity appends, a push at the capacity drops the first item, a drain empties.
* `CpuStatShared_proofs` — assumes an even modulus. `KernelInv` says that `seq` is
  the number of half-samples modulo its range and which sample each field holds;
  `ReaderInv` that a copy in progress holds only the sample of its start unless
  another has begun. Two equal values of `seq` less than a turn apart are the
  same count, so an accepted copy is one sample, the current one.
  `NoTornSnapshotUsed` and `AcceptedSnapshotIsCurrent` assume `Reread`;
  `TypeCorrect` and `MappingIsPermanent` do not.
* `Sampling_proofs` — `CollectorInv` compares numbers through the clock: a running
  process is at most one ahead of it and not at all when it may sample again, a
  dead one is not ahead of the time at which its successor may start. For the disk,
  `CounterInv` says that the counter is the previous one plus what happened since,
  less its width if it wrapped, and `RoundInv` that no more has happened than time has
  passed and that the next round comes a full `Round` after the previous. Assumes
  rounds at least a second apart and, through `MaxTime`, a clock that stays below the
  width of the narrower counter, so that it wraps at most once between two rounds.
  `RoundsImplementCollecting` is the refinement of `MetricCollector`.
* `MysqlWriter_proofs` — assumes `DistinctKeys` for the two properties of the
  contents, which workers that send a sequence provide (`NextIsFresh`), and nothing
  for `TypeCorrect`. `StoreInv` describes a transaction in progress: outside
  `insert` it is empty, its rows belong to the task, and they, with those stored
  before, are the first `step - 1` of the sample or all of them when the sample is
  a replay of one already stored.

  `StopDrainsAlways` needs no keys: `DrainInv` follows the task in the writer's hands
  and says that a writer that ended, ended with an empty queue.
* `Reporting_proofs`, the worker — `PusherOrder` says that backlog and drained samples
  are ascending sequences, the backlog's older than the drained ones and both older
  than the newest; `PusherPhase` that together they never exceed the capacity. That is
  why a replay that fails half way can be put back without evicting anything, and why
  what is evicted is the oldest. `PusherHistory` keeps what is acknowledged, evicted
  or lost apart from what is held, and `PusherStop` counts the calls still ahead.
* `Reporting_proofs`, the receive path — `HandledInv` follows a recorded sequence: it
  is that of a sample which is queued, or whose handler is between its recording and
  its queuing; `AnsweredIsHandled` alone is not inductive, because an answer to a
  repetition relies on the record. `GhostInv` says that a record without a score
  belongs to a handler between its two critical sections.
* `Reporting_proofs`, the composition — `ReportingInv` puts the parts' invariants
  together and adds `CallInv`: the call that the worker waits for is about the sample
  it will tick off, since its thread stands still meanwhile. `AckedIsTracked` follows
  from the receive path's and the writer's invariants at the moment of the answer, and
  a kill of the manager passes on to `handlerLost` and the writer's `lost` what it
  destroys. `PartsKeepTheirSpecs` is the refinement that makes the theorems about
  each part true of the running system: every step of the composition is a step or a
  stutter of the pusher, of the receive path and of the writer.
* `NetEbpf_proofs` — two invariants that do not need each other. `HookInv`: between
  the interfaces done and those to do there is at most one half attached, and it
  is the one being worked on. `DataInv`: every unit is in an entry, in
  flight on a CPU, or gone with an entry; the sum that a walk is reading lies
  between the baseline and the entry, although CPUs add to the entry meanwhile
  (`ReadInv`); a walk only moves forward and nothing is deleted under it
  (`WalkInv`); no baseline outlives its entry (`BaseInv`). Assumes finitely many
  interfaces and processes, which sums need.
* `Database_proofs`, retention — `RetentionInv` says of every table which samples it
  lacks: only expired ones; and of the tables the event has passed that they hold
  nothing older than its start. `Commit` preserves the latter because it stores only
  samples that are not expired. Assumes finitely many samples and at least one table.
* `Database_proofs`, history — `HistoryRetains` maps each step of `History` to a step or a
  stutter of `Retention`, which gives `HalvesAreExpired` and `EventCleansAll` there, and
  `HistoryTypeCorrect`. `AnswerIsOneSnapshot` needs that at most one query is between
  its statements and that `foundRows` is then the number of rows that query saw; and,
  for statements that fail, that a request starts with no records and a total of 0 and
  gets either only from its own statements.

  `HistoryLivingRowsSeen` rests on `WalkInv`: a row that the walk must not miss and has
  not seen yet still has at least the rows of all previous pages ahead of it. Rows
  ahead of a living row are newer, hence living too, so that their number only
  grows; a page that is not full then ends behind the row. A full page is none of a
  failed SELECT, so that only the last page can be one. The theorem assumes fewer
  samples than half the range of an int, beyond which page numbers wrap.
* `Database_proofs`, API server — `ApiRetains` likewise. `PoolInv` gives every connection
  one place and keeps broken sessions within those that were struck, unless they are
  in the pool; only a request with a broken session or a broken-off fetch leaks. `ApiAnswerIsFresh` rests on
  `FreshInv`: what a request found on its arrival was stored, and the rows it has
  fetched are fresh already. When its statement runs, those found that have not expired
  are still in every table, since only expired samples are missing from one
  (`HalvesAreExpired`), and the statement returns a row at least as new.
* `Scheduler_proofs` — `SchedulerInv` adds that scores and weights are natural numbers
  and that a host's age and what is left of the cleanup's sleep sum up to no more
  than window and interval. A smoothed weight could round down to
  0; it does not, since scores that enter it are positive and weights stay at least
  1: `(7b + 3w) \div 10 >= 1`. Nor does it exceed the greater of weight and score,
  which `SchedulerTypeOK` needs.

  `SchedulerOverviewIsTrue` needs no more of the state than finitely many known hosts
  with natural scores and ages. The loop over the sorted records is right about every
  set of records it may have considered (`LoopIsRight`): a later record displaces no
  best, and the worst only with a lower score, so that of equals the first, the
  freshest, remains. Assumes that no host has the empty name, which stands for "none"
  in the code as well and which `OnDataReceived` refuses (`host_manager.cpp:606`).

  `SchedulerNoStarvation` is the fairness of the rotation for any finite number `n` of
  hosts and any scores up to some `m`, although weights change before every choice and
  hosts lose their weight, leave and return in any order. A rotation raises each
  host by its weight and lowers the chosen one by the total, so that the currents
  of a fixed set of hosts would always add up to the same; resets and removals break
  that sum, and a removed host takes its debt with it. What remains
  true is `Balanced`: with `t = n * m`, the greatest total, the currents of any
  `k` hosts with a weight add up to no more than `t * k * (2n - k)`, on either side
  of 0. It is the family of bounds for all sets that is inductive, not the bound for
  one host. If a set without the chosen host rises, each of its members has at
  most the chosen one's raised current, and both together were within the allowance
  of one more host (`RiseBounded`); if a set with the chosen host falls, the others
  have at most that much each, and all of them together were within theirs
  (`FallBounded`). A host that comes in does so with 0, and the allowance grows with
  the number of hosts, so that entering and leaving keep the balance
  (`BalancedAfterwards`). A host that is passed over gains its weight, at least 1, so
  that it has waited no longer than from the least current to its own (`BalanceInv`).
  The theorem assumes `MaxWait >= 2nm(2n - 1)`; the bound is generous: 36 choices for
  the two hosts and scores up to 3 of the run, where TLC finds that 7 are enough
  and 6 are not.
  In the model a weight is a whole number; in the program, which computes
  in doubles, the number of choices is to be divided by the least positive weight.

**Sums, folds and orders.** Facts about them that need induction are proved by a
smallest counterexample: among the subsets of a finite set for which a statement
fails there is one that contains no other (`SmallestSet`), and the statement holds
of it after all. In this way `NetEbpf_proofs` shows that the tables by which
`SumFunction` is defined exist and how a sum changes with one value, and
`Scheduler_proofs` that a sorted order of the records exists, that the table of
`FoldLeft` exists, and what it holds, and that the `MapThenSumSet` of the rotation's
total splits over parts of a set, adds over two functions and is bounded by the
number of its summands. The induction theorems of the library, which
take an operator as parameter, are not used; modules with proofs contain no
RECURSIVE operator.

**Only model-checked.** Liveness (`StopEnds`, `UpdateEnds`, `QueueServed`,
`StopReturnsUnlessMissed`, `ReplayCompletes`, `EntriesReclaimed`): the prover cannot
reason about fairness through ENABLED. Also that 7 is enough for `NoStarvation` in the
instance of its run, a closer bound than the theorem's.

## 5. Not modelled

Percentages and scores as numbers (`CalcScore`, `FillCpuPercentages`, the change
rates): floating point, without state of their own. Two facts about them are left
to reading: `max_bandwidth` is in bytes per second (`host_manager.cpp:850`) while the
rates it is compared with come in kB (`net_ebpf_monitor.cpp:420`), and only the first
interface enters the score. `host_data_` and `GetMonitorInfo` of the gRPC server,
which keep a copy of the latest sample that nothing in the program asks for; the
memory, load and host-information monitors, which copy fields; the names of
processes and the choice of the ten largest in `CollectProcessStats`; the pages of
the front end; the average, maximum and minimum of the overview; the unloading of
the kernel module; generated and third-party code. Memory exhaustion by the
unbounded write queue has no counterpart in the model.

## 6. Plan

Written, in this order: the ring and its specification, the shared page, the
pusher, the sequence numbers, the receive path, the writer, their composition,
the scheduler, the traffic counters; then the rounds of the disk monitor,
retention, the history queries over it, the API server, the cluster's overview and
the proofs about them.

Left:

1. Change rates and the columns they are stored in, together with the sample they
   were computed from.
2. A bound on what the queries alone get from the rotation, when the reports come
   in a fixed order.
