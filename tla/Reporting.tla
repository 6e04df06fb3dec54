----------------------------- MODULE Reporting -----------------------------
(***************************************************************************)
(* The path of a sample from the worker to the database: MonitorPusher on  *)
(* one host, SetMonitorInfo over gRPC with its 3 s deadline, the handlers  *)
(* of HostManager and the threads of MysqlWriter (M).                      *)
(*                                                                         *)
(* A call the worker gives up goes on in the manager, and its answer, when *)
(* it comes, reaches nobody.  Worker and manager are killed and started    *)
(* again independently.  The manager is never stopped in an orderly way:   *)
(* main waits for its gRPC server for ever.  MaxFaults bounds how often    *)
(* anything goes wrong; a worker that is stopped counts as such.           *)
(***************************************************************************)
EXTENDS MonitorPusher, HostManager

CONSTANTS Worker,                   \* the name of the worker's host
          MaxQueue,                 \* bound on the manager's write queue
          Table,                    \* what a sample is inserted into
          MaxFaults                 \* bound on failures, kills and stops

ASSUME ReportingAssumption ==
  /\ Worker \in Host
  /\ MaxQueue \in Nat
  /\ Len(Table) \in Nat /\ DOMAIN Table = 1 .. Len(Table)
  /\ MaxFaults \in Nat

VARIABLES
  mRunning,       \* running_ of the manager; running is the worker's
  stopper, cleaner, writer, queue, unnotified, task, step,
  conn, tx, db, written, dropped,
  mLost,          \* lost of MysqlWriter; lost is the worker's
  waiting,        \* the call the worker waits for, if any
  handlerLost,    \* history: samples in handlers when the manager was killed
  faults          \* how many things have gone wrong

Sample == {Worker} \X Samples

M == INSTANCE MysqlWriter
       WITH KeyOf <- [s \in Sample |-> s], Inserts <- [s \in Sample |-> Table],
            MaxHandlers <- 1, running <- mRunning, lost <- mLost

worker == <<running, pc, collectSeq, backlog, pending, info,
            acked, evicted, lost, afterStop>>
handlers == <<lastSequences, lastPerf, hostScores, call, answered>>
storage == <<mRunning, stopper, cleaner, writer, queue, unnotified, task, step,
             conn, tx, db, enqueued, written, dropped, mLost>>
own == <<waiting, handlerLost, faults>>
vars == <<worker, handlers, storage, own>>

Init ==
  /\ PusherInit /\ ReceiveInit /\ M!Init
  /\ waiting = {} /\ handlerLost = {} /\ faults = 0

Fault == faults < MaxFaults /\ faults' = faults + 1

-----------------------------------------------------------------------------
\* The sample PushData is called with.
Sent == IF pc = "push" THEN info ELSE Head(pending)
Pushing == pc \in {"push", "replay"}
PushDataTrue == ReplayOk \/ PushOk
PushDataFalse == ReplayFail \/ PushFail

\* The worker on its own.
WorkerStep ==
  /\ LoopStep \/ Start
  /\ UNCHANGED <<handlers, storage, own>>

WorkerStop ==
  /\ Fault /\ Stop
  /\ UNCHANGED <<handlers, storage, waiting, handlerLost>>

\* The worker is killed; a call it waited for goes on without it.
WorkerKill ==
  /\ Fault /\ KillWorker
  /\ waiting' = {}
  /\ UNCHANGED <<handlers, storage, handlerLost>>

WorkerRestart ==
  /\ Restart
  /\ UNCHANGED <<handlers, storage, own>>

\* PushData: the request reaches a free thread of the manager.
Send(c) ==
  /\ Pushing /\ waiting = {} /\ mRunning
  /\ Receive(c, Worker, Sent)
  /\ waiting' = {c}
  /\ UNCHANGED <<worker, storage, handlerLost, faults>>

\* PushData: no connection, or the deadline passes before a thread is free.
Unreachable ==
  /\ Fault /\ Pushing /\ waiting = {}
  /\ PushDataFalse
  /\ UNCHANGED <<handlers, storage, waiting, handlerLost>>

\* PushData: the deadline passes, or the connection breaks, during the call.
Deadline ==
  /\ Fault /\ waiting # {}
  /\ PushDataFalse
  /\ waiting' = {}
  /\ UNCHANGED <<handlers, storage, handlerLost>>

-----------------------------------------------------------------------------
\* A handler between its entry and EnqueueMysqlWrite.
HandlerWorks(c) ==
  /\ Dedup(c) \/ ReadPerf(c) \/ WritePerf(c) \/ Update(c)
  /\ UNCHANGED <<worker, storage, own>>

HandlerEnqueues(c) ==
  /\ Enqueue(c)
  /\ M!Enqueue(SampleOf(c))
  /\ UNCHANGED <<worker, own>>

HandlerNotifies ==
  /\ M!NotifyOne
  /\ UNCHANGED <<worker, handlers, own>>

\* SetMonitorInfo returns OK, to the worker if it still waits.
HandlerReplies(c) ==
  /\ Reply(c) /\ unnotified = 0
  /\ \/ /\ c \in waiting
        /\ PushDataTrue
        /\ waiting' = {}
     \/ /\ c \notin waiting
        /\ UNCHANGED <<worker, waiting>>
  /\ UNCHANGED <<storage, handlerLost, faults>>

\* The write thread, the database answering or failing.
WriterWorks ==
  /\ \/ M!FindNothing \/ M!Block \/ M!TakeTask
     \/ M!ConnectOk \/ M!Begin \/ M!Insert \/ M!CommitOk
  /\ UNCHANGED <<worker, handlers, own>>

WriterFails ==
  /\ Fault
  /\ M!ConnectFail \/ M!WriteFail
  /\ UNCHANGED <<worker, handlers, waiting, handlerLost>>

ManagerStart ==
  /\ M!Start
  /\ UNCHANGED <<worker, handlers, own>>

\* The cleanup thread finds the host stale.
ManagerCleanup ==
  /\ Fault /\ mRunning
  /\ Cleanup({Worker})
  /\ UNCHANGED <<worker, storage, waiting, handlerLost>>

\* The manager is killed, and the call in progress with it.
ManagerKill ==
  /\ Fault
  /\ M!Kill /\ KillManager
  /\ handlerLost' = handlerLost \cup {SampleOf(c) : c \in {d \in Call : Accepted(d)}}
  /\ \/ waiting # {} /\ PushDataFalse
     \/ waiting = {} /\ UNCHANGED worker
  /\ waiting' = {}

HandlerActs(c) == HandlerWorks(c) \/ HandlerEnqueues(c) \/ HandlerReplies(c)

Next ==
  \/ WorkerStep \/ WorkerStop \/ WorkerKill \/ WorkerRestart
  \/ \E c \in Call : Send(c) \/ HandlerActs(c)
  \/ Unreachable \/ Deadline \/ HandlerNotifies
  \/ WriterWorks \/ WriterFails
  \/ ManagerStart \/ ManagerCleanup \/ ManagerKill

\* Every thread runs, the operator restarts the manager, and a request finds
\* a free thread.
Fairness ==
  /\ WF_vars(WorkerStep) /\ WF_vars(\E c \in Call : Send(c))
  /\ \A c \in Call : WF_vars(HandlerActs(c))
  /\ WF_vars(HandlerNotifies) /\ WF_vars(WriterWorks) /\ WF_vars(ManagerStart)

Spec == Init /\ [][Next]_vars /\ Fairness

-----------------------------------------------------------------------------
TypeOK ==
  /\ PusherTypeOK /\ ReceiveTypeOK /\ M!TypeOK
  /\ waiting \in SUBSET Call /\ Cardinality(waiting) <= 1
  /\ handlerLost \in SUBSET Sample
  /\ faults \in 0 .. MaxFaults

GivenUp == dropped \cup mLost \cup handlerLost
InManager == M!InMemory \cup {SampleOf(c) : c \in {d \in Call : Accepted(d)}}

\* What the manager acknowledged it has: every sample the worker ticked off
\* is stored whole, on its way there, or was given up by the manager itself,
\* through timeouts, abandoned handlers, replays taken for duplicates, and
\* kills of either side.
AckedIsTracked ==
  \A s \in acked :
    \/ M!Whole(<<Worker, s>>)
    \/ <<Worker, s>> \in InManager \cup GivenUp

\* After an interruption the samples the worker buffered all reach the
\* database, unless its buffer overflowed, it was stopped itself, or the
\* manager had already taken them and given them up.
ReplayCompletes ==
  \A s \in 1 .. MaxSeq :
    (s \in InMemory)
      ~> \/ M!Whole(<<Worker, s>>)
         \/ <<Worker, s>> \in GivenUp
         \/ s \in evicted \cup lost
=============================================================================
