---------------------------- MODULE HostManager ----------------------------
(***************************************************************************)
(* How the manager receives samples: GrpcServerImpl::SetMonitorInfo and    *)
(* HostManager::OnDataReceived (manager/src/host_manager.cpp), run by the  *)
(* threads of the gRPC server, and the cleanup of stale hosts by           *)
(* ProcessLoop.  Each place where a handler locks, unlocks or touches the  *)
(* unprotected last_perf_samples is a step of its own.                     *)
(*                                                                         *)
(* A sample is the pair <<host, sequence>>.  A PerfSample is a tuple of    *)
(* fields, each standing for the sequence of the sample it was taken from, *)
(* 0 for the initial zero.  schedule_states_ is the subject of Scheduler.  *)
(* A concurrent insertion into last_perf_samples is a data race that may   *)
(* bring the process down: that outcome is a KillManager.                  *)
(***************************************************************************)
EXTENDS SequenceNumbers, FiniteSets

CONSTANTS Host,         \* names of hosts, as normalised by OnDataReceived
          Call,         \* handler threads of the gRPC server
          NumFields     \* fields of a PerfSample

ASSUME ManagerAssumption == NumFields \in Nat \ {0}

VARIABLES
  lastSequences,   \* last_sequences_: host |-> sequence
  lastPerf,        \* last_perf_samples: host |-> PerfSample
  hostScores,      \* host_scores_: host |-> sequence of the sample it holds
  call,            \* the handlers
  enqueued,        \* history: samples passed to EnqueueMysqlWrite
  answered         \* history: samples answered OK since the manager started

receiveVars == <<lastSequences, lastPerf, hostScores, call, enqueued, answered>>
maps == <<lastSequences, lastPerf, hostScores>>

Zero == [i \in 1 .. NumFields |-> 0]
Empty == [h \in {} |-> 0]
Idle == [pc |-> "idle", host |-> "", seq |-> 0, field |-> 0, last |-> Zero]

\* operator[] of a map, assigned to.
Assign(f, h, v) == [x \in DOMAIN f \cup {h} |-> IF x = h THEN v ELSE f[x]]
Erase(f, H) == [x \in DOMAIN f \ H |-> f[x]]

ReceiveInit ==
  /\ lastSequences = Empty /\ lastPerf = Empty /\ hostScores = Empty
  /\ call = [c \in Call |-> Idle]
  /\ enqueued = {} /\ answered = {}

At(c, pc) == call[c].pc = pc
SampleOf(c) == <<call[c].host, call[c].seq>>
Goto(c, pc) == call' = [call EXCEPT ![c].pc = pc]

-----------------------------------------------------------------------------
\* A thread of the server picks up SetMonitorInfo and enters OnDataReceived.
Receive(c, h, s) ==
  /\ At(c, "idle")
  /\ call' = [call EXCEPT ![c] = [Idle EXCEPT !.pc = "dedup", !.host = h, !.seq = s]]
  /\ UNCHANGED <<maps, enqueued, answered>>

\* Mutant of IsDuplicate: older sequences count as duplicates too.
IsNotNewer(h, s) == s > 0 /\ h \in DOMAIN lastSequences /\ s <= lastSequences[h]

\* The sequence recorded for the host is this one; 0 is never recorded.
IsDuplicate(h, s) == s > 0 /\ h \in DOMAIN lastSequences /\ lastSequences[h] = s

\* Mutant of Recorded: sequence 0 is recorded as well.
RecordedAlways(h, s) == Assign(lastSequences, h, s)

Recorded(h, s) == IF s > 0 THEN Assign(lastSequences, h, s) ELSE lastSequences

\* Under mtx_: a duplicate is skipped, any other sequence recorded.
Dedup(c) ==
  /\ At(c, "dedup")
  /\ LET h == call[c].host
         s == call[c].seq
     IN \/ /\ IsDuplicate(h, s)
           /\ Goto(c, "reply")
           /\ UNCHANGED lastSequences
        \/ /\ ~IsDuplicate(h, s)
           /\ lastSequences' = Recorded(h, s)
           /\ call' = [call EXCEPT ![c].pc = "readPerf", ![c].field = 1]
  /\ UNCHANGED <<lastPerf, hostScores, enqueued, answered>>

PerfOf(h) == IF h \in DOMAIN lastPerf THEN lastPerf[h] ELSE Zero

\* The copy of last_perf_samples[host_name], which adds the host if needed,
\* field by field and without a lock.
ReadPerf(c) ==
  /\ At(c, "readPerf")
  /\ LET h == call[c].host
         f == call[c].field
         done == f = NumFields
     IN /\ lastPerf' = Assign(lastPerf, h, PerfOf(h))
        /\ call' = [call EXCEPT ![c].last[f] = PerfOf(h)[f],
                                ![c].field = IF done THEN 1 ELSE f + 1,
                                ![c].pc = IF done THEN "writePerf" ELSE "readPerf"]
  /\ UNCHANGED <<lastSequences, hostScores, enqueued, answered>>

\* The assignment to last_perf_samples[host_name], likewise.
WritePerf(c) ==
  /\ At(c, "writePerf")
  /\ LET h == call[c].host
         f == call[c].field
         done == f = NumFields
     IN /\ lastPerf' = Assign(lastPerf, h, [PerfOf(h) EXCEPT ![f] = call[c].seq])
        /\ call' = [call EXCEPT ![c].field = IF done THEN 1 ELSE f + 1,
                                ![c].pc = IF done THEN "update" ELSE "writePerf"]
  /\ UNCHANGED <<lastSequences, hostScores, enqueued, answered>>

\* Under mtx_: the host's snapshot is replaced, whatever it held.
Update(c) ==
  /\ At(c, "update")
  /\ hostScores' = Assign(hostScores, call[c].host, call[c].seq)
  /\ Goto(c, "enqueue")
  /\ UNCHANGED <<lastSequences, lastPerf, enqueued, answered>>

\* EnqueueMysqlWrite.
Enqueue(c) ==
  /\ At(c, "enqueue")
  /\ enqueued' = enqueued \cup {SampleOf(c)}
  /\ Goto(c, "reply")
  /\ UNCHANGED <<maps, answered>>

\* SetMonitorInfo returns OK.
Reply(c) ==
  /\ At(c, "reply")
  /\ call' = [call EXCEPT ![c] = Idle]
  /\ answered' = answered \cup {SampleOf(c)}
  /\ UNCHANGED <<maps, enqueued>>

\* Mutant of Cleanup: last_sequences_ is not cleaned.
CleanupKeepsSequences(H) ==
  /\ H # {} /\ H \subseteq DOMAIN hostScores
  /\ hostScores' = Erase(hostScores, H)
  /\ UNCHANGED <<lastSequences, lastPerf, call, enqueued, answered>>

\* ProcessLoop, under mtx_: hosts that have become stale, any set of them for
\* this untimed module, leave host_scores_ and last_sequences_.
Cleanup(H) ==
  /\ H # {} /\ H \subseteq DOMAIN hostScores
  /\ hostScores' = Erase(hostScores, H)
  /\ lastSequences' = Erase(lastSequences, H)
  /\ UNCHANGED <<lastPerf, call, enqueued, answered>>

\* The manager is killed and started again.
KillManager ==
  /\ lastSequences' = Empty /\ lastPerf' = Empty /\ hostScores' = Empty
  /\ call' = [c \in Call |-> Idle]
  /\ answered' = {}
  /\ UNCHANGED enqueued

HandlerStep(c) ==
  Dedup(c) \/ ReadPerf(c) \/ WritePerf(c) \/ Update(c) \/ Enqueue(c) \/ Reply(c)

ReceiveNext ==
  \/ \E c \in Call, h \in Host, s \in 0 .. MaxSeq : Receive(c, h, s)
  \/ \E c \in Call : HandlerStep(c)
  \/ \E H \in SUBSET Host : Cleanup(H)
  \/ KillManager

ReceiveSpec == ReceiveInit /\ [][ReceiveNext]_receiveVars

-----------------------------------------------------------------------------
Perf == [1 .. NumFields -> Numbers]
PartialMaps(V) == UNION {[H -> V] : H \in SUBSET Host}

ReceiveTypeOK ==
  /\ lastSequences \in PartialMaps(1 .. MaxSeq)
  /\ lastPerf \in PartialMaps(Perf)
  /\ hostScores \in PartialMaps(Numbers)
  /\ call \in [Call -> [pc : {"idle", "dedup", "readPerf", "writePerf",
                              "update", "enqueue", "reply"},
                        host : Host \cup {""}, seq : Numbers,
                        field : 0 .. NumFields, last : Perf]]
  /\ enqueued \in SUBSET (Host \X Numbers)
  /\ answered \in SUBSET (Host \X Numbers)

Accepted(c) == call[c].pc \in {"readPerf", "writePerf", "update", "enqueue"}

\* An answer OK means that the sample was queued or that a handler is on its
\* way to queue it: a skipped duplicate never stands for a sample nobody
\* handles, in whatever order a worker's old, new and repeated samples come.
AnsweredIsHandled ==
  \A a \in answered :
    a \in enqueued \/ \E c \in Call : Accepted(c) /\ SampleOf(c) = a

\* A recorded sequence belongs to a host of the snapshot or to one whose
\* handler is about to put it there: cleanup leaves no sequence behind that
\* would make a returning host's sample a duplicate, wherever in its two
\* critical sections a handler of the host is at that time.
NoGhostSequence ==
  \A h \in DOMAIN lastSequences :
    h \in DOMAIN hostScores \/ \E c \in Call : Accepted(c) /\ call[c].host = h

\* The previous sample with which a handler compares its own is one sample.
RatesFromOneSample ==
  \A c \in Call : call[c].pc \in {"writePerf", "update", "enqueue"} =>
    Cardinality({call[c].last[f] : f \in 1 .. NumFields}) = 1
=============================================================================
