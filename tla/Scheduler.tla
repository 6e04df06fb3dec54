----------------------------- MODULE Scheduler -----------------------------
(***************************************************************************)
(* Which host the manager recommends (manager/src/host_manager.cpp and     *)
(* QueryBestHost of manager/src/rpc/query_service.cpp): smoothed weights,  *)
(* updated by every report, smooth weighted round robin over them, and the *)
(* removal of hosts that stopped reporting.                                *)
(*                                                                         *)
(* Scores are integers; the 0.7/0.3 smoothing rounds down.  Ties, which    *)
(* the code breaks by the order of an unordered_map, go either way.  Time  *)
(* advances in ticks; a sample's timestamp is the tick of its update.      *)
(***************************************************************************)
EXTENDS Integers, FiniteSets, Sequences, SequencesExt

CONSTANTS Host,
          Score,        \* the scores CalcScore may yield
          Interval,     \* kHostCleanupInterval, in ticks
          Window,       \* kHostExpireWindow and kHostOnlineWindow, in ticks
          MaxReports,   \* bound: reports between their update and GetBestHost
          MaxWait       \* choices a host may have to wait for its own

ASSUME SchedulerAssumption ==
  /\ Score \subseteq Nat
  /\ Interval \in Nat \ {0} /\ Window \in Nat /\ MaxReports \in Nat
  /\ MaxWait \in Nat

\* OnDataReceived takes no sample without a host name.
ASSUME HostAssumption == "" \notin Host

VARIABLES
  score,          \* host_scores_: host |-> score of its latest sample
  age,            \* host_scores_: host |-> ticks since that sample
  state,          \* schedule_states_: host |-> [base, current]
  untilCleanup,   \* ticks left of ProcessLoop's sleep
  reports,        \* reports that have updated but not yet called GetBestHost
  query,          \* QueryBestHost: [pc, host it was given]
  wait            \* history: host |-> choices since its own or its last score of 0

vars == <<score, age, state, untilCleanup, reports, query, wait>>

NoQuery == [pc |-> "idle", host |-> ""]

Init ==
  /\ score = [h \in {} |-> 0] /\ age = [h \in {} |-> 0]
  /\ state = [h \in {} |-> [base |-> 0, current |-> 0]]
  /\ untilCleanup = Interval /\ reports = 0
  /\ query = NoQuery
  /\ wait = [h \in {} |-> 0]

Known == DOMAIN score
Assign(f, h, v) == [x \in DOMAIN f \cup {h} |-> IF x = h THEN v ELSE f[x]]
Keep(f, H) == [x \in DOMAIN f \cap H |-> f[x]]

-----------------------------------------------------------------------------
NoState == [base |-> 0, current |-> 0]
StateOf(h) == IF h \in DOMAIN state THEN state[h] ELSE NoState

Smoothed(b, w) == (7 * b + 3 * w) \div 10

\* schedule_states_[h] after a report with weight w: reset by weight 0, else
\* smoothed, except for the first weight.
Reweighted(h, w) ==
  IF w = 0 THEN NoState
  ELSE [base |-> IF StateOf(h).base = 0 THEN w ELSE Smoothed(StateOf(h).base, w),
        current |-> StateOf(h).current]

\* OnDataReceived, under mtx_: score, timestamp and weight of the host.
Report(h, w) ==
  /\ reports < MaxReports
  /\ score' = Assign(score, h, w)
  /\ age' = Assign(age, h, 0)
  /\ state' = Assign(state, h, Reweighted(h, w))
  /\ wait' = IF w = 0 \/ h \notin Known THEN Assign(wait, h, 0) ELSE wait
  /\ reports' = reports + 1
  /\ UNCHANGED <<untilCleanup, query>>

-----------------------------------------------------------------------------
\* GetBestHost: a host without weight gets the one of its score.
Base(h) == IF state[h].base = 0 THEN score[h] ELSE state[h].base
Eligible == {h \in Known : Base(h) > 0}
Total == MapThenSumSet(Base, Eligible)
Raised(h) == state[h].current + Base(h)

\* GetBestHost chooses h: every eligible host is raised by its weight, the
\* highest of them lowered by the total.
Rotate(h) ==
  /\ h \in Eligible /\ \A o \in Eligible : Raised(o) <= Raised(h)
  /\ state' = [o \in Known |->
       [base |-> Base(o),
        current |-> IF o \notin Eligible THEN state[o].current
                    ELSE Raised(o) - (IF o = h THEN Total ELSE 0)]]
  /\ wait' = [o \in Known |-> IF o \in Eligible \ {h} THEN wait[o] + 1 ELSE 0]

\* GetBestHost without eligible hosts: SelectHighestScoreHostLocked.
Fallback(h) ==
  /\ Eligible = {} /\ h \in Known
  /\ \A o \in Known : score[o] <= score[h]
  /\ UNCHANGED <<state, wait>>

\* Mutant of GetBestHost: the host with the highest score, every time.
GetHighestScore(h) ==
  /\ h \in Known
  /\ \A o \in Known : score[o] <= score[h]
  /\ UNCHANGED state
  /\ wait' = [o \in Known |-> IF o \in Eligible \ {h} THEN wait[o] + 1 ELSE 0]

GetBestHost(h) == Rotate(h) \/ Fallback(h)

\* OnDataReceived prints the best host, which it asks GetBestHost for.
ReportChooses(h) ==
  /\ reports > 0
  /\ GetBestHost(h)
  /\ reports' = reports - 1
  /\ UNCHANGED <<score, age, untilCleanup, query>>

\* The host was removed before the report asked for the best one.
ReportFindsNone ==
  /\ reports > 0 /\ Known = {}
  /\ reports' = reports - 1
  /\ UNCHANGED <<score, age, state, untilCleanup, query, wait>>

\* QueryBestHost asks GetBestHost.  An empty answer ends the query.
QueryChooses(h) ==
  /\ query.pc = "idle"
  /\ GetBestHost(h)
  /\ query' = [pc |-> "chosen", host |-> h]
  /\ UNCHANGED <<score, age, untilCleanup, reports>>

\* QueryBestHost looks the host up in GetAllHostScores: it is answered with
\* its status, or with INTERNAL when the host is gone.
QueryAnswers ==
  /\ query.pc = "chosen"
  /\ query' = NoQuery
  /\ UNCHANGED <<score, age, state, untilCleanup, reports, wait>>

-----------------------------------------------------------------------------
Tick ==
  /\ untilCleanup > 0
  /\ untilCleanup' = untilCleanup - 1
  /\ age' = [h \in Known |-> age[h] + 1]
  /\ UNCHANGED <<score, state, reports, query, wait>>

Fresh == {h \in Known : age[h] <= Window}

\* Mutant of Cleanup: schedule_states_ keeps the removed hosts.
CleanupKeepsStates ==
  /\ untilCleanup = 0
  /\ untilCleanup' = Interval
  /\ score' = Keep(score, Fresh) /\ age' = Keep(age, Fresh)
  /\ wait' = Keep(wait, Fresh)
  /\ UNCHANGED <<state, reports, query>>

\* Mutant of Cleanup: a host is kept for twice the window.
CleanupLate ==
  /\ untilCleanup = 0
  /\ untilCleanup' = Interval
  /\ LET kept == {h \in Known : age[h] <= 2 * Window}
     IN /\ score' = Keep(score, kept) /\ age' = Keep(age, kept)
        /\ state' = Keep(state, kept) /\ wait' = Keep(wait, kept)
  /\ UNCHANGED <<reports, query>>

\* ProcessLoop, under mtx_: hosts beyond the window are removed.
Cleanup ==
  /\ untilCleanup = 0
  /\ untilCleanup' = Interval
  /\ score' = Keep(score, Fresh) /\ age' = Keep(age, Fresh)
  /\ state' = Keep(state, Fresh) /\ wait' = Keep(wait, Fresh)
  /\ UNCHANGED <<reports, query>>

-----------------------------------------------------------------------------
\* BuildCurrentClusterSnapshot, of QueryClusterOverview and QueryBestHost.
Online == {h \in Known : age[h] <= Window}

\* The order of the records: by score, then freshness; the order of names,
\* which decides the rest, is some order.
Precedes(g, h) == score[g] > score[h] \/ (score[g] = score[h] /\ age[g] < age[h])
Records ==
  CHOOSE o \in SetToSeqs(Known) :
    \A i, j \in DOMAIN o : Precedes(o[i], o[j]) => i < j

NoOverview == [online |-> 0, offline |-> 0, best |-> "", worst |-> "",
               bestOnline |-> "", worstOnline |-> ""]

\* Mutant of Above: >= in place of >.
AboveOrEqual(h, g) == g = "" \/ score[h] >= score[g]

Above(h, g) == g = "" \/ score[h] > score[g]
Below(h, g) == g = "" \/ score[h] < score[g]

\* The loop over the records.
Consider(o, h) ==
  LET on == h \in Online
  IN [online |-> o.online + (IF on THEN 1 ELSE 0),
      offline |-> o.offline + (IF on THEN 0 ELSE 1),
      best |-> IF Above(h, o.best) THEN h ELSE o.best,
      worst |-> IF Below(h, o.worst) THEN h ELSE o.worst,
      bestOnline |-> IF on /\ Above(h, o.bestOnline) THEN h ELSE o.bestOnline,
      worstOnline |-> IF on /\ Below(h, o.worstOnline) THEN h ELSE o.worstOnline]

ClusterStats ==
  LET o == FoldLeft(Consider, NoOverview, Records)
  IN [total |-> Len(Records), online |-> o.online, offline |-> o.offline,
      best |-> IF o.bestOnline = "" THEN o.best ELSE o.bestOnline,
      worst |-> IF o.worstOnline = "" THEN o.worst ELSE o.worstOnline]

-----------------------------------------------------------------------------
Next ==
  \/ \E h \in Host, w \in Score : Report(h, w)
  \/ \E h \in Host : ReportChooses(h) \/ QueryChooses(h)
  \/ ReportFindsNone \/ QueryAnswers \/ Tick \/ Cleanup

Spec == Init /\ [][Next]_vars

-----------------------------------------------------------------------------
\* The scheduler's maps speak of the hosts and scores there are, and no
\* smoothing makes a weight exceed the scores.
TypeOK ==
  /\ Known \subseteq Host /\ score \in [Known -> Score]
  /\ age \in [Known -> Nat] /\ wait \in [Known -> Nat]
  /\ \A h \in DOMAIN state :
       state[h].base \in Nat /\ \E w \in Score : state[h].base <= w
  /\ untilCleanup \in 0 .. Interval /\ reports \in 0 .. MaxReports
  /\ query \in [pc : {"idle", "chosen"}, host : Host \cup {""}]

\* Scheduling states and scores, kept in two maps by three places of the code,
\* agree: the same hosts, a weight where there is a score and only there, so
\* that neither a removed host nor one that scored 0 has a share or a debt.
StatesMatchScores ==
  /\ DOMAIN state = Known
  /\ \A h \in Known :
       /\ state[h].base = 0 <=> score[h] = 0
       /\ score[h] = 0 => state[h].current = 0

\* A host that stopped reporting is recommended for no longer than a window
\* and a cleanup interval.
AgeBounded == \A h \in Known : age[h] <= Window + Interval

\* "Traffic is spread by weight": however weights change and hosts come and go,
\* no host is passed over more than MaxWait times in a row while it has a weight.
NoStarvation == \A h \in Known : wait[h] <= MaxWait

Least(S, h) == h \in S /\ \A g \in S : score[h] < score[g] \/
                                      (score[h] = score[g] /\ age[h] <= age[g])
Greatest(S, h) == h \in S /\ \A g \in S : ~Precedes(g, h)

\* The cluster's statistics agree with its hosts: every host is counted once,
\* and the best and the worst are hosts that still report, unless none does,
\* of the highest and lowest score and the freshest of equals.
OverviewIsTrue ==
  LET judged == IF Online = {} THEN Known ELSE Online
  IN /\ ClusterStats.total = Cardinality(Known)
     /\ ClusterStats.online = Cardinality(Online)
     /\ ClusterStats.offline = Cardinality(Known \ Online)
     /\ Known # {} => /\ Greatest(judged, ClusterStats.best)
                      /\ Least(judged, ClusterStats.worst)
=============================================================================
