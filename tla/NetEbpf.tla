------------------------------ MODULE NetEbpf ------------------------------
(***************************************************************************)
(* The traffic counters: the eBPF programs of ebpf/net_stats.bpf.c, which  *)
(* run on every CPU, and NetEbpfMonitor, which attaches them, walks their  *)
(* maps once per sample and turns differences into rates.                  *)
(*                                                                         *)
(* Both maps are one function from key to the counters of each CPU: an     *)
(* interface is a key of net_stats_map, a process one of proc_net_map.     *)
(* Keys are numbers, in the order in which bpf_map_get_next_key meets      *)
(* them.  A packet or a socket call counts one unit in one counter: the    *)
(* code treats the fields for bytes, packets and directions alike.         *)
(*                                                                         *)
(* External: the maps, TC and the probes of the kernel.  A CPU that holds  *)
(* a deleted entry adds to memory nobody reads (the element is assumed not *)
(* to be reused while held); the syscall that reads an entry copies it CPU *)
(* by CPU; hash maps keep the order of their keys.                         *)
(***************************************************************************)
EXTENDS Integers, FiniteSets, Functions

CONSTANTS
  Interface,    \* physical interfaces, numbers
  Process,      \* process ids, numbers
  NumCpus,      \* num_possible_cpus_
  MaxEntries,   \* max_entries of proc_net_map, 4096 in the code
  MaxTraffic    \* bound: units counted during one life of the worker

ASSUME KeyAssumption ==
  /\ Interface \subseteq Nat \ {0} /\ Process \subseteq Nat \ {0}
  /\ IsFiniteSet(Interface \cup Process) /\ Interface \cap Process = {}
ASSUME BoundAssumption ==
  /\ NumCpus \in Nat \ {0} /\ MaxEntries \in Nat \ {0} /\ MaxTraffic \in Nat

Cpu == 1..NumCpus
Key == Interface \cup Process

VARIABLES
  pc,           \* where the worker's NetEbpfMonitor is
  todo,         \* interfaces InitEbpf has still to attach
  iface,        \* the interface whose ingress was tried, or 0
  ingressOk,    \* ingress_ok of that interface
  attached,     \* attached_ifindexes_
  hooks,        \* interface -> the programs on its ingress and egress
  probes,       \* which probes are attached
  map,          \* net_stats_map and proc_net_map
  cpu,          \* where each CPU is in update_stats or account_proc
  alive,        \* the processes that exist
  cache,        \* cache_ and proc_cache_: the totals used last
  cur,          \* current_key, 0 before the first
  slot,         \* copies of cur's entry read so far
  acc,          \* their sum
  dead,         \* dead_pids
  expected,     \* history: the entries present since this walk began
  visited,      \* history: the keys this walk has finished
  traffic,      \* history: units the programs were asked to count, per key
  gone,         \* history: those that no entry holds any more
  reported      \* history: those that went into a reported rate

monitor == <<pc, todo, iface, ingressOk, attached>>
kernel == <<map, cpu, traffic>>
walk == <<cur, slot, acc, dead, expected, visited>>
vars == <<pc, todo, iface, ingressOk, attached, hooks, probes, map, cpu, alive,
          cache, cur, slot, acc, dead, expected, visited, traffic, gone, reported>>

Idle == [step |-> "idle", key |-> 0]
NoHook == [ingress |-> "none", egress |-> "none"]
NoEntries == [k \in {} |-> [c \in Cpu |-> 0]]
Total(k) == SumFunction(map[k])
Busy(k) == {c \in Cpu : cpu[c].key = k}
Put(f, k, v) == [j \in DOMAIN f \cup {k} |-> IF j = k THEN v ELSE f[j]]
Without(f, k) == Restrict(f, DOMAIN f \ {k})
FirstUnit(c) == [d \in Cpu |-> IF d = c THEN 1 ELSE 0]

\* The state that does not survive the worker: the maps and the caches.
NoState ==
  /\ map' = NoEntries /\ cache' = [k \in {} |-> 0]
  /\ cpu' = [c \in Cpu |-> Idle]
  /\ cur' = 0 /\ slot' = 0 /\ acc' = 0
  /\ dead' = {} /\ expected' = {} /\ visited' = {}
  /\ traffic' = [k \in Key |-> 0] /\ gone' = [k \in Key |-> 0]
  /\ reported' = [k \in Key |-> 0]

Init ==
  /\ pc = "down" /\ todo = {} /\ iface = 0 /\ ingressOk = FALSE
  /\ attached = {} /\ hooks = [i \in Interface |-> NoHook] /\ probes = "none"
  /\ map = NoEntries /\ cache = [k \in {} |-> 0]
  /\ cpu = [c \in Cpu |-> Idle] /\ alive = Process
  /\ cur = 0 /\ slot = 0 /\ acc = 0
  /\ dead = {} /\ expected = {} /\ visited = {}
  /\ traffic = [k \in Key |-> 0] /\ gone = [k \in Key |-> 0]
  /\ reported = [k \in Key |-> 0]

-----------------------------------------------------------------------------
(* The kernel: packets on hooked interfaces, socket calls of processes.    *)

\* A program of ours runs for k: a TC hook for an interface, a probe for a
\* process.
Counted(k) ==
  IF k \in Interface THEN "own" \in Range(hooks[k])
                     ELSE k \in alive /\ probes # "none"

\* The first bpf_map_lookup_elem.
Lookup(c, k) ==
  /\ cpu[c] = Idle /\ Counted(k)
  /\ SumFunction(traffic) < MaxTraffic
  /\ traffic' = [traffic EXCEPT ![k] = @ + 1]
  /\ cpu' = [cpu EXCEPT ![c] =
       [step |-> IF k \in DOMAIN map THEN "add" ELSE "missing", key |-> k]]
  /\ UNCHANGED <<monitor, hooks, probes, map, alive, cache, walk, gone, reported>>

Full(k) ==
  k \in Process /\ Cardinality(DOMAIN map \cap Process) = MaxEntries

\* A Create that takes any failure of the update for the end.
CreateOrGiveUp(c) ==
  LET k == cpu[c].key
  IN /\ cpu[c].step = "missing"
     /\ map' = IF k \in DOMAIN map \/ Full(k) THEN map
               ELSE Put(map, k, FirstUnit(c))
     /\ cpu' = [cpu EXCEPT ![c] = Idle]
     /\ UNCHANGED <<monitor, hooks, probes, alive, cache, walk, traffic, gone, reported>>

\* bpf_map_update_elem with BPF_NOEXIST: fails if another CPU has created the
\* entry meanwhile, or if the map is full.
Create(c) ==
  LET k == cpu[c].key
      exists == k \in DOMAIN map \/ Full(k)
  IN /\ cpu[c].step = "missing"
     /\ map' = IF exists THEN map
               ELSE Put(map, k, FirstUnit(c))
     /\ cpu' = [cpu EXCEPT ![c] = IF exists THEN [@ EXCEPT !.step = "again"] ELSE Idle]
     /\ UNCHANGED <<monitor, hooks, probes, alive, cache, walk, traffic, gone, reported>>

\* The second lookup: of an entry that still does not exist nothing is counted.
LookupAgain(c) ==
  LET k == cpu[c].key
      found == k \in DOMAIN map
  IN /\ cpu[c].step = "again"
     /\ cpu' = [cpu EXCEPT ![c] = IF found THEN [@ EXCEPT !.step = "add"] ELSE Idle]
     /\ gone' = IF found THEN gone ELSE [gone EXCEPT ![k] = @ + 1]
     /\ UNCHANGED <<monitor, hooks, probes, map, alive, cache, walk, traffic, reported>>

\* The plain += on this CPU's copy, or on that of a deleted entry.
Add(c) ==
  LET k == cpu[c].key
  IN /\ \/ /\ cpu[c].step = "add"
           /\ map' = [map EXCEPT ![k][c] = @ + 1]
           /\ UNCHANGED gone
        \/ /\ cpu[c].step = "stale"
           /\ gone' = [gone EXCEPT ![k] = @ + 1]
           /\ UNCHANGED map
     /\ cpu' = [cpu EXCEPT ![c] = Idle]
     /\ UNCHANGED <<monitor, hooks, probes, alive, cache, walk, traffic, reported>>

\* A process ends, between its socket calls, or its id is given out again.
Exit(k) ==
  /\ k \in alive /\ Busy(k) = {}
  /\ alive' = alive \ {k}
  /\ UNCHANGED <<monitor, hooks, probes, kernel, cache, walk, gone, reported>>

Spawn(k) ==
  /\ k \in Process \ alive
  /\ alive' = alive \cup {k}
  /\ UNCHANGED <<monitor, hooks, probes, kernel, cache, walk, gone, reported>>

Kernel ==
  \/ \E c \in Cpu : \/ \E k \in Key : Lookup(c, k)
                    \/ Create(c) \/ LookupAgain(c) \/ Add(c)
  \/ \E k \in Process : Exit(k) \/ Spawn(k)

-----------------------------------------------------------------------------
(* Attaching and detaching.                                                *)

TcHook(i, direction, program) == [hooks EXCEPT ![i][direction] = program]
Detached(S) == [i \in Interface |-> IF i \in S THEN NoHook ELSE hooks[i]]

\* CleanupEbpf: both links, the hooks of attached_ifindexes_, maps and caches.
CleanupEbpf ==
  /\ probes' = "none"
  /\ hooks' = Detached(attached)
  /\ attached' = {}
  /\ NoState

\* The constructor up to the first interface; load or a descriptor may fail.
InitEbpf ==
  /\ pc \in {"down", "killed"}
  /\ \/ pc' = "attach" /\ todo' = Interface
     \/ pc' = "failed" /\ todo' = {}
  /\ UNCHANGED <<iface, ingressOk, attached, hooks, probes, kernel, alive,
                 cache, walk, gone, reported>>

\* What AttachTcProgram may leave: creating the qdisc fails before the old
\* program is detached, attaching after it.
AttachOutcome(i, direction) ==
  {<<TRUE, TcHook(i, direction, "own")>>, <<FALSE, hooks>>,
   <<FALSE, TcHook(i, direction, "none")>>}

AttachIngress(i) ==
  /\ pc = "attach" /\ iface = 0 /\ i \in todo
  /\ iface' = i /\ todo' = todo \ {i}
  /\ \E outcome \in AttachOutcome(i, "ingress") :
       ingressOk' = outcome[1] /\ hooks' = outcome[2]
  /\ UNCHANGED <<pc, attached, probes, kernel, alive, cache, walk, gone, reported>>

\* The egress side without the detaching of what was attached.
AttachEgressNoRollback ==
  /\ pc = "attach" /\ iface # 0
  /\ iface' = 0 /\ ingressOk' = FALSE
  /\ \E outcome \in AttachOutcome(iface, "egress") :
       /\ attached' = IF ingressOk /\ outcome[1] THEN attached \cup {iface} ELSE attached
       /\ hooks' = outcome[2]
  /\ UNCHANGED <<pc, todo, probes, kernel, alive, cache, walk, gone, reported>>

\* The egress side; unless both succeeded both are detached and the qdisc is
\* destroyed.
AttachEgress ==
  /\ pc = "attach" /\ iface # 0
  /\ iface' = 0 /\ ingressOk' = FALSE
  /\ \E outcome \in AttachOutcome(iface, "egress") :
       IF ingressOk /\ outcome[1]
       THEN attached' = attached \cup {iface} /\ hooks' = outcome[2]
       ELSE UNCHANGED attached /\ hooks' = Detached({iface})
  /\ UNCHANGED <<pc, todo, probes, kernel, alive, cache, walk, gone, reported>>

\* No usable interface: the monitor is never used.
AttachDone ==
  /\ pc = "attach" /\ iface = 0 /\ todo = {}
  /\ \/ /\ attached = {}
        /\ pc' = "failed"
        /\ CleanupEbpf
     \/ /\ attached # {}
        /\ pc' = "send"
        /\ UNCHANGED <<attached, hooks, probes, kernel, cache, walk, gone, reported>>
  /\ UNCHANGED <<todo, iface, ingressOk, alive>>

\* AttachProcessProbes: without it the interfaces are still counted.
AttachSend ==
  /\ pc = "send"
  /\ \/ pc' = "recv" /\ probes' = "send"
     \/ pc' = "ready" /\ probes' = "none"
  /\ UNCHANGED <<todo, iface, ingressOk, attached, hooks, kernel, alive, cache,
                 walk, gone, reported>>

AttachRecv ==
  /\ pc = "recv"
  /\ pc' = "ready"
  /\ probes' \in {"both", "none"}
  /\ UNCHANGED <<todo, iface, ingressOk, attached, hooks, kernel, alive, cache,
                 walk, gone, reported>>

\* Stop, called between two samples, or the destructor.
Stop ==
  /\ pc \in {"ready", "failed"}
  /\ pc' = "down"
  /\ CleanupEbpf
  /\ UNCHANGED <<todo, iface, ingressOk, alive>>

\* The process dies: its probes go with their descriptors, TC filters stay.
Kill ==
  /\ pc \notin {"down", "killed"}
  /\ pc' = "killed"
  /\ todo' = {} /\ iface' = 0 /\ ingressOk' = FALSE /\ attached' = {}
  /\ hooks' = [i \in Interface |-> [d \in DOMAIN hooks[i] |->
                IF hooks[i][d] = "own" THEN "old" ELSE hooks[i][d]]]
  /\ probes' = "none"
  /\ NoState
  /\ UNCHANGED alive

Setup ==
  \/ InitEbpf \/ AttachEgress \/ AttachDone \/ AttachSend \/ AttachRecv
  \/ \E i \in Interface : AttachIngress(i)

-----------------------------------------------------------------------------
(* UpdateOnce and CollectProcessStats: one walk over each map, then the    *)
(* deletions.                                                              *)

\* The keys of the map that pc walks.
Walked == IF pc = "net" THEN Interface ELSE Process
Entries(S) == DOMAIN map \cap S

StartWalk ==
  /\ pc = "ready"
  /\ pc' = "net"
  /\ cur' = 0 /\ visited' = {} /\ expected' = Entries(Interface)
  /\ UNCHANGED <<todo, iface, ingressOk, attached, hooks, probes, kernel, alive,
                 cache, slot, acc, dead, gone, reported>>

\* bpf_map_get_next_key: after a key that is not there, the first one.
Following ==
  {k \in Entries(Walked) : cur \in DOMAIN map => k > cur}

NextKey ==
  /\ pc \in {"net", "proc"} /\ slot = 0
  /\ \E k \in Following :
       /\ \A j \in Following : k <= j
       /\ cur' = k
  /\ slot' = 1
  /\ UNCHANGED <<monitor, hooks, probes, kernel, alive, cache, acc, dead, expected,
                 visited, gone, reported>>

EndOfMap ==
  /\ pc \in {"net", "proc"} /\ slot = 0 /\ Following = {}
  /\ pc' = IF pc = "net" THEN "proc" ELSE "delete"
  /\ cur' = 0 /\ visited' = {}
  /\ expected' = IF pc = "net" THEN Entries(Process) ELSE {}
  /\ UNCHANGED <<todo, iface, ingressOk, attached, hooks, probes, kernel, alive,
                 cache, slot, acc, dead, gone, reported>>

\* The lookup copies and the loop adds up one CPU after the other.
ReadSlot ==
  /\ slot \in Cpu
  /\ acc' = acc + map[cur][slot]
  /\ slot' = slot + 1
  /\ UNCHANGED <<monitor, hooks, probes, kernel, alive, cache, cur, dead, expected,
                 visited, gone, reported>>

KeyRead == slot = NumCpus + 1
KeyDone ==
  /\ slot' = 0 /\ acc' = 0 /\ visited' = visited \cup {cur}
  /\ UNCHANGED <<monitor, hooks, probes, cpu, alive, traffic, cur, expected, gone>>

\* The process does not exist: kill(pid, 0) says ESRCH.  Deleted at once.
VisitDeadDeletes ==
  /\ KeyRead /\ cur \in Process \ alive
  /\ map' = Without(map, cur) /\ cache' = Without(cache, cur)
  /\ slot' = 0 /\ acc' = 0 /\ visited' = visited \cup {cur}
  /\ gone' = [gone EXCEPT ![cur] = @ + Total(cur)]
  /\ UNCHANGED <<monitor, hooks, probes, cpu, alive, traffic, cur, expected, dead,
                 reported>>

\* The same without forgetting the baseline.
VisitDeadKeepsCache ==
  /\ KeyRead /\ cur \in Process \ alive
  /\ dead' = dead \cup {cur}
  /\ KeyDone /\ UNCHANGED <<map, cache, reported>>

\* The process does not exist: noted for deletion after the walk.
VisitDead ==
  /\ KeyRead /\ cur \in Process \ alive
  /\ dead' = dead \cup {cur} /\ cache' = Without(cache, cur)
  /\ KeyDone /\ UNCHANGED <<map, reported>>

Visitable == KeyRead /\ cur \in Interface \cup alive

\* An interface that lost its name or its device meanwhile.
VisitUnnamed ==
  /\ Visitable /\ cur \in Interface
  /\ KeyDone /\ UNCHANGED <<map, dead, cache, reported>>

\* No baseline yet: record it.
VisitFirst ==
  /\ Visitable /\ cur \notin DOMAIN cache
  /\ cache' = Put(cache, cur, acc)
  /\ KeyDone /\ UNCHANGED <<map, dead, reported>>

\* elapsed <= 0: no rate; an interface gets a new baseline all the same.
VisitTooSoon ==
  /\ Visitable /\ cur \in DOMAIN cache
  /\ cache' = IF cur \in Interface THEN Put(cache, cur, acc) ELSE cache
  /\ KeyDone /\ UNCHANGED <<map, dead, reported>>

Delta(now, last) == IF now >= last THEN now - last ELSE now

VisitAgainKeepsBaseline ==
  /\ Visitable /\ cur \in DOMAIN cache
  /\ reported' = [reported EXCEPT ![cur] = @ + Delta(acc, cache[cur])]
  /\ KeyDone /\ UNCHANGED <<map, dead, cache>>

\* The rate of the units since the baseline, which is replaced.
VisitAgain ==
  /\ Visitable /\ cur \in DOMAIN cache
  /\ reported' = [reported EXCEPT ![cur] = @ + Delta(acc, cache[cur])]
  /\ cache' = Put(cache, cur, acc)
  /\ KeyDone /\ UNCHANGED <<map, dead>>

Visit == \/ VisitDead \/ VisitUnnamed \/ VisitFirst
         \/ VisitTooSoon \/ VisitAgain

\* Dead processes leave the list but not the map.
ForgetDead(k) ==
  /\ pc = "delete" /\ k \in dead
  /\ dead' = dead \ {k}
  /\ UNCHANGED <<monitor, hooks, probes, kernel, alive, cache, cur, slot, acc, expected,
                 visited, gone, reported>>

\* bpf_map_delete_elem for each of dead_pids, whoever has the id by now.
DeleteDead(k) ==
  /\ pc = "delete" /\ k \in dead
  /\ dead' = dead \ {k}
  /\ map' = Without(map, k)
  /\ gone' = [gone EXCEPT ![k] = @ + Total(k)]
  /\ cpu' = [c \in Cpu |-> IF cpu[c].key = k /\ cpu[c].step = "add"
                           THEN [cpu[c] EXCEPT !.step = "stale"] ELSE cpu[c]]
  /\ UNCHANGED <<monitor, hooks, probes, alive, cache, cur, slot, acc, expected,
                 visited, traffic, reported>>

EndWalk ==
  /\ pc = "delete" /\ dead = {}
  /\ pc' = "ready"
  /\ UNCHANGED <<todo, iface, ingressOk, attached, hooks, probes, kernel, alive,
                 cache, walk, gone, reported>>

UpdateOnce ==
  \/ StartWalk \/ NextKey \/ ReadSlot \/ Visit \/ EndOfMap \/ EndWalk
  \/ \E k \in Process : DeleteDead(k)

Next == Kernel \/ Setup \/ UpdateOnce \/ Stop \/ Kill

\* The push thread calls UpdateOnce again and again and nothing in it blocks.
Spec == Init /\ [][Next]_vars /\ WF_vars(UpdateOnce)
-----------------------------------------------------------------------------
\* Types, and totals that never go below zero: a difference taken the wrong
\* way round would be a huge unsigned number in the code.
TypeOK ==
  /\ pc \in {"down", "attach", "send", "recv", "ready", "net", "proc", "delete",
            "failed", "killed"}
  /\ todo \subseteq Interface /\ iface \in Interface \cup {0} /\ ingressOk \in BOOLEAN
  /\ attached \subseteq Interface
  /\ hooks \in [Interface -> [ingress : {"none", "own", "old"},
                             egress : {"none", "own", "old"}]]
  /\ probes \in {"none", "send", "both"}
  /\ DOMAIN map \subseteq Key /\ map \in [DOMAIN map -> [Cpu -> Nat]]
  /\ Cardinality(Entries(Process)) <= MaxEntries
  /\ cpu \in [Cpu -> [step : {"idle", "add", "missing", "again", "stale"},
                     key : Key \cup {0}]]
  /\ alive \subseteq Process
  /\ DOMAIN cache \subseteq Key /\ cache \in [DOMAIN cache -> Nat]
  /\ cur \in Key \cup {0} /\ slot \in 0..(NumCpus + 1) /\ acc \in Nat
  /\ dead \subseteq Process /\ expected \subseteq Key /\ visited \subseteq Key
  /\ traffic \in [Key -> Nat] /\ gone \in [Key -> Nat] /\ reported \in [Key -> Nat]

\* A unit that a program was asked to count is in the map, in flight on a
\* CPU, or gone with a deleted entry or a full map: the CPU that loses the
\* race to create an entry adds to the winner's.
Conservation ==
  \A k \in Key :
    traffic[k] = (IF k \in DOMAIN map THEN Total(k) ELSE 0)
                 + Cardinality(Busy(k)) + gone[k]

\* No unit goes into two rates: what was reported and what the next walk
\* would report is never more than what there was, deleted entries, reused
\* process ids and copies read while they change included.
ReportedOnce ==
  \A k \in Key :
    reported[k] + (IF k \in DOMAIN cache /\ k \in DOMAIN map
                   THEN Total(k) - cache[k] ELSE 0) <= traffic[k]

\* A baseline belongs to an entry that exists and has not shrunk since: the
\* deletion of an entry never leaves the baseline of the one before behind,
\* and the reset test of the differences is never needed.
BaselineValid ==
  \A k \in DOMAIN cache : k \in DOMAIN map /\ cache[k] <= Total(k)

\* An interface keeps both programs or none: attaching that fails half-way,
\* a stop, and the programs a killed worker left behind included.
HooksPaired ==
  LET running == pc \in {"send", "recv", "ready", "net", "proc", "delete"}
  IN \A i \in Interface :
       /\ running => hooks[i] = IF i \in attached THEN [ingress |-> "own", egress |-> "own"]
                                                 ELSE NoHook
       /\ pc \in {"down", "failed", "killed"} => "own" \notin Range(hooks[i])

\* A walk meets no key twice and misses no entry that was there throughout,
\* although CPUs create entries meanwhile: the deletions wait for its end.
WalkVisitsOnce ==
  [][/\ slot = 0 /\ slot' = 1 => cur' \notin visited
     /\ pc \in {"net", "proc"} /\ slot = 0 /\ pc' \in {"proc", "delete"} /\ pc' # pc
          => expected \subseteq visited]_vars

\* While the worker runs the entry of a process that does not return leaves
\* the map: dead processes do not use up its room.
EntriesReclaimed ==
  \A k \in Process :
    <>[](k \notin alive /\ pc \in {"ready", "net", "proc", "delete"})
      => <>[](k \notin DOMAIN map)
=============================================================================
