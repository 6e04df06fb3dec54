--------------------------- MODULE NetEbpf_proofs ---------------------------
(***************************************************************************)
(* Proofs about NetEbpf, for any finite sets of interfaces and processes   *)
(* and any number of CPUs.                                                 *)
(*                                                                         *)
(* Sums first: SumFunction is defined by recursion over the domain in the  *)
(* order in which CHOOSE meets its elements; that raising one value raises *)
(* the sum by as much is shown by a smallest set for which it fails.  Then *)
(* two invariants that do not need each other.  HookInv: between the       *)
(* interfaces done and those to do there is at most one half attached.     *)
(* DataInv: every unit is in an entry, in flight or gone; a sum that is    *)
(* being read lies between the baseline and the entry, although the entry  *)
(* grows meanwhile; the walk only moves forward, and nothing is deleted    *)
(* under it.                                                               *)
(***************************************************************************)
EXTENDS NetEbpf, WellFoundedInduction, FiniteSetTheorems, TLAPS

\* SumFunction adds the values up in the order in which CHOOSE meets the
\* elements of the domain; g is its table for the subsets of S.
Picked(s) == CHOOSE x \in s : TRUE
Sums(f, g, S) ==
  g = [s \in SUBSET S |-> IF s = {} THEN 0
                          ELSE LET x == Picked(s) IN f[x] + g[s \ {x}]]

\* What SumFunction means: the table that Sums describes, read at the domain.
LEMMA SumIsChosen ==
  ASSUME NEW f
  PROVE  SumFunction(f) = (CHOOSE g : Sums(f, g, DOMAIN f))[DOMAIN f]
BY DEF SumFunction, SumFunctionOnSet, FoldFunctionOnSet, MapThenFoldSet, Sums, Picked

\* CHOOSE picks an element of the set.
LEMMA PickedIn == ASSUME NEW s, s # {} PROVE Picked(s) \in s
BY DEF Picked

\* A table at one subset: nothing, or the picked value and the rest.
LEMMA SumsAt ==
  ASSUME NEW f, NEW g, NEW S, Sums(f, g, S), NEW s \in SUBSET S
  PROVE  /\ s = {} => g[s] = 0
         /\ s # {} => /\ Picked(s) \in s /\ s \ {Picked(s)} \in SUBSET S
                      /\ g[s] = f[Picked(s)] + g[s \ {Picked(s)}]
<1>1. g[s] = IF s = {} THEN 0 ELSE f[Picked(s)] + g[s \ {Picked(s)}]
  <2>1. g = [t \in SUBSET S |-> IF t = {} THEN 0 ELSE f[Picked(t)] + g[t \ {Picked(t)}]]
    BY Zenon DEF Sums
  <2> QED BY ONLY <2>1, s \in SUBSET S, Zenon
<1> QED BY <1>1, PickedIn

\* A smallest counterexample among the subsets of a finite set.
LEMMA SmallestSet ==
  ASSUME NEW S, IsFiniteSet(S), NEW T \in SUBSET (SUBSET S), T # {}
  PROVE  \E s \in T : \A t \in SUBSET S : t \subseteq s /\ t # s => t \notin T
<1>1. IsWellFoundedOn(StrictSubsetOrdering(S), SUBSET S)
  BY FS_StrictSubsetOrderingWellFounded, FS_FiniteSubsetsOfFinite
<1>2. PICK s \in T : \A t \in T : ~ (<<t, s>> \in StrictSubsetOrdering(S))
  BY <1>1, WFMin
<1> QED BY <1>2 DEF StrictSubsetOrdering

\* The tables of two sets agree on the subsets they share.
LEMMA SumsUnique ==
  ASSUME NEW f, NEW g, NEW h, NEW S, NEW T, IsFiniteSet(S),
         Sums(f, g, S), Sums(f, h, T), NEW s \in SUBSET S, s \in SUBSET T
  PROVE  g[s] = h[s]
<1> DEFINE Bad == {t \in SUBSET S : t \in SUBSET T /\ g[t] # h[t]}
<1> SUFFICES ASSUME Bad # {} PROVE FALSE
  OBVIOUS
<1>1. PICK t \in Bad : \A u \in SUBSET S : u \subseteq t /\ u # t => u \notin Bad
  <2>1. Bad \in SUBSET (SUBSET S)
    OBVIOUS
  <2> HIDE DEF Bad
  <2> QED BY <2>1, SmallestSet
<1>2. t # {}
  BY <1>1, SumsAt
<1>3. /\ Picked(t) \in t
      /\ g[t] = f[Picked(t)] + g[t \ {Picked(t)}]
      /\ h[t] = f[Picked(t)] + h[t \ {Picked(t)}]
  BY <1>1, <1>2, SumsAt
<1>4. t \ {Picked(t)} \notin Bad /\ t \ {Picked(t)} \in SUBSET S /\ t \ {Picked(t)} \in SUBSET T
  BY <1>1, <1>3
<1> QED BY <1>1, <1>3, <1>4

\* Every finite set has a table.
LEMMA SumsExist ==
  ASSUME NEW f, NEW S, IsFiniteSet(S)
  PROVE  \E g : Sums(f, g, S)
<1> DEFINE Bad == {s \in SUBSET S : ~ \E g : Sums(f, g, s)}
<1> SUFFICES ASSUME Bad # {} PROVE FALSE
  OBVIOUS
<1>1. PICK s \in Bad : \A t \in SUBSET S : t \subseteq s /\ t # s => t \notin Bad
  <2>1. Bad \in SUBSET (SUBSET S)
    OBVIOUS
  <2> HIDE DEF Bad
  <2> QED BY <2>1, SmallestSet
<1> DEFINE G(t) == CHOOSE g : Sums(f, g, t)
           v == [t \in SUBSET s |-> IF t = s THEN 0 ELSE G(t)[t]]
           h == [t \in SUBSET s |-> IF t = {} THEN 0 ELSE f[Picked(t)] + v[t \ {Picked(t)}]]
<1>2. \A t \in SUBSET s : t # s => Sums(f, G(t), t) /\ IsFiniteSet(t)
  <2>1. \A t \in SUBSET s : t # s => \E g : Sums(f, g, t)
    BY <1>1
  <2> QED BY <2>1, FS_Subset
<1>3. \A t \in SUBSET s : t # s => h[t] = v[t]
  <2> SUFFICES ASSUME NEW t \in SUBSET s, t # s PROVE h[t] = v[t]
    BY Zenon
  <2>0. v[t] = G(t)[t]
    OBVIOUS
  <2>1. Sums(f, G(t), t) /\ IsFiniteSet(t) /\ t \in SUBSET t
    BY <1>2
  <2>2. CASE t = {}
    <3>1. G(t)[t] = 0
      BY <2>1, <2>2, SumsAt
    <3> QED BY <2>0, <2>2, <3>1
  <2>3. CASE t # {}
    <3> DEFINE u == t \ {Picked(t)}
    <3>1. Picked(t) \in t /\ u \in SUBSET t /\ G(t)[t] = f[Picked(t)] + G(t)[u]
      BY <2>1, <2>3, SumsAt
    <3>2. u \in SUBSET s /\ u # s
      BY <3>1
    <3>3. Sums(f, G(u), u) /\ IsFiniteSet(u)
      BY <1>2, <3>2
    <3> HIDE DEF G, u
    <3>4. G(u)[u] = G(t)[u]
      BY <2>1, <3>1, <3>3, SumsUnique
    <3>5. v[u] = G(u)[u]
      BY <3>2
    <3> QED BY <2>0, <2>3, <3>1, <3>4, <3>5 DEF u
  <2> QED BY <2>2, <2>3
<1>4. Sums(f, h, s)
  <2>1. ASSUME NEW t \in SUBSET s, t # {} PROVE v[t \ {Picked(t)}] = h[t \ {Picked(t)}]
    <3>1. t \ {Picked(t)} \in SUBSET s /\ t \ {Picked(t)} # s
      BY <2>1, PickedIn
    <3> HIDE DEF v, h
    <3> QED BY <1>3, <3>1
  <2>2. h = [t \in SUBSET s |-> IF t = {} THEN 0 ELSE f[Picked(t)] + h[t \ {Picked(t)}]]
    <3> DEFINE k == [t \in SUBSET s |-> IF t = {} THEN 0 ELSE f[Picked(t)] + h[t \ {Picked(t)}]]
    <3>1. \A t \in SUBSET s : h[t] = IF t = {} THEN 0 ELSE f[Picked(t)] + v[t \ {Picked(t)}]
      OBVIOUS
    <3>2. \A t \in SUBSET s : k[t] = IF t = {} THEN 0 ELSE f[Picked(t)] + h[t \ {Picked(t)}]
      OBVIOUS
    <3> HIDE DEF v
    <3>3. DOMAIN h = SUBSET s /\ DOMAIN k = SUBSET s
      OBVIOUS
    <3>4. h = [t \in SUBSET s |-> h[t]] /\ k = [t \in SUBSET s |-> k[t]]
      OBVIOUS
    <3> HIDE DEF h, k
    <3>5. \A t \in SUBSET s : h[t] = k[t]
      BY <2>1, <3>1, <3>2
    <3>6. [t \in SUBSET s |-> h[t]] = [t \in SUBSET s |-> k[t]]
      BY <3>5
    <3>7. h = k
      BY <3>4, <3>6
    <3> QED BY <3>7 DEF k
  <2> HIDE DEF h
  <2> QED BY <2>2, Zenon DEF Sums
<1> HIDE DEF h, v
<1> QED BY <1>1, <1>4

\* The value of SumFunction is an entry of such a table.
LEMMA SumTable ==
  ASSUME NEW S, IsFiniteSet(S), NEW f, DOMAIN f = S
  PROVE  \E g : Sums(f, g, S) /\ SumFunction(f) = g[S]
<1>1. PICK g : Sums(f, g, S)
  BY SumsExist
<1>2. Sums(f, CHOOSE h : Sums(f, h, S), S)
  BY <1>1
<1> QED BY <1>2, SumIsChosen

\* A sum of counters is a number.
LEMMA SumType ==
  ASSUME NEW S, IsFiniteSet(S), NEW f \in [S -> Nat]
  PROVE  SumFunction(f) \in Nat
<1>1. PICK g : Sums(f, g, S) /\ SumFunction(f) = g[S]
  BY SumTable
<1> DEFINE Bad == {s \in SUBSET S : g[s] \notin Nat}
<1> SUFFICES ASSUME Bad # {} PROVE FALSE
  BY <1>1
<1>2. PICK s \in Bad : \A t \in SUBSET S : t \subseteq s /\ t # s => t \notin Bad
  <2>1. Bad \in SUBSET (SUBSET S)
    OBVIOUS
  <2> HIDE DEF Bad
  <2> QED BY <2>1, SmallestSet
<1>3. s # {}
  <2>1. s \in SUBSET S
    BY <1>2
  <2>2. s = {} => g[s] = 0
    BY <1>1, <2>1, SumsAt
  <2> QED BY <1>2, <2>2
<1>4. /\ Picked(s) \in s /\ s \ {Picked(s)} \in SUBSET S
      /\ g[s] = f[Picked(s)] + g[s \ {Picked(s)}]
  BY <1>1, <1>2, <1>3, SumsAt
<1>5. g[s \ {Picked(s)}] \in Nat /\ f[Picked(s)] \in Nat
  BY <1>2, <1>4
<1> QED BY <1>2, <1>4, <1>5

\* One value grows and the sum grows with it.
LEMMA SumGrows ==
  ASSUME NEW S, IsFiniteSet(S), NEW f \in [S -> Nat], NEW f2 \in [S -> Nat],
         NEW c \in S, NEW v \in Nat, f2[c] = f[c] + v,
         \A d \in S \ {c} : f2[d] = f[d]
  PROVE  SumFunction(f2) = SumFunction(f) + v
<1>1. PICK g : Sums(f, g, S) /\ SumFunction(f) = g[S]
  BY SumTable
<1>2. PICK h : Sums(f2, h, S) /\ SumFunction(f2) = h[S]
  BY SumTable
<1> DEFINE P(s) == g[s] \in Nat /\ h[s] = g[s] + (IF c \in s THEN v ELSE 0)
           Bad == {s \in SUBSET S : ~P(s)}
<1> SUFFICES ASSUME Bad # {} PROVE FALSE
  BY <1>1, <1>2
<1>3. PICK s \in Bad : \A t \in SUBSET S : t \subseteq s /\ t # s => t \notin Bad
  <2>1. Bad \in SUBSET (SUBSET S)
    OBVIOUS
  <2> HIDE DEF Bad
  <2> QED BY <2>1, SmallestSet
<1>4. s # {}
  <2>1. s \in SUBSET S
    BY <1>3
  <2>2. s = {} => g[s] = 0 /\ h[s] = 0
    BY <1>1, <1>2, <2>1, SumsAt
  <2> QED BY <1>3, <2>2
<1> DEFINE x == Picked(s)
<1>5. /\ x \in s /\ s \ {x} \in SUBSET S
      /\ g[s] = f[x] + g[s \ {x}] /\ h[s] = f2[x] + h[s \ {x}]
  BY <1>1, <1>2, <1>3, <1>4, SumsAt
<1> HIDE DEF x
<1>6. P(s \ {x})
  BY <1>3, <1>5
<1>7. f[x] \in Nat /\ f2[x] \in Nat /\ (f2[x] = f[x] + IF x = c THEN v ELSE 0)
  BY <1>3, <1>5
<1>8. P(s)
  <2>1. CASE x = c
    BY <1>5, <1>6, <1>7, <2>1
  <2>2. CASE x # c
    BY <1>5, <1>6, <1>7, <2>2
  <2> QED BY <2>1, <2>2
<1> QED BY <1>3, <1>8

\* Counters that are all zero add up to zero.
LEMMA SumOfZeros ==
  ASSUME NEW S, IsFiniteSet(S), NEW f \in [S -> Nat], \A d \in S : f[d] = 0
  PROVE  SumFunction(f) = 0
<1>1. PICK g : Sums(f, g, S) /\ SumFunction(f) = g[S]
  BY SumTable
<1> DEFINE Bad == {s \in SUBSET S : g[s] # 0}
<1> SUFFICES ASSUME Bad # {} PROVE FALSE
  BY <1>1
<1>2. PICK s \in Bad : \A t \in SUBSET S : t \subseteq s /\ t # s => t \notin Bad
  <2>1. Bad \in SUBSET (SUBSET S)
    OBVIOUS
  <2> HIDE DEF Bad
  <2> QED BY <2>1, SmallestSet
<1>3. s # {}
  <2>1. s \in SUBSET S
    BY <1>2
  <2>2. s = {} => g[s] = 0
    BY <1>1, <2>1, SumsAt
  <2> QED BY <1>2, <2>2
<1>4. /\ Picked(s) \in s /\ s \ {Picked(s)} \in SUBSET S
      /\ g[s] = f[Picked(s)] + g[s \ {Picked(s)}]
  BY <1>1, <1>2, <1>3, SumsAt
<1>5. g[s \ {Picked(s)}] = 0 /\ f[Picked(s)] = 0
  BY <1>2, <1>4
<1> QED BY <1>2, <1>4, <1>5

-----------------------------------------------------------------------------
(* The hooks: InitEbpf, AttachTcFilters, CleanupEbpf, a kill.              *)

Running == {"send", "recv", "ready", "net", "proc", "delete"}
Resting == {"down", "failed", "killed"}
Program == {"none", "own", "old"}
Both == [ingress |-> "own", egress |-> "own"]

\* The types of the attaching.
SetupTypes ==
  /\ pc \in Running \cup Resting \cup {"attach"}
  /\ todo \subseteq Interface /\ iface \in Interface \cup {0} /\ ingressOk \in BOOLEAN
  /\ attached \subseteq Interface
  /\ hooks \in [Interface -> [ingress : Program, egress : Program]]
  /\ probes \in {"none", "send", "both"}

\* Between the interfaces that InitEbpf has done and those still to do there
\* is at most one with its ingress tried.
AttachInv ==
  /\ pc # "attach" => iface = 0
  /\ pc \in Resting => attached = {}
  /\ pc = "attach" =>
       /\ iface \notin todo /\ iface \notin attached /\ todo \cap attached = {}
       /\ ingressOk /\ iface # 0 => hooks[iface].ingress = "own"
       /\ \A i \in todo : hooks[i].ingress # "own" /\ hooks[i].egress # "own"
       /\ \A i \in Interface \ (todo \cup {iface}) :
            hooks[i] = IF i \in attached THEN Both ELSE NoHook

\* The inductive invariant of the hooks.
HookInv == SetupTypes /\ HooksPaired /\ AttachInv

\* The programs on the two hooks of an interface.
LEMMA HookRange ==
  ASSUME NEW h \in [ingress : Program, egress : Program]
  PROVE  Range(h) = {h.ingress, h.egress}
BY DEF Range

\* HooksPaired spelled out, hook by hook.
LEMMA PairedMeans ==
  ASSUME SetupTypes
  PROVE  HooksPaired <=>
           /\ pc \in Running => \A i \in Interface :
                hooks[i] = IF i \in attached THEN Both ELSE NoHook
           /\ pc \in Resting => \A i \in Interface :
                hooks[i].ingress # "own" /\ hooks[i].egress # "own"
<1>1. \A i \in Interface : "own" \in Range(hooks[i]) <=>
                             hooks[i].ingress = "own" \/ hooks[i].egress = "own"
  BY HookRange DEF SetupTypes
<1> QED BY <1>1 DEF HooksPaired, Running, Resting, Both

\* The same after a step.
LEMMA PairedNext ==
  ASSUME SetupTypes'
  PROVE  HooksPaired' <=>
           /\ pc' \in Running => \A i \in Interface :
                hooks'[i] = IF i \in attached' THEN Both ELSE NoHook
           /\ pc' \in Resting => \A i \in Interface :
                hooks'[i].ingress # "own" /\ hooks'[i].egress # "own"
<1>1. \A i \in Interface : "own" \in Range(hooks'[i]) <=>
                             hooks'[i].ingress = "own" \/ hooks'[i].egress = "own"
  BY HookRange DEF SetupTypes
<1> QED BY <1>1 DEF HooksPaired, Running, Resting, Both

\* An interface with neither program, and one with both.
LEMMA HookTypes ==
  NoHook \in [ingress : Program, egress : Program] /\ Both \in [ingress : Program, egress : Program]
  /\ NoHook.ingress = "none" /\ NoHook.egress = "none"
BY DEF NoHook, Both, Program

\* AttachTcProgram on the ingress side changes that hook and no other.
LEMMA TcIngress ==
  ASSUME SetupTypes, NEW i \in Interface, NEW p \in Program
  PROVE  /\ TcHook(i, "ingress", p) \in [Interface -> [ingress : Program, egress : Program]]
         /\ \A j \in Interface \ {i} : TcHook(i, "ingress", p)[j] = hooks[j]
         /\ TcHook(i, "ingress", p)[i] = [ingress |-> p, egress |-> hooks[i].egress]
<1>1. TcHook(i, "ingress", p) = [hooks EXCEPT ![i] = [hooks[i] EXCEPT !["ingress"] = p]]
  BY DEF TcHook
<1>2. [hooks[i] EXCEPT !["ingress"] = p] = [ingress |-> p, egress |-> hooks[i].egress]
  BY DEF SetupTypes
<1>3. [ingress |-> p, egress |-> hooks[i].egress] \in [ingress : Program, egress : Program]
  BY DEF SetupTypes
<1> QED BY <1>1, <1>2, <1>3 DEF SetupTypes

\* AttachTcProgram on the egress side changes that hook and no other.
LEMMA TcEgress ==
  ASSUME SetupTypes, NEW i \in Interface, NEW p \in Program
  PROVE  /\ TcHook(i, "egress", p) \in [Interface -> [ingress : Program, egress : Program]]
         /\ \A j \in Interface \ {i} : TcHook(i, "egress", p)[j] = hooks[j]
         /\ TcHook(i, "egress", p)[i] = [ingress |-> hooks[i].ingress, egress |-> p]
<1>1. TcHook(i, "egress", p) = [hooks EXCEPT ![i] = [hooks[i] EXCEPT !["egress"] = p]]
  BY DEF TcHook
<1>2. [hooks[i] EXCEPT !["egress"] = p] = [ingress |-> hooks[i].ingress, egress |-> p]
  BY DEF SetupTypes
<1>3. [ingress |-> hooks[i].ingress, egress |-> p] \in [ingress : Program, egress : Program]
  BY DEF SetupTypes
<1> QED BY <1>1, <1>2, <1>3 DEF SetupTypes

\* The three ways AttachTcProgram ends.
LEMMA OutcomeIs ==
  ASSUME NEW i, NEW d, NEW o \in AttachOutcome(i, d)
  PROVE  \/ o[1] = TRUE /\ o[2] = TcHook(i, d, "own")
         \/ o[1] = FALSE /\ o[2] = hooks
         \/ o[1] = FALSE /\ o[2] = TcHook(i, d, "none")
<1>1. \/ o = <<TRUE, TcHook(i, d, "own")>> \/ o = <<FALSE, hooks>>
      \/ o = <<FALSE, TcHook(i, d, "none")>>
  BY Zenon DEF AttachOutcome
<1>2. CASE o = <<TRUE, TcHook(i, d, "own")>>
  <2>1. o[1] = TRUE /\ o[2] = TcHook(i, d, "own")
    BY <1>2
  <2> QED BY <2>1, Zenon
<1>3. CASE o = <<FALSE, hooks>>
  <2>1. o[1] = FALSE /\ o[2] = hooks
    BY <1>3
  <2> QED BY <2>1, Zenon
<1>4. CASE o = <<FALSE, TcHook(i, d, "none")>>
  <2>1. o[1] = FALSE /\ o[2] = TcHook(i, d, "none")
    BY <1>4
  <2> QED BY <2>1, Zenon
<1> QED BY <1>1, <1>2, <1>3, <1>4, Zenon

\* A worker that was never started has no hooks.
LEMMA HookInit == Init => HookInv
<1> SUFFICES ASSUME Init PROVE HookInv
  OBVIOUS
<1>1. SetupTypes
  <2>1. ingressOk \in BOOLEAN
    BY Zenon DEF Init
  <2> QED BY <2>1, HookTypes DEF Init, SetupTypes, Resting
<1>2. HooksPaired
  BY <1>1, PairedMeans, HookTypes DEF Init, Running
<1>3. AttachInv
  BY DEF Init, AttachInv
<1> QED BY <1>1, <1>2, <1>3 DEF HookInv

\* AttachTcFilters, ingress: the interface leaves todo whatever happened.
LEMMA AttachIngressKeeps ==
  ASSUME HookInv, NEW i \in Interface, AttachIngress(i)
  PROVE  HookInv'
<1>1. /\ pc = "attach" /\ iface = 0 /\ i \in todo
      /\ iface' = i /\ todo' = todo \ {i} /\ UNCHANGED <<pc, attached, probes>>
      /\ \E outcome \in AttachOutcome(i, "ingress") :
           ingressOk' = outcome[1] /\ hooks' = outcome[2]
  BY DEF AttachIngress
<1>2. /\ hooks' \in [Interface -> [ingress : Program, egress : Program]]
      /\ \A j \in Interface \ {i} : hooks'[j] = hooks[j]
      /\ ingressOk' = TRUE => hooks'[i].ingress = "own"
      /\ ingressOk' = TRUE \/ ingressOk' = FALSE
  <2>0. SetupTypes /\ "own" \in Program /\ "none" \in Program
    BY DEF HookInv, Program
  <2>1. CASE ingressOk' = TRUE /\ hooks' = TcHook(i, "ingress", "own")
    <3>1. /\ TcHook(i, "ingress", "own") \in [Interface -> [ingress : Program, egress : Program]]
          /\ \A j \in Interface \ {i} : TcHook(i, "ingress", "own")[j] = hooks[j]
          /\ TcHook(i, "ingress", "own")[i] = [ingress |-> "own", egress |-> hooks[i].egress]
      BY <2>0, TcIngress
    <3> QED BY <2>1, <3>1
  <2>2. CASE ingressOk' = FALSE /\ hooks' = hooks
    <3>1. /\ hooks \in [Interface -> [ingress : Program, egress : Program]]
          /\ FALSE # TRUE
      BY <2>0 DEF SetupTypes
    <3> QED BY <2>2, <3>1, Zenon
  <2>3. CASE ingressOk' = FALSE /\ hooks' = TcHook(i, "ingress", "none")
    <3>1. /\ TcHook(i, "ingress", "none") \in [Interface -> [ingress : Program, egress : Program]]
          /\ \A j \in Interface \ {i} : TcHook(i, "ingress", "none")[j] = hooks[j]
      BY <2>0, TcIngress
    <3> QED BY <2>3, <3>1
  <2>4. PICK o \in AttachOutcome(i, "ingress") : ingressOk' = o[1] /\ hooks' = o[2]
    BY <1>1
  <2> QED BY <2>1, <2>2, <2>3, <2>4, OutcomeIs
<1>3. SetupTypes'
  <2>1. ingressOk' \in BOOLEAN
    BY <1>2, Zenon
  <2> QED BY <1>1, <1>2, <2>1 DEF HookInv, SetupTypes
<1>4. HooksPaired'
  BY <1>1 DEF HooksPaired
<1>5. AttachInv'
  <2>2. /\ todo \cap attached = {} /\ todo \subseteq Interface
        /\ \A j \in todo : hooks[j].ingress # "own" /\ hooks[j].egress # "own"
        /\ \A j \in Interface \ (todo \cup {iface}) :
             hooks[j] = IF j \in attached THEN Both ELSE NoHook
    BY <1>1 DEF HookInv, AttachInv, SetupTypes
  <2>3. pc' = "attach" /\ attached' = attached /\ iface' = i /\ todo' = todo \ {i}
    BY <1>1
  <2>4. iface' \notin todo' /\ iface' \notin attached' /\ todo' \cap attached' = {}
    BY <1>1, <2>2, <2>3
  <2>5. \A j \in todo' : hooks'[j].ingress # "own" /\ hooks'[j].egress # "own"
    <3>1. \A j \in todo' : j \in todo /\ hooks'[j] = hooks[j]
      BY <1>2, <2>2, <2>3
    <3> QED BY <2>2, <3>1
  <2>6. \A j \in Interface \ (todo' \cup {iface'}) :
          hooks'[j] = IF j \in attached' THEN Both ELSE NoHook
    <3> SUFFICES ASSUME NEW j \in Interface \ (todo' \cup {iface'})
                 PROVE  hooks'[j] = IF j \in attached' THEN Both ELSE NoHook
      OBVIOUS
    <3>1. j # i /\ j \notin todo
      BY <2>3
    <3>2. j # iface
      BY <1>1, KeyAssumption
    <3>3. hooks'[j] = hooks[j]
      BY <1>2, <3>1
    <3> QED BY <2>2, <2>3, <3>1, <3>2, <3>3
  <2>7. ingressOk' /\ iface' # 0 => hooks'[iface'].ingress = "own"
    BY <1>2, <2>3
  <2> QED BY <2>3, <2>4, <2>5, <2>6, <2>7 DEF AttachInv, Resting
<1> QED BY <1>3, <1>4, <1>5 DEF HookInv

\* DetachTcFilters empties the hooks of the interfaces given, and only those.
LEMMA DetachedIs ==
  ASSUME SetupTypes, NEW S
  PROVE  /\ Detached(S) \in [Interface -> [ingress : Program, egress : Program]]
         /\ \A i \in Interface : Detached(S)[i] = IF i \in S THEN NoHook ELSE hooks[i]
BY HookTypes DEF Detached, SetupTypes

\* AttachTcFilters, egress: both programs or, after the roll-back, none.
LEMMA AttachEgressKeeps ==
  ASSUME HookInv, AttachEgress
  PROVE  HookInv'
<1>1. /\ pc = "attach" /\ iface # 0 /\ iface' = 0 /\ ingressOk' = FALSE
      /\ UNCHANGED <<pc, todo, probes>> /\ iface \in Interface
      /\ \E outcome \in AttachOutcome(iface, "egress") :
           IF ingressOk /\ outcome[1]
           THEN attached' = attached \cup {iface} /\ hooks' = outcome[2]
           ELSE UNCHANGED attached /\ hooks' = Detached({iface})
  BY DEF AttachEgress, HookInv, SetupTypes
<1>2. \/ /\ ingressOk /\ attached' = attached \cup {iface}
         /\ hooks' = TcHook(iface, "egress", "own")
      \/ /\ attached' = attached /\ hooks' = Detached({iface})
  <2>1. PICK o \in AttachOutcome(iface, "egress") :
           IF ingressOk /\ o[1]
           THEN attached' = attached \cup {iface} /\ hooks' = o[2]
           ELSE UNCHANGED attached /\ hooks' = Detached({iface})
    BY <1>1
  <2> QED BY <2>1, OutcomeIs
<1>3. /\ hooks' \in [Interface -> [ingress : Program, egress : Program]]
      /\ \A j \in Interface \ {iface} : hooks'[j] = hooks[j]
      /\ hooks'[iface] = IF iface \in attached' THEN Both ELSE NoHook
      /\ attached' \subseteq attached \cup {iface} /\ attached \subseteq attached'
  <2>1. CASE /\ ingressOk /\ attached' = attached \cup {iface}
             /\ hooks' = TcHook(iface, "egress", "own")
    <3>1. hooks[iface].ingress = "own"
      BY <1>1, <2>1 DEF HookInv, AttachInv
    <3>0. SetupTypes /\ "own" \in Program
      BY DEF HookInv, Program
    <3>9. /\ TcHook(iface, "egress", "own") \in [Interface -> [ingress : Program, egress : Program]]
          /\ \A j \in Interface \ {iface} : TcHook(iface, "egress", "own")[j] = hooks[j]
          /\ TcHook(iface, "egress", "own")[iface] = [ingress |-> hooks[iface].ingress, egress |-> "own"]
      BY <1>1, <3>0, TcEgress
    <3>2. hooks'[iface] = [ingress |-> hooks[iface].ingress, egress |-> "own"]
      BY <2>1, <3>9
    <3>3. /\ hooks' \in [Interface -> [ingress : Program, egress : Program]]
          /\ \A j \in Interface \ {iface} : hooks'[j] = hooks[j]
      BY <2>1, <3>9
    <3>4. hooks'[iface] = Both /\ iface \in attached'
      BY <2>1, <3>1, <3>2 DEF Both
    <3>5. attached' \subseteq attached \cup {iface} /\ attached \subseteq attached'
      BY <2>1
    <3> QED BY <3>3, <3>4, <3>5
  <2>2. CASE attached' = attached /\ hooks' = Detached({iface})
    BY <1>1, <2>2, DetachedIs DEF HookInv, AttachInv
  <2> QED BY <1>2, <2>1, <2>2
<1>4. SetupTypes'
  <2>1. ingressOk' \in BOOLEAN
    BY <1>1, Zenon
  <2> QED BY <1>1, <1>3, <2>1 DEF HookInv, SetupTypes
<1>5. HooksPaired'
  BY <1>1 DEF HooksPaired
<1>6. AttachInv'
  <2>1. 0 \notin Interface
    BY KeyAssumption
  <2>2. /\ iface \notin todo /\ iface \notin attached /\ todo \cap attached = {}
        /\ \A i \in todo : hooks[i].ingress # "own" /\ hooks[i].egress # "own"
        /\ \A i \in Interface \ (todo \cup {iface}) :
             hooks[i] = IF i \in attached THEN Both ELSE NoHook
        /\ todo \subseteq Interface /\ attached \subseteq Interface
    BY <1>1 DEF HookInv, AttachInv, SetupTypes
  <2>3. pc' = "attach" /\ todo' = todo /\ iface' = 0
    BY <1>1
  <2>4. 0 \notin todo' /\ 0 \notin attached' /\ todo' \cap attached' = {}
    BY <1>1, <1>3, <2>1, <2>2, <2>3
  <2>5. \A i \in todo' : hooks'[i].ingress # "own" /\ hooks'[i].egress # "own"
    <3>1. \A i \in todo : hooks'[i] = hooks[i]
      BY <1>3, <2>2
    <3> QED BY <2>2, <2>3, <3>1
  <2>6. \A i \in Interface \ todo' : hooks'[i] = IF i \in attached' THEN Both ELSE NoHook
    <3> SUFFICES ASSUME NEW i \in Interface \ todo
                 PROVE  hooks'[i] = IF i \in attached' THEN Both ELSE NoHook
      BY <2>3
    <3>1. CASE i = iface
      BY <1>3, <3>1
    <3>2. CASE i # iface
      <4>1. hooks'[i] = hooks[i] /\ (i \in attached' <=> i \in attached)
        BY <1>3, <3>2
      <4> QED BY <2>2, <3>2, <4>1
    <3> QED BY <3>1, <3>2
  <2> QED BY <2>3, <2>4, <2>5, <2>6 DEF AttachInv, Resting
<1> QED BY <1>4, <1>5, <1>6 DEF HookInv

\* CleanupEbpf leaves no program of this worker: it detaches the interfaces in
\* attached_ifindexes_, and no other interface has one.
LEMMA CleanupHooks ==
  ASSUME HookInv, pc \in Running \cup Resting \/ (pc = "attach" /\ todo = {} /\ iface = 0),
         CleanupEbpf
  PROVE  /\ attached' = {} /\ probes' = "none"
         /\ hooks' \in [Interface -> [ingress : Program, egress : Program]]
         /\ \A i \in Interface : hooks'[i].ingress # "own" /\ hooks'[i].egress # "own"
<1>1. /\ hooks' = Detached(attached) /\ attached' = {} /\ probes' = "none"
  BY DEF CleanupEbpf
<1>2. SetupTypes
  BY DEF HookInv
<1>3. \A i \in Interface : i \notin attached =>
        hooks[i].ingress # "own" /\ hooks[i].egress # "own"
  <2>1. CASE pc \in Running
    BY <1>2, <2>1, PairedMeans, HookTypes DEF HookInv
  <2>2. CASE pc \in Resting
    BY <1>2, <2>2, PairedMeans DEF HookInv
  <2>3. CASE pc = "attach" /\ todo = {} /\ iface = 0
    <3>1. \A i \in Interface : i # 0
      BY KeyAssumption
    <3> QED BY <2>3, <3>1, HookTypes DEF HookInv, AttachInv
  <2> QED BY <2>1, <2>2, <2>3
<1> QED BY <1>1, <1>2, <1>3, DetachedIs, HookTypes

\* After a kill the programs on a hook belong to nobody.
LEMMA KilledHook ==
  ASSUME NEW h \in [ingress : Program, egress : Program],
         NEW g, g = [d \in DOMAIN h |-> IF h[d] = "own" THEN "old" ELSE h[d]]
  PROVE  /\ g \in [ingress : Program, egress : Program]
         /\ g.ingress # "own" /\ g.egress # "own"
<1>1. DOMAIN h = {"ingress", "egress"}
  OBVIOUS
<1>2. g = [ingress |-> IF h.ingress = "own" THEN "old" ELSE h.ingress,
           egress |-> IF h.egress = "own" THEN "old" ELSE h.egress]
  BY <1>1
<1> QED BY <1>2 DEF Program

\* Every step of the worker and of the kernel keeps the hooks in order.
LEMMA HookStep == HookInv /\ [Next]_vars => HookInv'
<1> SUFFICES ASSUME HookInv, [Next]_vars PROVE HookInv'
  OBVIOUS
<1> USE DEF monitor, kernel, walk
<1>0. SetupTypes /\ HooksPaired /\ AttachInv
  BY DEF HookInv
<1>1. CASE Kernel \/ ReadSlot \/ Visit \/ UNCHANGED vars
  <2>1. UNCHANGED <<pc, todo, iface, ingressOk, attached, hooks, probes>>
    BY <1>1 DEF Kernel, Lookup, Create, LookupAgain, Add, Exit, Spawn, vars, ReadSlot, Visit,
       VisitDead, VisitUnnamed, VisitFirst, VisitTooSoon, VisitAgain, KeyDone
  <2> QED BY <1>0, <2>1, Zenon DEF HookInv, SetupTypes, HooksPaired, AttachInv
<1>2. CASE \/ StartWalk \/ NextKey \/ EndOfMap \/ EndWalk
           \/ \E k \in Process : DeleteDead(k)
           \/ AttachSend \/ AttachRecv
  <2>1. /\ pc \in Running /\ pc' \in Running
        /\ UNCHANGED <<todo, iface, ingressOk, attached, hooks>>
        /\ probes' \in {"none", "send", "both"}
    BY <1>0, <1>2 DEF StartWalk, NextKey, EndOfMap, EndWalk, DeleteDead,
       AttachSend, AttachRecv, Running, SetupTypes
  <2>2. SetupTypes'
    BY <1>0, <2>1, Zenon DEF SetupTypes
  <2>3. HooksPaired'
    <3>1. pc' \notin Resting
      BY <2>1 DEF Running, Resting
    <3> QED BY <1>0, <2>1, <2>2, <3>1, PairedMeans, PairedNext
  <2>4. AttachInv'
    BY <1>0, <2>1 DEF AttachInv, Running, Resting
  <2> QED BY <2>2, <2>3, <2>4 DEF HookInv
<1>3. CASE InitEbpf
  <2>1. /\ pc \in Resting /\ ((pc' = "attach" /\ todo' = Interface) \/ (pc' = "failed" /\ todo' = {}))
        /\ UNCHANGED <<iface, ingressOk, attached, hooks, probes>>
    BY <1>3 DEF InitEbpf, Resting
  <2>2. \A i \in Interface : hooks[i].ingress # "own" /\ hooks[i].egress # "own"
    BY <1>0, <2>1, PairedMeans
  <2>3. SetupTypes'
    <3>1. todo' \subseteq Interface /\ pc' \in Running \cup Resting \cup {"attach"}
      BY <2>1 DEF Resting
    <3> QED BY <1>0, <2>1, <3>1, Zenon DEF SetupTypes
  <2>4. HooksPaired'
    <3>1. pc' \notin Running
      BY <2>1 DEF Running
    <3> QED BY <2>1, <2>2, <2>3, <3>1, PairedNext
  <2>5. AttachInv'
    <3>1. iface = 0 /\ attached = {} /\ 0 \notin Interface
      BY <1>0, <2>1, KeyAssumption DEF AttachInv, Resting
    <3> QED BY <2>1, <2>2, <3>1 DEF AttachInv
  <2> QED BY <2>3, <2>4, <2>5 DEF HookInv
<1>4. CASE AttachDone
  <2>1. /\ pc = "attach" /\ iface = 0 /\ todo = {} /\ UNCHANGED <<todo, iface, ingressOk>>
    BY <1>4 DEF AttachDone
  <2>2. CASE pc' = "failed" /\ CleanupEbpf
    <3>1. /\ attached' = {} /\ probes' = "none"
          /\ hooks' \in [Interface -> [ingress : Program, egress : Program]]
          /\ \A i \in Interface : hooks'[i].ingress # "own" /\ hooks'[i].egress # "own"
      BY <2>1, <2>2, CleanupHooks
    <3>2. SetupTypes'
      <4>1. ingressOk' \in BOOLEAN
        BY <1>0, <2>1, Zenon DEF SetupTypes
      <4> QED BY <1>0, <2>1, <2>2, <3>1, <4>1 DEF SetupTypes, Resting
    <3>3. HooksPaired'
      <4>1. pc' \notin Running
        BY <2>2 DEF Running
      <4> QED BY <3>1, <3>2, <4>1, PairedNext
    <3>4. AttachInv'
      BY <2>1, <2>2, <3>1 DEF AttachInv
    <3> QED BY <3>2, <3>3, <3>4 DEF HookInv
  <2>3. CASE pc' = "send" /\ UNCHANGED <<attached, hooks, probes>>
    <3>2. SetupTypes'
      <4>1. ingressOk' \in BOOLEAN
        BY <1>0, <2>1, Zenon DEF SetupTypes
      <4> QED BY <1>0, <2>1, <2>3, <4>1 DEF SetupTypes, Running
    <3>3. HooksPaired'
      <4>1. pc' \notin Resting
        BY <2>3 DEF Resting
      <4>2. \A i \in Interface : hooks[i] = IF i \in attached THEN Both ELSE NoHook
        <5>1. \A i \in Interface : i # 0
          BY KeyAssumption
        <5> QED BY <1>0, <2>1, <5>1 DEF AttachInv
      <4> QED BY <2>3, <3>2, <4>1, <4>2, PairedNext
    <3>4. AttachInv'
      BY <2>1, <2>3 DEF AttachInv, Resting
    <3> QED BY <3>2, <3>3, <3>4 DEF HookInv
  <2> QED BY <1>4, <2>2, <2>3 DEF AttachDone
<1>5. CASE Stop
  <2>1. /\ pc \in Running \cup Resting /\ pc # "attach" /\ pc' = "down" /\ CleanupEbpf
        /\ UNCHANGED <<todo, iface, ingressOk>>
    BY <1>5 DEF Stop, Running, Resting
  <2>2. /\ attached' = {} /\ probes' = "none"
        /\ hooks' \in [Interface -> [ingress : Program, egress : Program]]
        /\ \A i \in Interface : hooks'[i].ingress # "own" /\ hooks'[i].egress # "own"
    BY <2>1, CleanupHooks
  <2>3. SetupTypes'
    <3>1. ingressOk' \in BOOLEAN
      BY <1>0, <2>1, Zenon DEF SetupTypes
    <3> QED BY <1>0, <2>1, <2>2, <3>1 DEF SetupTypes, Resting
  <2>4. HooksPaired'
    <3>1. pc' \notin Running
      BY <2>1 DEF Running
    <3> QED BY <2>2, <2>3, <3>1, PairedNext
  <2>5. AttachInv'
    BY <1>0, <2>1, <2>2 DEF AttachInv
  <2> QED BY <2>3, <2>4, <2>5 DEF HookInv
<1>6. CASE Kill
  <2>1. /\ pc' = "killed" /\ todo' = {} /\ iface' = 0 /\ ingressOk' = FALSE /\ attached' = {}
        /\ hooks' = [i \in Interface |-> [d \in DOMAIN hooks[i] |->
                      IF hooks[i][d] = "own" THEN "old" ELSE hooks[i][d]]]
        /\ probes' = "none"
    BY <1>6 DEF Kill
  <2>2. \A i \in Interface : /\ hooks'[i] \in [ingress : Program, egress : Program]
                             /\ hooks'[i].ingress # "own" /\ hooks'[i].egress # "own"
    <3> SUFFICES ASSUME NEW i \in Interface
                 PROVE  /\ hooks'[i] \in [ingress : Program, egress : Program]
                        /\ hooks'[i].ingress # "own" /\ hooks'[i].egress # "own"
      OBVIOUS
    <3>1. hooks'[i] = [d \in DOMAIN hooks[i] |-> IF hooks[i][d] = "own" THEN "old" ELSE hooks[i][d]]
      BY <2>1
    <3>2. hooks[i] \in [ingress : Program, egress : Program]
      BY <1>0 DEF SetupTypes
    <3> QED BY <3>1, <3>2, KilledHook
  <2>3. SetupTypes'
    <3>1. ingressOk' \in BOOLEAN
      BY <2>1, Zenon
    <3>2. hooks' \in [Interface -> [ingress : Program, egress : Program]]
      <4>1. DOMAIN hooks' = Interface /\ hooks' = [i \in Interface |-> hooks'[i]]
        BY <2>1
      <4> HIDE <2>1
      <4> QED BY <2>2, <4>1
    <3> QED BY <2>1, <3>1, <3>2 DEF SetupTypes, Resting
  <2>4. HooksPaired'
    <3>1. pc' \notin Running
      BY <2>1 DEF Running
    <3> QED BY <2>2, <2>3, <3>1, PairedNext
  <2>5. AttachInv'
    BY <2>1 DEF AttachInv
  <2> QED BY <2>3, <2>4, <2>5 DEF HookInv
<1> QED
  BY <1>1, <1>2, <1>3, <1>4, <1>5, <1>6, AttachIngressKeeps, AttachEgressKeeps DEF Next, Setup, UpdateOnce

-----------------------------------------------------------------------------
(* The counters of one entry, and the first n CPUs of it.                  *)

Below(f, n) == SumFunction([d \in Cpu |-> IF d <= n THEN f[d] ELSE 0])

\* The CPUs are numbered from 1 to NumCpus.
LEMMA CpuFinite == IsFiniteSet(Cpu) /\ Cpu \subseteq Nat \ {0} /\ NumCpus \in Nat \ {0}
  /\ \A n : n \in Cpu <=> n \in Nat /\ 1 <= n /\ n <= NumCpus
<1>1. NumCpus \in Nat \ {0}
  BY BoundAssumption
<1>2. IsFiniteSet(1..NumCpus)
  BY <1>1, FS_Interval
<1> QED BY <1>1, <1>2 DEF Cpu

\* Sums of an entry, and of its first CPUs, are numbers.
LEMMA BelowType ==
  ASSUME NEW f \in [Cpu -> Nat], NEW n \in Nat
  PROVE  SumFunction(f) \in Nat /\ Below(f, n) \in Nat
<1>1. [d \in Cpu |-> IF d <= n THEN f[d] ELSE 0] \in [Cpu -> Nat]
  OBVIOUS
<1> QED BY <1>1, CpuFinite, SumType DEF Below

\* No CPU read: nothing.
LEMMA BelowNone == ASSUME NEW f \in [Cpu -> Nat] PROVE Below(f, 0) = 0
<1> DEFINE g == [d \in Cpu |-> IF d <= 0 THEN f[d] ELSE 0]
<1>1. g \in [Cpu -> Nat]
  OBVIOUS
<1>2. \A d \in Cpu : g[d] = 0
  BY CpuFinite
<1> HIDE DEF g
<1>3. SumFunction(g) = 0
  BY <1>1, <1>2, CpuFinite, SumOfZeros
<1> QED BY <1>3 DEF Below, g

\* One CPU more: its counter is added.
LEMMA BelowNext ==
  ASSUME NEW f \in [Cpu -> Nat], NEW n \in Cpu
  PROVE  Below(f, n) = Below(f, n - 1) + f[n]
<1> DEFINE g == [d \in Cpu |-> IF d <= n - 1 THEN f[d] ELSE 0]
           h == [d \in Cpu |-> IF d <= n THEN f[d] ELSE 0]
<1>1. g \in [Cpu -> Nat] /\ h \in [Cpu -> Nat] /\ f[n] \in Nat
  OBVIOUS
<1>2. h[n] = g[n] + f[n] /\ \A d \in Cpu \ {n} : h[d] = g[d]
  BY CpuFinite
<1> HIDE DEF g, h
<1>3. SumFunction(h) = SumFunction(g) + f[n]
  BY <1>1, <1>2, CpuFinite, SumGrows
<1> QED BY <1>3 DEF Below, g, h

\* All CPUs read: the total.
LEMMA BelowAll == ASSUME NEW f \in [Cpu -> Nat] PROVE Below(f, NumCpus) = SumFunction(f)
<1>1. [d \in Cpu |-> IF d <= NumCpus THEN f[d] ELSE 0] = f
  BY CpuFinite
<1> QED BY <1>1 DEF Below

\* One unit on one CPU: the total grows by one, and the sum of the first n CPUs
\* by one if that CPU is among them.
LEMMA BelowBump ==
  ASSUME NEW f \in [Cpu -> Nat], NEW f2 \in [Cpu -> Nat], NEW c \in Cpu, NEW n \in Nat,
         f2[c] = f[c] + 1, \A d \in Cpu \ {c} : f2[d] = f[d]
  PROVE  /\ SumFunction(f2) = SumFunction(f) + 1
         /\ Below(f2, n) = Below(f, n) + IF c <= n THEN 1 ELSE 0
<1> DEFINE g == [d \in Cpu |-> IF d <= n THEN f[d] ELSE 0]
           h == [d \in Cpu |-> IF d <= n THEN f2[d] ELSE 0]
           v == IF c <= n THEN 1 ELSE 0
<1>1. g \in [Cpu -> Nat] /\ h \in [Cpu -> Nat] /\ v \in Nat
  OBVIOUS
<1>2. h[c] = g[c] + v /\ \A d \in Cpu \ {c} : h[d] = g[d]
  OBVIOUS
<1> HIDE DEF g, h, v
<1>3. SumFunction(f2) = SumFunction(f) + 1
  BY CpuFinite, SumGrows
<1>4. SumFunction(h) = SumFunction(g) + v
  BY <1>1, <1>2, CpuFinite, SumGrows
<1> QED BY <1>3, <1>4 DEF Below, g, h, v

\* The entry that update_stats creates holds one unit.
LEMMA FirstUnitSum ==
  ASSUME NEW c \in Cpu
  PROVE  FirstUnit(c) \in [Cpu -> Nat] /\ SumFunction(FirstUnit(c)) = 1
<1> DEFINE z == [d \in Cpu |-> 0]
<1>1. z \in [Cpu -> Nat] /\ FirstUnit(c) \in [Cpu -> Nat]
  BY DEF FirstUnit
<1>2. FirstUnit(c)[c] = z[c] + 1 /\ (\A d \in Cpu \ {c} : FirstUnit(c)[d] = z[d])
      /\ \A d \in Cpu : z[d] = 0
  BY DEF FirstUnit
<1> HIDE DEF z
<1>3. SumFunction(z) = 0
  BY <1>1, <1>2, CpuFinite, SumOfZeros
<1>4. SumFunction(FirstUnit(c)) = SumFunction(z) + 1
  BY <1>1, <1>2, CpuFinite, SumGrows
<1> QED BY <1>1, <1>3, <1>4

-----------------------------------------------------------------------------
(* The data: maps, CPUs, caches and the walk.                              *)

\* Where a CPU can be in a program.
Step == {"idle", "add", "missing", "again", "stale"}

\* The types of the maps, the CPUs, the caches and the walk.
DataTypes ==
  /\ DOMAIN map \subseteq Key /\ map \in [DOMAIN map -> [Cpu -> Nat]]
  /\ cpu \in [Cpu -> [step : Step, key : Key \cup {0}]]
  /\ alive \subseteq Process
  /\ DOMAIN cache \subseteq Key /\ cache \in [DOMAIN cache -> Nat]
  /\ cur \in Key \cup {0} /\ slot \in 0..(NumCpus + 1) /\ acc \in Nat
  /\ dead \subseteq Process /\ expected \subseteq Key /\ visited \subseteq Key
  /\ traffic \in [Key -> Nat] /\ gone \in [Key -> Nat] /\ reported \in [Key -> Nat]

\* max_entries of proc_net_map.
RoomInv == Cardinality(Entries(Process)) <= MaxEntries

\* A CPU is idle exactly when it has no key, and adds only to an entry that exists.
CpuInv ==
  \A c \in Cpu : /\ cpu[c].step = "idle" <=> cpu[c].key = 0
                 /\ cpu[c].step = "add" => cpu[c].key \in DOMAIN map

\* The walk: cur is in the map that is walked, what was visited lies before it
\* and contains what was expected so far; dead_pids are entries of processes,
\* noted by the second walk and deleted after it.
WalkInv ==
  /\ slot > 0 => pc \in {"net", "proc"} /\ cur # 0
  /\ slot = 0 => acc = 0
  /\ pc \in {"net", "proc"} =>
       /\ cur # 0 => cur \in Entries(Walked)
       /\ visited \subseteq Walked
       /\ \A v \in visited : v < cur \/ (v = cur /\ slot = 0)
       /\ expected \subseteq Entries(Walked)
       /\ \A k \in expected : k < cur \/ (k = cur /\ slot = 0) => k \in visited
  /\ dead \subseteq Entries(Process)
  /\ dead # {} => pc \in {"proc", "delete"}
  /\ pc = "proc" => dead \subseteq visited

\* While the copies of cur are read: the sum is at most what the CPUs read hold
\* now, and behind the total by no more than they are behind the baseline.
ReadInv ==
  slot > 0 =>
    /\ acc <= Below(map[cur], slot - 1)
    /\ cur \in DOMAIN cache =>
         cache[cur] + Below(map[cur], slot - 1) <= acc + Total(cur)

\* The units of an entry that rates may have used.
Settled(k) == IF k \in DOMAIN cache THEN cache[k]
              ELSE IF k \in dead THEN Total(k) ELSE 0

\* No baseline outlives or overtakes its entry, a dead process has none, and
\* rates used no more than what is settled or gone.
BaseInv ==
  /\ BaselineValid
  /\ DOMAIN cache \cap dead = {}
  /\ \A k \in Key : reported[k] <= gone[k] + Settled(k)

\* The inductive invariant of the data.
DataInv == DataTypes /\ RoomInv /\ CpuInv /\ Conservation /\ WalkInv /\ ReadInv /\ BaseInv

\* Keys are positive, finitely many, and an interface is no process.
LEMMA KeyFacts ==
  /\ Key \subseteq Nat \ {0} /\ 0 \notin Key
  /\ IsFiniteSet(Key) /\ IsFiniteSet(Process) /\ Interface \cap Process = {}
  /\ Interface \subseteq Key /\ Process \subseteq Key
<1>1. IsFiniteSet(Interface \cup Process)
  BY KeyAssumption
<1>2. IsFiniteSet(Process)
  BY <1>1, FS_Subset
<1> QED BY <1>1, <1>2, KeyAssumption DEF Key

\* Put keeps the type of a map.
LEMMA PutType ==
  ASSUME NEW V, NEW f, f \in [DOMAIN f -> V], NEW k, NEW v \in V
  PROVE  Put(f, k, v) \in [DOMAIN f \cup {k} -> V]
BY DEF Put

\* Finitely many CPUs are in a program.
LEMMA BusyFinite ==
  ASSUME NEW k
  PROVE  IsFiniteSet(Busy(k)) /\ Cardinality(Busy(k)) \in Nat
<1>1. Busy(k) \subseteq Cpu
  BY DEF Busy
<1>2. IsFiniteSet(Busy(k))
  BY <1>1, CpuFinite, FS_Subset
<1> QED BY <1>2, FS_CardinalityType

\* One CPU changes the key it is busy with.
LEMMA BusyMoves ==
  ASSUME NEW c \in Cpu, \A d \in Cpu \ {c} : cpu'[d] = cpu[d], NEW k
  PROVE  Cardinality(Busy(k)') = Cardinality(Busy(k)) + (IF cpu'[c].key = k THEN 1 ELSE 0)
                                   - (IF cpu[c].key = k THEN 1 ELSE 0)
<1>1. IsFiniteSet(Busy(k)) /\ Cardinality(Busy(k)) \in Nat
  BY BusyFinite
<1>3. Busy(k)' = {d \in Cpu : cpu'[d].key = k}
  BY DEF Busy
<1>4. c \in Busy(k) <=> cpu[c].key = k
  BY DEF Busy
<1>5. CASE cpu'[c].key = k
  <2>1. Busy(k)' = Busy(k) \cup {c}
    BY <1>3, <1>5 DEF Busy
  <2>2. Cardinality(Busy(k) \cup {c}) = IF c \in Busy(k) THEN Cardinality(Busy(k)) ELSE Cardinality(Busy(k)) + 1
    BY <1>1, FS_AddElement
  <2> QED BY <1>1, <1>4, <1>5, <2>1, <2>2
<1>6. CASE cpu'[c].key # k
  <2>1. Busy(k)' = Busy(k) \ {c}
    BY <1>3, <1>6 DEF Busy
  <2>2. Cardinality(Busy(k) \ {c}) = IF c \in Busy(k) THEN Cardinality(Busy(k)) - 1 ELSE Cardinality(Busy(k))
    BY <1>1, FS_RemoveElement
  <2> QED BY <1>1, <1>4, <1>6, <2>1, <2>2
<1> QED BY <1>5, <1>6

\* A step that leaves every CPU its key leaves the busy CPUs alone.
LEMMA BusySame ==
  ASSUME NEW k, \A c \in Cpu : cpu'[c].key = cpu[c].key
  PROVE  Cardinality(Busy(k)') = Cardinality(Busy(k))
<1>1. Busy(k)' = Busy(k)
  BY DEF Busy
<1> QED BY <1>1

\* The total of an entry is a number.
LEMMA TotalType ==
  ASSUME DataTypes, NEW k \in DOMAIN map
  PROVE  map[k] \in [Cpu -> Nat] /\ Total(k) \in Nat
<1>1. map[k] \in [Cpu -> Nat]
  BY DEF DataTypes
<1>2. SumFunction(map[k]) \in Nat
  BY <1>1, CpuFinite, SumType
<1> QED BY <1>1, <1>2 DEF Total

\* Entries are created and grow, and nothing else happens.
Grows ==
  /\ DOMAIN map \subseteq DOMAIN map'
  /\ \A k \in DOMAIN map :
       map'[k] = map[k] \/ \E c \in Cpu : map'[k] = [map[k] EXCEPT ![c] = @ + 1]

\* In a step that only grows, no partial sum of an entry grows by more than its
\* total does.
LEMMA GrowthIs ==
  ASSUME DataTypes, Grows, NEW k \in DOMAIN map, NEW n \in Nat
  PROVE  /\ Total(k) \in Nat /\ Total(k)' \in Nat
         /\ Below(map[k], n) \in Nat /\ Below(map'[k], n) \in Nat
         /\ Below(map[k], n) <= Below(map'[k], n) /\ Total(k) <= Total(k)'
         /\ Below(map'[k], n) - Below(map[k], n) <= Total(k)' - Total(k)
<1>1. map[k] \in [Cpu -> Nat] /\ Total(k) \in Nat /\ Below(map[k], n) \in Nat
  BY TotalType, BelowType
<1>2. Total(k) = SumFunction(map[k]) /\ Total(k)' = SumFunction(map'[k])
  BY DEF Total
<1>3. CASE map'[k] = map[k]
  BY <1>1, <1>2, <1>3
<1>4. ASSUME NEW c \in Cpu, map'[k] = [map[k] EXCEPT ![c] = @ + 1]
      PROVE  /\ Total(k)' = Total(k) + 1
             /\ Below(map'[k], n) = Below(map[k], n) + IF c <= n THEN 1 ELSE 0
  <2> DEFINE f == map[k]
             g == [f EXCEPT ![c] = @ + 1]
  <2>1. /\ f \in [Cpu -> Nat] /\ g \in [Cpu -> Nat] /\ map'[k] = g
        /\ g[c] = f[c] + 1 /\ \A d \in Cpu \ {c} : g[d] = f[d]
    BY <1>1, <1>4
  <2> HIDE DEF f, g
  <2>2. /\ SumFunction(g) = SumFunction(f) + 1
        /\ Below(g, n) = Below(f, n) + IF c <= n THEN 1 ELSE 0
    BY <2>1, BelowBump
  <2> QED BY <1>2, <2>1, <2>2 DEF f
<1>5. CASE \E c \in Cpu : map'[k] = [map[k] EXCEPT ![c] = @ + 1]
  <2>1. PICK c \in Cpu : map'[k] = [map[k] EXCEPT ![c] = @ + 1]
    BY <1>5
  <2>2. /\ Total(k)' = Total(k) + 1
        /\ Below(map'[k], n) = Below(map[k], n) + IF c <= n THEN 1 ELSE 0
    BY <1>4, <2>1
  <2> QED BY <1>1, <2>2
<1> QED BY <1>3, <1>5 DEF Grows

\* The walk does not mind entries created and counters raised under it: what
\* it has read is at most what is there now, and a baseline stays below its entry.
LEMMA GrowingKeeps ==
  ASSUME DataTypes, WalkInv, ReadInv, BaseInv, DataTypes', Grows,
         UNCHANGED <<pc, cur, slot, acc, dead, expected, visited, cache, reported>>,
         \A k \in Key : gone[k] <= gone'[k]
  PROVE  WalkInv' /\ ReadInv' /\ BaseInv'
<1>1. WalkInv'
  <2>1. Walked' = Walked /\ Entries(Walked) \subseteq Entries(Walked)'
        /\ Entries(Process) \subseteq Entries(Process)'
    BY DEF Walked, Entries, Grows
  <2> QED BY <2>1 DEF WalkInv
<1>2. ReadInv'
  <2> SUFFICES ASSUME slot > 0
               PROVE  /\ acc <= Below(map'[cur], slot - 1)
                      /\ cur \in DOMAIN cache =>
                           cache[cur] + Below(map'[cur], slot - 1) <= acc + Total(cur)'
    BY DEF ReadInv, Total
  <2>1. cur \in DOMAIN map
    BY DEF WalkInv, Entries
  <2>2. slot - 1 \in Nat /\ acc \in Nat /\ (cur \in DOMAIN cache => cache[cur] \in Nat)
    BY DEF DataTypes
  <2>3. /\ Total(cur) \in Nat /\ Total(cur)' \in Nat
        /\ Below(map[cur], slot - 1) \in Nat /\ Below(map'[cur], slot - 1) \in Nat
        /\ Below(map[cur], slot - 1) <= Below(map'[cur], slot - 1)
        /\ Below(map'[cur], slot - 1) - Below(map[cur], slot - 1) <= Total(cur)' - Total(cur)
    <3>1. \A j \in DOMAIN map : /\ Total(j) \in Nat /\ SumFunction(map'[j]) \in Nat
            /\ Below(map[j], slot - 1) \in Nat /\ Below(map'[j], slot - 1) \in Nat
            /\ Below(map[j], slot - 1) <= Below(map'[j], slot - 1)
            /\ Below(map'[j], slot - 1) - Below(map[j], slot - 1) <= SumFunction(map'[j]) - Total(j)
      BY <2>2, GrowthIs DEF Total
    <3> QED BY <2>1, <3>1 DEF Total
  <2>4. /\ acc <= Below(map[cur], slot - 1)
        /\ cur \in DOMAIN cache => cache[cur] + Below(map[cur], slot - 1) <= acc + Total(cur)
    BY DEF ReadInv
  <2>5. acc <= Below(map'[cur], slot - 1)
    BY <2>2, <2>3, <2>4
  <2>6. ASSUME cur \in DOMAIN cache
        PROVE  cache[cur] + Below(map'[cur], slot - 1) <= acc + Total(cur)'
    BY <2>2, <2>3, <2>4, <2>6
  <2> QED BY <2>5, <2>6
<1>3. BaseInv'
  <2>1. \A k \in DOMAIN map : Total(k) \in Nat /\ SumFunction(map'[k]) \in Nat
                              /\ Total(k) <= SumFunction(map'[k])
    BY GrowthIs, 0 \in Nat DEF Total
  <2>2. BaselineValid'
    <3> SUFFICES ASSUME NEW k \in DOMAIN cache
                 PROVE  k \in DOMAIN map' /\ cache[k] <= SumFunction(map'[k])
      BY DEF BaselineValid, Total
    <3>1. k \in DOMAIN map /\ cache[k] <= Total(k) /\ cache[k] \in Nat
      BY DEF BaseInv, BaselineValid, DataTypes
    <3> QED BY <2>1, <3>1 DEF Grows
  <2>3. ASSUME NEW k \in Key PROVE reported'[k] <= gone'[k] + Settled(k)'
    <3>1. reported[k] \in Nat /\ gone[k] \in Nat /\ gone'[k] \in Nat /\ gone[k] <= gone'[k]
          /\ reported[k] <= gone[k] + Settled(k) /\ reported'[k] = reported[k]
      BY DEF DataTypes, BaseInv
    <3>2. Settled(k)' = IF k \in DOMAIN cache THEN cache[k]
                        ELSE IF k \in dead THEN SumFunction(map'[k]) ELSE 0
      BY DEF Settled, Total
    <3>3. CASE k \in DOMAIN cache
      <4>1. cache[k] \in Nat /\ Settled(k) = cache[k] /\ Settled(k)' = cache[k]
        BY <3>2, <3>3 DEF Settled, DataTypes
      <4> QED BY <3>1, <4>1
    <3>4. CASE k \notin DOMAIN cache /\ k \in dead
      <4>1. k \in DOMAIN map
        BY <3>4 DEF WalkInv, Entries
      <4>2. Settled(k) = Total(k) /\ Settled(k)' = SumFunction(map'[k])
        BY <3>2, <3>4 DEF Settled
      <4> QED BY <2>1, <3>1, <4>1, <4>2
    <3>5. CASE k \notin DOMAIN cache /\ k \notin dead
      <4>1. Settled(k) = 0 /\ Settled(k)' = 0
        BY <3>2, <3>5 DEF Settled
      <4> QED BY <3>1, <4>1
    <3> QED BY <3>3, <3>4, <3>5
  <2> QED BY <2>2, <2>3 DEF BaseInv
<1> QED BY <1>1, <1>2, <1>3

\* Empty maps and CPUs outside every program.
LEMMA EmptyData ==
  /\ NoEntries = [k \in {} |-> [c \in Cpu |-> 0]] /\ DOMAIN NoEntries = {}
  /\ NoEntries \in [DOMAIN NoEntries -> [Cpu -> Nat]]
  /\ Idle.step = "idle" /\ Idle.key = 0 /\ Idle \in [step : Step, key : Key \cup {0}]
BY DEF NoEntries, Idle, Step

\* An empty map has room.
LEMMA EmptyRoom == Cardinality({}) <= MaxEntries
BY FS_EmptySet, BoundAssumption

\* Before the worker starts there are no entries and no baselines.
LEMMA DataInit == Init => DataInv
<1> SUFFICES ASSUME Init PROVE DataInv
  OBVIOUS
<1>1. /\ pc = "down" /\ DOMAIN map = {} /\ DOMAIN cache = {} /\ alive = Process
      /\ (\A c \in Cpu : cpu[c].key = 0 /\ cpu[c].step = "idle")
      /\ cur = 0 /\ slot = 0 /\ acc = 0 /\ dead = {} /\ expected = {} /\ visited = {}
      /\ \A k \in Key : traffic[k] = 0 /\ gone[k] = 0 /\ reported[k] = 0
  BY EmptyData DEF Init
<1>2. DataTypes
  <2>1. map \in [DOMAIN map -> [Cpu -> Nat]] /\ cpu \in [Cpu -> [step : Step, key : Key \cup {0}]]
    BY EmptyData DEF Init
  <2>2. cache \in [DOMAIN cache -> Nat] /\ slot \in 0..(NumCpus + 1)
    BY CpuFinite DEF Init
  <2>3. traffic \in [Key -> Nat] /\ gone \in [Key -> Nat] /\ reported \in [Key -> Nat]
    BY DEF Init
  <2> QED BY <1>1, <2>1, <2>2, <2>3 DEF DataTypes
<1>3. RoomInv
  <2>1. Entries(Process) = {}
    BY <1>1 DEF Entries
  <2> QED BY <2>1, EmptyRoom DEF RoomInv
<1>4. CpuInv
  BY <1>1 DEF CpuInv
<1>5. Conservation
  <2> SUFFICES ASSUME NEW k \in Key
               PROVE  traffic[k] = (IF k \in DOMAIN map THEN Total(k) ELSE 0)
                                    + Cardinality(Busy(k)) + gone[k]
    BY DEF Conservation
  <2>1. Busy(k) = {}
    BY <1>1, KeyFacts DEF Busy
  <2> QED BY <1>1, <2>1, FS_EmptySet
<1>6. WalkInv /\ ReadInv /\ BaseInv
  BY <1>1 DEF WalkInv, ReadInv, BaseInv, BaselineValid, Settled
<1> QED BY <1>2, <1>3, <1>4, <1>5, <1>6 DEF DataInv

\* The maps and the caches of a worker that stops or dies go together.
LEMMA ResetKeeps ==
  ASSUME DataInv, NoState, pc' \notin {"net", "proc", "delete"}, alive' = alive
  PROVE  DataInv'
<1>1. /\ DOMAIN map' = {} /\ DOMAIN cache' = {} /\ alive' \subseteq Process
      /\ (\A c \in Cpu : cpu'[c].key = 0 /\ cpu'[c].step = "idle")
      /\ cur' = 0 /\ slot' = 0 /\ acc' = 0 /\ dead' = {} /\ expected' = {} /\ visited' = {}
      /\ \A k \in Key : traffic'[k] = 0 /\ gone'[k] = 0 /\ reported'[k] = 0
  BY EmptyData DEF NoState, DataInv, DataTypes
<1>2. DataTypes'
  <2>1. map' \in [DOMAIN map' -> [Cpu -> Nat]] /\ cpu' \in [Cpu -> [step : Step, key : Key \cup {0}]]
    BY EmptyData DEF NoState
  <2>2. cache' \in [DOMAIN cache' -> Nat] /\ slot' \in 0..(NumCpus + 1)
    BY CpuFinite DEF NoState
  <2>3. traffic' \in [Key -> Nat] /\ gone' \in [Key -> Nat] /\ reported' \in [Key -> Nat]
    BY DEF NoState
  <2> QED BY <1>1, <2>1, <2>2, <2>3 DEF DataTypes
<1>3. RoomInv'
  <2>1. Entries(Process)' = {}
    BY <1>1 DEF Entries
  <2> QED BY <2>1, EmptyRoom DEF RoomInv
<1>4. CpuInv'
  BY <1>1 DEF CpuInv
<1>5. Conservation'
  <2> SUFFICES ASSUME NEW k \in Key
               PROVE  traffic'[k] = (IF k \in DOMAIN map' THEN Total(k)' ELSE 0)
                                    + Cardinality(Busy(k)') + gone'[k]
    BY DEF Conservation
  <2>1. Busy(k)' = {}
    BY <1>1, KeyFacts DEF Busy
  <2> QED BY <1>1, <2>1, FS_EmptySet
<1>6. WalkInv' /\ ReadInv' /\ BaseInv'
  BY <1>1 DEF WalkInv, ReadInv, BaseInv, BaselineValid, Settled
<1> QED BY <1>2, <1>3, <1>4, <1>5, <1>6 DEF DataInv

\* Leaving the map alone is the simplest way to grow.
LEMMA NothingGrows ==
  ASSUME DataTypes, map' = map, gone' = gone
  PROVE  Grows /\ \A k \in Key : gone[k] <= gone'[k]
<1>1. \A k \in Key : gone[k] \in Nat
  BY DEF DataTypes
<1> QED BY <1>1 DEF Grows

\* The first lookup: the unit is in flight.
LEMMA LookupKeeps ==
  ASSUME DataInv, NEW c \in Cpu, NEW k \in Key, Lookup(c, k)
  PROVE  DataInv'
<1> DEFINE r == [step |-> IF k \in DOMAIN map THEN "add" ELSE "missing", key |-> k]
<1>1. /\ cpu[c] = Idle /\ traffic' = [traffic EXCEPT ![k] = @ + 1]
      /\ cpu' = [cpu EXCEPT ![c] = r]
      /\ UNCHANGED <<pc, map, alive, cache, cur, slot, acc, dead, expected, visited, gone, reported>>
  BY DEF Lookup, monitor, walk
<1>2. /\ r \in [step : Step, key : Key \cup {0}] /\ r.key = k /\ k # 0
      /\ r.step # "idle" /\ (r.step = "add" => k \in DOMAIN map)
  BY KeyFacts DEF Step
<1> HIDE DEF r
<1>0. DataTypes /\ CpuInv /\ Conservation
  BY DEF DataInv
<1>3. DataTypes'
  <2>1. cpu' \in [Cpu -> [step : Step, key : Key \cup {0}]] /\ traffic' \in [Key -> Nat]
    BY <1>0, <1>1, <1>2 DEF DataTypes
  <2> QED BY <1>0, <1>1, <2>1 DEF DataTypes
<1>4. RoomInv'
  BY <1>1 DEF DataInv, RoomInv, Entries
<1>5. CpuInv'
  <2>1. cpu'[c] = r /\ \A d \in Cpu \ {c} : cpu'[d] = cpu[d]
    BY <1>0, <1>1 DEF DataTypes
  <2> QED BY <1>0, <1>1, <1>2, <2>1 DEF CpuInv
<1>6. Conservation'
  <2> SUFFICES ASSUME NEW j \in Key
               PROVE  traffic'[j] = (IF j \in DOMAIN map THEN Total(j) ELSE 0)
                                    + Cardinality(Busy(j)') + gone[j]
    BY <1>1 DEF Conservation, Total
  <2>1. Cardinality(Busy(j)') = Cardinality(Busy(j)) + (IF k = j THEN 1 ELSE 0)
    <3>1. cpu[c].key # j
      BY <1>1, EmptyData, KeyFacts
    <3>2. Cardinality(Busy(j)') = Cardinality(Busy(j)) + (IF r.key = j THEN 1 ELSE 0)
                                    - (IF cpu[c].key = j THEN 1 ELSE 0)
      <4>1. cpu'[c] = r /\ \A d \in Cpu \ {c} : cpu'[d] = cpu[d]
        BY <1>0, <1>1 DEF DataTypes
      <4> QED BY <4>1, BusyMoves
    <3> QED BY <1>2, <3>1, <3>2, BusyFinite
  <2>2. traffic'[j] = traffic[j] + (IF k = j THEN 1 ELSE 0) /\ traffic[j] \in Nat /\ gone[j] \in Nat
    BY <1>0, <1>1 DEF DataTypes
  <2>3. traffic[j] = (IF j \in DOMAIN map THEN Total(j) ELSE 0) + Cardinality(Busy(j)) + gone[j]
    BY <1>0 DEF Conservation
  <2>4. Cardinality(Busy(j)) \in Nat /\ (j \in DOMAIN map => Total(j) \in Nat)
    BY <1>0, BusyFinite, TotalType
  <2> QED BY <2>1, <2>2, <2>3, <2>4
<1>7. WalkInv' /\ ReadInv' /\ BaseInv'
  BY <1>1, <1>3, NothingGrows, GrowingKeeps DEF DataInv
<1> QED BY <1>3, <1>4, <1>5, <1>6, <1>7 DEF DataInv

\* bpf_map_update_elem with BPF_NOEXIST: the unit is in the new entry, or it stays
\* in flight when the entry exists or the map is full.
LEMMA CreateKeeps ==
  ASSUME DataInv, NEW c \in Cpu, Create(c)
  PROVE  DataInv'
<1> DEFINE k == cpu[c].key
           exists == k \in DOMAIN map \/ Full(k)
           r == IF exists THEN [cpu[c] EXCEPT !.step = "again"] ELSE Idle
<1>0. DataTypes /\ RoomInv /\ CpuInv /\ Conservation
  BY DEF DataInv
<1>1. /\ cpu[c].step = "missing"
      /\ map' = IF exists THEN map ELSE Put(map, k, FirstUnit(c))
      /\ cpu' = [cpu EXCEPT ![c] = r]
      /\ UNCHANGED <<pc, alive, cache, cur, slot, acc, dead, expected, visited, traffic, gone, reported>>
  BY DEF Create, monitor, walk
<1>2. /\ cpu[c] \in [step : Step, key : Key \cup {0}] /\ k \in Key
  BY <1>0, <1>1 DEF DataTypes, CpuInv
<1>3. /\ r \in [step : Step, key : Key \cup {0}]
      /\ r.step = "idle" <=> r.key = 0
      /\ r.step # "add"
      /\ r.key = IF exists THEN k ELSE 0
  <2>1. CASE exists
    <3>1. r = [step |-> "again", key |-> k]
      BY <1>2, <2>1
    <3> QED BY <1>2, <2>1, <3>1, KeyFacts DEF Step
  <2>2. CASE ~exists
    BY <2>2, EmptyData
  <2> QED BY <2>1, <2>2
<1> HIDE DEF r
<1>10. ~exists => /\ k \notin DOMAIN map /\ (k \in Process => Cardinality(Entries(Process)) # MaxEntries)
                  /\ DOMAIN map' = DOMAIN map \cup {k} /\ map'[k] = FirstUnit(c)
                  /\ \A j \in DOMAIN map \ {k} : map'[j] = map[j]
  <2>1. ~exists => /\ k \notin DOMAIN map /\ map' = Put(map, k, FirstUnit(c))
                   /\ (k \in Process => Cardinality(Entries(Process)) # MaxEntries)
    BY <1>1 DEF Full, Entries
  <2> HIDE DEF k, exists
  <2>2. /\ DOMAIN Put(map, k, FirstUnit(c)) = DOMAIN map \cup {k}
        /\ Put(map, k, FirstUnit(c))[k] = FirstUnit(c)
        /\ \A j \in DOMAIN map \ {k} : Put(map, k, FirstUnit(c))[j] = map[j]
    BY DEF Put
  <2> QED BY <2>1, <2>2
<1> HIDE DEF k, exists
<1>4. Grows /\ \A j \in Key : gone[j] <= gone'[j]
  <2>0. \A j \in Key : gone[j] \in Nat
    BY <1>0 DEF DataTypes
  <2>1. CASE exists
    BY <1>1, <2>0, <2>1 DEF Grows
  <2>2. CASE ~exists
    <3>1. DOMAIN map' = DOMAIN map \cup {k} /\ \A j \in DOMAIN map \ {k} : map'[j] = map[j]
      BY <1>10, <2>2
    <3> QED BY <1>1, <1>10, <2>0, <2>2, <3>1 DEF Grows
  <2> QED BY <2>1, <2>2
<1>5. DataTypes'
  <2>1. cpu' \in [Cpu -> [step : Step, key : Key \cup {0}]]
    BY <1>0, <1>1, <1>3 DEF DataTypes
  <2>2. DOMAIN map' \subseteq Key /\ map' \in [DOMAIN map' -> [Cpu -> Nat]]
    <3>0. map \in [DOMAIN map -> [Cpu -> Nat]] /\ DOMAIN map \subseteq Key
      BY <1>0 DEF DataTypes
    <3>1. CASE exists
      BY <1>1, <3>0, <3>1
    <3>2. CASE ~exists
      <4>1. FirstUnit(c) \in [Cpu -> Nat]
        BY FirstUnitSum
      <4>2. Put(map, k, FirstUnit(c)) \in [DOMAIN map \cup {k} -> [Cpu -> Nat]]
        BY <3>0, <4>1, PutType
      <4> QED BY <1>1, <1>2, <1>10, <3>0, <3>2, <4>2
    <3> QED BY <3>1, <3>2
  <2> QED BY <1>0, <1>1, <2>1, <2>2 DEF DataTypes
<1>6. RoomInv'
  <2>1. CASE exists
    BY <1>0, <1>1, <2>1 DEF RoomInv, Entries
  <2>2. CASE ~exists /\ k \notin Process
    <3>1. Entries(Process)' = Entries(Process)
      BY <1>10, <2>2 DEF Entries
    <3> QED BY <1>0, <3>1 DEF RoomInv
  <2>3. CASE ~exists /\ k \in Process
    <3>1. Entries(Process)' = Entries(Process) \cup {k} /\ k \notin Entries(Process)
      BY <1>10, <2>3 DEF Entries
    <3>2. IsFiniteSet(Entries(Process))
      BY KeyFacts, FS_Subset DEF Entries
    <3>3. Cardinality(Entries(Process) \cup {k}) = Cardinality(Entries(Process)) + 1
          /\ Cardinality(Entries(Process)) \in Nat
      BY <3>1, <3>2, FS_AddElement, FS_CardinalityType
    <3>4. Cardinality(Entries(Process)) # MaxEntries
      BY <1>10, <2>3
    <3>5. Cardinality(Entries(Process)) <= MaxEntries /\ MaxEntries \in Nat
      BY <1>0, BoundAssumption DEF RoomInv
    <3>6. Cardinality(Entries(Process)) + 1 <= MaxEntries
      BY <3>3, <3>4, <3>5
    <3> QED BY <3>1, <3>3, <3>6 DEF RoomInv
  <2> QED BY <2>1, <2>2, <2>3
<1>7. CpuInv'
  <2>1. cpu'[c] = r /\ \A d \in Cpu \ {c} : cpu'[d] = cpu[d]
    BY <1>0, <1>1 DEF DataTypes
  <2>2. DOMAIN map \subseteq DOMAIN map'
    BY <1>4 DEF Grows
  <2> QED BY <1>0, <1>3, <2>1, <2>2 DEF CpuInv
<1>8. Conservation'
  <2> SUFFICES ASSUME NEW j \in Key
               PROVE  traffic[j] = (IF j \in DOMAIN map' THEN SumFunction(map'[j]) ELSE 0)
                                    + Cardinality(Busy(j)') + gone[j]
    BY <1>1 DEF Conservation, Total
  <2>1. Cardinality(Busy(j)') = Cardinality(Busy(j)) + (IF r.key = j THEN 1 ELSE 0)
                                  - (IF k = j THEN 1 ELSE 0)
    <3>1. cpu'[c] = r /\ \A d \in Cpu \ {c} : cpu'[d] = cpu[d]
      BY <1>0, <1>1 DEF DataTypes
    <3>2. Cardinality(Busy(j)') = Cardinality(Busy(j)) + (IF cpu'[c].key = j THEN 1 ELSE 0)
                                    - (IF cpu[c].key = j THEN 1 ELSE 0)
      BY <3>1, BusyMoves
    <3> QED BY <3>1, <3>2 DEF k
  <2>2. traffic[j] \in Nat /\ gone[j] \in Nat
    BY <1>0, <1>1 DEF DataTypes
  <2>3. traffic[j] = (IF j \in DOMAIN map THEN Total(j) ELSE 0) + Cardinality(Busy(j)) + gone[j]
    BY <1>0 DEF Conservation
  <2>4. Cardinality(Busy(j)) \in Nat /\ (j \in DOMAIN map => Total(j) \in Nat) /\ j # 0
    BY <1>0, BusyFinite, TotalType, KeyFacts
  <2>5. CASE exists
    <3>1. r.key = k /\ map' = map
      BY <1>1, <1>3, <2>5
    <3> QED BY <2>1, <2>2, <2>3, <2>4, <3>1 DEF Total
  <2>6. CASE ~exists
    <3>1. /\ r.key = 0 /\ DOMAIN map' = DOMAIN map \cup {k} /\ map'[k] = FirstUnit(c)
          /\ k \notin DOMAIN map /\ \A i \in DOMAIN map \ {k} : map'[i] = map[i]
      BY <1>10, <1>3, <2>6
    <3>2. CASE j = k
      <4>1. Cardinality(Busy(j)') = Cardinality(Busy(j)) - 1
        BY <2>1, <2>4, <3>1, <3>2
      <4>2. SumFunction(map'[j]) = 1 /\ j \in DOMAIN map' /\ j \notin DOMAIN map
        BY <3>1, <3>2, FirstUnitSum
      <4> QED BY <2>2, <2>3, <2>4, <4>1, <4>2
    <3>3. CASE j # k
      <4>1. Cardinality(Busy(j)') = Cardinality(Busy(j))
        BY <2>1, <2>4, <3>1, <3>3
      <4>2. (j \in DOMAIN map' <=> j \in DOMAIN map) /\ (j \in DOMAIN map => map'[j] = map[j])
        BY <3>1, <3>3
      <4> QED BY <2>3, <4>1, <4>2 DEF Total
    <3> QED BY <3>2, <3>3
  <2> QED BY <2>5, <2>6
<1>9. WalkInv' /\ ReadInv' /\ BaseInv'
  BY <1>1, <1>4, <1>5, GrowingKeeps DEF DataInv
<1> QED BY <1>5, <1>6, <1>7, <1>8, <1>9 DEF DataInv

\* The second lookup: the unit stays in flight, or is gone with a full map.
LEMMA LookupAgainKeeps ==
  ASSUME DataInv, NEW c \in Cpu, LookupAgain(c)
  PROVE  DataInv'
<1> DEFINE k == cpu[c].key
           found == k \in DOMAIN map
           r == IF found THEN [cpu[c] EXCEPT !.step = "add"] ELSE Idle
<1>0. DataTypes /\ RoomInv /\ CpuInv /\ Conservation
  BY DEF DataInv
<1>1. /\ cpu[c].step = "again"
      /\ cpu' = [cpu EXCEPT ![c] = r]
      /\ gone' = IF found THEN gone ELSE [gone EXCEPT ![k] = @ + 1]
      /\ UNCHANGED <<pc, map, alive, cache, cur, slot, acc, dead, expected, visited, traffic, reported>>
  BY DEF LookupAgain, monitor, walk
<1>2. /\ cpu[c] \in [step : Step, key : Key \cup {0}] /\ k \in Key
  BY <1>0, <1>1 DEF DataTypes, CpuInv
<1>3. /\ r \in [step : Step, key : Key \cup {0}]
      /\ r.step = "idle" <=> r.key = 0
      /\ r.step = "add" => r.key \in DOMAIN map
      /\ r.key = IF found THEN k ELSE 0
  <2>1. CASE found
    <3>1. r = [step |-> "add", key |-> k]
      BY <1>2, <2>1
    <3> QED BY <1>2, <2>1, <3>1, KeyFacts DEF Step
  <2>2. CASE ~found
    BY <2>2, EmptyData
  <2> QED BY <2>1, <2>2
<1>4. \A j \in Key : /\ gone[j] \in Nat
                     /\ gone'[j] = gone[j] + (IF ~found /\ j = k THEN 1 ELSE 0)
  <2>1. \A j \in Key : gone[j] \in Nat
    BY <1>0 DEF DataTypes
  <2> QED BY <1>0, <1>1, <1>2, <2>1 DEF DataTypes
<1> HIDE DEF r, k
<1>5. DataTypes'
  <2>1. cpu' \in [Cpu -> [step : Step, key : Key \cup {0}]]
    BY <1>0, <1>1, <1>3 DEF DataTypes
  <2>2. gone' \in [Key -> Nat]
    BY <1>0, <1>1, <1>2 DEF DataTypes
  <2> QED BY <1>0, <1>1, <2>1, <2>2 DEF DataTypes
<1>6. RoomInv'
  BY <1>0, <1>1 DEF RoomInv, Entries
<1>7. CpuInv'
  <2>1. cpu'[c] = r /\ \A d \in Cpu \ {c} : cpu'[d] = cpu[d]
    BY <1>0, <1>1 DEF DataTypes
  <2> QED BY <1>0, <1>1, <1>3, <2>1 DEF CpuInv
<1>8. Conservation'
  <2> SUFFICES ASSUME NEW j \in Key
               PROVE  traffic[j] = (IF j \in DOMAIN map THEN Total(j) ELSE 0)
                                    + Cardinality(Busy(j)') + gone'[j]
    BY <1>1 DEF Conservation, Total
  <2>1. Cardinality(Busy(j)') = Cardinality(Busy(j)) + (IF r.key = j THEN 1 ELSE 0)
                                  - (IF k = j THEN 1 ELSE 0)
    <3>1. cpu'[c] = r /\ \A d \in Cpu \ {c} : cpu'[d] = cpu[d]
      BY <1>0, <1>1 DEF DataTypes
    <3>2. Cardinality(Busy(j)') = Cardinality(Busy(j)) + (IF cpu'[c].key = j THEN 1 ELSE 0)
                                    - (IF cpu[c].key = j THEN 1 ELSE 0)
      BY <3>1, BusyMoves
    <3> QED BY <3>1, <3>2 DEF k
  <2>3. traffic[j] = (IF j \in DOMAIN map THEN Total(j) ELSE 0) + Cardinality(Busy(j)) + gone[j]
    BY <1>0 DEF Conservation
  <2>4. Cardinality(Busy(j)) \in Nat /\ (j \in DOMAIN map => Total(j) \in Nat) /\ j # 0
        /\ traffic[j] \in Nat
    BY <1>0, BusyFinite, TotalType, KeyFacts DEF DataTypes
  <2>5. gone[j] \in Nat /\ gone'[j] = gone[j] + (IF ~found /\ j = k THEN 1 ELSE 0)
    BY <1>4
  <2> QED BY <1>3, <2>1, <2>3, <2>4, <2>5
<1>9. WalkInv' /\ ReadInv' /\ BaseInv'
  <2>1. \A j \in Key : gone[j] <= gone'[j]
    BY <1>4
  <2> QED BY <1>1, <1>5, <2>1, NothingGrows, GrowingKeeps DEF DataInv, Grows
<1> QED BY <1>5, <1>6, <1>7, <1>8, <1>9 DEF DataInv

\* The addition: the unit is in the entry, or gone with a deleted one.
LEMMA AddKeeps ==
  ASSUME DataInv, NEW c \in Cpu, Add(c)
  PROVE  DataInv'
<1> DEFINE k == cpu[c].key
           inMap == cpu[c].step = "add"
<1>0. DataTypes /\ RoomInv /\ CpuInv /\ Conservation
  BY DEF DataInv
<1>1. /\ cpu[c].step \in {"add", "stale"}
      /\ map' = IF inMap THEN [map EXCEPT ![k][c] = @ + 1] ELSE map
      /\ gone' = IF inMap THEN gone ELSE [gone EXCEPT ![k] = @ + 1]
      /\ cpu' = [cpu EXCEPT ![c] = Idle]
      /\ UNCHANGED <<pc, alive, cache, cur, slot, acc, dead, expected, visited, traffic, reported>>
  BY DEF Add, monitor, walk
<1>2. /\ k \in Key /\ (inMap => k \in DOMAIN map)
  BY <1>0, <1>1 DEF DataTypes, CpuInv
<1>3. \A j \in Key : /\ gone[j] \in Nat
                     /\ gone'[j] = gone[j] + (IF ~inMap /\ j = k THEN 1 ELSE 0)
  <2>1. \A j \in Key : gone[j] \in Nat
    BY <1>0 DEF DataTypes
  <2> QED BY <1>0, <1>1, <1>2, <2>1 DEF DataTypes
<1> HIDE DEF k, inMap
<1>4. /\ DOMAIN map' = DOMAIN map
      /\ inMap => map'[k] = [map[k] EXCEPT ![c] = @ + 1]
      /\ \A j \in DOMAIN map : ~inMap \/ j # k => map'[j] = map[j]
  BY <1>1, <1>2
<1>5. \A j \in DOMAIN map :
        /\ map'[j] \in [Cpu -> Nat] /\ Total(j) \in Nat
        /\ SumFunction(map'[j]) = Total(j) + (IF inMap /\ j = k THEN 1 ELSE 0)
  <2> SUFFICES ASSUME NEW j \in DOMAIN map
               PROVE  /\ map'[j] \in [Cpu -> Nat] /\ Total(j) \in Nat
                      /\ SumFunction(map'[j]) = Total(j) + (IF inMap /\ j = k THEN 1 ELSE 0)
    OBVIOUS
  <2>1. map[j] \in [Cpu -> Nat] /\ Total(j) \in Nat
    BY <1>0, TotalType
  <2>2. CASE inMap /\ j = k
    <3>1. map'[j] \in [Cpu -> Nat]
      BY <1>4, <2>1, <2>2
    <3>2. map'[j][c] = map[j][c] + 1 /\ \A d \in Cpu \ {c} : map'[j][d] = map[j][d]
      BY <1>4, <2>1, <2>2
    <3>3. SumFunction(map'[j]) = SumFunction(map[j]) + 1
      BY <2>1, <3>1, <3>2, 0 \in Nat, BelowBump
    <3> QED BY <2>1, <2>2, <3>1, <3>3 DEF Total
  <2>3. CASE ~(inMap /\ j = k)
    BY <1>4, <2>1, <2>3 DEF Total
  <2> QED BY <2>2, <2>3
<1>6. DataTypes'
  <2>1. cpu' \in [Cpu -> [step : Step, key : Key \cup {0}]]
    BY <1>0, <1>1, EmptyData DEF DataTypes
  <2>2. gone' \in [Key -> Nat]
    BY <1>0, <1>1, <1>2 DEF DataTypes
  <2>3. map' \in [DOMAIN map' -> [Cpu -> Nat]] /\ DOMAIN map' \subseteq Key
    <3>1. map' = [j \in DOMAIN map' |-> map'[j]]
      BY <1>0, <1>1 DEF DataTypes
    <3> QED BY <1>0, <1>4, <1>5, <3>1 DEF DataTypes
  <2> QED BY <1>0, <1>1, <2>1, <2>2, <2>3 DEF DataTypes
<1>7. RoomInv'
  BY <1>0, <1>4 DEF RoomInv, Entries
<1>8. CpuInv'
  <2>1. cpu'[c] = Idle /\ \A d \in Cpu \ {c} : cpu'[d] = cpu[d]
    BY <1>0, <1>1 DEF DataTypes
  <2> QED BY <1>0, <1>4, <2>1, EmptyData DEF CpuInv
<1>9. Conservation'
  <2> SUFFICES ASSUME NEW j \in Key
               PROVE  traffic[j] = (IF j \in DOMAIN map THEN SumFunction(map'[j]) ELSE 0)
                                    + Cardinality(Busy(j)') + gone'[j]
    BY <1>1, <1>4 DEF Conservation, Total
  <2>1. Cardinality(Busy(j)') = Cardinality(Busy(j)) - (IF k = j THEN 1 ELSE 0)
    <3>1. Cardinality(Busy(j)') = Cardinality(Busy(j)) + (IF Idle.key = j THEN 1 ELSE 0)
                                    - (IF k = j THEN 1 ELSE 0)
      <4>1. cpu'[c] = Idle /\ \A d \in Cpu \ {c} : cpu'[d] = cpu[d]
        BY <1>0, <1>1 DEF DataTypes
      <4>2. Cardinality(Busy(j)') = Cardinality(Busy(j)) + (IF cpu'[c].key = j THEN 1 ELSE 0)
                                      - (IF cpu[c].key = j THEN 1 ELSE 0)
        BY <4>1, BusyMoves
      <4> QED BY <4>1, <4>2 DEF k
    <3> QED BY <3>1, EmptyData, KeyFacts, BusyFinite
  <2>3. traffic[j] = (IF j \in DOMAIN map THEN Total(j) ELSE 0) + Cardinality(Busy(j)) + gone[j]
    BY <1>0 DEF Conservation
  <2>4. Cardinality(Busy(j)) \in Nat /\ (j \in DOMAIN map => Total(j) \in Nat) /\ j # 0
        /\ traffic[j] \in Nat
    BY <1>0, BusyFinite, TotalType, KeyFacts DEF DataTypes
  <2>5. gone[j] \in Nat /\ gone'[j] = gone[j] + (IF ~inMap /\ j = k THEN 1 ELSE 0)
    BY <1>3
  <2>6. j \in DOMAIN map => SumFunction(map'[j]) = Total(j) + (IF inMap /\ j = k THEN 1 ELSE 0)
    BY <1>5
  <2> QED BY <1>2, <2>1, <2>3, <2>4, <2>5, <2>6
<1>10. WalkInv' /\ ReadInv' /\ BaseInv'
  <2>1. \A j \in Key : gone[j] <= gone'[j]
    BY <1>3
  <2>2. Grows
    BY <1>4 DEF Grows
  <2> QED BY <1>1, <1>6, <2>1, <2>2, GrowingKeeps DEF DataInv
<1> QED BY <1>6, <1>7, <1>8, <1>9, <1>10 DEF DataInv

\* Nothing of the maps and the walk moves; the monitor is and stays outside a
\* walk, or a process ends or begins.
LEMMA OutsideKeeps ==
  ASSUME DataInv, alive' \subseteq Process,
         \/ pc' = pc
         \/ pc \notin {"net", "proc", "delete"} /\ pc' \notin {"net", "proc", "delete"},
         UNCHANGED <<map, cpu, traffic, cache, cur, slot, acc, dead, expected, visited,
                     gone, reported>>
  PROVE  DataInv'
<1>1. DataTypes'
  BY DEF DataInv, DataTypes
<1>2. RoomInv' /\ CpuInv' /\ Conservation' /\ ReadInv' /\ BaseInv'
  <2>1. RoomInv'
    BY DEF DataInv, RoomInv, Entries
  <2>2. CpuInv'
    BY DEF DataInv, CpuInv
  <2>3. Conservation'
    BY DEF DataInv, Conservation, Total, Busy
  <2>4. ReadInv' /\ BaseInv'
    BY DEF DataInv, ReadInv, BaseInv, BaselineValid, Settled, Total
  <2> QED BY <2>1, <2>2, <2>3, <2>4
<1>3. WalkInv'
  <2>1. CASE pc' = pc
    BY <2>1 DEF DataInv, WalkInv, Walked, Entries
  <2>2. CASE pc \notin {"net", "proc", "delete"} /\ pc' \notin {"net", "proc", "delete"}
    <3>1. slot = 0 /\ dead = {} /\ acc = 0
      BY <2>2 DEF DataInv, WalkInv, DataTypes
    <3> QED BY <2>2, <3>1 DEF WalkInv
  <2> QED BY <2>1, <2>2
<1> QED BY <1>1, <1>2, <1>3 DEF DataInv

\* A step of the walk that leaves maps, caches and dead_pids alone.
LEMMA WalkFrame ==
  ASSUME DataInv, UNCHANGED <<map, cpu, alive, cache, traffic, gone, reported, dead>>
  PROVE  RoomInv' /\ CpuInv' /\ Conservation' /\ BaseInv'
<1>1. RoomInv'
  BY DEF DataInv, RoomInv, Entries
<1>2. CpuInv'
  BY DEF DataInv, CpuInv
<1>3. Conservation'
  BY DEF DataInv, Conservation, Total, Busy
<1>4. BaseInv'
  BY DEF DataInv, BaseInv, BaselineValid, Settled, Total
<1> QED BY <1>1, <1>2, <1>3, <1>4

\* Every key comes after 0, where a walk begins.
LEMMA AfterZero ==
  /\ \A k \in Entries(Interface) : k \in Nat /\ ~(k < 0) /\ k # 0
  /\ \A k \in Entries(Process) : k \in Nat /\ ~(k < 0) /\ k # 0
<1>1. \A k \in Nat \ {0} : ~(k < 0) /\ k # 0
  OBVIOUS
<1>2. Entries(Interface) \subseteq Nat \ {0} /\ Entries(Process) \subseteq Nat \ {0}
  BY KeyAssumption DEF Entries
<1> QED BY <1>1, <1>2

\* UpdateOnce begins with net_stats_map.
LEMMA StartWalkKeeps == ASSUME DataInv, StartWalk PROVE DataInv'
<1>1. /\ pc = "ready" /\ pc' = "net" /\ cur' = 0 /\ visited' = {} /\ expected' = Entries(Interface)
      /\ UNCHANGED <<map, cpu, alive, cache, traffic, gone, reported, slot, acc, dead>>
  BY DEF StartWalk, kernel
<1>2. slot = 0 /\ acc = 0 /\ dead = {}
  BY <1>1 DEF DataInv, WalkInv, DataTypes
<1>3. DataTypes'
  BY <1>1 DEF DataInv, DataTypes, Entries
<1>4. WalkInv' /\ ReadInv'
  <2>1. Walked' = Interface /\ Entries(Walked)' = Entries(Interface)
    BY <1>1 DEF Walked, Entries
  <2>2. Entries(Process)' = Entries(Process) /\ slot' = 0 /\ acc' = 0 /\ dead' = {}
    BY <1>1, <1>2 DEF Entries
  <2>3. ReadInv'
    BY <2>2 DEF ReadInv
  <2>4. \A k \in expected' : ~(k < cur') /\ k # cur'
    BY <1>1, AfterZero
  <2>5. WalkInv'
    BY <1>1, <2>1, <2>2, <2>4 DEF WalkInv
  <2> QED BY <2>3, <2>5
<1> QED BY <1>1, <1>3, <1>4, WalkFrame DEF DataInv

\* bpf_map_get_next_key goes on behind cur: during a walk cur is there.
LEMMA FollowingIs ==
  ASSUME DataInv, pc \in {"net", "proc"}
  PROVE  /\ Following = {k \in Entries(Walked) : k > cur}
         /\ cur \in Nat /\ Entries(Walked) \subseteq Nat \ {0} /\ Walked \subseteq Key
<1>1. cur \in Nat /\ Entries(Walked) \subseteq Nat \ {0} /\ Walked \subseteq Key
  BY KeyFacts DEF DataInv, DataTypes, Entries, Walked
<1>2. CASE cur = 0
  <2>1. cur \notin DOMAIN map
    BY <1>2, KeyFacts DEF DataInv, DataTypes
  <2> QED BY <1>1, <1>2, <2>1 DEF Following
<1>3. CASE cur # 0
  <2>1. cur \in DOMAIN map
    BY <1>3 DEF DataInv, WalkInv, Entries
  <2> QED BY <1>1, <2>1 DEF Following
<1> QED BY <1>1, <1>2, <1>3

\* bpf_map_get_next_key returns a key that this walk has not met.
LEMMA NextKeyKeeps == ASSUME DataInv, NextKey PROVE DataInv' /\ cur' \notin visited
<1>1. /\ pc \in {"net", "proc"} /\ slot = 0 /\ slot' = 1
      /\ \E k \in Following : (\A j \in Following : k <= j) /\ cur' = k
      /\ UNCHANGED <<pc, map, cpu, alive, cache, traffic, gone, reported, acc, dead, expected, visited>>
  BY DEF NextKey, kernel, monitor
<1>2. /\ cur' \in Following /\ \A j \in Following : cur' <= j
  BY <1>1
<1>3. /\ cur' \in Entries(Walked) /\ cur' > cur /\ cur' \in Key /\ cur' # 0
      /\ cur \in Nat /\ cur' \in Nat /\ Entries(Walked) \subseteq Nat
      /\ cur' \in DOMAIN map
      /\ \A j \in Entries(Walked) : j > cur => cur' <= j
  BY <1>1, <1>2, FollowingIs, KeyFacts DEF Entries
<1>4. DataTypes'
  <2>1. slot' \in 0..(NumCpus + 1)
    BY <1>1, CpuFinite
  <2> QED BY <1>1, <1>3, <2>1 DEF DataInv, DataTypes
<1>5. Walked' = Walked /\ Entries(Walked)' = Entries(Walked) /\ Entries(Process)' = Entries(Process)
  BY <1>1 DEF Walked, Entries
<1>6. /\ visited \subseteq Nat /\ expected \subseteq Nat
      /\ \A v \in visited : v < cur \/ v = cur
      /\ \A k \in expected : k < cur \/ k = cur => k \in visited
      /\ expected \subseteq Entries(Walked) /\ visited \subseteq Walked
  BY <1>1, KeyFacts DEF DataInv, WalkInv, DataTypes
<1>7. \A v \in visited : v < cur'
  BY <1>3, <1>6
<1>8. WalkInv'
  <2>1. \A k \in expected : k < cur' => k \in visited
    <3> SUFFICES ASSUME NEW k \in expected, k < cur' PROVE k \in visited
      OBVIOUS
    <3>1. ~(k > cur)
      BY <1>3, <1>6
    <3> QED BY <1>3, <1>6, <3>1
  <2>2. slot' # 0 /\ slot' = 1
    BY <1>1
  <2> QED BY <1>1, <1>3, <1>5, <1>6, <1>7, <2>1, <2>2 DEF DataInv, WalkInv
<1>9. ReadInv'
  <2> DEFINE k == cur'
  <2>1. /\ acc = 0 /\ map' = map /\ cache' = cache /\ slot' - 1 = 0
    BY <1>1 DEF DataInv, WalkInv
  <2>2. \A j \in DOMAIN map : Below(map[j], 0) = 0 /\ Total(j) \in Nat
    BY TotalType, BelowNone DEF DataInv
  <2>3. \A j \in DOMAIN cache : cache[j] <= Total(j) /\ cache[j] \in Nat
    BY DEF DataInv, BaseInv, BaselineValid, DataTypes
  <2>4. acc' <= Below(map'[cur'], slot' - 1)
    BY <1>1, <1>3, <2>1, <2>2
  <2>5. cur' \in DOMAIN cache' => cache'[cur'] + Below(map'[cur'], slot' - 1) <= acc' + Total(cur)'
    <3>1. Total(cur)' = SumFunction(map[cur'])
      BY <2>1 DEF Total
    <3>2. \A j \in DOMAIN map : SumFunction(map[j]) = Total(j)
      BY DEF Total
    <3> QED BY <1>1, <1>3, <2>1, <2>2, <2>3, <3>1, <3>2
  <2> QED BY <2>4, <2>5 DEF ReadInv
<1>10. cur' \notin visited
  BY <1>3, <1>7
<1> QED BY <1>1, <1>4, <1>8, <1>9, <1>10, WalkFrame DEF DataInv

\* bpf_map_get_next_key fails only after all that was there from the beginning.
LEMMA EndOfMapKeeps == ASSUME DataInv, EndOfMap PROVE DataInv' /\ expected \subseteq visited
<1>1. /\ pc \in {"net", "proc"} /\ slot = 0 /\ Following = {}
      /\ pc' = IF pc = "net" THEN "proc" ELSE "delete"
      /\ cur' = 0 /\ visited' = {}
      /\ expected' = IF pc = "net" THEN Entries(Process) ELSE {}
      /\ UNCHANGED <<map, cpu, alive, cache, traffic, gone, reported, slot, acc, dead>>
  BY DEF EndOfMap, kernel
<1>2. expected \subseteq visited
  <2> SUFFICES ASSUME NEW k \in expected PROVE k \in visited
    OBVIOUS
  <2>1. k \in Entries(Walked) /\ (k < cur \/ k = cur => k \in visited)
    BY <1>1 DEF DataInv, WalkInv
  <2>2. ~(k > cur) /\ k \in Nat /\ cur \in Nat
    BY <1>1, <2>1, FollowingIs
  <2> QED BY <2>1, <2>2
<1>3. DataTypes'
  BY <1>1 DEF DataInv, DataTypes, Entries
<1>4. acc = 0 /\ (pc = "net" => dead = {})
  BY <1>1 DEF DataInv, WalkInv
<1>5. WalkInv' /\ ReadInv'
  <2>1. Entries(Process)' = Entries(Process) /\ slot' = 0 /\ acc' = 0
    BY <1>1, <1>4 DEF Entries
  <2>2. dead \subseteq Entries(Process)
    BY DEF DataInv, WalkInv
  <2>3. CASE pc = "net"
    <3>1. Walked' = Process /\ Entries(Walked)' = Entries(Process)
      BY <1>1, <2>3 DEF Walked, Entries
    <3>2. \A k \in expected' : ~(k < cur') /\ k # cur'
      BY <1>1, <2>3, AfterZero
    <3>3. pc' = "proc" /\ cur' = 0 /\ visited' = {} /\ dead' = {} /\ expected' = Entries(Process)
      BY <1>1, <1>4, <2>3
    <3>4. WalkInv'
      BY <2>1, <3>1, <3>2, <3>3 DEF WalkInv
    <3> QED BY <2>1, <3>4 DEF ReadInv
  <2>4. CASE pc = "proc"
    <3>1. pc' = "delete" /\ dead' = dead
      BY <1>1, <2>4
    <3> QED BY <2>1, <2>2, <3>1 DEF WalkInv, ReadInv
  <2> QED BY <1>1, <2>3, <2>4
<1> QED BY <1>1, <1>2, <1>3, <1>5, WalkFrame DEF DataInv

\* One CPU of the copy is added to the sum.
LEMMA ReadSlotKeeps == ASSUME DataInv, ReadSlot PROVE DataInv'
<1>1. /\ slot \in Cpu /\ acc' = acc + map[cur][slot] /\ slot' = slot + 1
      /\ UNCHANGED <<pc, map, cpu, alive, cache, traffic, gone, reported, cur, dead, expected, visited>>
  BY DEF ReadSlot, kernel, monitor
<1>2. /\ slot \in Nat /\ slot > 0 /\ slot + 1 \in 0..(NumCpus + 1) /\ slot - 1 \in Nat
      /\ (slot + 1) - 1 = slot
  BY <1>1, CpuFinite
<1>3. /\ cur \in DOMAIN map /\ acc \in Nat
  BY <1>2 DEF DataInv, WalkInv, Entries, DataTypes
<1>4. map[cur] \in [Cpu -> Nat] /\ map[cur][slot] \in Nat /\ Total(cur) \in Nat
  <2>1. \A j \in DOMAIN map : map[j] \in [Cpu -> Nat] /\ SumFunction(map[j]) \in Nat
    BY TotalType DEF DataInv, Total
  <2> QED BY <1>1, <1>3, <2>1 DEF Total
<1>5. DataTypes'
  BY <1>1, <1>2, <1>3, <1>4 DEF DataInv, DataTypes
<1>6. WalkInv'
  <2>1. Walked' = Walked /\ Entries(Walked)' = Entries(Walked) /\ Entries(Process)' = Entries(Process)
    BY <1>1 DEF Walked, Entries
  <2>2. slot' > 0 /\ slot' # 0 /\ slot # 0
    BY <1>1, <1>2
  <2> QED BY <1>1, <1>2, <2>1, <2>2 DEF DataInv, WalkInv
<1>7. ReadInv'
  <2>1. /\ Below(map[cur], slot) = Below(map[cur], slot - 1) + map[cur][slot]
        /\ Below(map[cur], slot - 1) \in Nat
    <3>1. \A f \in [Cpu -> Nat], n \in Cpu : Below(f, n) = Below(f, n - 1) + f[n]
      BY BelowNext
    <3>2. \A f \in [Cpu -> Nat], n \in Nat : Below(f, n) \in Nat
      BY BelowType
    <3> QED BY <1>1, <1>2, <1>4, <3>1, <3>2
  <2>2. /\ acc <= Below(map[cur], slot - 1)
        /\ cur \in DOMAIN cache => cache[cur] + Below(map[cur], slot - 1) <= acc + Total(cur)
    BY <1>2 DEF DataInv, ReadInv
  <2>3. cur \in DOMAIN cache => cache[cur] \in Nat
    BY DEF DataInv, DataTypes
  <2>4. acc + map[cur][slot] <= Below(map[cur], slot)
    BY <1>3, <1>4, <2>1, <2>2
  <2>5. cur \in DOMAIN cache =>
          cache[cur] + Below(map[cur], slot) <= (acc + map[cur][slot]) + Total(cur)
    BY <1>3, <1>4, <2>1, <2>2, <2>3
  <2>6. /\ map' = map /\ cache' = cache /\ cur' = cur /\ slot' - 1 = slot
        /\ acc' = acc + map[cur][slot] /\ Total(cur)' = Total(cur)
    BY <1>1, <1>2 DEF Total
  <2> QED BY <2>4, <2>5, <2>6 DEF ReadInv
<1> QED BY <1>1, <1>5, <1>6, <1>7, WalkFrame DEF DataInv

\* UpdateOnce returns when dead_pids is worked off.
LEMMA EndWalkKeeps == ASSUME DataInv, EndWalk PROVE DataInv'
<1>1. /\ pc = "delete" /\ dead = {} /\ pc' = "ready"
      /\ UNCHANGED <<map, cpu, alive, cache, traffic, gone, reported, cur, slot, acc, dead, expected, visited>>
  BY DEF EndWalk, kernel, walk
<1>2. slot = 0 /\ acc = 0
  BY <1>1 DEF DataInv, WalkInv, DataTypes
<1>3. DataTypes'
  BY <1>1 DEF DataInv, DataTypes
<1>4. WalkInv' /\ ReadInv'
  BY <1>1, <1>2 DEF WalkInv, ReadInv
<1> QED BY <1>1, <1>3, <1>4, WalkFrame DEF DataInv

\* When all CPUs are added up: the sum lies between the baseline and the total,
\* and the key is new to this walk.
LEMMA VisitFacts ==
  ASSUME DataInv, KeyRead
  PROVE  /\ pc \in {"net", "proc"} /\ slot # 0 /\ cur \in Entries(Walked) /\ cur \in DOMAIN map
         /\ cur \in Key /\ cur \in Nat /\ cur \notin visited /\ cur \notin dead
         /\ cur \in Process => pc = "proc"
         /\ Total(cur) \in Nat /\ acc \in Nat /\ acc <= Total(cur)
         /\ cur \in DOMAIN cache => cache[cur] \in Nat /\ cache[cur] <= acc
         /\ gone[cur] \in Nat /\ reported[cur] \in Nat
         /\ reported[cur] <= gone[cur] + (IF cur \in DOMAIN cache THEN cache[cur] ELSE 0)
<1>1. slot = NumCpus + 1 /\ slot > 0 /\ slot # 0 /\ slot - 1 = NumCpus /\ NumCpus \in Nat
  BY CpuFinite DEF KeyRead
<1>2. pc \in {"net", "proc"} /\ cur \in Entries(Walked)
  BY <1>1 DEF DataInv, WalkInv
<1>3. cur \in DOMAIN map /\ cur \in Key /\ cur \in Nat
  BY <1>2, KeyFacts DEF Entries, DataInv, DataTypes
<1>4. cur \notin visited
  <2>1. \A v \in visited : v < cur \/ (v = cur /\ slot = 0)
    BY <1>2 DEF DataInv, WalkInv
  <2> QED BY <1>1, <1>3, <2>1
<1>5. cur \in Process => pc = "proc"
  BY <1>2, KeyFacts DEF Walked, Entries
<1>6. cur \notin dead
  <2>1. CASE pc = "proc"
    BY <1>4, <2>1 DEF DataInv, WalkInv
  <2>2. CASE pc = "net"
    BY <2>2 DEF DataInv, WalkInv
  <2> QED BY <1>2, <2>1, <2>2
<1>7. /\ Below(map[cur], slot - 1) = Total(cur) /\ Total(cur) \in Nat /\ acc \in Nat
  <2>1. \A j \in DOMAIN map : /\ Below(map[j], NumCpus) = SumFunction(map[j])
                              /\ SumFunction(map[j]) \in Nat
    BY TotalType, BelowAll DEF DataInv, Total
  <2> QED BY <1>1, <1>3, <2>1 DEF DataInv, DataTypes, Total
<1>8. acc <= Total(cur) /\ (cur \in DOMAIN cache => cache[cur] \in Nat /\ cache[cur] <= acc)
  <2>1. /\ acc <= Below(map[cur], slot - 1)
        /\ cur \in DOMAIN cache => cache[cur] + Below(map[cur], slot - 1) <= acc + Total(cur)
    BY <1>1 DEF DataInv, ReadInv
  <2>2. cur \in DOMAIN cache => cache[cur] \in Nat
    BY DEF DataInv, DataTypes
  <2> QED BY <1>7, <2>1, <2>2
<1>9. /\ gone[cur] \in Nat /\ reported[cur] \in Nat
      /\ reported[cur] <= gone[cur] + (IF cur \in DOMAIN cache THEN cache[cur] ELSE 0)
  <2>1. reported[cur] <= gone[cur] + Settled(cur)
    <3>1. \A k \in Key : reported[k] <= gone[k] + (IF k \in DOMAIN cache THEN cache[k]
                            ELSE IF k \in dead THEN Total(k) ELSE 0)
      BY DEF DataInv, BaseInv, Settled
    <3> QED BY <1>3, <3>1 DEF Settled
  <2> QED BY <1>3, <1>6, <2>1 DEF Settled, DataInv, DataTypes
<1> QED BY <1>1, <1>2, <1>3, <1>4, <1>5, <1>6, <1>7, <1>8, <1>9

\* One key finished: the walk is in order afterwards, and so are the counts.
LEMMA VisitWalk ==
  ASSUME DataInv, KeyRead, KeyDone, pc' = pc, map' = map,
         dead' = dead \/ (dead' = dead \cup {cur} /\ cur \in Process),
         DOMAIN cache' \subseteq Key, cache' \in [DOMAIN cache' -> Nat],
         reported' \in [Key -> Nat]
  PROVE  DataTypes' /\ RoomInv' /\ CpuInv' /\ Conservation' /\ WalkInv' /\ ReadInv'
<1>1. /\ slot' = 0 /\ acc' = 0 /\ visited' = visited \cup {cur}
      /\ UNCHANGED <<cpu, alive, traffic, cur, expected, gone>>
  BY DEF KeyDone
<1>2. /\ pc \in {"net", "proc"} /\ slot # 0 /\ cur \in Entries(Walked) /\ cur \in DOMAIN map
      /\ cur \in Key /\ cur \notin visited /\ cur \notin dead /\ cur # 0
      /\ cur \in Process => pc = "proc"
  BY VisitFacts, KeyFacts
<1>3. DataTypes'
  <2>1. slot' \in 0..(NumCpus + 1)
    BY <1>1, CpuFinite
  <2> QED BY <1>1, <1>2, <2>1 DEF DataInv, DataTypes
<1>4. RoomInv' /\ CpuInv' /\ Conservation'
  <2>1. RoomInv'
    BY DEF DataInv, RoomInv, Entries
  <2>2. CpuInv'
    BY <1>1 DEF DataInv, CpuInv
  <2>3. Conservation'
    BY <1>1 DEF DataInv, Conservation, Total, Busy
  <2> QED BY <2>1, <2>2, <2>3
<1>5. WalkInv'
  <2>1. Walked' = Walked /\ Entries(Walked)' = Entries(Walked) /\ Entries(Process)' = Entries(Process)
    BY DEF Walked, Entries
  <2>2. /\ visited \subseteq Walked /\ expected \subseteq Entries(Walked)
        /\ \A v \in visited : v < cur \/ (v = cur /\ slot = 0)
        /\ \A k \in expected : k < cur \/ (k = cur /\ slot = 0) => k \in visited
        /\ dead \subseteq Entries(Process) /\ (dead # {} => pc = "proc")
        /\ (pc = "proc" => dead \subseteq visited)
    BY <1>2 DEF DataInv, WalkInv
  <2>3. visited' \subseteq Walked /\ \A v \in visited' : v < cur \/ (v = cur /\ slot' = 0)
    BY <1>1, <1>2, <2>2 DEF Entries
  <2>4. \A k \in expected : k < cur \/ (k = cur /\ slot' = 0) => k \in visited'
    BY <1>1, <2>2
  <2>5. dead' \subseteq Entries(Process) /\ (dead' # {} => pc = "proc")
        /\ (pc = "proc" => dead' \subseteq visited')
    BY <1>1, <1>2, <2>2 DEF Entries
  <2> QED BY <1>1, <1>2, <2>1, <2>2, <2>3, <2>4, <2>5 DEF WalkInv
<1>6. ReadInv'
  BY <1>1 DEF ReadInv
<1> QED BY <1>3, <1>4, <1>5, <1>6

\* One key finished: no baseline beyond its entry, no rate beyond its units.
LEMMA VisitBase ==
  ASSUME DataInv, KeyRead, gone' = gone, map' = map, cur' = cur,
         dead' = dead \/ dead' = dead \cup {cur},
         DOMAIN cache' \ {cur} = DOMAIN cache \ {cur},
         \A k \in DOMAIN cache \ {cur} : cache'[k] = cache[k],
         \A k \in Key \ {cur} : reported'[k] = reported[k],
         cur \in DOMAIN cache' => cache'[cur] <= Total(cur) /\ cur \notin dead',
         reported'[cur] <= gone[cur] + (IF cur \in DOMAIN cache' THEN cache'[cur]
                                        ELSE IF cur \in dead' THEN Total(cur) ELSE 0)
  PROVE  BaseInv'
<1>1. cur \in DOMAIN map /\ cur \notin dead /\ cur \in Key
  BY VisitFacts
<1>2. BaselineValid'
  <2> SUFFICES ASSUME NEW k \in DOMAIN cache'
               PROVE  k \in DOMAIN map /\ cache'[k] <= SumFunction(map[k])
    BY DEF BaselineValid, Total
  <2>1. CASE k = cur
    BY <1>1, <2>1 DEF Total
  <2>2. CASE k # cur
    BY <2>2 DEF DataInv, BaseInv, BaselineValid, Total
  <2> QED BY <2>1, <2>2
<1>3. DOMAIN cache' \cap dead' = {}
  <2>1. \A k \in DOMAIN cache' : k # cur => k \in DOMAIN cache
    OBVIOUS
  <2>2. DOMAIN cache \cap dead = {}
    BY DEF DataInv, BaseInv
  <2> QED BY <2>1, <2>2
<1>4. ASSUME NEW k \in Key PROVE reported'[k] <= gone'[k] + Settled(k)'
  <2>0. Settled(k)' = IF k \in DOMAIN cache' THEN cache'[k]
                      ELSE IF k \in dead' THEN SumFunction(map[k]) ELSE 0
    BY DEF Settled, Total
  <2>1. CASE k = cur
    <3>1. SumFunction(map[k]) = Total(cur)
      BY <2>1 DEF Total
    <3> QED BY <2>0, <2>1, <3>1
  <2>2. CASE k # cur
    <3>1. /\ k \in DOMAIN cache' <=> k \in DOMAIN cache
          /\ k \in DOMAIN cache => cache'[k] = cache[k]
          /\ k \in dead' <=> k \in dead
          /\ reported'[k] = reported[k]
      BY <2>2
    <3>2. Settled(k)' = Settled(k)
      BY <2>0, <3>1 DEF Settled, Total
    <3>3. reported[k] <= gone[k] + Settled(k)
      BY DEF DataInv, BaseInv
    <3> QED BY <3>1, <3>2, <3>3
  <2> QED BY <2>1, <2>2
<1> QED BY <1>2, <1>3, <1>4 DEF BaseInv

\* The caches without the key visited.
LEMMA CacheWithout ==
  ASSUME DataInv
  PROVE  /\ DOMAIN Without(cache, cur) = DOMAIN cache \ {cur}
         /\ \A k \in DOMAIN cache \ {cur} : Without(cache, cur)[k] = cache[k]
         /\ DOMAIN Without(cache, cur) \subseteq Key
         /\ Without(cache, cur) \in [DOMAIN Without(cache, cur) -> Nat]
BY DEF Without, Restrict, DataInv, DataTypes

\* The caches with a new baseline for the key visited.
LEMMA CachePut ==
  ASSUME DataInv, KeyRead
  PROVE  /\ DOMAIN Put(cache, cur, acc) = DOMAIN cache \cup {cur}
         /\ Put(cache, cur, acc)[cur] = acc
         /\ \A k \in DOMAIN cache \ {cur} : Put(cache, cur, acc)[k] = cache[k]
         /\ DOMAIN Put(cache, cur, acc) \subseteq Key
         /\ Put(cache, cur, acc) \in [DOMAIN Put(cache, cur, acc) -> Nat]
<1>1. cur \in Key /\ acc \in Nat
  BY VisitFacts
<1>2. /\ DOMAIN Put(cache, cur, acc) = DOMAIN cache \cup {cur}
      /\ Put(cache, cur, acc)[cur] = acc
      /\ \A k \in DOMAIN cache \ {cur} : Put(cache, cur, acc)[k] = cache[k]
  BY DEF Put
<1>3. Put(cache, cur, acc) = [k \in DOMAIN Put(cache, cur, acc) |-> Put(cache, cur, acc)[k]]
  BY DEF Put
<1>4. \A k \in DOMAIN Put(cache, cur, acc) : Put(cache, cur, acc)[k] \in Nat
  BY <1>1, <1>2 DEF DataInv, DataTypes
<1> HIDE DEF Put
<1>5. DOMAIN Put(cache, cur, acc) \subseteq Key
  BY <1>1, <1>2 DEF DataInv, DataTypes
<1> QED BY <1>2, <1>3, <1>4, <1>5

\* A dead process is noted, and its baseline is forgotten.
LEMMA VisitDeadKeeps == ASSUME DataInv, VisitDead, pc' = pc PROVE DataInv'
<1>1. /\ KeyRead /\ KeyDone /\ cur \in Process /\ dead' = dead \cup {cur}
      /\ cache' = Without(cache, cur) /\ UNCHANGED <<map, reported, gone, cur>>
  BY DEF VisitDead, KeyDone
<1>2. /\ DOMAIN cache' = DOMAIN cache \ {cur} /\ DOMAIN cache' \subseteq Key
      /\ cache' \in [DOMAIN cache' -> Nat] /\ reported' \in [Key -> Nat]
      /\ \A k \in DOMAIN cache \ {cur} : cache'[k] = cache[k]
  BY <1>1, CacheWithout DEF DataInv, DataTypes
<1>3. DataTypes' /\ RoomInv' /\ CpuInv' /\ Conservation' /\ WalkInv' /\ ReadInv'
  BY <1>1, <1>2, VisitWalk
<1>4. BaseInv'
  <2>1. /\ Total(cur) \in Nat /\ acc \in Nat /\ acc <= Total(cur)
        /\ cur \in DOMAIN cache => cache[cur] \in Nat /\ cache[cur] <= acc
        /\ gone[cur] \in Nat /\ reported[cur] \in Nat
        /\ reported[cur] <= gone[cur] + (IF cur \in DOMAIN cache THEN cache[cur] ELSE 0)
    BY <1>1, VisitFacts
  <2>2. reported'[cur] <= gone[cur] + Total(cur)
    BY <1>1, <2>1
  <2>3. cur \notin DOMAIN cache' /\ cur \in dead' /\ DOMAIN cache' \ {cur} = DOMAIN cache \ {cur}
    BY <1>1, <1>2
  <2>4. \A k \in Key \ {cur} : reported'[k] = reported[k]
    BY <1>1
  <2> QED BY <1>1, <1>2, <2>2, <2>3, <2>4, VisitBase
<1> QED BY <1>3, <1>4 DEF DataInv

\* A visit that keeps the baseline and reports nothing.
LEMMA VisitPlainKeeps ==
  ASSUME DataInv, KeyRead, KeyDone, UNCHANGED <<pc, map, dead, cache, reported>>
  PROVE  DataInv'
<1>1. /\ DOMAIN cache' \subseteq Key
      /\ cache' \in [DOMAIN cache' -> Nat] /\ reported' \in [Key -> Nat]
      /\ gone' = gone /\ cur' = cur
  BY DEF DataInv, DataTypes, KeyDone
<1>2. DataTypes' /\ RoomInv' /\ CpuInv' /\ Conservation' /\ WalkInv' /\ ReadInv'
  BY <1>1, VisitWalk
<1>3. BaseInv'
  BY <1>1 DEF DataInv, BaseInv, BaselineValid, Settled, Total
<1> QED BY <1>2, <1>3 DEF DataInv

\* A visit that records the total as the baseline and reports at most what
\* has come since the one before.
LEMMA VisitPutKeeps ==
  ASSUME DataInv, KeyRead, KeyDone, UNCHANGED <<pc, map, dead>>,
         cache' = Put(cache, cur, acc), reported' \in [Key -> Nat],
         \A k \in Key \ {cur} : reported'[k] = reported[k],
         \/ reported'[cur] = reported[cur]
         \/ cur \in DOMAIN cache /\ reported'[cur] = reported[cur] + (acc - cache[cur])
  PROVE  DataInv'
<1>1. /\ DOMAIN cache' = DOMAIN cache \cup {cur} /\ DOMAIN cache' \subseteq Key
      /\ cache' \in [DOMAIN cache' -> Nat] /\ cache'[cur] = acc
      /\ \A k \in DOMAIN cache \ {cur} : cache'[k] = cache[k]
      /\ gone' = gone /\ cur' = cur
  BY CachePut DEF KeyDone
<1>2. DataTypes' /\ RoomInv' /\ CpuInv' /\ Conservation' /\ WalkInv' /\ ReadInv'
  BY <1>1, VisitWalk
<1>3. BaseInv'
  <2>1. /\ Total(cur) \in Nat /\ acc \in Nat /\ acc <= Total(cur) /\ cur \notin dead
        /\ cur \in DOMAIN cache => cache[cur] \in Nat /\ cache[cur] <= acc
        /\ gone[cur] \in Nat /\ reported[cur] \in Nat
        /\ reported[cur] <= gone[cur] + (IF cur \in DOMAIN cache THEN cache[cur] ELSE 0)
    BY VisitFacts
  <2>2. reported'[cur] <= gone[cur] + acc
    <3>1. CASE cur \in DOMAIN cache
      BY <2>1, <3>1
    <3>2. CASE cur \notin DOMAIN cache
      BY <2>1, <3>2
    <3> QED BY <3>1, <3>2
  <2>3. /\ cur \in DOMAIN cache' /\ cur \notin dead'
        /\ DOMAIN cache' \ {cur} = DOMAIN cache \ {cur}
    BY <1>1, <2>1
  <2> QED BY <1>1, <2>1, <2>2, <2>3, VisitBase
<1> QED BY <1>2, <1>3 DEF DataInv

\* Every way to finish a key.
LEMMA VisitKeeps == ASSUME DataInv, Visit PROVE DataInv'
<1>1. CASE VisitDead
  <2>1. pc' = pc
    BY <1>1 DEF VisitDead, KeyDone, monitor
  <2> QED BY <1>1, <2>1, VisitDeadKeeps
<1>2. CASE VisitUnnamed
  <2>1. KeyRead /\ KeyDone /\ UNCHANGED <<pc, map, dead, cache, reported>>
    BY <1>2 DEF VisitUnnamed, Visitable, KeyDone, monitor
  <2> QED BY <2>1, VisitPlainKeeps
<1>3. CASE VisitFirst
  <2>1. /\ KeyRead /\ KeyDone /\ UNCHANGED <<pc, map, dead, reported>>
        /\ cache' = Put(cache, cur, acc)
    BY <1>3 DEF VisitFirst, Visitable, KeyDone, monitor
  <2>2. reported' \in [Key -> Nat] /\ (\A k \in Key \ {cur} : reported'[k] = reported[k])
        /\ reported'[cur] = reported[cur]
    BY <2>1 DEF DataInv, DataTypes
  <2> QED BY <2>1, <2>2, VisitPutKeeps
<1>4. CASE VisitTooSoon
  <2>1. /\ KeyRead /\ KeyDone /\ UNCHANGED <<pc, map, dead, reported>>
        /\ cache' = Put(cache, cur, acc) \/ cache' = cache
    BY <1>4 DEF VisitTooSoon, Visitable, KeyDone, monitor
  <2>2. reported' \in [Key -> Nat] /\ (\A k \in Key \ {cur} : reported'[k] = reported[k])
        /\ reported'[cur] = reported[cur]
    BY <2>1 DEF DataInv, DataTypes
  <2> QED BY <2>1, <2>2, VisitPutKeeps, VisitPlainKeeps
<1>5. CASE VisitAgain
  <2>1. /\ KeyRead /\ KeyDone /\ UNCHANGED <<pc, map, dead>>
        /\ cache' = Put(cache, cur, acc) /\ cur \in DOMAIN cache
        /\ reported' = [reported EXCEPT ![cur] = @ + Delta(acc, cache[cur])]
    BY <1>5 DEF VisitAgain, Visitable, KeyDone, monitor
  <2>2. /\ cur \in Key /\ acc \in Nat /\ cache[cur] \in Nat /\ cache[cur] <= acc
    BY <2>1, VisitFacts
  <2>3. Delta(acc, cache[cur]) = acc - cache[cur] /\ acc - cache[cur] \in Nat
    BY <2>2 DEF Delta
  <2>4. /\ reported' \in [Key -> Nat] /\ \A k \in Key \ {cur} : reported'[k] = reported[k]
        /\ reported'[cur] = reported[cur] + (acc - cache[cur])
    BY <2>1, <2>2, <2>3 DEF DataInv, DataTypes
  <2> QED BY <2>1, <2>4, VisitPutKeeps
<1> QED BY <1>1, <1>2, <1>3, <1>4, <1>5 DEF Visit

\* bpf_map_delete_elem: the entry goes with the units in it; a CPU that found it
\* adds to memory nobody reads.
LEMMA DeleteDeadKeeps ==
  ASSUME DataInv, NEW k \in Process, DeleteDead(k)
  PROVE  DataInv'
<1>0. DataTypes /\ RoomInv /\ CpuInv /\ Conservation /\ WalkInv /\ BaseInv
  BY DEF DataInv
<1>1. /\ pc = "delete" /\ k \in dead /\ dead' = dead \ {k}
      /\ map' = Without(map, k)
      /\ gone' = [gone EXCEPT ![k] = @ + Total(k)]
      /\ cpu' = [c \in Cpu |-> IF cpu[c].key = k /\ cpu[c].step = "add"
                               THEN [cpu[c] EXCEPT !.step = "stale"] ELSE cpu[c]]
      /\ UNCHANGED <<pc, alive, cache, cur, slot, acc, expected, visited, traffic, reported>>
  BY DEF DeleteDead, monitor
<1>2. /\ k \in DOMAIN map /\ k \in Key /\ k \notin DOMAIN cache /\ Total(k) \in Nat
      /\ slot = 0 /\ acc = 0
  <2>1. k \in DOMAIN map /\ k \in Key /\ k \notin DOMAIN cache
    BY <1>0, <1>1, KeyFacts DEF WalkInv, BaseInv, Entries
  <2>2. slot = 0 /\ acc = 0
    BY <1>0, <1>1 DEF WalkInv, DataTypes
  <2> QED BY <1>0, <2>1, <2>2, TotalType
<1>3. /\ DOMAIN map' = DOMAIN map \ {k}
      /\ \A j \in DOMAIN map \ {k} : map'[j] = map[j]
      /\ map' \in [DOMAIN map' -> [Cpu -> Nat]]
  <2>1. /\ DOMAIN map' = DOMAIN map \ {k} /\ map' = [j \in DOMAIN map' |-> map'[j]]
        /\ \A j \in DOMAIN map \ {k} : map'[j] = map[j]
    BY <1>1 DEF Without, Restrict
  <2>2. \A j \in DOMAIN map : map[j] \in [Cpu -> Nat]
    BY <1>0 DEF DataTypes
  <2> QED BY <2>1, <2>2
<1>4. \A j \in Key : /\ gone[j] \in Nat
                     /\ gone'[j] = gone[j] + (IF j = k THEN Total(k) ELSE 0)
  <2>1. \A j \in Key : gone[j] \in Nat
    BY <1>0 DEF DataTypes
  <2> QED BY <1>0, <1>1, <1>2, <2>1 DEF DataTypes
<1>5. \A c \in Cpu : /\ cpu'[c] \in [step : Step, key : Key \cup {0}]
                     /\ cpu'[c].key = cpu[c].key
                     /\ cpu'[c].step = IF cpu[c].key = k /\ cpu[c].step = "add" THEN "stale"
                                       ELSE cpu[c].step
  <2> SUFFICES ASSUME NEW c \in Cpu
               PROVE  /\ cpu'[c] \in [step : Step, key : Key \cup {0}]
                      /\ cpu'[c].key = cpu[c].key
                      /\ cpu'[c].step = IF cpu[c].key = k /\ cpu[c].step = "add" THEN "stale"
                                        ELSE cpu[c].step
    OBVIOUS
  <2>1. cpu[c] \in [step : Step, key : Key \cup {0}]
    BY <1>0 DEF DataTypes
  <2>2. CASE cpu[c].key = k /\ cpu[c].step = "add"
    <3>1. cpu'[c] = [cpu[c] EXCEPT !.step = "stale"]
      BY <1>1, <2>2
    <3> QED BY <2>1, <2>2, <3>1 DEF Step
  <2>3. CASE ~(cpu[c].key = k /\ cpu[c].step = "add")
    <3>1. cpu'[c] = cpu[c]
      BY <1>1, <2>3
    <3> QED BY <2>1, <2>3, <3>1
  <2> QED BY <2>2, <2>3
<1>6. DataTypes'
  <2>1. cpu' \in [Cpu -> [step : Step, key : Key \cup {0}]]
    BY <1>1, <1>5
  <2>2. gone' \in [Key -> Nat]
    BY <1>0, <1>1, <1>2 DEF DataTypes
  <2> QED BY <1>0, <1>1, <1>3, <2>1, <2>2 DEF DataTypes
<1>7. RoomInv'
  <2>1. Entries(Process)' \subseteq Entries(Process)
    BY <1>3 DEF Entries
  <2>2. IsFiniteSet(Entries(Process))
    BY KeyFacts, FS_Subset DEF Entries
  <2>3. /\ Cardinality(Entries(Process)') <= Cardinality(Entries(Process))
        /\ Cardinality(Entries(Process)) \in Nat /\ Cardinality(Entries(Process)') \in Nat
    BY <2>1, <2>2, FS_Subset, FS_CardinalityType
  <2> QED BY <1>0, <2>3, BoundAssumption DEF RoomInv
<1>8. CpuInv'
  BY <1>0, <1>3, <1>5 DEF CpuInv
<1>9. Conservation'
  <2> SUFFICES ASSUME NEW j \in Key
               PROVE  traffic[j] = (IF j \in DOMAIN map' THEN SumFunction(map'[j]) ELSE 0)
                                    + Cardinality(Busy(j)') + gone'[j]
    BY <1>1 DEF Conservation, Total
  <2>1. Cardinality(Busy(j)') = Cardinality(Busy(j)) /\ Cardinality(Busy(j)) \in Nat
    BY <1>5, BusySame, BusyFinite
  <2>2. traffic[j] = (IF j \in DOMAIN map THEN Total(j) ELSE 0) + Cardinality(Busy(j)) + gone[j]
    BY <1>0 DEF Conservation
  <2>3. gone[j] \in Nat /\ gone'[j] = gone[j] + (IF j = k THEN Total(k) ELSE 0)
    BY <1>4
  <2>4. CASE j = k
    BY <1>2, <1>3, <2>1, <2>2, <2>3, <2>4
  <2>5. CASE j # k
    <3>1. (j \in DOMAIN map' <=> j \in DOMAIN map) /\ (j \in DOMAIN map => map'[j] = map[j])
      BY <1>3, <2>5
    <3> QED BY <2>1, <2>2, <2>3, <2>5, <3>1 DEF Total
  <2> QED BY <2>4, <2>5
<1>10. WalkInv'
  <2>1. dead' \subseteq Entries(Process)' /\ pc' = "delete" /\ slot' = 0 /\ acc' = 0
    BY <1>0, <1>1, <1>2, <1>3 DEF WalkInv, Entries
  <2> QED BY <2>1 DEF WalkInv
<1>11. ReadInv'
  BY <1>1, <1>2 DEF ReadInv
<1>12. BaseInv'
  <2>1. BaselineValid'
    BY <1>0, <1>1, <1>2, <1>3 DEF BaseInv, BaselineValid, Total
  <2>2. DOMAIN cache' \cap dead' = {}
    BY <1>0, <1>1 DEF BaseInv
  <2>3. ASSUME NEW j \in Key PROVE reported'[j] <= gone'[j] + Settled(j)'
    <3>0. Settled(j)' = IF j \in DOMAIN cache THEN cache[j]
                        ELSE IF j \in dead' THEN SumFunction(map'[j]) ELSE 0
      BY <1>1 DEF Settled, Total
    <3>1. reported'[j] = reported[j] /\ reported[j] <= gone[j] + Settled(j)
      BY <1>0, <1>1 DEF BaseInv
    <3>2. gone[j] \in Nat /\ gone'[j] = gone[j] + (IF j = k THEN Total(k) ELSE 0)
      BY <1>4
    <3>3. CASE j = k
      <4>1. Settled(j) = Total(k) /\ Settled(j)' = 0
        BY <1>1, <1>2, <3>0, <3>3 DEF Settled
      <4> QED BY <1>2, <3>1, <3>2, <3>3, <4>1
    <3>4. CASE j # k
      <4>1. Settled(j)' = Settled(j)
        <5>1. CASE j \in DOMAIN cache
          BY <3>0, <5>1 DEF Settled
        <5>2. CASE j \notin DOMAIN cache /\ j \in dead
          <6>1. j \in dead' /\ j \in DOMAIN map
            BY <1>0, <1>1, <3>4, <5>2 DEF WalkInv, Entries
          <6>2. map'[j] = map[j]
            BY <1>3, <3>4, <6>1
          <6> QED BY <3>0, <5>2, <6>1, <6>2 DEF Settled, Total
        <5>3. CASE j \notin DOMAIN cache /\ j \notin dead
          BY <1>1, <3>0, <5>3 DEF Settled
        <5> QED BY <5>1, <5>2, <5>3
      <4> QED BY <3>1, <3>2, <3>4, <4>1
    <3> QED BY <3>3, <3>4
  <2> QED BY <2>1, <2>2, <2>3 DEF BaseInv
<1> QED BY <1>6, <1>7, <1>8, <1>9, <1>10, <1>11, <1>12 DEF DataInv

\* Every step of the kernel and of the worker keeps the data in order.
LEMMA DataStep == DataInv /\ [Next]_vars => DataInv'
<1> SUFFICES ASSUME DataInv, [Next]_vars PROVE DataInv'
  OBVIOUS
<1>0. alive \subseteq Process
  BY DEF DataInv, DataTypes
<1>1. CASE Kernel
  <2>1. ASSUME NEW c \in Cpu, NEW k \in Key, Lookup(c, k) PROVE DataInv'
    BY <2>1, LookupKeeps
  <2>2. ASSUME NEW c \in Cpu, Create(c) \/ LookupAgain(c) \/ Add(c) PROVE DataInv'
    BY <2>2, CreateKeeps, LookupAgainKeeps, AddKeeps
  <2>3. ASSUME NEW k \in Process, Exit(k) \/ Spawn(k) PROVE DataInv'
    <3>1. /\ alive' \subseteq Process
          /\ UNCHANGED <<pc, map, cpu, traffic, cache, cur, slot, acc, dead, expected, visited,
                         gone, reported>>
      BY <1>0, <2>3 DEF Exit, Spawn, kernel, monitor, walk
    <3> QED BY <3>1, OutsideKeeps
  <2> QED BY <1>1, <2>1, <2>2, <2>3 DEF Kernel
<1>2. CASE \/ InitEbpf \/ AttachEgress \/ AttachSend \/ AttachRecv
           \/ \E i \in Interface : AttachIngress(i)
  <2>1. /\ alive' \subseteq Process
        /\ UNCHANGED <<map, cpu, traffic, cache, cur, slot, acc, dead, expected, visited,
                       gone, reported>>
        /\ pc \notin {"net", "proc", "delete"} /\ pc' \notin {"net", "proc", "delete"}
    BY <1>0, <1>2 DEF InitEbpf, AttachEgress, AttachSend, AttachRecv, AttachIngress, kernel, walk
  <2> QED BY <2>1, OutsideKeeps
<1>3. CASE AttachDone
  <2>1. CASE pc' = "failed" /\ NoState /\ alive' = alive
    BY <2>1, ResetKeeps
  <2>2. CASE /\ pc = "attach" /\ pc' = "send" /\ alive' = alive
             /\ UNCHANGED <<map, cpu, traffic, cache, cur, slot, acc, dead, expected, visited,
                            gone, reported>>
    <3>1. pc \notin {"net", "proc", "delete"} /\ pc' \notin {"net", "proc", "delete"}
      BY <2>2
    <3> QED BY <1>0, <2>2, <3>1, OutsideKeeps
  <2> QED BY <1>3, <2>1, <2>2 DEF AttachDone, CleanupEbpf, kernel, walk
<1>4. CASE Stop \/ Kill
  <2>1. NoState /\ alive' = alive /\ pc' \notin {"net", "proc", "delete"}
    BY <1>4 DEF Stop, Kill, CleanupEbpf
  <2> QED BY <2>1, ResetKeeps
<1>5. CASE UpdateOnce
  BY <1>5, StartWalkKeeps, NextKeyKeeps, ReadSlotKeeps, VisitKeeps, EndOfMapKeeps, EndWalkKeeps,
     DeleteDeadKeeps DEF UpdateOnce
<1>6. CASE UNCHANGED vars
  <2>1. UNCHANGED <<pc, map, cpu, traffic, cache, cur, slot, acc, dead, expected, visited,
                    gone, reported, alive>>
    BY <1>6 DEF vars
  <2> QED BY <1>0, <2>1, OutsideKeeps
<1> QED BY <1>1, <1>2, <1>3, <1>4, <1>5, <1>6 DEF Next, Setup

\* The inductive invariant of net_stats.bpf.c and NetEbpfMonitor: hooks, maps,
\* caches and the walk, for any interfaces, processes, CPUs and map size.
THEOREM CountersInvariance == Spec => [](HookInv /\ DataInv)
<1>1. HookInv /\ DataInv /\ [Next]_vars => (HookInv /\ DataInv)'
  BY HookStep, DataStep
<1>2. Init => HookInv /\ DataInv
  BY HookInit, DataInit
<1> QED BY <1>1, <1>2, PTL DEF Spec

\* The types of NetEbpf; proc_net_map never holds more than max_entries.
THEOREM CountersTypeCorrect == Spec => []TypeOK
<1>1. HookInv /\ DataInv => TypeOK
  <2> SUFFICES ASSUME HookInv, DataInv PROVE TypeOK
    OBVIOUS
  <2>1. ingressOk \in BOOLEAN
    BY Zenon DEF HookInv, SetupTypes
  <2>2. pc \in {"down", "attach", "send", "recv", "ready", "net", "proc", "delete", "failed", "killed"}
    BY DEF HookInv, SetupTypes, Running, Resting
  <2> QED BY <2>1, <2>2, Zenon
          DEF TypeOK, HookInv, SetupTypes, DataInv, DataTypes, RoomInv, Program, Step
<1> QED BY <1>1, CountersInvariance, PTL

\* After InitEbpf an interface has both TC programs or none, through failures of
\* the attaching, stops and kills; a stopped worker leaves none of its own.
THEOREM HooksArePaired == Spec => []HooksPaired
<1>1. HookInv /\ DataInv => HooksPaired
  BY DEF HookInv
<1> QED BY <1>1, CountersInvariance, PTL

\* update_stats and account_proc lose no unit without a trace: it is in an entry,
\* in flight on a CPU, or gone with a deleted entry or a full map.
THEOREM EveryUnitAccounted == Spec => []Conservation
<1>1. HookInv /\ DataInv => Conservation
  BY DEF DataInv
<1> QED BY <1>1, CountersInvariance, PTL

\* cache_ and proc_cache_ never outlive the entry they belong to and never run
\* ahead of it: now >= last in UpdateOnce, always.
THEOREM BaselinesAreValid == Spec => []BaselineValid
<1>1. HookInv /\ DataInv => BaselineValid
  BY DEF DataInv, BaseInv
<1> QED BY <1>1, CountersInvariance, PTL

\* The rates of UpdateOnce report no unit twice, whatever is deleted, reused or
\* counted while the copies are read.
THEOREM NoUnitReportedTwice == Spec => []ReportedOnce
<1>1. HookInv /\ DataInv => ReportedOnce
  <2> SUFFICES ASSUME DataInv, NEW k \in Key
               PROVE  reported[k] + (IF k \in DOMAIN cache /\ k \in DOMAIN map
                                     THEN Total(k) - cache[k] ELSE 0) <= traffic[k]
    BY DEF ReportedOnce
  <2>1. /\ traffic[k] = (IF k \in DOMAIN map THEN Total(k) ELSE 0)
                         + Cardinality(Busy(k)) + gone[k]
        /\ reported[k] <= gone[k] + Settled(k)
        /\ reported[k] \in Nat /\ gone[k] \in Nat /\ Cardinality(Busy(k)) \in Nat
    BY BusyFinite DEF DataInv, Conservation, BaseInv, DataTypes
  <2>2. k \in DOMAIN map => Total(k) \in Nat
    BY TotalType DEF DataInv
  <2>3. CASE k \in DOMAIN cache
    <3>1. k \in DOMAIN map /\ cache[k] \in Nat /\ cache[k] <= Total(k) /\ Settled(k) = cache[k]
      BY <2>3 DEF DataInv, BaseInv, BaselineValid, DataTypes, Settled
    <3> QED BY <2>1, <2>2, <2>3, <3>1
  <2>4. CASE k \notin DOMAIN cache /\ k \in dead
    <3>1. k \in DOMAIN map /\ Settled(k) = Total(k)
      BY <2>4 DEF DataInv, WalkInv, Entries, Settled
    <3> QED BY <2>1, <2>2, <2>4, <3>1
  <2>5. CASE k \notin DOMAIN cache /\ k \notin dead
    <3>1. Settled(k) = 0
      BY <2>5 DEF Settled
    <3> QED BY <2>1, <2>2, <2>5, <3>1
  <2> QED BY <2>3, <2>4, <2>5
<1> QED BY <1>1, CountersInvariance, PTL

\* A walk over a map that grows meets no key twice and misses none that was
\* there when it began.
THEOREM WalksAreComplete == Spec => WalkVisitsOnce
<1> DEFINE Once == /\ slot = 0 /\ slot' = 1 => cur' \notin visited
                   /\ pc \in {"net", "proc"} /\ slot = 0 /\ pc' \in {"proc", "delete"} /\ pc' # pc
                        => expected \subseteq visited
<1>1. DataInv /\ [Next]_vars => [Once]_vars
  <2> SUFFICES ASSUME DataInv, Next PROVE Once
    OBVIOUS
  <2> USE DEF monitor, kernel, walk
  <2>1. CASE NextKey
    <3>1. cur' \notin visited
      BY <2>1, NextKeyKeeps
    <3>2. pc' = pc
      BY <2>1 DEF NextKey
    <3> QED BY <3>1, <3>2
  <2>2. CASE EndOfMap
    <3>1. expected \subseteq visited
      BY <2>2, EndOfMapKeeps
    <3>2. slot' = slot
      BY <2>2 DEF EndOfMap
    <3> QED BY <3>1, <3>2
  <2>3. CASE Kernel \/ (\E i \in Interface : AttachIngress(i)) \/ AttachEgress
             \/ (\E k \in Process : DeleteDead(k))
    <3>1. slot' = slot /\ pc' = pc
      BY <2>3 DEF Kernel, Lookup, Create, LookupAgain, Add, Exit, Spawn, AttachIngress,
         AttachEgress, DeleteDead
    <3> QED BY <3>1
  <2>4. CASE InitEbpf \/ AttachDone \/ AttachSend \/ AttachRecv \/ StartWalk \/ EndWalk \/ Stop \/ Kill
    <3>1. (slot' = slot \/ slot' = 0) /\ (pc \notin {"net", "proc"} \/ pc' = "killed")
      BY <2>4 DEF InitEbpf, AttachDone, AttachSend, AttachRecv, StartWalk, EndWalk, Stop, Kill,
         CleanupEbpf, NoState
    <3> QED BY <3>1
  <2>5. CASE ReadSlot \/ Visit
    <3>1. /\ slot \in Cpu \/ KeyRead
          /\ pc' = pc
      BY <2>5 DEF ReadSlot, Visit, VisitDead, VisitUnnamed, VisitFirst, VisitTooSoon, VisitAgain,
         Visitable, KeyDone
    <3>2. slot # 0
      BY <3>1, CpuFinite DEF KeyRead
    <3> QED BY <3>1, <3>2
  <2> QED BY <2>1, <2>2, <2>3, <2>4, <2>5 DEF Next, Setup, UpdateOnce
<1>2. HookInv /\ DataInv /\ [Next]_vars => [Once]_vars
  BY <1>1
<1>3. WalkVisitsOnce <=> [][Once]_vars
  BY PTL DEF WalkVisitsOnce
<1> QED BY <1>2, <1>3, CountersInvariance, PTL DEF Spec
=============================================================================
