------------------------ MODULE DeviceCollectProofs -------------------------
(***************************************************************************)
(* Theorems about DeviceCollect for any set of handlers and any bound on   *)
(* the changes of the configuration.                                       *)
(***************************************************************************)
EXTENDS DeviceCollect, FiniteSetTheorems, SequenceTheorems, TLAPS

-----------------------------------------------------------------------------
(* Type correctness.                                                       *)

HandlerPc == {"idle", "put", "bulk", "delete", "upsert", "hub", "start", "entry", "remove",
              "forget"}
RunPc     == {"connect", "gen", "tags", "poll", "wait", "done"}
Holding   == {"poll", "wait"}
Collector == [drv : 1..Len(drv), pc : RunPc, gen : 0..gen, ver : 0..MaxChanges + 1]

IInv == TypeOK /\ VersionsInv

\* The parts of the type invariant by name, and the numbers among them.
LEMMA Types ==
  ASSUME TypeOK
  PROVE  /\ MaxChanges \in Nat /\ changes \in Nat /\ gen \in Nat /\ gen >= 1
         /\ cfg \in Nat /\ hub \in Nat
         /\ drv \in Seq(BOOLEAN) /\ Len(drv) \in Nat /\ DOMAIN drv = 1..Len(drv)
         /\ run \in Seq(Collector) /\ Len(run) \in Nat /\ DOMAIN run = 1..Len(run)
         /\ \A r \in DOMAIN run : run[r] \in Collector
         /\ pc \in [Handler -> HandlerPc]
<1>1. run \in Seq(Collector) /\ pc \in [Handler -> HandlerPc] /\ drv \in Seq(BOOLEAN)
  BY DEF TypeOK, Collector, RunPc, HandlerPc
<1>2. /\ Len(run) \in Nat /\ DOMAIN run = 1..Len(run)
      /\ Len(drv) \in Nat /\ DOMAIN drv = 1..Len(drv)
  BY <1>1
<1>3. \A r \in DOMAIN run : run[r] \in Collector
  BY <1>1, <1>2, ElementOfSeq
<1>4. /\ MaxChanges \in Nat /\ changes \in Nat /\ gen \in Nat /\ gen >= 1
      /\ cfg \in Nat /\ hub \in Nat
  BY <1>2, DeviceCollectAssumption DEF TypeOK
<1> QED BY <1>1, <1>2, <1>3, <1>4

\* A handler's step to a known place keeps the type of pc.
LEMMA GotoType ==
  ASSUME TypeOK, NEW h \in Handler, NEW l \in HandlerPc, Goto(h, l)
  PROVE  pc' \in [Handler -> HandlerPc]
BY Types DEF Goto

\* Collectors stay well typed when drivers are added and the generation grows.
LEMMA RunGrows ==
  ASSUME TypeOK, Len(drv') \in Nat, Len(drv) <= Len(drv'), gen' \in Nat, gen <= gen'
  PROVE  Collector \subseteq Collector' /\ run \in Seq(Collector')
<1>1. Collector \subseteq Collector'
  <2>1. 1..Len(drv) \subseteq 1..Len(drv') /\ 0..gen \subseteq 0..gen'
    BY Types
  <2> QED BY <2>1 DEF Collector
<1>2. run \in Seq(Collector)
  BY Types
<1> QED BY <1>1, <1>2, SeqMonotonic

\* Disconnecting the hub's driver keeps the drivers.
LEMMA DisconnectedType ==
  ASSUME TypeOK
  PROVE  Disconnected \in Seq(BOOLEAN) /\ Len(Disconnected) = Len(drv)
<1>1. CASE hub = 0
  BY <1>1, Types DEF Disconnected
<1>2. CASE hub # 0
  <2>1. hub \in 1..Len(drv)
    BY <1>2, Types DEF TypeOK
  <2> QED BY <1>2, <2>1, Types, ExceptSeq DEF Disconnected
<1> QED BY <1>1, <1>2

\* A change of the configuration, saved or not, keeps the counters in bounds.
LEMMA ChangeType ==
  ASSUME TypeOK, gen <= changes + 1, changes < MaxChanges, NEW v \in 0..MaxChanges + 1,
         Change(v) \/ ChangeUnsaved(v) \/ Unannounced(v)
  PROVE  /\ cfg' \in 0..MaxChanges + 1 /\ gen' \in 1..MaxChanges + 1
         /\ changes' \in 0..MaxChanges
         /\ gen <= gen' /\ gen' <= changes' + 1
         /\ unsaved' \in BOOLEAN /\ disturbed' \in BOOLEAN /\ forgets' \in Nat
<1>1. changes' = changes + 1 /\ cfg' = v /\ (gen' = gen \/ gen' = gen + 1)
  BY DEF Change, ChangeUnsaved, Unannounced
<1>2. /\ cfg' \in 0..MaxChanges + 1 /\ gen' \in 1..MaxChanges + 1
      /\ changes' \in 0..MaxChanges /\ gen <= gen' /\ gen' <= changes' + 1
  BY <1>1, Types
<1>3. CASE Change(v)
  <2>1. unsaved' = FALSE /\ disturbed' = disturbed /\ forgets' = forgets
    BY <1>3 DEF Change
  <2> QED BY <1>2, <2>1 DEF TypeOK
<1>4. CASE ChangeUnsaved(v)
  <2>1. unsaved' = TRUE /\ disturbed' = TRUE /\ forgets' = forgets
    BY <1>4 DEF ChangeUnsaved
  <2> QED BY <1>2, <2>1 DEF TypeOK
<1>5. CASE Unannounced(v)
  <2>1. unsaved' = FALSE /\ disturbed' = TRUE /\ forgets' = forgets
    BY <1>5 DEF Unannounced
  <2> QED BY <1>2, <2>1 DEF TypeOK
<1> QED BY <1>3, <1>4, <1>5

\* The store changes and nothing but a handler's place moves with it.
LEMMA StoreStep ==
  ASSUME IInv, changes < MaxChanges, NEW v \in 0..MaxChanges + 1,
         Change(v) \/ ChangeUnsaved(v) \/ Unannounced(v),
         UNCHANGED <<link, hubVars>>, pc' \in [Handler -> HandlerPc]
  PROVE  IInv'
<1> USE DEF IInv
<1>1. /\ cfg' \in 0..MaxChanges + 1 /\ gen' \in 1..MaxChanges + 1
      /\ changes' \in 0..MaxChanges
      /\ gen <= gen' /\ gen' <= changes' + 1
      /\ unsaved' \in BOOLEAN /\ disturbed' \in BOOLEAN /\ forgets' \in Nat
  BY ChangeType DEF VersionsInv
<1>2. run' = run /\ drv' = drv /\ hub' = hub /\ once' = once /\ link' = link
  BY DEF hubVars
<1>3. run' \in Seq(Collector')
  BY <1>1, <1>2, RunGrows, Types
<1>4. TypeOK'
  BY <1>1, <1>2, <1>3, Types DEF TypeOK, Collector, RunPc, HandlerPc
<1>5. StaleTagsNoticed'
  <2>1. CASE Change(v) \/ Unannounced(v)
    <3>1. \A r \in DOMAIN run : run[r].gen # gen'
      BY <2>1, Types DEF Change, Unannounced, Collector
    <3> QED BY <1>2, <3>1 DEF StaleTagsNoticed
  <2>2. CASE ChangeUnsaved(v)
    BY <2>2 DEF ChangeUnsaved, StaleTagsNoticed
  <2> QED BY <2>1, <2>2
<1> QED BY <1>1, <1>4, <1>5 DEF VersionsInv

\* A step that leaves the store and the collectors alone.
LEMMA QuietStep ==
  ASSUME IInv, UNCHANGED <<cfgVars, run, unsaved>>,
         link' \in BOOLEAN, once' \in BOOLEAN, disturbed' \in BOOLEAN, forgets' \in Nat,
         drv' \in Seq(BOOLEAN), Len(drv) <= Len(drv'), hub' \in 0..Len(drv'),
         pc' \in [Handler -> HandlerPc]
  PROVE  IInv'
<1> USE DEF IInv
<1>1. /\ cfg' = cfg /\ gen' = gen /\ changes' = changes /\ run' = run
      /\ unsaved' = unsaved /\ Len(drv') \in Nat
  BY DEF cfgVars
<1>2. run' \in Seq(Collector')
  BY <1>1, RunGrows, Types
<1>3. TypeOK'
  BY <1>1, <1>2 DEF TypeOK, Collector, RunPc, HandlerPc
<1> QED BY <1>1, <1>3 DEF VersionsInv, StaleTagsNoticed

\* A collector moves on: the others stay, and it keeps what StaleTagsNoticed asks.
LEMMA CollectorStep ==
  ASSUME IInv, NEW r \in DOMAIN run, NEW c \in Collector, run' = [run EXCEPT ![r] = c],
         c.pc \in Holding /\ c.ver # cfg => unsaved \/ c.gen # gen,
         drv' \in Seq(BOOLEAN), Len(drv') = Len(drv),
         UNCHANGED <<link, cfgVars, hub, once, pc, history>>
  PROVE  IInv'
<1> USE DEF IInv
<1>1. /\ cfg' = cfg /\ gen' = gen /\ changes' = changes /\ unsaved' = unsaved /\ hub' = hub
      /\ disturbed' = disturbed /\ forgets' = forgets /\ pc' = pc /\ once' = once /\ link' = link
  BY DEF cfgVars, history
<1>2. run' \in Seq(Collector) /\ Len(run') = Len(run)
      /\ \A i \in 1..Len(run) : run'[i] = IF i = r THEN c ELSE run[i]
  BY Types, ExceptSeq
<1>3. TypeOK'
  BY <1>1, <1>2 DEF TypeOK, Collector, RunPc
<1>4. StaleTagsNoticed'
  BY <1>1, <1>2, Types DEF VersionsInv, StaleTagsNoticed, Holding
<1> QED BY <1>1, <1>3, <1>4 DEF VersionsInv

\* A collector starts: it polls nothing yet.
LEMMA NewCollectorStep ==
  ASSUME IInv, NEW c \in Collector, c.pc = "connect", run' = Append(run, c),
         UNCHANGED <<link, cfgVars, hub, drv, once, forgets, unsaved, disturbed>>,
         pc' \in [Handler -> HandlerPc]
  PROVE  IInv'
<1> USE DEF IInv
<1>1. /\ cfg' = cfg /\ gen' = gen /\ changes' = changes /\ unsaved' = unsaved /\ hub' = hub
      /\ disturbed' = disturbed /\ forgets' = forgets /\ drv' = drv /\ once' = once /\ link' = link
  BY DEF cfgVars
<1>2. run' \in Seq(Collector) /\ Len(run') = Len(run) + 1
      /\ run'[Len(run) + 1] = c /\ \A i \in 1..Len(run) : run'[i] = run[i]
  BY Types
<1>3. TypeOK'
  BY <1>1, <1>2 DEF TypeOK, Collector, RunPc, HandlerPc
<1>4. StaleTagsNoticed'
  <2> SUFFICES ASSUME NEW i \in DOMAIN run', run'[i].pc \in {"poll", "wait"} /\ run'[i].ver # cfg
               PROVE  unsaved \/ run'[i].gen # gen
    BY <1>1 DEF StaleTagsNoticed
  <2>1. DOMAIN run' = 1..Len(run) + 1
    BY <1>2
  <2>2. i \in 1..Len(run)
    BY <1>2, <2>1, Types
  <2> QED BY <1>2, <2>2, Types DEF VersionsInv, StaleTagsNoticed
<1> QED BY <1>1, <1>3, <1>4 DEF VersionsInv

\* The initial state: no collector, or the one of the device configured at
\* startup, which has not read anything yet.
LEMMA InitIInv == Init => IInv
<1> SUFFICES ASSUME Init PROVE IInv
  OBVIOUS
<1> DEFINE c == [drv |-> 1, pc |-> "connect", gen |-> 0, ver |-> 0]
<1>1. MaxChanges \in Nat
  BY DeviceCollectAssumption
<1>2. /\ link \in BOOLEAN /\ once \in BOOLEAN /\ unsaved \in BOOLEAN /\ disturbed \in BOOLEAN
  BY DEF Init
<1>3. pc \in [Handler -> HandlerPc]
  BY DEF Init, HandlerPc
<1>4. gen \in 1..MaxChanges + 1 /\ changes \in 0..MaxChanges /\ forgets \in Nat
      /\ cfg \in 0..MaxChanges + 1 /\ gen <= changes + 1
  BY <1>1 DEF Init
<1>5. CASE cfg = 0
  <2>1. drv = <<>> /\ run = <<>> /\ hub = 0 /\ Len(drv) = 0 /\ Len(run) = 0
    BY <1>5 DEF Init
  <2>2. drv \in Seq(BOOLEAN) /\ run \in Seq(Collector) /\ DOMAIN run = {}
    BY <2>1
  <2>3. hub \in 0..Len(drv)
    BY <2>1
  <2>4. TypeOK
    BY <1>2, <1>3, <1>4, <2>2, <2>3 DEF TypeOK, Collector, RunPc, HandlerPc
  <2> QED BY <1>4, <2>2, <2>4 DEF IInv, VersionsInv, StaleTagsNoticed
<1>6. CASE cfg = 1
  <2>1. drv = <<link>> /\ run = <<c>> /\ hub = 1 /\ gen = 1 /\ link \in BOOLEAN
    BY <1>6 DEF Init
  <2>2. Len(drv) = 1 /\ drv \in Seq(BOOLEAN) /\ hub \in 0..Len(drv)
    BY <2>1
  <2>3. c \in Collector
    BY <1>1, <2>1, <2>2 DEF Collector, RunPc
  <2>4. run \in Seq(Collector) /\ DOMAIN run = {1} /\ run[1] = c
    <3> HIDE DEF c
    <3> QED BY <2>1, <2>3
  <2>5. TypeOK
    BY <1>2, <1>3, <1>4, <2>2, <2>4 DEF TypeOK, Collector, RunPc, HandlerPc
  <2>6. StaleTagsNoticed
    BY <2>4 DEF StaleTagsNoticed
  <2> QED BY <1>4, <2>5, <2>6 DEF IInv, VersionsInv
<1> QED BY <1>5, <1>6 DEF Init

-----------------------------------------------------------------------------
(* Every step keeps the invariant.                                         *)

\* A handler's step.
LEMMA HandlerIInv ==
  ASSUME IInv, NEW h \in Handler, Begin(h) \/ HandlerStep(h)
  PROVE  IInv'
<1> USE DEF IInv
<1>1. /\ link \in BOOLEAN /\ once \in BOOLEAN /\ disturbed \in BOOLEAN /\ forgets \in Nat
      /\ drv \in Seq(BOOLEAN) /\ Len(drv) \in Nat /\ hub \in 0..Len(drv)
  BY Types DEF TypeOK
<1>2. CASE Begin(h)
  <2>1. pc' \in [Handler -> HandlerPc]
    <3>1. PICK l \in {"create", "put", "bulk", "delete"} :
            Goto(h, IF l = "create" THEN "put" ELSE l)
      BY <1>2 DEF Begin
    <3>2. (IF l = "create" THEN "put" ELSE l) \in HandlerPc
      BY DEF HandlerPc
    <3> QED BY <3>1, <3>2, GotoType
  <2>2. disturbed' \in BOOLEAN
    BY <1>2 DEF Begin
  <2>3. UNCHANGED <<link, cfgVars, hub, drv, once, run, forgets, unsaved>>
    BY <1>2 DEF Begin, hubVars
  <2> QED BY <1>1, <2>1, <2>2, <2>3, QuietStep
<1>3. CASE Save(h)
  <2> DEFINE v == IF pc[h] = "delete" THEN 0 ELSE changes + 2
  <2>1. changes < MaxChanges /\ (Change(v) \/ ChangeUnsaved(v)) /\ UNCHANGED <<link, hubVars>>
    BY <1>3 DEF Save
  <2>2. v \in 0..MaxChanges + 1
    BY <2>1, Types
  <2>3. pc' \in [Handler -> HandlerPc]
    <3>1. Goto(h, "remove") \/ Goto(h, "upsert") \/ Goto(h, "idle")
      BY <1>3 DEF Save
    <3>2. {"remove", "upsert", "idle"} \subseteq HandlerPc
      BY DEF HandlerPc
    <3> QED BY <3>1, <3>2, GotoType
  <2> HIDE DEF v
  <2> QED BY <2>1, <2>2, <2>3, StoreStep
<1>4. CASE Refuse(h)
  <2>1. Goto(h, "idle") /\ "idle" \in HandlerPc
    BY <1>4 DEF Refuse, HandlerPc
  <2>2. UNCHANGED <<link, cfgVars, hub, drv, once, run, forgets, unsaved, disturbed>>
    BY <1>4 DEF Refuse, hubVars, history
  <2> QED BY <1>1, <2>1, <2>2, GotoType, QuietStep
<1>5. CASE Lookup(h)
  <2>1. Goto(h, "idle") \/ Goto(h, "hub")
    BY <1>5 DEF Lookup
  <2>2. "idle" \in HandlerPc /\ "hub" \in HandlerPc
    BY DEF HandlerPc
  <2>3. UNCHANGED <<link, cfgVars, hub, drv, once, run, forgets, unsaved, disturbed>>
    BY <1>5 DEF Lookup, hubVars, history
  <2>4. pc' \in [Handler -> HandlerPc]
    BY <2>1, <2>2, GotoType
  <2> QED BY <1>1, <2>3, <2>4, QuietStep
<1>6. CASE HubUpsert(h)
  <2>1. Goto(h, "start") /\ "start" \in HandlerPc
    BY <1>6 DEF HubUpsert, HandlerPc
  <2>2. /\ drv' = Append(Disconnected, link) /\ hub' = Len(drv) + 1
        /\ UNCHANGED <<link, cfgVars, once, run, forgets, unsaved, disturbed>>
    BY <1>6 DEF HubUpsert, history
  <2>3. drv' \in Seq(BOOLEAN) /\ Len(drv') = Len(drv) + 1
    BY <1>1, <2>2, DisconnectedType
  <2>4. Len(drv) <= Len(drv') /\ hub' \in 0..Len(drv')
    BY <1>1, <2>2, <2>3
  <2> QED BY <1>1, <2>1, <2>2, <2>3, <2>4, GotoType, QuietStep
<1>7. CASE Start(h)
  <2>1. Goto(h, "idle") \/ Goto(h, "entry")
    BY <1>7 DEF Start
  <2>2. "idle" \in HandlerPc /\ "entry" \in HandlerPc
    BY DEF HandlerPc
  <2>3. once' = TRUE /\ UNCHANGED <<link, cfgVars, hub, drv, run, forgets, unsaved, disturbed>>
    BY <1>7 DEF Start, history
  <2>4. pc' \in [Handler -> HandlerPc]
    BY <2>1, <2>2, GotoType
  <2> QED BY <1>1, <2>3, <2>4, QuietStep
<1>8. CASE StartEntry(h)
  <2>1. Goto(h, "idle") /\ "idle" \in HandlerPc
    BY <1>8 DEF StartEntry, HandlerPc
  <2>2. UNCHANGED <<link, cfgVars, hub, drv, once, forgets, unsaved, disturbed>>
    BY <1>8 DEF StartEntry, history
  <2>3. pc' \in [Handler -> HandlerPc]
    BY <2>1, GotoType
  <2>4. CASE hub = 0
    <3>1. run' = run
      BY <1>8, <2>4 DEF StartEntry
    <3> QED BY <1>1, <2>2, <2>3, <3>1, QuietStep
  <2>5. CASE hub # 0
    <3> DEFINE c == [drv |-> hub, pc |-> "connect", gen |-> 0, ver |-> 0]
    <3>1. run' = Append(run, c)
      BY <1>8, <2>5 DEF StartEntry
    <3>2. c \in Collector
      BY <1>1, <2>5, Types DEF Collector, RunPc
    <3>3. c.pc = "connect"
      OBVIOUS
    <3> HIDE DEF c
    <3> QED BY <2>2, <2>3, <3>1, <3>2, <3>3, NewCollectorStep
  <2> QED BY <2>4, <2>5
<1>9. CASE Remove(h)
  <2>1. Goto(h, "forget") /\ "forget" \in HandlerPc
    BY <1>9 DEF Remove, HandlerPc
  <2>2. /\ drv' = Disconnected /\ hub' = 0
        /\ UNCHANGED <<link, cfgVars, once, run, forgets, unsaved, disturbed>>
    BY <1>9 DEF Remove, history
  <2>3. drv' \in Seq(BOOLEAN) /\ Len(drv') = Len(drv)
    BY <2>2, DisconnectedType
  <2>4. Len(drv) <= Len(drv') /\ hub' \in 0..Len(drv')
    BY <1>1, <2>2, <2>3
  <2> QED BY <1>1, <2>1, <2>2, <2>3, <2>4, GotoType, QuietStep
<1>10. CASE Forget(h)
  <2>1. Goto(h, "idle") /\ "idle" \in HandlerPc
    BY <1>10 DEF Forget, HandlerPc
  <2>2. /\ once' = FALSE /\ forgets' = forgets + 1
        /\ UNCHANGED <<link, cfgVars, hub, drv, run, unsaved, disturbed>>
    BY <1>10 DEF Forget
  <2>3. /\ forgets' \in Nat
        /\ once' \in BOOLEAN
        /\ link' \in BOOLEAN /\ disturbed' \in BOOLEAN
    <3>1. forgets' \in Nat
      BY <1>1, <2>2
    <3>2. once' \in BOOLEAN
      BY <2>2
    <3> QED BY <1>1, <2>2, <3>1, <3>2
  <2>4. drv' \in Seq(BOOLEAN) /\ Len(drv) <= Len(drv') /\ hub' \in 0..Len(drv')
    BY <1>1, <2>2
  <2>5. pc' \in [Handler -> HandlerPc]
    BY <2>1, GotoType
  <2> QED BY <2>2, <2>3, <2>4, <2>5, QuietStep
<1> QED BY <1>2, <1>3, <1>4, <1>5, <1>6, <1>7, <1>8, <1>9, <1>10 DEF HandlerStep

\* A collector's step.  It reads the generation before the tags, so when the
\* tags it starts to poll are not stale, they can only become so with a new
\* generation.
LEMMA RunnerIInv ==
  ASSUME IInv, NEW r \in DOMAIN run, Runner(r) \/ Watch(r)
  PROVE  IInv'
<1> USE DEF IInv
<1>1. /\ run \in Seq(Collector) /\ run[r] \in Collector /\ gen \in Nat
      /\ drv \in Seq(BOOLEAN) /\ DOMAIN drv = 1..Len(drv) /\ run[r].drv \in DOMAIN drv
      /\ link \in BOOLEAN /\ cfg \in 0..MaxChanges + 1
  <2>1. run[r] \in Collector /\ DOMAIN drv = 1..Len(drv)
    BY Types
  <2>2. run[r].drv \in DOMAIN drv
    BY <2>1 DEF Collector
  <2> QED BY <2>1, <2>2, Types DEF TypeOK
<1>2. ASSUME NEW b \in BOOLEAN, drv' = [drv EXCEPT ![run[r].drv] = b]
      PROVE  drv' \in Seq(BOOLEAN) /\ Len(drv') = Len(drv)
  BY <1>1, <1>2, ExceptSeq
<1>3. ASSUME NEW l \in RunPc \ Holding, RunTo(r, l),
             drv' \in Seq(BOOLEAN), Len(drv') = Len(drv),
             UNCHANGED <<link, cfgVars, hub, once, pc, history>>
      PROVE  IInv'
  <2> DEFINE c == [run[r] EXCEPT !.pc = l]
  <2>1. c \in Collector /\ c.pc \notin Holding
    <3>1. l \in RunPc /\ l \notin Holding
      OBVIOUS
    <3> QED BY <1>1, <3>1 DEF Collector
  <2>2. run' = [run EXCEPT ![r] = c]
    BY <1>3 DEF RunTo
  <2> HIDE DEF c
  <2> QED BY <1>3, <2>1, <2>2, CollectorStep
<1>4. CASE RunConnect(r)
  <2>1. RunTo(r, "gen") /\ "gen" \in RunPc \ Holding /\ drv' = [drv EXCEPT ![run[r].drv] = TRUE]
        /\ UNCHANGED <<link, cfgVars, hub, once, pc, history>>
    BY <1>4 DEF RunConnect, RunPc, Holding
  <2> QED BY <1>2, <1>3, <2>1
<1>5. CASE RunGen(r)
  <2> DEFINE c == [run[r] EXCEPT !.gen = gen, !.pc = "tags"]
  <2>1. c \in Collector /\ c.pc \notin Holding
    <3> DEFINE d == [run[r] EXCEPT !.gen = gen]
    <3>1. d \in Collector
      <4>1. gen \in 0..gen
        BY <1>1
      <4> QED BY <1>1, <4>1 DEF Collector
    <3>2. c = [d EXCEPT !.pc = "tags"]
      OBVIOUS
    <3> HIDE DEF c, d
    <3> QED BY <3>1, <3>2 DEF Collector, RunPc, Holding
  <2>2. run' = [run EXCEPT ![r] = c] /\ drv' = drv
        /\ UNCHANGED <<link, cfgVars, hub, once, pc, history>>
    BY <1>5 DEF RunGen
  <2> HIDE DEF c
  <2> QED BY <1>1, <2>1, <2>2, CollectorStep
<1>6. CASE RunTags(r)
  <2>1. UNCHANGED drv /\ UNCHANGED <<link, cfgVars, hub, once, pc, history>>
    BY <1>6 DEF RunTags
  <2>2. CASE cfg = 0
    <3>1. RunTo(r, "done") /\ "done" \in RunPc \ Holding
      BY <1>6, <2>2 DEF RunTags, RunPc, Holding
    <3> QED BY <1>1, <1>3, <2>1, <3>1
  <2>3. CASE cfg # 0
    <3> DEFINE l == IF TagsOf[cfg] = "none" THEN "wait" ELSE "poll"
               c == [run[r] EXCEPT !.ver = cfg, !.pc = l]
    <3>1. c \in Collector /\ c.ver = cfg
      <4>1. l \in RunPc
        BY DEF RunPc
      <4> HIDE DEF l
      <4> QED BY <1>1, <4>1 DEF Collector
    <3>2. run' = [run EXCEPT ![r] = c]
      BY <1>6, <2>3 DEF RunTags
    <3> HIDE DEF c
    <3> QED BY <1>1, <2>1, <3>1, <3>2, CollectorStep
  <2> QED BY <2>2, <2>3
<1>7. CASE RunPoll(r)
  <2>1. run' = run /\ drv' = [drv EXCEPT ![run[r].drv] = link]
        /\ UNCHANGED <<link, cfgVars, hub, once, pc, history>>
    BY <1>7 DEF RunPoll
  <2>2. drv' \in Seq(BOOLEAN) /\ Len(drv') = Len(drv)
    BY <1>1, <1>2, <2>1
  <2>3. /\ disturbed' \in BOOLEAN /\ forgets' \in Nat /\ once' \in BOOLEAN
        /\ link' \in BOOLEAN /\ hub' \in 0..Len(drv')
        /\ UNCHANGED <<cfgVars, run, unsaved>>
    BY <1>1, <2>1, <2>2 DEF TypeOK, history
  <2>4. pc' \in [Handler -> HandlerPc] /\ Len(drv) <= Len(drv')
    BY <2>1, <2>2, Types
  <2> QED BY <2>2, <2>3, <2>4, QuietStep
<1>8. CASE RunCancel(r) \/ RunRefused(r)
  <2>1. RunTo(r, "connect") /\ "connect" \in RunPc \ Holding
        /\ drv' = [drv EXCEPT ![run[r].drv] = FALSE]
        /\ UNCHANGED <<link, cfgVars, hub, once, pc, history>>
    BY <1>8 DEF RunCancel, RunRefused, Leave, RunPc, Holding
  <2> QED BY <1>2, <1>3, <2>1
<1>9. CASE RunWake(r)
  <2>1. RunTo(r, "connect") /\ "connect" \in RunPc \ Holding /\ drv' = drv
        /\ UNCHANGED <<link, cfgVars, hub, once, pc, history>>
    BY <1>9 DEF RunWake, RunPc, Holding
  <2> QED BY <1>1, <1>3, <2>1
<1> QED BY <1>4, <1>5, <1>6, <1>7, <1>8, <1>9 DEF Runner, Watch

\* Every step of the specification.
LEMMA NextIInv == IInv /\ [Next]_vars => IInv'
<1> SUFFICES ASSUME IInv, [Next]_vars PROVE IInv'
  OBVIOUS
<1> USE DEF IInv
<1>1. /\ link \in BOOLEAN /\ once \in BOOLEAN /\ disturbed \in BOOLEAN /\ forgets \in Nat
      /\ drv \in Seq(BOOLEAN) /\ Len(drv) <= Len(drv) /\ hub \in 0..Len(drv)
      /\ pc \in [Handler -> HandlerPc]
  BY Types DEF TypeOK
<1>2. ASSUME NEW h \in Handler, Begin(h) \/ HandlerStep(h) PROVE IInv'
  BY <1>2, HandlerIInv
<1>3. ASSUME NEW r \in DOMAIN run, Runner(r) \/ Watch(r) PROVE IInv'
  BY <1>3, RunnerIInv
<1>4. CASE EditStore
  <2>1. PICK v \in {cfg} \cup {w \in {changes + 2} : cfg # 0} : Change(v) \/ ChangeUnsaved(v)
    BY <1>4 DEF EditStore
  <2>2. changes < MaxChanges /\ UNCHANGED <<link, hubVars, pc>>
    BY <1>4 DEF EditStore
  <2>3. v \in 0..MaxChanges + 1
    BY <2>2, Types DEF TypeOK
  <2>4. pc' \in [Handler -> HandlerPc] /\ UNCHANGED <<link, hubVars>>
    BY <1>1, <2>2
  <2> QED BY <2>1, <2>2, <2>3, <2>4, StoreStep
<1>5. CASE ImportWithout
  <2>1. changes < MaxChanges /\ Unannounced(0) /\ UNCHANGED <<link, hubVars, pc>>
    BY <1>5 DEF ImportWithout
  <2>2. 0 \in 0..MaxChanges + 1 /\ pc' \in [Handler -> HandlerPc] /\ UNCHANGED <<link, hubVars>>
    BY <1>1, <2>1, DeviceCollectAssumption
  <2> QED BY <2>1, <2>2, StoreStep
<1>6. CASE LinkChanges
  <2>1. UNCHANGED <<cfgVars, hub, drv, once, run, pc, forgets, unsaved, disturbed>>
        /\ link' \in BOOLEAN
    BY <1>1, <1>6 DEF LinkChanges, hubVars, history
  <2> QED BY <1>1, <2>1, QuietStep
<1>7. CASE UNCHANGED vars
  <2>1. UNCHANGED <<link, cfgVars, hub, drv, once, run, pc, forgets, unsaved, disturbed>>
    BY <1>7 DEF vars, hubVars, history
  <2> QED BY <1>1, <2>1, QuietStep
<1> QED BY <1>2, <1>3, <1>4, <1>5, <1>6, <1>7 DEF Next

\* A collector that polls tags other than the configured ones will notice: for
\* any number of handlers and changes, whatever they interleave, its generation
\* is not the store's, unless the last change could not be written to disk
\* (run_device.go:93-107).
THEOREM StaleTagsAlwaysNoticed == Spec => [](TypeOK /\ StaleTagsNoticed)
<1>1. IInv => TypeOK /\ StaleTagsNoticed
  BY DEF IInv, VersionsInv
<1> QED BY <1>1, InitIInv, NextIInv, PTL DEF Spec

\* Every variable has its type, and no collector has read a generation or a
\* configuration that is yet to come (run_device.go).
THEOREM TypesHold == Spec => []TypeOK
<1> QED BY StaleTagsAlwaysNoticed, PTL

-----------------------------------------------------------------------------
(* collectOnce hands out one collector at a time.                          *)

\* A handler that neither was nor gets between LoadOrStore and go runDevice
\* leaves the set of those that are as it is.
LEMMA EnteringStays ==
  ASSUME TypeOK, NEW h \in Handler, NEW l \in HandlerPc \ {"entry"},
         pc[h] # "entry", Goto(h, l)
  PROVE  Entering' = Entering
BY Types DEF Entering, Goto

\* The initial state: the device configured at startup has its collector.
LEMMA InitOnce == Init => OnceInv
<1> SUFFICES ASSUME Init PROVE OnceInv
  OBVIOUS
<1>1. Entering = {}
  BY DEF Init, Entering
<1>2. IsFiniteSet(Entering) /\ Cardinality(Entering) = 0
  BY <1>1, FS_EmptySet
<1>3. Len(run) <= forgets + (IF once THEN 1 ELSE 0)
  <2>1. CASE cfg = 0
    BY <2>1 DEF Init
  <2>2. CASE cfg = 1
    <3>1. Len(run) = 1 /\ once /\ forgets = 0
      BY <2>2 DEF Init
    <3> QED BY <3>1
  <2> QED BY <2>1, <2>2 DEF Init
<1>4. Len(run) \in Nat
  BY InitIInv, Types DEF IInv
<1> QED BY <1>2, <1>3, <1>4 DEF OnceInv

\* A step that leaves the entering handlers, the number of collectors, and
\* collectOnce alone.
LEMMA OnceStays ==
  ASSUME OnceInv, Entering' = Entering, Len(run') = Len(run), forgets' = forgets,
         once' = once
  PROVE  OnceInv'
BY DEF OnceInv

\* Every step: LoadOrStore lets a handler in only when collectOnce was empty,
\* and only Delete empties it.
LEMMA NextOnce == IInv /\ OnceInv /\ [Next]_vars => OnceInv'
<1> SUFFICES ASSUME IInv, OnceInv, [Next]_vars PROVE OnceInv'
  OBVIOUS
<1> USE DEF IInv
<1>1. /\ Cardinality(Entering) \in Nat /\ IsFiniteSet(Entering)
      /\ Len(run) \in Nat /\ forgets \in Nat /\ once \in BOOLEAN
      /\ Len(run) + Cardinality(Entering) <= forgets + (IF once THEN 1 ELSE 0)
  BY FS_CardinalityType, Types DEF OnceInv, TypeOK
<1>2. ASSUME NEW h \in Handler, Begin(h) \/ HandlerStep(h) PROVE OnceInv'
  <2>1. CASE Begin(h) \/ Save(h) \/ Refuse(h) \/ Lookup(h) \/ HubUpsert(h) \/ Remove(h)
    <3>1. PICK l \in HandlerPc \ {"entry"} : Goto(h, l)
      <4>1. CASE Begin(h)
        <5>1. PICK l \in {"create", "put", "bulk", "delete"} :
                Goto(h, IF l = "create" THEN "put" ELSE l)
          BY <4>1 DEF Begin
        <5>2. (IF l = "create" THEN "put" ELSE l) \in HandlerPc \ {"entry"}
          BY DEF HandlerPc
        <5> QED BY <5>1, <5>2
      <4>2. CASE Save(h) \/ Refuse(h) \/ Lookup(h) \/ HubUpsert(h) \/ Remove(h)
        <5>1. \/ Goto(h, "remove") \/ Goto(h, "upsert") \/ Goto(h, "idle")
              \/ Goto(h, "hub") \/ Goto(h, "start") \/ Goto(h, "forget")
          BY <4>2 DEF Save, Refuse, Lookup, HubUpsert, Remove
        <5>2. {"remove", "upsert", "idle", "hub", "start", "forget"} \subseteq HandlerPc \ {"entry"}
          BY DEF HandlerPc
        <5> QED BY <5>1, <5>2
      <4> QED BY <2>1, <4>1, <4>2
    <3>2. pc[h] # "entry"
      BY <2>1 DEF Begin, Save, Refuse, Lookup, HubUpsert, Remove, Saving
    <3>3. run' = run /\ forgets' = forgets /\ once' = once
      BY <2>1 DEF Begin, Save, Refuse, Lookup, HubUpsert, Remove, Change, ChangeUnsaved,
                  hubVars, history
    <3> QED BY <3>1, <3>2, <3>3, EnteringStays, OnceStays
  <2>2. CASE Start(h)
    <3>1. run' = run /\ forgets' = forgets /\ once' = TRUE /\ pc[h] = "start"
          /\ Goto(h, IF once THEN "idle" ELSE "entry")
      BY <2>2 DEF Start, history
    <3>2. CASE once
      <4>1. Entering' = Entering
        BY <3>1, <3>2, EnteringStays DEF HandlerPc
      <4> QED BY <1>1, <3>1, <3>2, <4>1 DEF OnceInv
    <3>3. CASE ~once
      <4>1. Entering' = Entering \cup {h} /\ h \notin Entering
        BY <3>1, <3>3, Types DEF Entering, Goto
      <4>2. /\ IsFiniteSet(Entering')
            /\ Cardinality(Entering') = Cardinality(Entering) + 1
        BY <1>1, <4>1, FS_AddElement
      <4> QED BY <1>1, <3>1, <3>3, <4>2 DEF OnceInv
    <3> QED BY <3>2, <3>3
  <2>3. CASE StartEntry(h)
    <3>1. forgets' = forgets /\ once' = once /\ pc[h] = "entry" /\ Goto(h, "idle")
      BY <2>3 DEF StartEntry, history
    <3>2. Entering' = Entering \ {h} /\ h \in Entering
      BY <3>1, Types DEF Entering, Goto
    <3>3. /\ IsFiniteSet(Entering')
          /\ Cardinality(Entering') = Cardinality(Entering) - 1
      BY <1>1, <3>2, FS_RemoveElement
    <3>4. Len(run') = Len(run) \/ Len(run') = Len(run) + 1
      <4> DEFINE c == [drv |-> hub, pc |-> "connect", gen |-> 0, ver |-> 0]
      <4>1. run' = run \/ run' = Append(run, c)
        BY <2>3 DEF StartEntry
      <4> HIDE DEF c
      <4> QED BY <4>1, Types
    <3> QED BY <1>1, <3>1, <3>3, <3>4 DEF OnceInv
  <2>4. CASE Forget(h)
    <3>1. run' = run /\ forgets' = forgets + 1 /\ once' = FALSE /\ pc[h] = "forget"
          /\ Goto(h, "idle")
      BY <2>4 DEF Forget
    <3>2. Entering' = Entering
      BY <3>1, EnteringStays DEF HandlerPc
    <3> QED BY <1>1, <3>1, <3>2 DEF OnceInv
  <2> QED BY <1>2, <2>1, <2>2, <2>3, <2>4 DEF HandlerStep
<1>3. ASSUME NEW r \in DOMAIN run, Runner(r) \/ Watch(r) PROVE OnceInv'
  <2>1. Len(run') = Len(run)
    BY <1>3, Types, ExceptSeq
       DEF Runner, Watch, RunConnect, RunGen, RunTags, RunPoll, RunRefused, RunCancel, RunWake,
           Leave, RunTo
  <2>2. pc' = pc /\ forgets' = forgets /\ once' = once
    BY <1>3 DEF Runner, Watch, RunConnect, RunGen, RunTags, RunPoll, RunRefused, RunCancel,
                RunWake, Leave, history
  <2> QED BY <2>1, <2>2, OnceStays DEF Entering
<1>4. CASE EditStore \/ ImportWithout
  <2>1. pc' = pc /\ run' = run /\ once' = once /\ forgets' = forgets
    BY <1>4 DEF EditStore, ImportWithout, Change, ChangeUnsaved, Unannounced, hubVars
  <2> QED BY <2>1, OnceStays DEF Entering
<1>5. CASE LinkChanges \/ UNCHANGED vars
  <2>1. pc' = pc /\ run' = run /\ once' = once /\ forgets' = forgets
    BY <1>5 DEF LinkChanges, vars, hubVars, history
  <2> QED BY <2>1, OnceStays DEF Entering
<1> QED BY <1>2, <1>3, <1>4, <1>5 DEF Next

\* For any number of handlers, one collector at most has been started more
\* than the device has been forgotten: collectOnce hands out one collector
\* between two deletions (run_device.go:165-176).
THEOREM CollectorsAlwaysBounded == Spec => []CollectorsBounded
<1>1. TypeOK /\ OnceInv => CollectorsBounded
  <2> SUFFICES ASSUME TypeOK, OnceInv PROVE CollectorsBounded
    OBVIOUS
  <2>1. Cardinality(Entering) \in Nat
    BY FS_CardinalityType DEF OnceInv
  <2>2. Len(run) + Cardinality(Entering) <= forgets + 1
    BY <2>1, Types DEF OnceInv, TypeOK
  <2>3. Len(run) \in Nat /\ forgets \in Nat
    BY Types DEF TypeOK
  <2> QED BY <2>1, <2>2, <2>3 DEF CollectorsBounded
<1>2. IInv => TypeOK
  BY DEF IInv
<1> QED BY <1>1, <1>2, InitIInv, NextIInv, InitOnce, NextOnce, PTL DEF Spec
=============================================================================
