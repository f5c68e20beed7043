-------------------------- MODULE ConfigStoreProofs --------------------------
(***************************************************************************)
(* Proofs about ConfigStore, for all devices, tags, handlers and requests: *)
(* what a start finds on disk (DiskHoldsAcknowledged), which policy the    *)
(* historian works with (GateFollowsConfig), and that saved changes are    *)
(* announced (SavedChangesAnnounced).                                      *)
(*                                                                         *)
(* The first needs that reading the file, stripping the secrets and        *)
(* overriding the policy commute and may be repeated.  The second needs    *)
(* that a handler that is about to hand a policy to the historian holds    *)
(* the configured one, unless a PUT was torn; every step but PutPolicy and *)
(* Restart leaves the policy in memory alone (EditsPolicy).                *)
(***************************************************************************)
EXTENDS ConfigStore, TLAPS

DiskInv == DiskHoldsAcknowledged

PutsHoldPolicy ==
  ~torn => \A h \in Handler : job[h].does = "apply" => job[h].policy = mem.policy

GateInv == DOMAIN job = Handler /\ PutsHoldPolicy /\ GateFollowsConfig

\* The devices on disk are free of secrets, and those in memory unless a save failed.
SavedInv == /\ disk.devices = Public(disk).devices
            /\ ~unsaved => disk.devices = Public(mem).devices

\* The step that SavedChangesAnnounced speaks of.
Announces == disk'.devices # disk.devices => announced' = mem'.devices \/ unsaved

-----------------------------------------------------------------------------
(* Operators.                                                              *)

\* A start finds in a file that was saved what was saved, overridden.
LEMMA PublicLoaded == ASSUME NEW c PROVE Public(Loaded(Public(c))) = Public(Overridden(c))
BY DEF Public, Loaded, Overridden, WithDevices

\* Overriding again changes nothing.
LEMMA OverrideAgain == ASSUME NEW c PROVE Public(Overridden(Loaded(c))) = Public(Loaded(c))
BY DEF Public, Loaded, Overridden, WithDevices

\* An edit of the devices or of the flag keeps the policy.
LEMMA WithDevicesPolicy == ASSUME NEW c, NEW ds PROVE WithDevices(c, ds).policy = c.policy
BY DEF WithDevices

-----------------------------------------------------------------------------
(* What the steps do to the store.                                         *)

Edits == \/ UNCHANGED storeVars
         \/ \E c, moves : /\ Save(c, moves)
                          /\ c.policy = mem.policy
                          /\ moves = TRUE \/ c.devices = mem.devices

PolicyJob(j) == j.does \in {"put", "apply"}

\* Committing a configuration with the same policy is an edit.
LEMMA CommitEdits == ASSUME NEW c, Commit(c), c.policy = mem.policy PROVE Edits
BY DEF Edits, Commit

\* A handler of one step edits the store and nothing else.
LEMMA OneStepEdits ==
  ASSUME OneStep
  PROVE  Edits /\ UNCHANGED <<gate, torn, job>>
<1> USE WithDevicesPolicy DEF Edits, Quick, Commit
<1>1. CASE UpdateDevice BY <1>1 DEF UpdateDevice, UpsertDevice
<1>2. CASE RemoveDevice BY <1>2 DEF RemoveDevice, DeleteDevice
<1>3. CASE PutTags \/ ImportTags BY <1>3 DEF PutTags, ImportTags, MergeTags, WithTags
<1>4. CASE ClearTags BY <1>4 DEF ClearTags, WithTags
<1>5. CASE PutTag BY <1>5 DEF PutTag, UpsertTag, WithTags
<1> HIDE DEF Edits, Commit
<1>6. CASE RemoveTag
  <2>1. \A d, t : DeleteTag(mem, d, t).policy = mem.policy BY DEF DeleteTag, WithTags
  <2>2. PICK d, t : Commit(DeleteTag(mem, d, t)) BY <1>6 DEF RemoveTag
  <2>3. Edits BY <2>1, <2>2, CommitEdits
  <2>4. QED BY <1>6, <2>3 DEF RemoveTag
<1>7. CASE BulkFlags
  <2>1. \A d, ids, b : /\ SetSimulate(mem, d, ids, b).policy = mem.policy
                       /\ SetWritable(mem, d, ids, b).policy = mem.policy
    BY DEF SetSimulate, SetWritable, WithTags
  <2>2. PICK d, ids, b : \/ Commit(SetSimulate(mem, d, ids, b))
                         \/ Commit(SetWritable(mem, d, ids, b))
    BY <1>7 DEF BulkFlags
  <2>3. Edits BY <2>1, <2>2, CommitEdits
  <2>4. QED BY <1>7, <2>3 DEF BulkFlags
<1> USE DEF Edits, Commit
<1>8. CASE PutSimulation
  <2>1. \A b : /\ WithSimulation(mem, b).policy = mem.policy
               /\ WithSimulation(mem, b).devices = mem.devices
    BY DEF WithSimulation
  <2>2. QED BY <1>8, <2>1 DEF PutSimulation
<1>9. CASE ImportProject BY <1>9 DEF ImportProject, ApplyProject
<1>10. QED BY <1>1, <1>2, <1>3, <1>4, <1>5, <1>6, <1>7, <1>8, <1>9 DEF OneStep

\* A handler that reads first edits the store, and neither it nor any other is
\* about a policy before or after.
LEMMA StagedEdits ==
  ASSUME NEW h \in Handler, DOMAIN job = Handler,
         \/ CreateBegin(h) \/ CreateEnd(h) \/ SyncBegin(h) \/ SyncEnd(h)
         \/ PatchBegin(h) \/ PatchEnd(h) \/ BulkBegin(h) \/ BulkStep(h) \/ BulkEnd(h)
  PROVE  /\ Edits /\ UNCHANGED <<gate, torn>>
         /\ DOMAIN job' = Handler
         /\ \A g \in Handler : g # h => job'[g] = job[g]
         /\ ~PolicyJob(job[h]) /\ ~PolicyJob(job'[h])
<1> USE WithDevicesPolicy DEF PolicyJob, Idle
<1>1. ASSUME NEW w, Begin(h, w), ~PolicyJob(w)
      PROVE  /\ Edits /\ UNCHANGED <<gate, torn>> /\ DOMAIN job' = Handler
             /\ \A g \in Handler : g # h => job'[g] = job[g]
             /\ ~PolicyJob(job[h]) /\ ~PolicyJob(job'[h])
  BY <1>1 DEF Begin, Edits
<1>2. End(h) => /\ UNCHANGED <<gate, torn>> /\ DOMAIN job' = Handler
                /\ \A g \in Handler : g # h => job'[g] = job[g]
                /\ ~PolicyJob(job'[h])
  BY DEF End
<1>3. CASE CreateBegin(h) BY <1>1, <1>3 DEF CreateBegin
<1>4. CASE CreateEnd(h)
  <2>1. \A d, ts, p : UpsertDevice(mem, d, ts, p).policy = mem.policy BY DEF UpsertDevice
  <2>2. PICK ts : Commit(UpsertDevice(mem, job[h].device, ts, FALSE)) BY <1>4 DEF CreateEnd
  <2>3. Edits BY <2>1, <2>2, CommitEdits
  <2>4. job[h].does = "create" /\ End(h) BY <1>4 DEF CreateEnd
  <2>5. QED BY <1>2, <2>3, <2>4
<1>5. CASE SyncBegin(h) BY <1>1, <1>5 DEF SyncBegin
<1>6. CASE SyncEnd(h)
  <2>1. \A d, ts : WithTags(mem, d, ts).policy = mem.policy BY DEF WithTags
  <2>2. Edits
    <3>1. CASE UNCHANGED storeVars BY <3>1 DEF Edits
    <3>2. CASE ~UNCHANGED storeVars
      <4>1. PICK type : Commit(WithTags(mem, job[h].device, Synced(job[h], type)))
        BY <1>6, <3>2 DEF SyncEnd
      <4>2. QED BY <2>1, <4>1, CommitEdits
    <3>3. QED BY <3>1, <3>2
  <2>3. job[h].does = "sync" /\ End(h) BY <1>6 DEF SyncEnd
  <2>4. QED BY <1>2, <2>2, <2>3
<1>7. CASE PatchBegin(h) BY <1>1, <1>7 DEF PatchBegin
<1>8. CASE PatchEnd(h)
  <2>1. \A d, t, rec : UpsertTag(mem, d, t, rec).policy = mem.policy BY DEF UpsertTag, WithTags
  <2>2. Edits
    <3>1. CASE UNCHANGED storeVars BY <3>1 DEF Edits
    <3>2. CASE ~UNCHANGED storeVars
      <4>1. PICK t, rec : Commit(UpsertTag(mem, job[h].device, t, rec))
        BY <1>8, <3>2 DEF PatchEnd
      <4>2. QED BY <2>1, <4>1, CommitEdits
    <3>3. QED BY <3>1, <3>2
  <2>3. job[h].does = "patch" /\ End(h) BY <1>8 DEF PatchEnd
  <2>4. QED BY <1>2, <2>2, <2>3
<1>9. CASE BulkBegin(h) BY <1>1, <1>9 DEF BulkBegin
<1>10. CASE BulkStep(h)
  <2>1. \A d, ids, b : SetSimulate(mem, d, ids, b).policy = mem.policy
    BY DEF SetSimulate, WithTags
  <2>2. job[h].does = "bulk" BY <1>10 DEF BulkStep
  <2>3. PICK d \in DOMAIN job[h].left :
          \/ /\ Commit(SetSimulate(mem, d, job[h].left[d], job[h].value))
             /\ job' = [job EXCEPT ![h] =
                          IF unsaved' THEN Idle
                          ELSE [does |-> "bulk", value |-> job[h].value,
                                left |-> Restrict(job[h].left, DOMAIN job[h].left \ {d})]]
             /\ UNCHANGED <<gate, torn, requests>>
          \/ Fail(h)
    BY <1>10 DEF BulkStep
  <2>4. CASE Fail(h) BY <1>2, <2>2, <2>4 DEF Fail, Edits
  <2>5. CASE ~Fail(h)
    <3>1. Edits BY <2>1, <2>3, <2>5, CommitEdits
    <3>2. job'[h].does \in {"nothing", "bulk"} BY <2>3, <2>5
    <3>3. DOMAIN job' = Handler /\ \A g \in Handler : g # h => job'[g] = job[g]
      BY <2>3, <2>5
    <3>4. UNCHANGED <<gate, torn>> BY <2>3, <2>5
    <3>5. QED BY <2>2, <3>1, <3>2, <3>3, <3>4
  <2>6. QED BY <2>4, <2>5
<1>11. CASE BulkEnd(h) BY <1>2, <1>11 DEF BulkEnd, Fail, Edits
<1>12. QED BY <1>3, <1>4, <1>5, <1>6, <1>7, <1>8, <1>9, <1>10, <1>11

-----------------------------------------------------------------------------
(* The disk.                                                               *)

\* A save keeps the file free of secrets, and equal to memory if it succeeds.
LEMMA SaveDisk == ASSUME DiskInv, NEW c, NEW moves, Save(c, moves) PROVE DiskInv'
BY PublicLoaded DEF DiskInv, DiskHoldsAcknowledged, Save

\* No step leaves the file behind memory without a failed save.
LEMMA DiskStep == ASSUME DiskInv, GateInv, [Next]_vars PROVE DiskInv'
<1>1. ASSUME UNCHANGED storeVars PROVE DiskInv'
  BY <1>1 DEF DiskInv, DiskHoldsAcknowledged, storeVars
<1>2. Edits => DiskInv' BY <1>1, SaveDisk DEF Edits
<1>3. CASE OneStep BY <1>2, <1>3, OneStepEdits
<1>4. ASSUME NEW h \in Handler, Staged(h) PROVE DiskInv'
  <2>1. CASE PutPolicy(h) BY <2>1, SaveDisk DEF PutPolicy, Commit
  <2>2. CASE PolicySnapshot(h) \/ PolicyApply(h) BY <1>1, <2>2 DEF PolicySnapshot, PolicyApply
  <2>3. QED BY <1>2, <1>4, <2>1, <2>2, StagedEdits DEF Staged, GateInv
<1>5. CASE Restart
  BY <1>5, OverrideAgain DEF Restart, DiskInv, DiskHoldsAcknowledged
<1>6. CASE UNCHANGED vars BY <1>1, <1>6 DEF vars
<1>7. QED BY <1>3, <1>4, <1>5, <1>6 DEF Next

-----------------------------------------------------------------------------
(* The announcement.                                                       *)

\* What is public of the devices depends on nothing else of the configuration.
LEMMA PublicDevices ==
  ASSUME NEW c, NEW e, c.devices = e.devices
  PROVE  Public(c).devices = Public(e).devices
BY DEF Public, WithDevices

\* The public part and what a start makes of it have the same public devices.
LEMMA PublicAgain ==
  ASSUME NEW c
  PROVE  /\ Public(Public(c)).devices = Public(c).devices
         /\ Public(Loaded(c)).devices = Public(c).devices
BY DEF Public, Loaded, Overridden, WithDevices

\* A save announces the devices it changes on disk, unless it brings there what a
\* failed one had left in memory, and leaves the two alike.
LEMMA SaveAnnounces ==
  ASSUME SavedInv, NEW c, NEW moves, Save(c, moves), moves = TRUE \/ c.devices = mem.devices
  PROVE  SavedInv' /\ Announces
<1>1. CASE disk' = Public(c) /\ ~unsaved'
  <2>1. SavedInv' BY <1>1, PublicAgain DEF SavedInv, Save
  <2>2. CASE moves = TRUE BY <1>1, <2>1, <2>2 DEF Save, Announces
  <2>3. CASE moves # TRUE /\ ~unsaved
    <3>1. Public(c).devices = Public(mem).devices BY <2>3, PublicDevices
    <3>2. disk'.devices = disk.devices BY <1>1, <2>3, <3>1 DEF SavedInv
    <3>3. QED BY <2>1, <3>2 DEF Announces
  <2>4. QED BY <2>1, <2>2, <2>3 DEF Announces
<1>2. CASE ~(disk' = Public(c) /\ ~unsaved')
  <2>1. unsaved' = TRUE /\ UNCHANGED disk BY <1>2 DEF Save
  <2>2. QED BY <2>1 DEF SavedInv, Announces
<1>3. QED BY <1>1, <1>2

\* No step brings devices to the disk unannounced, unless a failed save came before.
LEMMA AnnounceStep == ASSUME SavedInv, GateInv, [Next]_vars PROVE SavedInv' /\ Announces
<1>1. ASSUME UNCHANGED storeVars PROVE SavedInv' /\ Announces
  BY <1>1 DEF SavedInv, Announces, storeVars
<1>2. Edits => SavedInv' /\ Announces BY <1>1, SaveAnnounces DEF Edits
<1>3. CASE OneStep BY <1>2, <1>3, OneStepEdits
<1>4. ASSUME NEW h \in Handler, Staged(h) PROVE SavedInv' /\ Announces
  <2>1. CASE PutPolicy(h) BY <2>1, SaveAnnounces DEF PutPolicy, Commit
  <2>2. CASE PolicySnapshot(h) \/ PolicyApply(h) BY <1>1, <2>2 DEF PolicySnapshot, PolicyApply
  <2>3. QED BY <1>2, <1>4, <2>1, <2>2, StagedEdits DEF Staged, GateInv
<1>5. CASE Restart
  <2>1. mem' = Loaded(disk) /\ disk' = disk BY <1>5 DEF Restart
  <2>2. Public(mem').devices = Public(disk).devices BY <2>1, PublicAgain
  <2>3. QED BY <2>1, <2>2 DEF SavedInv, Announces
<1>6. CASE UNCHANGED vars BY <1>1, <1>6 DEF vars
<1>7. QED BY <1>3, <1>4, <1>5, <1>6 DEF Next

-----------------------------------------------------------------------------
(* The policy.                                                             *)

\* An edit leaves the policy in memory alone.
LEMMA EditsPolicy == ASSUME Edits PROVE mem'.policy = mem.policy
BY DEF Edits, Save, storeVars

\* Steps that change neither the policy, the gate nor a job about a policy.
LEMMA GateKept ==
  ASSUME GateInv, mem'.policy = mem.policy, UNCHANGED <<gate, torn>>, DOMAIN job' = Handler,
         \A g \in Handler : job'[g] = job[g] \/ (~PolicyJob(job[g]) /\ ~PolicyJob(job'[g]))
  PROVE  GateInv'
<1>1. PutsHoldPolicy' BY DEF GateInv, PutsHoldPolicy, PolicyJob
<1>2. GateFollowsConfig' BY DEF GateInv, GateFollowsConfig, PolicyJob
<1>3. QED BY <1>1, <1>2 DEF GateInv

\* A PUT is saved, or torn.
LEMMA PutPolicyGate == ASSUME GateInv, NEW h \in Handler, PutPolicy(h) PROVE GateInv'
<1>1. PICK p \in Policy : Commit(WithPolicy(mem, p)) BY DEF PutPolicy
<1>2. /\ job[h] = Idle
      /\ job' = [job EXCEPT ![h] = IF unsaved' THEN Idle ELSE [does |-> "put"]]
      /\ torn' = (torn \/ unsaved' \/ \E g \in Handler : job[g].does = "apply")
      /\ UNCHANGED gate
  BY DEF PutPolicy
<1>3. DOMAIN job' = Handler /\ \A g \in Handler : g # h => job'[g] = job[g]
  BY <1>2 DEF GateInv
<1>4. CASE torn' BY <1>3, <1>4 DEF GateInv, PutsHoldPolicy, GateFollowsConfig
<1>5. CASE ~torn'
  <2>1. ~unsaved' /\ \A g \in Handler : job[g].does # "apply" BY <1>2, <1>5
  <2>2. job'[h].does = "put" BY <1>2, <2>1 DEF GateInv
  <2>3. PutsHoldPolicy' BY <1>3, <2>1, <2>2 DEF PutsHoldPolicy
  <2>4. GateFollowsConfig' BY <2>2 DEF GateFollowsConfig
  <2>5. QED BY <1>3, <2>3, <2>4 DEF GateInv
<1>6. QED BY <1>4, <1>5

\* The snapshot a handler takes holds the configured policy.
LEMMA PolicySnapshotGate == ASSUME GateInv, NEW h \in Handler, PolicySnapshot(h) PROVE GateInv'
<1>1. /\ job' = [job EXCEPT ![h] = [does |-> "apply", policy |-> mem.policy]]
      /\ UNCHANGED <<mem, gate, torn>>
  BY DEF PolicySnapshot, storeVars
<1>2. /\ DOMAIN job' = Handler /\ \A g \in Handler : g # h => job'[g] = job[g]
      /\ job'[h].does = "apply" /\ job'[h].policy = mem.policy
  BY <1>1 DEF GateInv
<1>3. PutsHoldPolicy' BY <1>1, <1>2 DEF GateInv, PutsHoldPolicy
<1>4. GateFollowsConfig' BY <1>2 DEF GateFollowsConfig
<1>5. QED BY <1>2, <1>3, <1>4 DEF GateInv

\* What a handler hands to the historian is the configured policy, unless a PUT was
\* torn.
LEMMA PolicyApplyGate == ASSUME GateInv, NEW h \in Handler, PolicyApply(h) PROVE GateInv'
<1>1. /\ job[h].does = "apply" /\ gate' = job[h].policy
      /\ job' = [job EXCEPT ![h] = Idle]
      /\ UNCHANGED <<mem, torn>>
  BY DEF PolicyApply, storeVars
<1>2. /\ DOMAIN job' = Handler /\ \A g \in Handler : g # h => job'[g] = job[g]
      /\ job'[h].does = "nothing"
  BY <1>1 DEF GateInv, Idle
<1>3. ~torn => gate' = mem.policy BY <1>1 DEF GateInv, PutsHoldPolicy
<1>4. PutsHoldPolicy' BY <1>1, <1>2 DEF GateInv, PutsHoldPolicy
<1>5. GateFollowsConfig' BY <1>1, <1>3 DEF GateFollowsConfig
<1>6. QED BY <1>2, <1>4, <1>5 DEF GateInv

\* No step sets the gate apart from the configuration, unless a PUT is torn.
LEMMA GateStep == ASSUME GateInv, [Next]_vars PROVE GateInv'
<1>1. CASE OneStep BY <1>1, OneStepEdits, EditsPolicy, GateKept DEF GateInv
<1>2. ASSUME NEW h \in Handler, Staged(h) PROVE GateInv'
  <2>1. CASE PutPolicy(h) BY <2>1, PutPolicyGate
  <2>2. CASE PolicySnapshot(h) BY <2>2, PolicySnapshotGate
  <2>3. CASE PolicyApply(h) BY <2>3, PolicyApplyGate
  <2>4. CASE ~(PutPolicy(h) \/ PolicySnapshot(h) \/ PolicyApply(h))
    <3>1. /\ Edits /\ UNCHANGED <<gate, torn>> /\ DOMAIN job' = Handler
          /\ \A g \in Handler : g # h => job'[g] = job[g]
          /\ ~PolicyJob(job[h]) /\ ~PolicyJob(job'[h])
      BY <1>2, <2>4, StagedEdits DEF Staged, GateInv
    <3>2. QED BY <3>1, EditsPolicy, GateKept
  <2>5. QED BY <2>1, <2>2, <2>3, <2>4
<1>3. CASE Restart
  <2>1. job' = [h \in Handler |-> Idle] /\ gate' = mem'.policy BY <1>3 DEF Restart
  <2>2. \A h \in Handler : job'[h].does = "nothing" BY <2>1 DEF Idle
  <2>3. QED BY <2>1, <2>2 DEF GateInv, PutsHoldPolicy, GateFollowsConfig
<1>4. CASE UNCHANGED vars
  BY <1>4 DEF vars, storeVars, GateInv, PutsHoldPolicy, GateFollowsConfig
<1>5. QED BY <1>1, <1>2, <1>3, <1>4 DEF Next

\* The first file has no passwords, and the historian gets its policy.
LEMMA InitBoth == ASSUME Init PROVE DiskInv /\ GateInv
<1>1. DiskInv BY OverrideAgain DEF Init, DiskInv, DiskHoldsAcknowledged
<1>2. GateInv BY DEF Init, GateInv, PutsHoldPolicy, GateFollowsConfig, Idle
<1>3. QED BY <1>1, <1>2

\* The first file is what a start makes public.
LEMMA InitSaved == ASSUME Init PROVE SavedInv
<1>1. mem = Loaded(disk) BY DEF Init
<1>2. disk.devices = Public(disk).devices BY DEF Init, Public, WithDevices
<1>3. Public(mem).devices = Public(disk).devices BY <1>1, PublicAgain
<1>4. QED BY <1>2, <1>3 DEF SavedInv

\* Both invariants hold in every state.
LEMMA Invariance == Spec => [](DiskInv /\ GateInv)
<1>1. DiskInv /\ GateInv /\ [Next]_vars => (DiskInv /\ GateInv)' BY DiskStep, GateStep
<1>2. QED BY InitBoth, <1>1, PTL DEF Spec

-----------------------------------------------------------------------------
(* Types.                                                                  *)

\* The functions from parts of S to T.
LEMMA PartialIs ==
  ASSUME NEW S, NEW T, NEW f
  PROVE  f \in Partial(S, T) <=>
           /\ DOMAIN f \subseteq S /\ f = [x \in DOMAIN f |-> f[x]]
           /\ \A x \in DOMAIN f : f[x] \in T
<1>1. ASSUME f \in Partial(S, T)
      PROVE  /\ DOMAIN f \subseteq S /\ f = [x \in DOMAIN f |-> f[x]]
             /\ \A x \in DOMAIN f : f[x] \in T
  <2>1. PICK D \in SUBSET S : f \in [D -> T] BY <1>1 DEF Partial
  <2>2. QED BY <2>1
<1>2. ASSUME DOMAIN f \subseteq S, f = [x \in DOMAIN f |-> f[x]], \A x \in DOMAIN f : f[x] \in T
      PROVE  f \in Partial(S, T)
  <2>1. f \in [DOMAIN f -> T] BY <1>2
  <2>2. QED BY <1>2, <2>1 DEF Partial
<1>3. QED BY <1>1, <1>2

\* They stay such when entries are put in or taken out.
LEMMA PartialOps ==
  ASSUME NEW S, NEW T
  PROVE  /\ Empty \in Partial(S, T)
         /\ \A f, g \in Partial(S, T) : Over(f, g) \in Partial(S, T)
         /\ \A f \in Partial(S, T), x \in S, y \in T : Put(f, x, y) \in Partial(S, T)
         /\ \A f \in Partial(S, T) : \A D : Restrict(f, DOMAIN f \ D) \in Partial(S, T)
<1>1. Empty \in Partial(S, T)
  <2>1. DOMAIN Empty = {} /\ Empty = [x \in DOMAIN Empty |-> Empty[x]] BY DEF Empty
  <2>2. QED BY <2>1, PartialIs
<1>2. ASSUME NEW f \in Partial(S, T), NEW g \in Partial(S, T) PROVE Over(f, g) \in Partial(S, T)
  <2>1. /\ DOMAIN f \subseteq S /\ DOMAIN g \subseteq S
        /\ \A x \in DOMAIN f : f[x] \in T
        /\ \A x \in DOMAIN g : g[x] \in T
    BY PartialIs
  <2> DEFINE h == Over(f, g)
  <2>2. DOMAIN h = DOMAIN f \cup DOMAIN g /\ h = [x \in DOMAIN h |-> h[x]] BY DEF Over
  <2>3. \A x \in DOMAIN h : h[x] \in T BY <2>1 DEF Over
  <2>4. QED BY <2>1, <2>2, <2>3, PartialIs
<1>3. ASSUME NEW f \in Partial(S, T), NEW x \in S, NEW y \in T PROVE Put(f, x, y) \in Partial(S, T)
  <2> DEFINE g == [z \in {x} |-> y]
  <2>1. DOMAIN g \subseteq S /\ g = [z \in DOMAIN g |-> g[z]] /\ \A z \in DOMAIN g : g[z] \in T
    OBVIOUS
  <2>2. g \in Partial(S, T) BY <2>1, PartialIs
  <2>3. QED BY <1>2, <2>2 DEF Put
<1>4. ASSUME NEW f \in Partial(S, T), NEW D PROVE Restrict(f, DOMAIN f \ D) \in Partial(S, T)
  <2>1. DOMAIN f \subseteq S /\ \A x \in DOMAIN f : f[x] \in T BY PartialIs
  <2> DEFINE h == Restrict(f, DOMAIN f \ D)
  <2>2. DOMAIN h = DOMAIN f \ D /\ h = [x \in DOMAIN h |-> h[x]] BY DEF Restrict
  <2>3. \A x \in DOMAIN h : h[x] \in T BY <2>1 DEF Restrict
  <2>4. QED BY <2>1, <2>2, <2>3, PartialIs
<1>5. QED BY <1>1, <1>2, <1>3, <1>4

DeviceRec == [tags : Tags, password : BOOLEAN]

\* A configuration, its devices and their tags.
LEMMA ConfigParts ==
  ASSUME NEW c \in Config
  PROVE  /\ c.devices \in Devices /\ c.simulation \in BOOLEAN /\ c.policy \in Policy
         /\ DOMAIN c.devices \subseteq Device
         /\ c.devices = [d \in DOMAIN c.devices |-> c.devices[d]]
         /\ \A d \in DOMAIN c.devices :
              /\ c.devices[d] \in DeviceRec /\ c.devices[d].tags \in Tags
              /\ DOMAIN c.devices[d].tags \subseteq Tag
              /\ \A t \in DOMAIN c.devices[d].tags : c.devices[d].tags[t] \in TagRec
<1>1. c.devices \in Devices /\ c.simulation \in BOOLEAN /\ c.policy \in Policy BY DEF Config
<1>2. /\ DOMAIN c.devices \subseteq Device
      /\ c.devices = [d \in DOMAIN c.devices |-> c.devices[d]]
      /\ \A d \in DOMAIN c.devices : c.devices[d] \in DeviceRec
  <2>1. c.devices \in Partial(Device, DeviceRec) BY <1>1 DEF Devices, DeviceRec
  <2>2. QED BY <2>1, PartialIs
<1>3. ASSUME NEW d \in DOMAIN c.devices
      PROVE  /\ c.devices[d].tags \in Tags
             /\ DOMAIN c.devices[d].tags \subseteq Tag
             /\ \A t \in DOMAIN c.devices[d].tags : c.devices[d].tags[t] \in TagRec
  <2>1. c.devices[d].tags \in Tags BY <1>2 DEF DeviceRec
  <2>2. QED BY <2>1, PartialIs DEF Tags
<1>4. QED BY <1>1, <1>2, <1>3

\* Other devices, in the same configuration.
LEMMA WithDevicesType ==
  ASSUME NEW c \in Config, NEW ds \in Devices
  PROVE  WithDevices(c, ds) \in Config
BY ConfigParts DEF WithDevices, Config

\* What a save strips, and what a start adds.
LEMMA StoredTypes ==
  ASSUME NEW c \in Config
  PROVE  /\ Public(c) \in Config /\ Overridden(c) \in Config /\ Loaded(c) \in Config
         /\ \A d \in DOMAIN Public(c).devices : ~ Public(c).devices[d].password
<1> DEFINE given(p) == [d \in DOMAIN c.devices |-> [tags |-> c.devices[d].tags, password |-> p[d]]]
<1>1. ASSUME NEW p, \A d \in DOMAIN c.devices : p[d] \in BOOLEAN PROVE given(p) \in Devices
  <2>1. /\ DOMAIN given(p) \subseteq Device
        /\ given(p) = [d \in DOMAIN given(p) |-> given(p)[d]]
    BY ConfigParts
  <2>2. \A d \in DOMAIN given(p) : given(p)[d] \in DeviceRec BY <1>1, ConfigParts DEF DeviceRec
  <2> HIDE DEF given
  <2>3. QED BY <2>1, <2>2, PartialIs DEF Devices, DeviceRec
<1>2. Public(c) \in Config
  <2>1. given([d \in DOMAIN c.devices |-> FALSE]) \in Devices BY <1>1
  <2>2. WithDevices(c, given([d \in DOMAIN c.devices |-> FALSE])) = Public(c)
    BY DEF Public, WithDevices
  <2>3. QED BY <2>1, <2>2, WithDevicesType
<1>3. \A d \in DOMAIN Public(c).devices : ~ Public(c).devices[d].password
  BY DEF Public, WithDevices
<1>4. ASSUME NEW e \in Config PROVE Overridden(e) \in Config
  BY ConfigAssumption, ConfigParts DEF Overridden, Config
<1>5. Loaded(c) \in Config
  <2> DEFINE p == [d \in DOMAIN c.devices |-> EnvPassword \/ c.devices[d].password]
  <2>1. \A d \in DOMAIN c.devices : p[d] \in BOOLEAN
    BY ConfigAssumption, ConfigParts DEF DeviceRec
  <2>2. given(p) \in Devices BY <1>1, <2>1
  <2>3. WithDevices(c, given(p)) \in Config BY <2>2, WithDevicesType
  <2>4. Overridden(WithDevices(c, given(p))) \in Config BY <1>4, <2>3
  <2>5. given(p) = [d \in DOMAIN c.devices |->
                      [tags |-> c.devices[d].tags, password |-> EnvPassword \/ c.devices[d].password]]
    OBVIOUS
  <2>6. QED BY <2>4, <2>5 DEF Loaded
<1>6. QED BY <1>2, <1>3, <1>4, <1>5

\* What a change of the tags of one device makes of a configuration.
LEMMA WithTagsIs ==
  ASSUME NEW c \in Config, NEW d \in DOMAIN c.devices, NEW tags
  PROVE  /\ DOMAIN WithTags(c, d, tags).devices = DOMAIN c.devices
         /\ WithTags(c, d, tags).devices[d].tags = tags
         /\ \A e \in DOMAIN c.devices \ {d} : WithTags(c, d, tags).devices[e] = c.devices[e]
         /\ tags \in Tags => WithTags(c, d, tags) \in Config
<1> DEFINE ds == [c.devices EXCEPT ![d].tags = tags]
<1>1. c.devices[d] \in DeviceRec BY ConfigParts
<1>2. /\ DOMAIN ds = DOMAIN c.devices /\ ds[d] = [c.devices[d] EXCEPT !.tags = tags]
      /\ \A e \in DOMAIN c.devices \ {d} : ds[e] = c.devices[e]
      /\ ds = [e \in DOMAIN ds |-> ds[e]]
  OBVIOUS
<1>3. ds[d].tags = tags /\ (tags \in Tags => ds[d] \in DeviceRec) BY <1>1, <1>2 DEF DeviceRec
<1>4. WithTags(c, d, tags) = WithDevices(c, ds) /\ WithDevices(c, ds).devices = ds
  BY DEF WithTags, WithDevices
<1> HIDE DEF ds
<1>5. ASSUME tags \in Tags PROVE ds \in Devices
  <2>1. DOMAIN ds \subseteq Device /\ \A e \in DOMAIN ds : ds[e] \in DeviceRec
    BY <1>2, <1>3, <1>5, ConfigParts
  <2>2. QED BY <1>2, <2>1, PartialIs DEF Devices, DeviceRec
<1>6. QED BY <1>2, <1>3, <1>4, <1>5, WithDevicesType

\* Tags that requests bring.
LEMMA BodyTypes ==
  /\ \A tags \in {Empty} \cup [Tag -> TagBodies] : tags \in Tags
  /\ \A t \in Tag, rec \in TagBodies : rec \in TagRec /\ Put(Empty, t, rec) \in Tags
<1>1. Empty \in Tags /\ \A t \in Tag, rec \in TagRec : Put(Empty, t, rec) \in Tags
  BY PartialOps DEF Tags
<1>2. ASSUME NEW tags \in [Tag -> TagBodies] PROVE tags \in Tags
  <2>1. /\ DOMAIN tags \subseteq Tag /\ tags = [t \in DOMAIN tags |-> tags[t]]
        /\ \A t \in DOMAIN tags : tags[t] \in TagRec
    BY ConfigAssumption
  <2>2. QED BY <2>1, PartialIs DEF Tags
<1>3. QED BY <1>1, <1>2, ConfigAssumption

\* The tags that the methods of Store put in place of those of a device.
LEMMA TagTypes ==
  ASSUME NEW c \in Config, NEW d \in DOMAIN c.devices
  PROVE  /\ Empty \in Tags
         /\ \A tags \in Tags : Over(tags, c.devices[d].tags) \in Tags
         /\ \A t \in Tag, rec \in TagRec : Put(c.devices[d].tags, t, rec) \in Tags
         /\ \A D : Restrict(c.devices[d].tags, DOMAIN c.devices[d].tags \ D) \in Tags
BY ConfigParts, PartialOps DEF Tags

\* A flag of some tags of a device is set.
LEMMA FlagType ==
  ASSUME NEW c \in Config, NEW d \in DOMAIN c.devices, NEW ids, NEW b \in BOOLEAN
  PROVE  SetSimulate(c, d, ids, b) \in Config /\ SetWritable(c, d, ids, b) \in Config
<1> DEFINE old == c.devices[d].tags
           ts  == Filtered(c, d, ids)
           sim == [t \in DOMAIN old |-> [old[t] EXCEPT !.simulate = IF t \in ts THEN b ELSE @]]
           wri == [t \in DOMAIN old |-> [old[t] EXCEPT !.writable = IF t \in ts THEN b ELSE @]]
<1>1. DOMAIN old \subseteq Tag /\ \A t \in DOMAIN old : old[t] \in TagRec BY ConfigParts
<1>2. SetSimulate(c, d, ids, b) = WithTags(c, d, sim) /\ SetWritable(c, d, ids, b) = WithTags(c, d, wri)
  BY DEF SetSimulate, SetWritable
<1> HIDE DEF old, ts
<1>3. sim \in Tags
  <2>1. \A t \in DOMAIN sim : sim[t] \in TagRec BY <1>1 DEF TagRec
  <2>2. DOMAIN sim \subseteq Tag /\ sim = [t \in DOMAIN sim |-> sim[t]] BY <1>1
  <2>3. QED BY <2>1, <2>2, PartialIs DEF Tags
<1>4. wri \in Tags
  <2>1. \A t \in DOMAIN wri : wri[t] \in TagRec BY <1>1 DEF TagRec
  <2>2. DOMAIN wri \subseteq Tag /\ wri = [t \in DOMAIN wri |-> wri[t]] BY <1>1
  <2>3. QED BY <2>1, <2>2, PartialIs DEF Tags
<1>5. QED BY <1>2, <1>3, <1>4, WithTagsIs

\* A device is added, changed or taken away.
LEMMA DeviceTypes ==
  ASSUME NEW c \in Config, NEW d \in Device
  PROVE  /\ \A tags \in Tags, p \in BOOLEAN : UpsertDevice(c, d, tags, p) \in Config
         /\ DeleteDevice(c, d) \in Config
<1>1. \A rec \in DeviceRec : Put(c.devices, d, rec) \in Devices
  <2>1. c.devices \in Partial(Device, DeviceRec) BY ConfigParts DEF Devices, DeviceRec
  <2>2. \A rec \in DeviceRec : Put(c.devices, d, rec) \in Partial(Device, DeviceRec)
    BY <2>1, PartialOps
  <2>3. QED BY <2>2 DEF Devices, DeviceRec
<1>2. ASSUME NEW tags \in Tags, NEW p \in BOOLEAN PROVE UpsertDevice(c, d, tags, p) \in Config
  <2> DEFINE prev == IF Known(c, d) THEN c.devices[d] ELSE [tags |-> Empty, password |-> FALSE]
             rec == [tags |-> IF tags = Empty THEN prev.tags ELSE tags,
                     password |-> p \/ prev.password]
  <2>1. Empty \in Tags BY PartialOps DEF Tags
  <2>2. prev.tags \in Tags /\ prev.password \in BOOLEAN BY <2>1, ConfigParts DEF Known, DeviceRec
  <2> HIDE DEF prev
  <2>3. rec \in DeviceRec BY <2>2 DEF DeviceRec
  <2> HIDE DEF rec
  <2>4. Put(c.devices, d, rec) \in Devices BY <1>1, <2>3
  <2>5. UpsertDevice(c, d, tags, p) = WithDevices(c, Put(c.devices, d, rec))
    BY DEF UpsertDevice, rec, prev
  <2>6. QED BY <2>4, <2>5, WithDevicesType
<1>3. DeleteDevice(c, d) \in Config
  <2>1. c.devices \in Partial(Device, DeviceRec) BY ConfigParts DEF Devices, DeviceRec
  <2>2. Restrict(c.devices, DOMAIN c.devices \ {d}) \in Partial(Device, DeviceRec)
    BY <2>1, PartialOps
  <2>3. Restrict(c.devices, DOMAIN c.devices \ {d}) \in Devices BY <2>2 DEF Devices, DeviceRec
  <2>4. QED BY <2>3, WithDevicesType DEF DeleteDevice
<1>4. QED BY <1>2, <1>3

\* A project is applied.
LEMMA ProjectType ==
  ASSUME NEW c \in Config, NEW named \in SUBSET Device, NEW tags \in Tags, NEW replace \in BOOLEAN
  PROVE  ApplyProject(c, [d \in named |-> tags], replace) \in Config
<1> DEFINE project == [d \in named |-> tags]
           new == [d \in DOMAIN project |->
                     [tags |-> IF ~replace /\ project[d] = Empty /\ Known(c, d)
                               THEN c.devices[d].tags ELSE project[d],
                      password |-> Known(c, d) /\ c.devices[d].password]]
           old == IF replace THEN Empty ELSE c.devices
<1>1. new \in Partial(Device, DeviceRec)
  <2>1. DOMAIN new \subseteq Device /\ new = [d \in DOMAIN new |-> new[d]] OBVIOUS
  <2>2. \A d \in DOMAIN new : new[d] \in DeviceRec BY ConfigParts DEF Known, DeviceRec
  <2> HIDE DEF new
  <2>3. QED BY <2>1, <2>2, PartialIs
<1>2. old \in Partial(Device, DeviceRec)
  <2>1. c.devices \in Partial(Device, DeviceRec) BY ConfigParts DEF Devices, DeviceRec
  <2>2. Empty \in Partial(Device, DeviceRec) BY PartialOps
  <2>3. QED BY <2>1, <2>2
<1>3. ApplyProject(c, project, replace) = WithDevices(c, Over(new, old)) BY DEF ApplyProject
<1> HIDE DEF new, old, project
<1>4. Over(new, old) \in Partial(Device, DeviceRec) BY <1>1, <1>2, PartialOps
<1>5. Over(new, old) \in Devices BY <1>4 DEF Devices, DeviceRec
<1>6. ApplyProject(c, project, replace) \in Config BY <1>3, <1>5, WithDevicesType
<1>7. QED BY <1>6 DEF project

\* What a handler has read.
Flags == {"writable", "simulate"}
IsJob(j) ==
  \/ j.does \in {"nothing", "put"}
  \/ j.does = "create" /\ j.device \in Device
  \/ /\ j.does \in {"sync", "patch"} /\ j.device \in Device
     /\ j.read \in Tags /\ j.ids \subseteq DOMAIN j.read
     /\ j.does = "patch" => j.flag \in Flags /\ j.value \in BOOLEAN
  \/ j.does = "bulk" /\ j.value \in BOOLEAN /\ j.left \in Partial(Device, SUBSET Tag)
  \/ j.does = "apply" /\ j.policy \in Policy

StoreTypes == /\ mem \in Config /\ disk \in Config /\ announced \in Devices
              /\ \A d \in DOMAIN disk.devices : ~ disk.devices[d].password
              /\ gen \in Nat \ {0} /\ unsaved \in BOOLEAN
JobTypes == DOMAIN job = Handler /\ \A h \in Handler : IsJob(job[h])
TypesInv == StoreTypes /\ JobTypes /\ gate \in Policy /\ torn \in BOOLEAN

\* A save of a configuration.
LEMMA SaveTypes ==
  ASSUME StoreTypes, NEW c \in Config, NEW moves \in BOOLEAN, Save(c, moves)
  PROVE  StoreTypes'
<1>1. mem' = c BY DEF Save
<1>2. CASE disk' = Public(c) /\ unsaved' = FALSE
  <2>1. disk' \in Config /\ \A d \in DOMAIN disk'.devices : ~ disk'.devices[d].password
    BY <1>2, StoredTypes
  <2>2. (gen' = gen + 1 /\ announced' = c.devices) \/ UNCHANGED <<gen, announced>>
    <3>1. CASE moves = TRUE BY <1>2, <3>1 DEF Save
    <3>2. CASE moves = FALSE BY <1>2, <3>2 DEF Save
    <3>3. QED BY <3>1, <3>2
  <2>3. c.devices \in Devices /\ announced \in Devices /\ gen \in Nat \ {0}
    BY ConfigParts DEF StoreTypes
  <2>4. gen' \in Nat \ {0} /\ announced' \in Devices BY <2>2, <2>3
  <2>5. QED BY <1>1, <1>2, <2>1, <2>4 DEF StoreTypes
<1>3. CASE unsaved' = TRUE /\ UNCHANGED <<disk, gen, announced>>
  BY <1>1, <1>3 DEF StoreTypes
<1>4. QED BY <1>2, <1>3 DEF Save

\* A change of the tags of a known device is a configuration.
LEMMA TagsCommitted ==
  ASSUME StoreTypes, NEW d \in DOMAIN mem.devices, NEW tags \in Tags,
         Commit(WithTags(mem, d, tags))
  PROVE  StoreTypes'
<1>1. mem \in Config BY DEF StoreTypes
<1>2. WithTags(mem, d, tags) \in Config BY <1>1, WithTagsIs
<1>3. QED BY <1>2, SaveTypes DEF Commit

\* Handlers of one step keep the types.
LEMMA OneStepTypes ==
  ASSUME StoreTypes, OneStep
  PROVE  StoreTypes'
<1>0. mem \in Config BY DEF StoreTypes
<1>1. CASE UpdateDevice
  <2>1. PICK d \in Device, tags \in {Empty} \cup [Tag -> TagBodies], p \in BOOLEAN :
          Commit(UpsertDevice(mem, d, tags, p))
    BY <1>1 DEF UpdateDevice
  <2>2. UpsertDevice(mem, d, tags, p) \in Config BY <1>0, BodyTypes, DeviceTypes
  <2>3. QED BY <2>1, <2>2, SaveTypes DEF Commit
<1>2. CASE RemoveDevice
  <2>1. PICK d \in DOMAIN mem.devices : Commit(DeleteDevice(mem, d)) BY <1>2 DEF RemoveDevice
  <2>2. d \in Device BY <1>0, ConfigParts
  <2>3. DeleteDevice(mem, d) \in Config BY <1>0, <2>2, DeviceTypes
  <2>4. QED BY <2>1, <2>3, SaveTypes DEF Commit
<1>3. CASE PutTags \/ ImportTags
  <2>1. PICK d \in DOMAIN mem.devices, tags \in Tags, replace \in BOOLEAN :
          Commit(MergeTags(mem, d, tags, replace))
    BY <1>3, BodyTypes DEF PutTags, ImportTags
  <2> DEFINE all == IF replace THEN tags ELSE Over(tags, mem.devices[d].tags)
  <2>2. all \in Tags BY <1>0, TagTypes
  <2>3. Commit(WithTags(mem, d, all)) BY <2>1 DEF MergeTags
  <2> HIDE DEF all
  <2>4. QED BY <2>2, <2>3, TagsCommitted
<1>4. CASE ClearTags
  <2>1. PICK d \in DOMAIN mem.devices : Commit(WithTags(mem, d, Empty)) BY <1>4 DEF ClearTags
  <2>2. Empty \in Tags BY <1>0, TagTypes
  <2>3. QED BY <2>1, <2>2, TagsCommitted
<1>5. CASE PutTag
  <2>1. PICK d \in DOMAIN mem.devices, t \in Tag, rec \in TagBodies :
          Commit(WithTags(mem, d, Put(mem.devices[d].tags, t, rec)))
    BY <1>5 DEF PutTag, UpsertTag
  <2>2. Put(mem.devices[d].tags, t, rec) \in Tags BY <1>0, BodyTypes, TagTypes
  <2>3. QED BY <2>1, <2>2, TagsCommitted
<1>6. CASE RemoveTag
  <2>1. PICK d \in DOMAIN mem.devices : \E t \in DOMAIN mem.devices[d].tags :
          Commit(WithTags(mem, d, Restrict(mem.devices[d].tags, DOMAIN mem.devices[d].tags \ {t})))
    BY <1>6 DEF RemoveTag, DeleteTag
  <2>2. \A t : Restrict(mem.devices[d].tags, DOMAIN mem.devices[d].tags \ {t}) \in Tags
    BY <1>0, TagTypes
  <2>3. QED BY <2>1, <2>2, TagsCommitted
<1>7. CASE BulkFlags
  <2>1. PICK d \in DOMAIN mem.devices, ids \in SUBSET Tag, b \in BOOLEAN :
          Commit(SetSimulate(mem, d, ids, b)) \/ Commit(SetWritable(mem, d, ids, b))
    BY <1>7 DEF BulkFlags
  <2>2. SetSimulate(mem, d, ids, b) \in Config /\ SetWritable(mem, d, ids, b) \in Config
    BY <1>0, FlagType
  <2>3. QED BY <2>1, <2>2, SaveTypes DEF Commit
<1>8. CASE PutSimulation
  <2>1. PICK b \in BOOLEAN : Save(WithSimulation(mem, b), FALSE) BY <1>8 DEF PutSimulation
  <2>2. WithSimulation(mem, b) \in Config BY <1>0, ConfigParts DEF WithSimulation, Config
  <2>3. QED BY <2>1, <2>2, SaveTypes
<1>9. CASE ImportProject
  <2>1. PICK named \in SUBSET Device, tags \in {Empty} \cup [Tag -> TagBodies], replace \in BOOLEAN :
          Commit(ApplyProject(mem, [d \in named |-> tags], replace))
    BY <1>9 DEF ImportProject
  <2>2. tags \in Tags BY BodyTypes
  <2>3. ApplyProject(mem, [d \in named |-> tags], replace) \in Config BY <1>0, <2>2, ProjectType
  <2>4. QED BY <2>1, <2>3, SaveTypes DEF Commit
<1>10. QED BY <1>1, <1>2, <1>3, <1>4, <1>5, <1>6, <1>7, <1>8, <1>9 DEF OneStep

\* What a sync writes back are tags.
LEMMA SyncedType ==
  ASSUME NEW j, IsJob(j), j.does = "sync", NEW type \in [j.ids -> Type]
  PROVE  Synced(j, type) \in Tags
<1>1. j.read \in Tags /\ j.ids \subseteq DOMAIN j.read BY DEF IsJob
<1>2. DOMAIN j.read \subseteq Tag /\ \A t \in DOMAIN j.read : j.read[t] \in TagRec
  BY <1>1, PartialIs DEF Tags
<1> DEFINE new == Synced(j, type)
<1>3. DOMAIN new = DOMAIN j.read /\ new = [t \in DOMAIN new |-> new[t]] BY DEF Synced
<1>4. ASSUME NEW t \in DOMAIN j.read PROVE new[t] \in TagRec
  <2>1. j.read[t] \in TagRec BY <1>2
  <2>2. new[t] = [j.read[t] EXCEPT !.type = IF t \in DOMAIN type THEN type[t] ELSE @]
    BY DEF Synced
  <2>3. t \in DOMAIN type => type[t] \in Type OBVIOUS
  <2> HIDE DEF new
  <2>4. QED BY <2>1, <2>2, <2>3 DEF TagRec
<1> HIDE DEF new
<1>5. new \in Tags BY <1>2, <1>3, <1>4, PartialIs DEF Tags
<1>6. QED BY <1>5 DEF new

\* The tag a patch has read, with its flag set, is a tag.
LEMMA PatchedType ==
  ASSUME NEW j, IsJob(j), j.does = "patch", NEW t \in j.ids
  PROVE  t \in Tag /\ t \in DOMAIN j.read /\ j.read[t] \in TagRec
         /\ [j.read[t] EXCEPT ![j.flag] = j.value] \in TagRec
<1>1. /\ j.read \in Tags /\ j.ids \subseteq DOMAIN j.read
      /\ j.flag \in Flags /\ j.value \in BOOLEAN
  BY DEF IsJob
<1>2. DOMAIN j.read \subseteq Tag /\ j.read[t] \in TagRec BY <1>1, PartialIs DEF Tags
<1>3. [j.read[t] EXCEPT ![j.flag] = j.value] \in TagRec
  <2>1. CASE j.flag = "writable" BY <1>1, <1>2, <2>1 DEF TagRec
  <2>2. CASE j.flag = "simulate" BY <1>1, <1>2, <2>2 DEF TagRec
  <2>3. QED BY <1>1, <2>1, <2>2 DEF Flags
<1>4. QED BY <1>1, <1>2, <1>3

\* A job begins or changes.
LEMMA JobSet ==
  ASSUME JobTypes, NEW h \in Handler, NEW j, IsJob(j), job' = [job EXCEPT ![h] = j]
  PROVE  JobTypes'
BY DEF JobTypes

\* A handler without work.
LEMMA IdleJob == IsJob(Idle)
BY DEF IsJob, Idle

\* Handlers that read first.
LEMMA StagedTypes ==
  ASSUME TypesInv, NEW h \in Handler, Staged(h)
  PROVE  TypesInv'
<1>0. mem \in Config /\ IsJob(job[h]) /\ JobTypes /\ StoreTypes /\ gate \in Policy /\ torn \in BOOLEAN
  BY DEF TypesInv, StoreTypes, JobTypes
<1> DEFINE j == job[h]
<1>1. ASSUME NEW w, IsJob(w), Begin(h, w) PROVE TypesInv'
  <2>1. JobTypes' BY <1>0, <1>1, JobSet DEF Begin
  <2>2. QED BY <1>1, <2>1 DEF Begin, TypesInv, StoreTypes, storeVars
<1>2. ASSUME End(h), StoreTypes' PROVE TypesInv'
  <2>1. JobTypes' BY <1>0, <1>2, JobSet, IdleJob DEF End
  <2>2. QED BY <1>2, <2>1 DEF End, TypesInv
<1>3. ASSUME UNCHANGED storeVars PROVE StoreTypes'
  BY <1>0, <1>3 DEF StoreTypes, storeVars
<1>4. CASE CreateBegin(h)
  <2>1. PICK d \in Device : Begin(h, [does |-> "create", device |-> d]) BY <1>4 DEF CreateBegin
  <2>2. IsJob([does |-> "create", device |-> d]) BY DEF IsJob
  <2>3. QED BY <1>1, <2>1, <2>2
<1>5. CASE CreateEnd(h)
  <2>1. PICK tags \in {Empty} \cup [Tag -> TagBodies] : Commit(UpsertDevice(mem, j.device, tags, FALSE))
    BY <1>5 DEF CreateEnd
  <2>2. j.device \in Device BY <1>0, <1>5 DEF CreateEnd, IsJob
  <2>3. UpsertDevice(mem, j.device, tags, FALSE) \in Config BY <1>0, <2>2, BodyTypes, DeviceTypes
  <2>4. StoreTypes' BY <1>0, <2>1, <2>3, SaveTypes DEF Commit
  <2>5. QED BY <1>2, <1>5, <2>4 DEF CreateEnd
<1>6. CASE SyncBegin(h)
  <2>1. PICK d \in DOMAIN mem.devices : \E ids \in SUBSET DOMAIN mem.devices[d].tags :
          Begin(h, [does |-> "sync", device |-> d, ids |-> ids, read |-> mem.devices[d].tags])
    BY <1>6 DEF SyncBegin
  <2>2. d \in Device /\ mem.devices[d].tags \in Tags BY <1>0, ConfigParts
  <2>3. \A ids \in SUBSET DOMAIN mem.devices[d].tags :
          IsJob([does |-> "sync", device |-> d, ids |-> ids, read |-> mem.devices[d].tags])
    BY <2>2 DEF IsJob
  <2>4. QED BY <1>1, <2>1, <2>3
<1>7. CASE SyncEnd(h)
  <2>1. j.does = "sync" /\ End(h) BY <1>7 DEF SyncEnd
  <2>2. CASE UNCHANGED storeVars BY <1>2, <1>3, <2>1, <2>2
  <2>3. CASE ~ UNCHANGED storeVars
    <3>1. Known(mem, j.device) BY <1>7, <2>3 DEF SyncEnd
    <3>2. PICK type \in [j.ids -> Type] : Commit(WithTags(mem, j.device, Synced(j, type)))
      BY <1>7, <2>3 DEF SyncEnd
    <3>3. Synced(j, type) \in Tags BY <1>0, <2>1, SyncedType
    <3>4. StoreTypes' BY <1>0, <3>1, <3>2, <3>3, TagsCommitted DEF Known
    <3>5. QED BY <1>2, <2>1, <3>4
  <2>4. QED BY <2>2, <2>3
<1>8. CASE PatchBegin(h)
  <2>1. PICK d \in DOMAIN mem.devices :
          \E t \in DOMAIN mem.devices[d].tags, flag \in {"writable", "simulate"}, b \in BOOLEAN :
          Begin(h, [does |-> "patch", device |-> d, ids |-> {t}, read |-> mem.devices[d].tags,
                    flag |-> flag, value |-> b])
    BY <1>8 DEF PatchBegin
  <2>2. d \in Device /\ mem.devices[d].tags \in Tags BY <1>0, ConfigParts
  <2>3. \A t \in DOMAIN mem.devices[d].tags, flag \in {"writable", "simulate"}, b \in BOOLEAN :
          IsJob([does |-> "patch", device |-> d, ids |-> {t}, read |-> mem.devices[d].tags,
                 flag |-> flag, value |-> b])
    BY <2>2 DEF IsJob, Flags
  <2>4. QED BY <1>1, <2>1, <2>3
<1>9. CASE PatchEnd(h)
  <2>1. j.does = "patch" /\ End(h) BY <1>9 DEF PatchEnd
  <2>2. CASE UNCHANGED storeVars BY <1>2, <1>3, <2>1, <2>2
  <2>3. CASE ~ UNCHANGED storeVars
    <3>1. Known(mem, j.device) BY <1>9, <2>3 DEF PatchEnd
    <3>2. PICK t \in j.ids : Commit(UpsertTag(mem, j.device, t, [j.read[t] EXCEPT ![j.flag] = j.value]))
      BY <1>9, <2>3 DEF PatchEnd
    <3> DEFINE rec == [j.read[t] EXCEPT ![j.flag] = j.value]
    <3>3. t \in Tag /\ rec \in TagRec BY <1>0, <2>1, PatchedType
    <3> HIDE DEF rec
    <3>4. Put(mem.devices[j.device].tags, t, rec) \in Tags
      BY <1>0, <3>1, <3>3, TagTypes DEF Known
    <3>5. Commit(WithTags(mem, j.device, Put(mem.devices[j.device].tags, t, rec)))
      BY <3>2 DEF UpsertTag, rec
    <3>6. StoreTypes' BY <1>0, <3>1, <3>4, <3>5, TagsCommitted DEF Known
    <3>7. QED BY <1>2, <2>1, <3>6
  <2>4. QED BY <2>2, <2>3
<1>10. CASE BulkBegin(h)
  <2>1. PICK ids \in SUBSET Tag, b \in BOOLEAN :
          Begin(h, [does |-> "bulk", value |-> b,
                    left |-> [d \in {e \in DOMAIN mem.devices : ids = {} \/ Matching(ids, e) # {}}
                                |-> Matching(ids, d)]])
    BY <1>10 DEF BulkBegin
  <2> DEFINE left == [d \in {e \in DOMAIN mem.devices : ids = {} \/ Matching(ids, e) # {}}
                        |-> Matching(ids, d)]
  <2>2. DOMAIN left \subseteq Device BY <1>0, ConfigParts
  <2>3. left = [d \in DOMAIN left |-> left[d]] OBVIOUS
  <2>4. \A d \in DOMAIN left : left[d] \in SUBSET Tag BY DEF Matching
  <2> HIDE DEF left
  <2>5. left \in Partial(Device, SUBSET Tag) BY <2>2, <2>3, <2>4, PartialIs
  <2>6. IsJob([does |-> "bulk", value |-> b, left |-> left]) BY <2>5 DEF IsJob
  <2>7. QED BY <1>1, <2>1, <2>6 DEF left
<1>11. CASE BulkStep(h)
  <2>1. j.does = "bulk" BY <1>11 DEF BulkStep
  <2>2. j.left \in Partial(Device, SUBSET Tag) /\ j.value \in BOOLEAN BY <1>0, <2>1 DEF IsJob
  <2>3. PICK d \in DOMAIN j.left :
          \/ /\ Known(mem, d)
             /\ Commit(SetSimulate(mem, d, j.left[d], j.value))
             /\ job' = [job EXCEPT ![h] =
                          IF unsaved' THEN Idle
                          ELSE [does |-> "bulk", value |-> j.value,
                                left |-> Restrict(j.left, DOMAIN j.left \ {d})]]
             /\ UNCHANGED <<gate, torn, requests>>
          \/ Fail(h)
    BY <1>11 DEF BulkStep
  <2>4. CASE Fail(h) BY <1>2, <1>3, <2>4 DEF Fail
  <2>5. CASE ~ Fail(h)
    <3>1. SetSimulate(mem, d, j.left[d], j.value) \in Config
      BY <1>0, <2>2, <2>3, <2>5, FlagType DEF Known
    <3>2. StoreTypes' BY <1>0, <2>3, <2>5, <3>1, SaveTypes DEF Commit
    <3> DEFINE w == IF unsaved' THEN Idle
                    ELSE [does |-> "bulk", value |-> j.value,
                          left |-> Restrict(j.left, DOMAIN j.left \ {d})]
    <3>3. Restrict(j.left, DOMAIN j.left \ {d}) \in Partial(Device, SUBSET Tag)
      BY <2>2, PartialOps
    <3>4. IsJob([does |-> "bulk", value |-> j.value, left |-> Restrict(j.left, DOMAIN j.left \ {d})])
      BY <2>2, <3>3 DEF IsJob
    <3>5. IsJob(w) BY <3>4, IdleJob
    <3>6. job' = [job EXCEPT ![h] = w] BY <2>3, <2>5
    <3> HIDE DEF w
    <3>7. JobTypes' BY <1>0, <3>5, <3>6, JobSet
    <3>8. QED BY <1>0, <2>3, <2>5, <3>2, <3>7 DEF TypesInv
  <2>6. QED BY <2>4, <2>5
<1>12. CASE BulkEnd(h) BY <1>2, <1>3, <1>12 DEF BulkEnd, Fail
<1>13. CASE PutPolicy(h)
  <2>1. PICK p \in Policy : Commit(WithPolicy(mem, p)) BY <1>13 DEF PutPolicy
  <2>2. WithPolicy(mem, p) \in Config BY <1>0, ConfigParts DEF WithPolicy, Config
  <2>3. StoreTypes' BY <1>0, <2>1, <2>2, SaveTypes DEF Commit
  <2> DEFINE w == IF unsaved' THEN Idle ELSE [does |-> "put"]
  <2>4. IsJob(w) BY IdleJob DEF IsJob
  <2>5. job' = [job EXCEPT ![h] = w] BY <1>13 DEF PutPolicy
  <2> HIDE DEF w
  <2>6. JobTypes' BY <1>0, <2>4, <2>5, JobSet
  <2>7. unsaved' \in BOOLEAN BY <2>3 DEF StoreTypes
  <2>8. torn' \in BOOLEAN BY <1>0, <1>13, <2>7 DEF PutPolicy
  <2>9. QED BY <1>0, <1>13, <2>3, <2>6, <2>8 DEF PutPolicy, TypesInv
<1>14. CASE PolicySnapshot(h)
  <2>1. IsJob([does |-> "apply", policy |-> mem.policy]) BY <1>0, ConfigParts DEF IsJob
  <2>2. JobTypes' BY <1>0, <1>14, <2>1, JobSet DEF PolicySnapshot
  <2>3. QED BY <1>0, <1>3, <1>14, <2>2 DEF PolicySnapshot, TypesInv
<1>15. CASE PolicyApply(h)
  <2>1. j.policy \in Policy BY <1>0, <1>15 DEF PolicyApply, IsJob
  <2>2. JobTypes' BY <1>0, <1>15, JobSet, IdleJob DEF PolicyApply
  <2>3. QED BY <1>0, <1>3, <1>15, <2>1, <2>2 DEF PolicyApply, TypesInv
<1>16. QED
  BY <1>4, <1>5, <1>6, <1>7, <1>8, <1>9, <1>10, <1>11, <1>12, <1>13, <1>14, <1>15 DEF Staged

\* Every step keeps the types.
LEMMA TypesStep == ASSUME TypesInv, [Next]_vars PROVE TypesInv'
<1>1. CASE OneStep
  <2>1. StoreTypes' BY <1>1, OneStepTypes DEF TypesInv
  <2>2. UNCHANGED <<gate, torn, job>> BY <1>1, OneStepEdits
  <2>3. QED BY <2>1, <2>2 DEF TypesInv, JobTypes
<1>2. ASSUME NEW h \in Handler, Staged(h) PROVE TypesInv' BY <1>2, StagedTypes
<1>3. CASE Restart
  <2>1. mem' = Loaded(disk) /\ announced' = mem'.devices /\ gate' = mem'.policy /\ disk' = disk
        /\ gen' = 1 /\ unsaved' = FALSE /\ torn' = FALSE
    BY <1>3 DEF Restart
  <2>2. mem' \in Config BY <2>1, StoredTypes DEF TypesInv, StoreTypes
  <2>3. announced' \in Devices /\ gate' \in Policy BY <2>1, <2>2, ConfigParts
  <2>4. StoreTypes'
    <3>0. unsaved' \in BOOLEAN BY <2>1
    <3>1. gen' \in Nat \ {0} BY <2>1, 1 \in Nat \ {0}
    <3>2. disk' \in Config /\ \A d \in DOMAIN disk'.devices : ~ disk'.devices[d].password
      BY <2>1 DEF TypesInv, StoreTypes
    <3>3. QED BY <2>2, <2>3, <3>0, <3>1, <3>2 DEF StoreTypes
  <2>5. JobTypes' BY <1>3, IdleJob DEF Restart, JobTypes
  <2>6. torn' \in BOOLEAN BY <2>1
  <2>7. QED BY <2>3, <2>4, <2>5, <2>6 DEF TypesInv
<1>4. CASE UNCHANGED vars
  BY <1>4 DEF vars, storeVars, TypesInv, StoreTypes, JobTypes
<1>5. QED BY <1>1, <1>2, <1>3, <1>4 DEF Next

\* The first configuration.
LEMMA InitTypes == ASSUME Init PROVE TypesInv
<1>1. PICK p \in Policy, d \in Device, t \in Tag, rec \in TagBodies :
        disk = [devices |-> [x \in {d} |-> [tags |-> Put(Empty, t, rec), password |-> FALSE]],
                simulation |-> FALSE, policy |-> p]
  BY DEF Init
<1> DEFINE ds == [x \in {d} |-> [tags |-> Put(Empty, t, rec), password |-> FALSE]]
<1>2. Put(Empty, t, rec) \in Tags BY BodyTypes
<1>3. DOMAIN ds \subseteq Device /\ ds = [x \in DOMAIN ds |-> ds[x]]
      /\ \A x \in DOMAIN ds : ds[x] \in DeviceRec /\ ~ ds[x].password
  BY <1>2 DEF DeviceRec
<1>4. disk.devices = ds /\ disk = [devices |-> ds, simulation |-> FALSE, policy |-> p] BY <1>1
<1> HIDE DEF ds
<1>5. ds \in Devices BY <1>3, PartialIs DEF Devices, DeviceRec
<1>6. disk \in Config /\ \A x \in DOMAIN disk.devices : ~ disk.devices[x].password
  BY <1>3, <1>4, <1>5 DEF Config
<1>7. mem = Loaded(disk) /\ announced = mem.devices /\ gate = mem.policy
      /\ gen = 1 /\ unsaved = FALSE /\ torn = FALSE
  BY DEF Init
<1>8. mem \in Config BY <1>6, <1>7, StoredTypes
<1>9. mem.devices \in Devices /\ mem.policy \in Policy BY <1>8, ConfigParts
<1>10. JobTypes BY IdleJob DEF Init, JobTypes
<1>11. StoreTypes
  <2>0. unsaved \in BOOLEAN BY <1>7
  <2>1. gen \in Nat \ {0} BY <1>7, 1 \in Nat \ {0}
  <2>2. announced \in Devices BY <1>7, <1>9
  <2>3. QED BY <1>6, <1>8, <2>0, <2>1, <2>2 DEF StoreTypes
<1>12. gate \in Policy /\ torn \in BOOLEAN BY <1>7, <1>9
<1>13. QED BY <1>10, <1>11, <1>12 DEF TypesInv

\* Every variable has its type.
LEMMA Typed == Spec => []TypesInv
<1>1. QED BY InitTypes, TypesStep, PTL DEF Spec

\* Whatever requests come: memory and file are configurations, and the file holds no
\* password.
THEOREM ConfigTypes == Spec => []TypeOK
<1>1. TypesInv => TypeOK BY DEF TypesInv, StoreTypes, TypeOK
<1>2. QED BY <1>1, Typed, PTL

-----------------------------------------------------------------------------
(* Edits of handlers that read first.                                      *)

\* StagedEditsAreLocal of a step of the handler with job j.
Local(j) ==
  \A d \in DOMAIN mem.devices, t \in Tag, f \in {"type", "writable", "simulate"} :
    LET new == Field(mem'.devices[d].tags, t, f) IN
    \/ new = Field(mem.devices[d].tags, t, f)
    \/ Names(j, d, t, f)
    \/ j.does # "bulk" /\ d = j.device /\ new = Field(j.read, t, f)

\* A step that leaves the configuration alone.
LEMMA QuietLocal == ASSUME NEW j, UNCHANGED storeVars PROVE Local(j)
BY DEF storeVars, Local

\* A step that changes the tags of one device, field by field.
LEMMA TagsLocal ==
  ASSUME StoreTypes, NEW j, NEW d0 \in DOMAIN mem.devices, NEW tags,
         mem' = WithTags(mem, d0, tags),
         \A t \in Tag, f \in {"type", "writable", "simulate"} :
           \/ Field(tags, t, f) = Field(mem.devices[d0].tags, t, f)
           \/ Names(j, d0, t, f)
           \/ j.does # "bulk" /\ d0 = j.device /\ Field(tags, t, f) = Field(j.read, t, f)
  PROVE  Local(j)
<1>1. /\ mem'.devices[d0].tags = tags
      /\ \A e \in DOMAIN mem.devices \ {d0} : mem'.devices[e] = mem.devices[e]
  BY WithTagsIs DEF StoreTypes
<1>2. SUFFICES ASSUME NEW d \in DOMAIN mem.devices, NEW t \in Tag,
                      NEW f \in {"type", "writable", "simulate"}
      PROVE  \/ Field(mem'.devices[d].tags, t, f) = Field(mem.devices[d].tags, t, f)
             \/ Names(j, d, t, f)
             \/ /\ j.does # "bulk" /\ d = j.device
                /\ Field(mem'.devices[d].tags, t, f) = Field(j.read, t, f)
  BY DEF Local
<1>3. CASE d = d0
  <2>1. mem'.devices[d].tags = tags BY <1>1, <1>3
  <2>2. QED BY <1>3, <2>1
<1>4. CASE d # d0
  <2>1. mem'.devices[d] = mem.devices[d] BY <1>1, <1>4
  <2>2. QED BY <2>1
<1>5. QED BY <1>3, <1>4

\* A sync gives a type to the tags it was asked for; all else is as it was read.
LEMMA SyncLocal ==
  ASSUME TypesInv, NEW h \in Handler, SyncEnd(h)
  PROVE  Local(job[h])
<1> DEFINE j == job[h]
<1>1. StoreTypes /\ IsJob(j) /\ j.does = "sync" BY DEF TypesInv, JobTypes, SyncEnd
<1>2. CASE UNCHANGED storeVars BY <1>2, QuietLocal
<1>3. CASE ~ UNCHANGED storeVars
  <2>1. Known(mem, j.device) BY <1>3 DEF SyncEnd
  <2>2. PICK type \in [j.ids -> Type] : Commit(WithTags(mem, j.device, Synced(j, type)))
    BY <1>3 DEF SyncEnd
  <2>3. mem' = WithTags(mem, j.device, Synced(j, type)) BY <2>2 DEF Commit, Save
  <2>4. \A t \in DOMAIN j.read : j.read[t] \in TagRec BY <1>1, PartialIs DEF IsJob, Tags
  <2>5. ASSUME NEW t \in Tag, NEW f \in {"type", "writable", "simulate"}
        PROVE  Names(j, j.device, t, f) \/ Field(Synced(j, type), t, f) = Field(j.read, t, f)
    <3> DEFINE new == Synced(j, type)
    <3>1. DOMAIN new = DOMAIN j.read BY DEF Synced
    <3>2. CASE t \notin DOMAIN j.read BY <3>1, <3>2 DEF Field
    <3>3. CASE t \in DOMAIN j.read
      <4>1. new[t] = [j.read[t] EXCEPT !.type = IF t \in DOMAIN type THEN type[t] ELSE @]
        BY <3>3 DEF Synced
      <4>2. j.read[t] \in TagRec BY <2>4, <3>3
      <4> HIDE DEF new
      <4>3. CASE f = "type" /\ t \in j.ids BY <1>1, <4>3 DEF Names
      <4>4. CASE ~(f = "type" /\ t \in j.ids)
        <5>1. t \notin DOMAIN type => new[t].type = j.read[t].type BY <4>1, <4>2 DEF TagRec
        <5>2. new[t].writable = j.read[t].writable /\ new[t].simulate = j.read[t].simulate
          BY <4>1, <4>2 DEF TagRec
        <5>3. new[t][f] = j.read[t][f] BY <4>4, <5>1, <5>2
        <5>4. Field(new, t, f) = Field(j.read, t, f) BY <3>1, <3>3, <5>3 DEF Field
        <5>5. QED BY <5>4 DEF new
      <4>5. QED BY <4>3, <4>4
    <3>4. QED BY <3>2, <3>3
  <2>6. j.does # "bulk" BY <1>1
  <2>7. j.device \in DOMAIN mem.devices BY <2>1 DEF Known
  <2> DEFINE tags == Synced(j, type)
  <2>8. \A t \in Tag, f \in {"type", "writable", "simulate"} :
          \/ Field(tags, t, f) = Field(mem.devices[j.device].tags, t, f)
          \/ Names(j, j.device, t, f)
          \/ j.does # "bulk" /\ j.device = j.device /\ Field(tags, t, f) = Field(j.read, t, f)
    BY <2>5, <2>6
  <2>9. mem' = WithTags(mem, j.device, tags) BY <2>3
  <2> HIDE DEF tags
  <2>10. QED BY <1>1, <2>7, <2>8, <2>9, TagsLocal
<1>4. QED BY <1>2, <1>3

\* A patch sets one flag of one tag; its other fields are as they were read.
LEMMA PatchLocal ==
  ASSUME TypesInv, NEW h \in Handler, PatchEnd(h)
  PROVE  Local(job[h])
<1> DEFINE j == job[h]
<1>1. StoreTypes /\ IsJob(j) /\ j.does = "patch" BY DEF TypesInv, JobTypes, PatchEnd
<1>2. CASE UNCHANGED storeVars BY <1>2, QuietLocal
<1>3. CASE ~ UNCHANGED storeVars
  <2>1. Known(mem, j.device) BY <1>3 DEF PatchEnd
  <2>2. PICK t0 \in j.ids :
          Commit(UpsertTag(mem, j.device, t0, [j.read[t0] EXCEPT ![j.flag] = j.value]))
    BY <1>3 DEF PatchEnd
  <2> DEFINE rec == [j.read[t0] EXCEPT ![j.flag] = j.value]
             old == mem.devices[j.device].tags
  <2>3. mem' = WithTags(mem, j.device, Put(old, t0, rec)) BY <2>2 DEF Commit, Save, UpsertTag
  <2>4. t0 \in DOMAIN j.read /\ j.read[t0] \in TagRec BY <1>1, PatchedType
  <2>5. \A f \in {"type", "writable", "simulate"} \ {j.flag} : rec[f] = j.read[t0][f]
    BY <2>4 DEF TagRec
  <2> HIDE DEF rec, old
  <2>6. ASSUME NEW t \in Tag, NEW f \in {"type", "writable", "simulate"}
        PROVE  \/ Names(j, j.device, t, f)
               \/ Field(Put(old, t0, rec), t, f) = Field(old, t, f)
               \/ Field(Put(old, t0, rec), t, f) = Field(j.read, t, f)
    <3>1. CASE t # t0
      <4>1. (t \in DOMAIN Put(old, t0, rec)) = (t \in DOMAIN old) BY <3>1 DEF Put, Over
      <4>2. t \in DOMAIN old => Put(old, t0, rec)[t] = old[t] BY <3>1 DEF Put, Over
      <4>3. QED BY <4>1, <4>2 DEF Field
    <3>2. CASE t = t0 /\ f = j.flag BY <1>1, <3>2 DEF Names
    <3>3. CASE t = t0 /\ f # j.flag
      <4>1. t0 \in DOMAIN Put(old, t0, rec) /\ Put(old, t0, rec)[t0] = rec BY DEF Put, Over
      <4>2. QED BY <2>4, <2>5, <3>3, <4>1 DEF Field
    <3>4. QED BY <3>1, <3>2, <3>3
  <2>7. j.does # "bulk" BY <1>1
  <2>8. QED BY <1>1, <2>1, <2>3, <2>6, <2>7, TagsLocal DEF Known, old
<1>4. QED BY <1>2, <1>3

\* A step of the bulk request sets the flag simulate of the tags it was asked for.
LEMMA BulkLocal ==
  ASSUME TypesInv, NEW h \in Handler, BulkStep(h)
  PROVE  Local(job[h])
<1> DEFINE j == job[h]
<1>1. StoreTypes /\ j.does = "bulk" BY DEF TypesInv, BulkStep
<1>2. CASE UNCHANGED storeVars BY <1>2, QuietLocal
<1>3. CASE ~ UNCHANGED storeVars
  <2>1. PICK d \in DOMAIN j.left : Known(mem, d) /\ Commit(SetSimulate(mem, d, j.left[d], j.value))
    BY <1>3 DEF BulkStep, Fail
  <2> DEFINE old == mem.devices[d].tags
             ts  == Filtered(mem, d, j.left[d])
             new == [t \in DOMAIN old |-> [old[t] EXCEPT !.simulate = IF t \in ts THEN j.value ELSE @]]
  <2>2. mem' = WithTags(mem, d, new) BY <2>1 DEF Commit, Save, SetSimulate
  <2>3. \A t \in DOMAIN old : old[t] \in TagRec BY <1>1, <2>1, ConfigParts DEF StoreTypes, Known
  <2>4. \A t \in ts : j.left[d] = {} \/ t \in j.left[d] BY DEF Filtered
  <2>5. ASSUME NEW t \in Tag, NEW f \in {"type", "writable", "simulate"}
        PROVE  Names(j, d, t, f) \/ Field(new, t, f) = Field(old, t, f)
    <3> HIDE DEF old, ts
    <3>1. DOMAIN new = DOMAIN old OBVIOUS
    <3>2. CASE t \notin DOMAIN old BY <3>1, <3>2 DEF Field
    <3>3. CASE t \in ts /\ f = "simulate" BY <1>1, <2>1, <2>4, <3>3 DEF Names
    <3>4. CASE t \in DOMAIN old /\ ~(t \in ts /\ f = "simulate")
      <4>1. new[t] = [old[t] EXCEPT !.simulate = IF t \in ts THEN j.value ELSE @] BY <3>4
      <4>2. old[t] \in TagRec BY <2>3, <3>4
      <4> HIDE DEF new
      <4>3. /\ new[t].type = old[t].type /\ new[t].writable = old[t].writable
            /\ t \notin ts => new[t].simulate = old[t].simulate
        BY <4>1, <4>2 DEF TagRec
      <4>4. new[t][f] = old[t][f] BY <3>4, <4>3
      <4>5. Field(new, t, f) = Field(old, t, f) BY <3>1, <3>4, <4>4 DEF Field, new
      <4>6. QED BY <4>5 DEF new
    <3>5. QED BY <3>2, <3>3, <3>4
  <2> HIDE DEF new
  <2>6. QED BY <1>1, <2>1, <2>2, <2>5, TagsLocal DEF Known, old
<1>4. QED BY <1>2, <1>3

\* A handler that writes back the tags it has read changes nothing of other tags
\* and devices, and of its own only the field it was asked for; the others keep
\* their value or get back the one that was read.
THEOREM EditsLocal == Spec => StagedEditsAreLocal
<1>1. TypesInv /\ [Next]_vars =>
        [\A h \in Handler : SyncEnd(h) \/ PatchEnd(h) \/ BulkStep(h) => Local(job[h])]_vars
  BY SyncLocal, PatchLocal, BulkLocal
<1>2. [\A h \in Handler : SyncEnd(h) \/ PatchEnd(h) \/ BulkStep(h) => Local(job[h])]_vars =>
      [\A h \in Handler : SyncEnd(h) \/ PatchEnd(h) \/ BulkStep(h) =>
         \A d \in DOMAIN mem.devices, t \in Tag, f \in {"type", "writable", "simulate"} :
           LET new == Field(mem'.devices[d].tags, t, f) IN
           \/ new = Field(mem.devices[d].tags, t, f)
           \/ Names(job[h], d, t, f)
           \/ /\ job[h].does # "bulk" /\ d = job[h].device
              /\ new = Field(job[h].read, t, f)]_vars
  BY DEF Local
<1>3. QED BY <1>1, <1>2, Typed, PTL DEF Spec, StagedEditsAreLocal

-----------------------------------------------------------------------------

\* Whatever handlers overlap and whichever saves fail: unless the last save
\* failed, config.yaml holds what memory holds without its secrets.
THEOREM DiskCorrect == Spec => []DiskHoldsAcknowledged
<1>1. DiskInv => DiskHoldsAcknowledged BY DEF DiskInv
<1>2. QED BY Invariance, <1>1, PTL

\* When no PUT of the policy is going on and none was torn, WriteBatch works with
\* the policy of the configuration.
THEOREM GateCorrect == Spec => []GateFollowsConfig
<1>1. GateInv => GateFollowsConfig BY DEF GateInv
<1>2. QED BY Invariance, <1>1, PTL

\* Every save that changes the devices in config.yaml moves the generation with
\* just these devices, so that watchConfig tells the collectors, unless a save
\* before it had failed.
THEOREM ChangesAnnounced == Spec => SavedChangesAnnounced
<1>1. SavedInv /\ GateInv /\ [Next]_vars => SavedInv' BY AnnounceStep
<1>2. Spec => [](SavedInv /\ GateInv)
  <2>1. Init => SavedInv /\ GateInv BY InitSaved, InitBoth
  <2>2. SavedInv /\ GateInv /\ [Next]_vars => (SavedInv /\ GateInv)' BY <1>1, GateStep
  <2>3. QED BY <2>1, <2>2, PTL DEF Spec
<1>3. SavedInv /\ GateInv /\ [Next]_vars
        => [disk'.devices # disk.devices => announced' = mem'.devices \/ unsaved]_vars
  BY AnnounceStep DEF Announces
<1>4. QED BY <1>2, <1>3, PTL DEF Spec, SavedChangesAnnounced
=============================================================================
