----------------------------- MODULE ConfigStore -----------------------------
(***************************************************************************)
(* The configuration: config.Store in memory, config.yaml on disk, the     *)
(* policy the historian's capacity gate works with, and the API handlers   *)
(* that change them.  Every method of Store holds its mutex from the       *)
(* change to the end of saveLocked; a save that fails leaves the change in *)
(* memory, answers an error and does not move the generation.              *)
(*                                                                         *)
(* Handlers that read the store, work, and write back are begun and ended  *)
(* by two actions: create, sync (up to ten minutes of OPC reads), patch,   *)
(* the bulk simulation of all devices, and the PUT of the capacity policy. *)
(*                                                                         *)
(* A device is its tags and whether a password is known; a tag is its      *)
(* datatype and its two flags.  The order of devices and tags, and the     *)
(* fields that are only carried along, are left out.                       *)
(***************************************************************************)
EXTENDS Naturals, Functions

CONSTANTS Device, Tag, Type, Policy, Handler, None,
          TagBodies,     \* the tags that requests bring
          EnvPassword,   \* OPC_UA_PASSWORD is set, for all devices
          EnvPolicy,     \* LEVEL2_DB_FULL_POLICY, or None
          EnvSimulation, \* LEVEL2_TAG_SIMULATION, or None
          MaxRequests    \* bound of the model

TagRec == [type : Type, writable : BOOLEAN, simulate : BOOLEAN]

ASSUME ConfigAssumption == /\ TagBodies \subseteq TagRec
                           /\ EnvPassword \in BOOLEAN /\ EnvPolicy \in Policy \cup {None}
                           /\ EnvSimulation \in BOOLEAN \cup {None}

VARIABLES mem,        \* Store.file
          disk,       \* config.yaml
          gen,        \* Store.gen
          announced,  \* the devices when gen was last moved
          gate,       \* the policy of the historian
          unsaved,    \* the last save failed
          torn,       \* a PUT of the policy failed or crossed another (history)
          job,        \* of each handler: what it does and has read
          requests    \* how many requests came in

storeVars == <<mem, disk, gen, announced, unsaved>>
vars == <<storeVars, gate, torn, job, requests>>

Empty == [x \in {} |-> None]

\* f where it is defined, else g; and f with y at x.  (The operators of TLC for
\* this have no meaning to the provers.)
Over(f, g) == [x \in DOMAIN f \cup DOMAIN g |-> IF x \in DOMAIN f THEN f[x] ELSE g[x]]
Put(f, x, y) == Over([z \in {x} |-> y], f)

Partial(S, T) == UNION {[D -> T] : D \in SUBSET S}
Tags == Partial(Tag, TagRec)
Devices == Partial(Device, [tags : Tags, password : BOOLEAN])
Config == [devices : Devices, simulation : BOOLEAN, policy : Policy]

Idle == [does |-> "nothing"]
Known(c, d) == d \in DOMAIN c.devices

WithDevices(c, devices) ==
  [devices |-> devices, simulation |-> c.simulation, policy |-> c.policy]

\* Mutant: the passwords go to the file.
PublicAll(c) == c

\* saveLocked strips the secrets.
Public(c) == WithDevices(c, [d \in DOMAIN c.devices |->
                               [tags |-> c.devices[d].tags, password |-> FALSE]])

WithSimulation(c, b) == [devices |-> c.devices, simulation |-> b, policy |-> c.policy]
WithPolicy(c, p) == [devices |-> c.devices, simulation |-> c.simulation, policy |-> p]

\* What the environment makes of the policy and of the flag for simulation.
Overridden(c) ==
  [devices    |-> c.devices,
   simulation |-> IF EnvSimulation = None THEN c.simulation ELSE EnvSimulation,
   policy     |-> IF EnvPolicy = None THEN c.policy ELSE EnvPolicy]

\* Load, with the password of ApplyDeviceEnvOverlay.
Loaded(c) == Overridden(WithDevices(c, [d \in DOMAIN c.devices |->
                          [tags |-> c.devices[d].tags,
                           password |-> EnvPassword \/ c.devices[d].password]]))

Init == /\ \E p \in Policy, d \in Device, t \in Tag, rec \in TagBodies :
             disk = [devices |-> [x \in {d} |-> [tags |-> Put(Empty, t, rec), password |-> FALSE]],
                     simulation |-> FALSE, policy |-> p]
        /\ mem = Loaded(disk)
        /\ gen = 1 /\ announced = mem.devices
        /\ gate = mem.policy
        /\ unsaved = FALSE /\ torn = FALSE
        /\ job = [h \in Handler |-> Idle]
        /\ requests = 0

-----------------------------------------------------------------------------
(* What the methods of Store make of the configuration.                    *)

WithTags(c, d, tags) == WithDevices(c, [c.devices EXCEPT ![d].tags = tags])

MergeTags(c, d, tags, replace) ==
  WithTags(c, d, IF replace THEN tags ELSE Over(tags, c.devices[d].tags))

UpsertTag(c, d, t, rec) == WithTags(c, d, Put(c.devices[d].tags, t, rec))

DeleteTag(c, d, t) ==
  WithTags(c, d, Restrict(c.devices[d].tags, DOMAIN c.devices[d].tags \ {t}))

\* setTagsBool names all tags when the filter is empty.
Filtered(c, d, ids) == IF ids = {} THEN DOMAIN c.devices[d].tags
                                   ELSE ids \cap DOMAIN c.devices[d].tags

SetSimulate(c, d, ids, b) ==
  WithTags(c, d, [t \in DOMAIN c.devices[d].tags |->
                    [c.devices[d].tags[t] EXCEPT
                       !.simulate = IF t \in Filtered(c, d, ids) THEN b ELSE @]])
SetWritable(c, d, ids, b) ==
  WithTags(c, d, [t \in DOMAIN c.devices[d].tags |->
                    [c.devices[d].tags[t] EXCEPT
                       !.writable = IF t \in Filtered(c, d, ids) THEN b ELSE @]])

\* A body without tags keeps them, one without a password keeps it.
UpsertDevice(c, d, tags, password) ==
  LET prev == IF Known(c, d) THEN c.devices[d] ELSE [tags |-> Empty, password |-> FALSE]
  IN WithDevices(c, Put(c.devices, d, [tags |-> IF tags = Empty THEN prev.tags ELSE tags,
                                       password |-> password \/ prev.password]))

DeleteDevice(c, d) == WithDevices(c, Restrict(c.devices, DOMAIN c.devices \ {d}))

\* Passwords never come from a project; those of devices it names are kept.
ApplyProject(c, project, replace) ==
  WithDevices(c, Over(
     [d \in DOMAIN project |->
        [tags |-> IF ~replace /\ project[d] = Empty /\ Known(c, d)
                  THEN c.devices[d].tags ELSE project[d],
         password |-> Known(c, d) /\ c.devices[d].password]],
     IF replace THEN Empty ELSE c.devices))

-----------------------------------------------------------------------------
(* Committing a change.                                                    *)

\* saveLocked succeeds, and moves gen unless the method does not; or it fails.
Save(c, moves) ==
  /\ mem' = c
  /\ \/ /\ disk' = Public(c) /\ unsaved' = FALSE
        /\ IF moves THEN gen' = gen + 1 /\ announced' = c.devices
                    ELSE UNCHANGED <<gen, announced>>
     \/ /\ unsaved' = TRUE
        /\ UNCHANGED <<disk, gen, announced>>

\* Mutant: the generation is not moved.
CommitSilently(c) == Save(c, FALSE)

Commit(c) == Save(c, TRUE)

Arrives == requests < MaxRequests /\ requests' = requests + 1

\* Handlers of one step.
Quick == Arrives /\ UNCHANGED <<gate, torn, job>>

UpdateDevice == /\ Quick
                /\ \E d \in Device, tags \in {Empty} \cup [Tag -> TagBodies], p \in BOOLEAN :
                     Commit(UpsertDevice(mem, d, tags, p))

RemoveDevice == Quick /\ \E d \in DOMAIN mem.devices : Commit(DeleteDevice(mem, d))

\* handleBulkUpsertTags merges what it has validated, which may be nothing.
PutTags == /\ Quick
           /\ \E d \in DOMAIN mem.devices : \E tags \in {Empty} \cup [Tag -> TagBodies] :
                Commit(MergeTags(mem, d, tags, FALSE))

\* handleImportExcel also replaces.
ImportTags == /\ Quick
              /\ \E d \in DOMAIN mem.devices, t \in Tag, rec \in TagBodies, replace \in BOOLEAN :
                   Commit(MergeTags(mem, d, Put(Empty, t, rec), replace))

\* Mutant: the tags are cleared in memory only.
ClearTagsUnsaved == /\ Quick
                    /\ \E d \in DOMAIN mem.devices : mem' = WithTags(mem, d, Empty)
                    /\ UNCHANGED <<disk, gen, announced, unsaved>>

ClearTags == Quick /\ \E d \in DOMAIN mem.devices : Commit(WithTags(mem, d, Empty))

PutTag == /\ Quick
          /\ \E d \in DOMAIN mem.devices, t \in Tag, rec \in TagBodies :
               Commit(UpsertTag(mem, d, t, rec))

RemoveTag == /\ Quick
             /\ \E d \in DOMAIN mem.devices : \E t \in DOMAIN mem.devices[d].tags :
                  Commit(DeleteTag(mem, d, t))

\* An empty filter names all tags; one that matches none is refused.
BulkFlags ==
  /\ Quick
  /\ \E d \in DOMAIN mem.devices, ids \in SUBSET Tag, b \in BOOLEAN :
       /\ ids # {} => Filtered(mem, d, ids) # {}
       /\ \/ Commit(SetSimulate(mem, d, ids, b))
          \/ Commit(SetWritable(mem, d, ids, b))

\* SetTagSimulation does not move gen: it counts from the next start.
PutSimulation == Quick /\ \E b \in BOOLEAN : Save(WithSimulation(mem, b), FALSE)

ImportProject ==
  /\ Quick
  /\ \E named \in SUBSET Device \ {{}}, tags \in {Empty} \cup [Tag -> TagBodies],
        replace \in BOOLEAN :
       Commit(ApplyProject(mem, [d \in named |-> tags], replace))

-----------------------------------------------------------------------------
(* Handlers that read first.                                               *)

Begin(h, work) == /\ job[h] = Idle /\ Arrives
                  /\ job' = [job EXCEPT ![h] = work]
                  /\ UNCHANGED <<storeVars, gate, torn>>

End(h) == job' = [job EXCEPT ![h] = Idle] /\ UNCHANGED <<gate, torn, requests>>

Fail(h) == End(h) /\ UNCHANGED storeVars

\* handleCreateDevice: 409 if the device is there, else UpsertDevice.
CreateBegin(h) == \E d \in Device \ DOMAIN mem.devices : Begin(h, [does |-> "create", device |-> d])

CreateEnd(h) == /\ job[h].does = "create"
                /\ \E tags \in {Empty} \cup [Tag -> TagBodies] :
                     Commit(UpsertDevice(mem, job[h].device, tags, FALSE))
                /\ End(h)

\* handleSyncTags and handlePatchTag: DeviceTags copies the tags of the device.
SyncBegin(h) == \E d \in DOMAIN mem.devices : \E ids \in SUBSET DOMAIN mem.devices[d].tags \ {{}} :
  Begin(h, [does |-> "sync", device |-> d, ids |-> ids, read |-> mem.devices[d].tags])

\* Mutant: tags that are not selected lose their simulate flag.
SyncedPlain(j, type) ==
  [t \in DOMAIN j.read |-> [type |-> IF t \in DOMAIN type THEN type[t] ELSE j.read[t].type,
                            writable |-> j.read[t].writable, simulate |-> FALSE]]

\* The tags the server has given a type get it; all that was read is written back.
Synced(j, type) ==
  [t \in DOMAIN j.read |->
     [j.read[t] EXCEPT !.type = IF t \in DOMAIN type THEN type[t] ELSE @]]

SyncEnd(h) == /\ job[h].does = "sync"
              /\ IF Known(mem, job[h].device)
                 THEN \E type \in [job[h].ids -> Type] :
                        Commit(WithTags(mem, job[h].device, Synced(job[h], type)))
                 ELSE UNCHANGED storeVars
              /\ End(h)

PatchBegin(h) == \E d \in DOMAIN mem.devices : \E t \in DOMAIN mem.devices[d].tags,
                    flag \in {"writable", "simulate"}, b \in BOOLEAN :
  Begin(h, [does |-> "patch", device |-> d, ids |-> {t}, read |-> mem.devices[d].tags,
            flag |-> flag, value |-> b])

\* Store.UpsertTag of the tag that was read, with its flag set.
PatchEnd(h) == LET j == job[h] IN
  /\ j.does = "patch"
  /\ IF Known(mem, j.device)
     THEN \E t \in j.ids :
            Commit(UpsertTag(mem, j.device, t, [j.read[t] EXCEPT ![j.flag] = j.value]))
     ELSE UNCHANGED storeVars
  /\ End(h)

\* handleBulkSimulateTagsAll: the devices, or the matching tags of each, of a
\* snapshot; each device is saved on its own.
Matching(ids, d) == IF ids = {} THEN {} ELSE ids \cap DOMAIN mem.devices[d].tags

BulkBegin(h) == \E ids \in SUBSET Tag, b \in BOOLEAN :
  Begin(h, [does |-> "bulk", value |-> b,
            left |-> [d \in {e \in DOMAIN mem.devices : ids = {} \/ Matching(ids, e) # {}}
                        |-> Matching(ids, d)]])

\* The next device; the loop ends early when it or its tags are gone, or a save
\* fails.
BulkStep(h) == LET j == job[h] IN
  /\ j.does = "bulk"
  /\ \E d \in DOMAIN j.left :
       IF Known(mem, d) /\ (j.left[d] # {} => Filtered(mem, d, j.left[d]) # {})
       THEN /\ Commit(SetSimulate(mem, d, j.left[d], j.value))
            /\ job' = [job EXCEPT ![h] =
                         IF unsaved' THEN Idle
                         ELSE [does |-> "bulk", value |-> j.value,
                               left |-> Restrict(j.left, DOMAIN j.left \ {d})]]
            /\ UNCHANGED <<gate, torn, requests>>
       ELSE Fail(h)

BulkEnd(h) == job[h].does = "bulk" /\ job[h].left = Empty /\ Fail(h)

\* Store.SetCapacityPolicy.  A failed one ends here, with the new policy in
\* memory and the old one at the gate.
PutPolicy(h) ==
  /\ job[h] = Idle /\ Arrives
  /\ \E p \in Policy : Commit(WithPolicy(mem, p))
  /\ job' = [job EXCEPT ![h] = IF unsaved' THEN Idle ELSE [does |-> "put"]]
  /\ torn' = (torn \/ unsaved' \/ \E g \in Handler : job[g].does = "apply")
  /\ UNCHANGED gate

\* Cfg.Snapshot, then DB.SetCapacityPolicy.
PolicySnapshot(h) == /\ job[h].does = "put"
                     /\ job' = [job EXCEPT ![h] = [does |-> "apply", policy |-> mem.policy]]
                     /\ UNCHANGED <<storeVars, gate, torn, requests>>

\* Mutant: the gate is left for the next start.
PolicyApplyLater(h) == /\ job[h].does = "apply"
                       /\ job' = [job EXCEPT ![h] = Idle]
                       /\ UNCHANGED <<storeVars, gate, torn, requests>>

PolicyApply(h) == /\ job[h].does = "apply"
                  /\ gate' = job[h].policy
                  /\ job' = [job EXCEPT ![h] = Idle]
                  /\ UNCHANGED <<storeVars, torn, requests>>

\* The process starts again.
Restart == /\ mem' = Loaded(disk)
           /\ gen' = 1 /\ announced' = mem'.devices
           /\ gate' = mem'.policy
           /\ unsaved' = FALSE /\ torn' = FALSE
           /\ job' = [h \in Handler |-> Idle]
           /\ UNCHANGED <<disk, requests>>

Staged(h) == \/ CreateBegin(h) \/ CreateEnd(h) \/ SyncBegin(h) \/ SyncEnd(h)
             \/ PatchBegin(h) \/ PatchEnd(h) \/ BulkBegin(h) \/ BulkStep(h) \/ BulkEnd(h)
             \/ PutPolicy(h) \/ PolicySnapshot(h) \/ PolicyApply(h)

OneStep == \/ UpdateDevice \/ RemoveDevice \/ PutTags \/ ImportTags \/ ClearTags
           \/ PutTag \/ RemoveTag \/ BulkFlags \/ PutSimulation \/ ImportProject

Next == OneStep \/ (\E h \in Handler : Staged(h)) \/ Restart

Spec == Init /\ [][Next]_vars

-----------------------------------------------------------------------------
(* Properties.                                                             *)

\* Every variable has its type, and the file on disk holds no password.
TypeOK == /\ mem \in Config /\ disk \in Config /\ announced \in Devices
          /\ \A d \in DOMAIN disk.devices : ~disk.devices[d].password
          /\ gen \in Nat \ {0} /\ gate \in Policy
          /\ unsaved \in BOOLEAN /\ torn \in BOOLEAN

\* Unless the last save failed, a start finds what memory holds, but for the
\* secrets and what the environment overrides: every change that was answered
\* with success, and also one that an earlier failed save had left in memory.
DiskHoldsAcknowledged == ~unsaved => Public(Loaded(disk)) = Public(Overridden(mem))

\* Devices that reach the disk are announced to the collectors by gen, unless a
\* failed save came before: SetTagSimulation then saves them without a word.
SavedChangesAnnounced ==
  [][disk'.devices # disk.devices => announced' = mem'.devices \/ unsaved]_vars

\* A field of a tag, in a function of tags.
Field(tags, t, f) == IF t \in DOMAIN tags THEN tags[t][f] ELSE None

\* The request of job j is about field f of tag t of device d.
Names(j, d, t, f) ==
  \/ /\ j.does = "bulk" /\ d \in DOMAIN j.left /\ (j.left[d] = {} \/ t \in j.left[d])
     /\ f = "simulate"
  \/ /\ j.does # "bulk" /\ d = j.device /\ t \in j.ids
     /\ f = IF j.does = "sync" THEN "type" ELSE j.flag

\* What a handler that writes back the tags it has read does to others: every
\* field its request does not name keeps its value or gets back the one that was
\* read, so that a change made in between, and nothing else, can be lost.  (A
\* sync may even bring back a tag that was deleted meanwhile.)
StagedEditsAreLocal ==
  [][\A h \in Handler : SyncEnd(h) \/ PatchEnd(h) \/ BulkStep(h) =>
       \A d \in DOMAIN mem.devices, t \in Tag, f \in {"type", "writable", "simulate"} :
         LET new == Field(mem'.devices[d].tags, t, f) IN
         \/ new = Field(mem.devices[d].tags, t, f)
         \/ Names(job[h], d, t, f)
         \/ /\ job[h].does # "bulk" /\ d = job[h].device
            /\ new = Field(job[h].read, t, f)
    ]_vars

\* The historian works with the policy that is configured, once no PUT of it is
\* going on: unless one failed, or was saved while another was about to hand an
\* older policy to the historian.
GateFollowsConfig ==
  ~torn /\ (\A h \in Handler : job[h].does \notin {"put", "apply"}) => gate = mem.policy
=============================================================================
