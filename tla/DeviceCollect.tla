--------------------------- MODULE DeviceCollect ----------------------------
(***************************************************************************)
(* Who collects a device.  API handlers change the configuration, the hub  *)
(* of drivers and the map collectOnce; runDevice goroutines read the       *)
(* configuration and drive the driver they were started with.  One device  *)
(* is enough: every lookup is by device id.                                *)
(*                                                                         *)
(* A driver is up when it has a client and counts as alive; the steps of   *)
(* one poll are those of PollLoop and are one step here.                   *)
(***************************************************************************)
EXTENDS Naturals, Sequences, FiniteSets

CONSTANTS Handler,    \* API handlers that run concurrently
          MaxChanges, \* bound on the changes of the configuration
          TagsOf      \* what tags each version of the device has

\* Tags Subscribe can poll; no tags of OPC UA, as there are none or all are
\* simulated; tags it refuses, as none is enabled, or a node id or a data type
\* is bad.
TagKind == {"polled", "none", "refused"}

ASSUME DeviceCollectAssumption == /\ MaxChanges \in Nat
                                  /\ TagsOf \in [1..MaxChanges + 1 -> TagKind]

VARIABLES
  link,        \* the server can be reached
  cfg,         \* version of the device in config.Store, 0 when it has none
  gen,         \* Store.gen
  changes,     \* changes of the configuration so far
  hub,         \* the hub's driver of the device, 0 when there is no entry
  drv,         \* the drivers made so far: is it up
  once,        \* collectOnce has the device
  run,         \* the runDevice goroutines started so far
  pc,          \* where each handler is
  forgets,     \* calls of collectOnce.Delete so far (history variable)
  unsaved,     \* the last change could not be written to disk (history variable)
  disturbed    \* a delete ran beside another handler, an import dropped the
               \* device, or a change could not be written to disk
               \* (history variable)

cfgVars  == <<cfg, gen, changes>>
hubVars  == <<hub, drv, once, run>>
history  == <<forgets, unsaved, disturbed>>
vars     == <<link, cfgVars, hubVars, pc, history>>

\* main starts the device that is configured at startup, if there is one.
Init == /\ link \in BOOLEAN
        /\ cfg \in {0, 1} /\ gen = 1 /\ changes = 0
        /\ hub = cfg
        /\ drv = IF cfg = 1 THEN <<link>> ELSE <<>>
        /\ once = (cfg = 1)
        /\ run = IF cfg = 1 THEN <<[drv |-> 1, pc |-> "connect", gen |-> 0, ver |-> 0]>>
                 ELSE <<>>
        /\ pc = [h \in Handler |-> "idle"]
        /\ forgets = 0 /\ unsaved = FALSE /\ disturbed = FALSE

-----------------------------------------------------------------------------
(* The handlers.  config.Store changes the device and bumps gen under its  *)
(* lock; OnDeviceChanged then works through the hub and collectOnce, each  *)
(* behind a lock of its own.                                               *)

Goto(h, l) == pc' = [pc EXCEPT ![h] = l]

Deleting == {"delete", "remove", "forget"}

\* A request arrives: a create, which looks for the device first, or an update
\* ("put"), a change of many tags ("bulk") or a delete.
Begin(h) == /\ pc[h] = "idle"
            /\ changes < MaxChanges
            /\ \E l \in {"create", "put", "bulk", "delete"} :
                 /\ l = "create" => cfg = 0
                 /\ Goto(h, IF l = "create" THEN "put" ELSE l)
            /\ disturbed' = (disturbed \/ \E g \in Handler \ {h} :
                 pc[g] # "idle" /\ {pc'[h], pc[g]} \cap Deleting # {})
            /\ UNCHANGED <<link, cfgVars, hubVars, forgets, unsaved>>

\* Mutant: a mutator of the store forgets s.gen.Add(1).
ChangeSilently(v) == /\ cfg' = v
                     /\ changes' = changes + 1
                     /\ gen' = gen
                     /\ unsaved' = FALSE
                     /\ UNCHANGED <<forgets, disturbed>>

\* A mutator of the store: the change in memory, saveLocked, the generation.
Change(v) == /\ cfg' = v
             /\ changes' = changes + 1
             /\ gen' = gen + 1
             /\ unsaved' = FALSE
             /\ UNCHANGED <<forgets, disturbed>>

\* saveLocked fails: the change stays in memory, the generation does not move.
ChangeUnsaved(v) == /\ cfg' = v
                    /\ changes' = changes + 1
                    /\ gen' = gen
                    /\ unsaved' = TRUE
                    /\ disturbed' = TRUE
                    /\ UNCHANGED forgets

Saving == {"put", "bulk", "delete"}

\* Create and update put in a device that is not there, the others refuse.
Save(h) == LET version == IF pc[h] = "delete" THEN 0 ELSE changes + 2
           IN /\ pc[h] \in Saving
              /\ changes < MaxChanges
              /\ pc[h] # "put" => cfg # 0
              /\ \/ /\ Change(version)
                    /\ Goto(h, IF pc[h] = "delete" THEN "remove" ELSE "upsert")
                 \/ ChangeUnsaved(version) /\ Goto(h, "idle")
              /\ UNCHANGED <<link, hubVars>>

\* The device is gone (404); at the bound MaxChanges every request is refused.
Refuse(h) == /\ \/ pc[h] \in {"bulk", "delete"} /\ cfg = 0
                \/ pc[h] \in Saving /\ changes = MaxChanges
             /\ Goto(h, "idle")
             /\ UNCHANGED <<link, cfgVars, hubVars, history>>

\* OnDeviceChanged(id, false) looks the device up again, then Hub.Upsert:
\* the old driver is disconnected, a new one tries to connect.
Lookup(h) == /\ pc[h] = "upsert"
             /\ Goto(h, IF cfg = 0 THEN "idle" ELSE "hub")
             /\ UNCHANGED <<link, cfgVars, hubVars, history>>

Disconnected == IF hub = 0 THEN drv ELSE [drv EXCEPT ![hub] = FALSE]

HubUpsert(h) == /\ pc[h] = "hub"
                /\ drv' = Append(Disconnected, link)
                /\ hub' = Len(drv) + 1
                /\ Goto(h, "start")
                /\ UNCHANGED <<link, cfgVars, once, run, history>>

\* Mutant: Load and Store for LoadOrStore, and the result of Load unused.
StartAlways(h) == /\ pc[h] = "start"
                  /\ Goto(h, "entry")
                  /\ once' = TRUE
                  /\ UNCHANGED <<link, cfgVars, hub, drv, run, history>>

\* startDeviceCollect: collectOnce.LoadOrStore, then the hub's entry.
Start(h) == /\ pc[h] = "start"
            /\ Goto(h, IF once THEN "idle" ELSE "entry")
            /\ once' = TRUE
            /\ UNCHANGED <<link, cfgVars, hub, drv, run, history>>

StartEntry(h) == /\ pc[h] = "entry"
                 /\ run' = IF hub = 0 THEN run
                           ELSE Append(run, [drv |-> hub, pc |-> "connect",
                                             gen |-> 0, ver |-> 0])
                 /\ Goto(h, "idle")
                 /\ UNCHANGED <<link, cfgVars, hub, drv, once, history>>

\* OnDeviceChanged(id, true): Hub.Remove, then collectOnce.Delete.
Remove(h) == /\ pc[h] = "remove"
             /\ drv' = Disconnected
             /\ hub' = 0
             /\ Goto(h, "forget")
             /\ UNCHANGED <<link, cfgVars, once, run, history>>

\* Mutant: a deleted device stays in collectOnce.
ForgetNot(h) == /\ pc[h] = "forget"
                /\ Goto(h, "idle")
                /\ UNCHANGED <<link, cfgVars, hubVars, history>>

Forget(h) == /\ pc[h] = "forget"
             /\ once' = FALSE
             /\ forgets' = forgets + 1
             /\ Goto(h, "idle")
             /\ UNCHANGED <<link, cfgVars, hub, drv, run, unsaved, disturbed>>

\* The handlers of single tags change the store and nothing else, and so do
\* the changes of other devices, which move the generation all the same.
EditStore == /\ changes < MaxChanges
             /\ \E v \in {cfg} \cup {w \in {changes + 2} : cfg # 0} :
                  Change(v) \/ ChangeUnsaved(v)
             /\ UNCHANGED <<link, hubVars, pc>>

\* A project import with mode=replace that leaves the device out: the store
\* drops it and saves, but OnDeviceChanged runs for the imported devices
\* only, so hub and collectOnce keep it (project.go:93-101).
Unannounced(v) == /\ cfg' = v
                  /\ changes' = changes + 1
                  /\ gen' = gen + 1
                  /\ unsaved' = FALSE
                  /\ disturbed' = TRUE
                  /\ UNCHANGED forgets

ImportWithout == /\ changes < MaxChanges
                 /\ cfg # 0
                 /\ Unannounced(0)
                 /\ UNCHANGED <<link, hubVars, pc>>

HandlerStep(h) == \/ Save(h) \/ Refuse(h) \/ Lookup(h) \/ HubUpsert(h) \/ Start(h) \/ StartEntry(h)
                  \/ Remove(h) \/ Forget(h)

-----------------------------------------------------------------------------
(* runDevice                                                               *)

Up(r) == drv[run[r].drv]

RunTo(r, l) == run' = [run EXCEPT ![r].pc = l]

\* Connect, unless the driver counts as connected; back off while it fails.
RunConnect(r) == /\ run[r].pc = "connect"
                 /\ Up(r) \/ link
                 /\ drv' = [drv EXCEPT ![run[r].drv] = TRUE]
                 /\ RunTo(r, "gen")
                 /\ UNCHANGED <<link, cfgVars, hub, once, pc, history>>

\* Mutant: the generation is bumped by the reader, who keeps its own count.
RunGenAhead(r) == /\ run[r].pc = "gen"
                  /\ run' = [run EXCEPT ![r].gen = gen + 1, ![r].pc = "tags"]
                  /\ UNCHANGED <<link, cfgVars, hub, drv, once, pc, history>>

\* gen := cfgStore.Gen()
RunGen(r) == /\ run[r].pc = "gen"
             /\ run' = [run EXCEPT ![r].gen = gen, ![r].pc = "tags"]
             /\ UNCHANGED <<link, cfgVars, hub, drv, once, pc, history>>

\* cfgStore.DeviceTags and selectOPCTags.  A device that is gone ends the
\* goroutine, and the session just opened stays; without OPC tags it waits for
\* watchConfig.
RunTags(r) == /\ run[r].pc = "tags"
              /\ IF cfg = 0 THEN RunTo(r, "done")
                 ELSE run' = [run EXCEPT ![r].ver = cfg,
                                         ![r].pc = IF TagsOf[cfg] = "none" THEN "wait"
                                                   ELSE "poll"]
              /\ UNCHANGED <<link, cfgVars, hub, drv, once, pc, history>>

\* A poll of Subscribe: it succeeds, or it fails, disconnects and reconnects.
RunPoll(r) == /\ run[r].pc = "poll"
              /\ TagsOf[run[r].ver] = "polled"
              /\ drv' = [drv EXCEPT ![run[r].drv] = link]
              /\ UNCHANGED <<link, cfgVars, hub, once, run, pc, history>>

\* Subscribe ends: Disconnect, back off, and from the beginning.
Leave(r) == /\ drv' = [drv EXCEPT ![run[r].drv] = FALSE]
            /\ RunTo(r, "connect")
            /\ UNCHANGED <<link, cfgVars, hub, once, pc, history>>

\* Subscribe returns at once: PrepareTags fails, or no tag is enabled.
RunRefused(r) == /\ run[r].pc = "poll"
                 /\ TagsOf[run[r].ver] = "refused"
                 /\ Leave(r)

\* Mutant: watchConfig waits for a newer generation than the one after its own.
RunCancelLate(r) == run[r].pc = "poll" /\ gen > run[r].gen + 1 /\ Leave(r)

\* watchConfig sees another generation while Subscribe runs.
RunCancel(r) == run[r].pc = "poll" /\ gen # run[r].gen /\ Leave(r)

\* Or while the goroutine waits for tags: the session stays open.
RunWake(r) == /\ run[r].pc = "wait"
              /\ gen # run[r].gen
              /\ RunTo(r, "connect")
              /\ UNCHANGED <<link, cfgVars, hub, drv, once, pc, history>>

Runner(r) == RunConnect(r) \/ RunGen(r) \/ RunTags(r) \/ RunPoll(r)
             \/ RunRefused(r)
Watch(r)  == RunCancel(r) \/ RunWake(r)

-----------------------------------------------------------------------------
LinkChanges == link' = ~link /\ UNCHANGED <<cfgVars, hubVars, pc, history>>

MaxRuns == MaxChanges + 1
Started(A(_), r) == r \in DOMAIN run /\ A(r)

Next == \/ \E h \in Handler : Begin(h) \/ HandlerStep(h)
        \/ \E r \in DOMAIN run : Runner(r) \/ Watch(r)
        \/ EditStore \/ ImportWithout
        \/ LinkChanges

Spec == Init /\ [][Next]_vars

\* A handler that has begun finishes, a goroutine keeps running, and the
\* ticker of its watchConfig fires.
FairSpec == /\ Spec
            /\ \A h \in Handler : WF_vars(HandlerStep(h))
            /\ \A r \in 1..MaxRuns : /\ WF_vars(Started(Runner, r))
                                     /\ WF_vars(Started(Watch, r))

-----------------------------------------------------------------------------
(* Properties                                                              *)

TypeOK ==
  /\ link \in BOOLEAN
  /\ cfg \in 0..MaxChanges + 1
  /\ gen \in 1..MaxChanges + 1
  /\ changes \in 0..MaxChanges
  /\ hub \in 0..Len(drv)
  /\ drv \in Seq(BOOLEAN)
  /\ once \in BOOLEAN
  /\ run \in Seq([drv : 1..Len(drv),
                  pc : {"connect", "gen", "tags", "poll", "wait", "done"},
                  gen : 0..gen, ver : 0..MaxChanges + 1])
  /\ pc \in [Handler -> {"idle", "put", "bulk", "delete", "upsert", "hub", "start", "entry",
                         "remove", "forget"}]
  /\ forgets \in Nat
  /\ unsaved \in BOOLEAN /\ disturbed \in BOOLEAN

\* A collector that polls tags other than the configured ones, or waits for tags
\* that have come, has read an older generation, so its watchConfig will notice:
\* the generation is read before the tags (run_device.go:93-94).  Only a change
\* that could not be written to disk goes unnoticed, until the next one that can.
StaleTagsNoticed ==
  \A r \in DOMAIN run :
    run[r].pc \in {"poll", "wait"} /\ run[r].ver # cfg => unsaved \/ run[r].gen # gen

\* collectOnce hands out one collector between two deletions of the device,
\* however handlers interleave (run_device.go:165-176).
CollectorsBounded == Len(run) <= 1 + forgets

\* StaleTagsNoticed and what bounds the generation: it counts no more than the
\* changes there were.  That none read is newer is part of TypeOK.
VersionsInv ==
  /\ gen <= changes + 1
  /\ StaleTagsNoticed

Entering == {h \in Handler : pc[h] = "entry"}

\* What CollectorsBounded rests on: a handler between LoadOrStore and go
\* runDevice counts as the collector it will start.
OnceInv ==
  /\ IsFiniteSet(Entering)
  /\ Len(run) + Cardinality(Entering) <= forgets + (IF once THEN 1 ELSE 0)

Quiet == \A h \in Handler : pc[h] = "idle"

Collecting(r) == /\ run[r].pc = "poll" /\ run[r].ver = cfg
                 /\ TagsOf[cfg] = "polled" /\ Up(r)

\* What a collector of a configured device comes to do for good: poll its tags
\* over an open session, wait for tags while it has none, with whatever session
\* there is, or try the tags that Subscribe refuses again and again.
AtWork(r) == /\ cfg # 0 /\ run[r].ver = cfg
             /\ TagsOf[cfg] = "polled" => Collecting(r)
             /\ TagsOf[cfg] = "none" => run[r].pc = "wait"
             /\ TagsOf[cfg] = "refused" => run[r].pc \in {"connect", "gen", "tags", "poll"}

\* Once the server stays reachable and the handlers are done, every collector
\* is at work on the configured tags or has returned; those of a deleted device
\* have all returned (run_device.go:73-148).
CollectorsSettle ==
  <>[](link /\ Quiet /\ ~unsaved)
    => <>[](\A r \in DOMAIN run : run[r].pc = "done" \/ AtWork(r))

\* And a configured device has a collector at work, unless a delete overlapped
\* another handler of the device, an import dropped it or a change of it could
\* not be written to disk (main.go:135-148, run_device.go:152-177).
CollectedUnlessDisturbed ==
  <>[](link /\ Quiet /\ cfg # 0)
    => <>[](disturbed \/ \E r \in DOMAIN run : AtWork(r))

\* hub.go:79-80: "Keep Entry.Connected in sync so UI / readyz reflect live
\* reconnects (initial Upsert may have failed while runDevice later succeeds)".
StatusReflectsReconnects ==
  <>[](link /\ Quiet /\ hub # 0 /\ \E r \in DOMAIN run : Collecting(r))
    => []<>(hub # 0 /\ drv[hub])
=============================================================================
