------------------------------ MODULE Capacity ------------------------------
(***************************************************************************)
(* The capacity gate before each WriteBatch: the policy it works with, the *)
(* byte limit, and the trim of drop_oldest (enforceDropOldest,             *)
(* dropOldestUntilUnder, dropOldestChunk).  flushLoop, replaySpool and the *)
(* reseed of a wipe call it side by side, with no lock: every query is a   *)
(* step, and whatever the others do may fall between two of them.          *)
(*                                                                         *)
(* The table is its row times, in days; chunk k holds the times from       *)
(* k * Width to (k + 1) * Width - 1 and its size grows by RowBytes with    *)
(* each row.  A DELETE gives no bytes back, and those of a dropped chunk   *)
(* may be counted by pg_database_size until it settles (lag).              *)
(***************************************************************************)
EXTENDS Integers, FiniteSets, FiniteSetsExt, SequencesExt

CONSTANTS Caller, None,
          Settings,   \* the pairs [percent, policy] that may be configured
          Volumes,    \* what Statfs says of each path of dbDiskPaths:
                      \* [total, avail], total 0 if there is no such path
          EnvBytes,   \* LEVEL2_DB_CAPACITY_BYTES, 0 if not set
          Width, RowBytes, Base,
          Starts,     \* the tables it may start with: sets of row times
          MaxDrop,    \* capacityMaxChunksPass
          MaxPasses,  \* capacityMaxTrimPasses
          MaxRounds,  \* capacityMaxDeleteRounds
          Faults,     \* of "size", "disk", "list", "unknown", "drop", "ackLost", "lag"
          MaxTime, MaxCalls, MaxFaults, MaxEdits  \* bounds of the model

Policy == {"stop", "drop_oldest", "rotate", "expand_limit"}

ASSUME CapacityAssumption ==
  /\ Width \in Nat \ {0} /\ RowBytes \in Nat \ {0} /\ Base \in Nat /\ MaxTime \in Nat
  /\ MaxDrop \in Nat \ {0} /\ MaxPasses \in Nat \ {0} /\ MaxRounds \in Nat \ {0}
  /\ Starts \subseteq SUBSET (0..MaxTime)
  /\ Settings \subseteq [percent : 1..100, policy : Policy] /\ None \notin Policy
  /\ EnvBytes \in Nat /\ Volumes \in Seq([total : Nat, avail : Nat])
  /\ EnvBytes > 0 \/ \E i \in DOMAIN Volumes : Volumes[i].total > 0

VARIABLES rows,     \* the times in collector.samples
          size,     \* of each chunk: its bytes
          lag,      \* bytes of dropped chunks that are still counted
          percent, policy,  \* capacityPercent and fullPolicy: two atomics
          storing,  \* the policy SetCapacityPolicy has yet to store, or None
          applied,  \* the pairs that were configured so far (history)
          call,     \* of each caller: its call of WriteBatch
          calls, faults, edits  \* counters of the bounds

dbVars  == <<rows, size, lag>>
setVars == <<percent, policy, storing, applied>>
vars    == <<dbVars, setVars, call, calls, faults, edits>>

\* The bytes of the chunks ks, each of bytes[k].
Bytes(bytes, ks) == MapThenSumSet(LAMBDA k : bytes[k], ks)

Used == Base + lag + Bytes(size, DOMAIN size)

ChunkOf(t) == t \div Width
FirstTime(k) == k * Width

\* resolveCapacityLimit: the override, or the percentage of the first volume that
\* answers.
LimitOf(p) ==
  LET first == Min({i \in DOMAIN Volumes : Volumes[i].total > 0})
  IN IF EnvBytes > 0 THEN EnvBytes ELSE Max({1, (Volumes[first].total * p) \div 100})

\* resolveFreeBytes and Capacity: what the capacity page shows.
Reported(used, p) ==
  LET answer == {i \in DOMAIN Volumes : Volumes[i].total > 0 /\ Volumes[i].avail >= 0}
      limit == IF EnvBytes > 0 THEN EnvBytes
               ELSE IF answer = {} THEN 0
                    ELSE Max({1, (Volumes[Min(answer)].total * p) \div 100})
  IN [limit |-> limit, over |-> limit > 0 /\ used >= limit]

Approach(limit) == Max({1, (limit * 90) \div 100})
Target(limit) == Max({1, Min({limit - 1, Max({1, (limit * 85) \div 100})})})

Idle == [pc |-> "idle"]
Busy(c) == call[c].pc # "idle"

Init == /\ rows \in Starts
        /\ size = [k \in {ChunkOf(t) : t \in rows} |->
                     RowBytes * Cardinality({t \in rows : ChunkOf(t) = k})]
        /\ lag = 0
        /\ \E s \in Settings : percent = s.percent /\ policy = s.policy /\ applied = {s}
        /\ storing = None
        /\ call = [c \in Caller |-> Idle]
        /\ calls = 0 /\ faults = 0 /\ edits = 0

-----------------------------------------------------------------------------
(* The live policy.                                                        *)

\* A call that has loaded the percentage and not yet the policy is crossed by a
\* store of either.
Crossed == [c \in Caller |-> IF call[c].pc = "policy" THEN [call[c] EXCEPT !.crossed = TRUE]
                             ELSE call[c]]

\* SetCapacityPolicy stores the percentage, then the policy.
StorePercent == /\ storing = None /\ edits < MaxEdits
                /\ \E s \in Settings \ {[percent |-> percent, policy |-> policy]} :
                     percent' = s.percent /\ storing' = s.policy /\ applied' = applied \cup {s}
                /\ edits' = edits + 1
                /\ call' = Crossed
                /\ UNCHANGED <<dbVars, policy, calls, faults>>

\* Mutant: the policy waits for the next start.
StoreNoPolicy == /\ storing # None
                 /\ storing' = None /\ call' = Crossed
                 /\ UNCHANGED <<dbVars, percent, policy, applied, calls, faults, edits>>

StorePolicy == /\ storing # None
               /\ policy' = storing /\ storing' = None
               /\ call' = Crossed
               /\ UNCHANGED <<dbVars, percent, applied, calls, faults, edits>>

-----------------------------------------------------------------------------
(* The steps of one call.                                                  *)

Local == UNCHANGED <<dbVars, setVars, calls, edits>>
Ok == UNCHANGED faults
Fault(kind) == kind \in Faults /\ faults < MaxFaults /\ faults' = faults + 1

\* c goes on as r, after a query that worked, or one that failed.
Goes(c, r) == call' = [call EXCEPT ![c] = r] /\ Ok /\ Local
Fails(c, kind, r) == /\ Fault(kind) /\ Local
                     /\ call' = [call EXCEPT ![c] = [r EXCEPT !.faulted = TRUE]]

At(c, pc) == call[c].pc = pc
To(c, pc) == [call[c] EXCEPT !.pc = pc]

\* CapacityPolicy loads the percentage, then the policy.
LoadPercent(c) ==
  /\ At(c, "idle") /\ calls < MaxCalls
  /\ call' = [call EXCEPT ![c] =
                [pc |-> "policy", percent |-> percent, policy |-> None,
                 first |-> 0, seen |-> 0, blind |-> FALSE,
                 n |-> 1, cut |-> 0, enough |-> FALSE, listed |-> <<>>,
                 progress |-> FALSE, err |-> FALSE,
                 crossed |-> storing # None, removed |-> FALSE, raced |-> FALSE,
                 faulted |-> FALSE]]
  /\ calls' = calls + 1
  /\ UNCHANGED <<dbVars, setVars, faults, edits>>

LoadPolicy(c) == At(c, "policy") /\ Goes(c, [To(c, "gate") EXCEPT !.policy = policy])

\* enforceCapacity: what cannot be evaluated is written.
Gate(c) == LET limit == LimitOf(call[c].percent) IN
  /\ At(c, "gate")
  /\ \/ \E kind \in {"size", "disk"} : Fails(c, kind, [To(c, "insert") EXCEPT !.blind = TRUE])
     \/ Goes(c, [call[c] EXCEPT
          !.first = Used, !.seen = Used,
          !.pc = CASE call[c].policy = "drop_oldest" ->
                        IF Used < Approach(limit) THEN "insert" ELSE "size"
                   [] OTHER -> IF Used < limit THEN "insert" ELSE "halt"])

\* dropOldestUntilUnder: MaxPasses passes that plan, then MaxRounds that do not.
Size(c) == LET limit == LimitOf(call[c].percent) IN
  /\ At(c, "size")
  /\ \/ Fails(c, "size", [To(c, "recheck") EXCEPT !.err = TRUE])
     \/ Goes(c, [call[c] EXCEPT
                  !.seen = Used,
                  !.pc = CASE Used < Target(limit) -> "recheck"
                           [] Used >= Target(limit) /\ call[c].n <= MaxPasses -> "list"
                           [] OTHER -> "oldest"])

\* Mutant: one round too many.
NextRoundLate(c) ==
  [call[c] EXCEPT !.progress = TRUE, !.n = @ + 1,
                  !.pc = IF call[c].n > MaxPasses + MaxRounds THEN "recheck" ELSE "size"]

\* Mutant: rounds are not counted.
NextRoundUncounted(c) == [To(c, "size") EXCEPT !.progress = TRUE]

\* Progress is credited whatever was dropped; the next pass, or the end.
NextRound(c) ==
  [call[c] EXCEPT !.progress = TRUE, !.n = @ + 1,
                  !.pc = IF call[c].n = MaxPasses + MaxRounds THEN "recheck" ELSE "size"]

\* What planChunkDrop takes for the size of chunk k: an unknown one counts as the
\* average of the known, or of the database.
Estimate(listed, used, k) ==
  LET known == {j \in DOMAIN listed : listed[j] > 0}
      average == IF known = {} THEN used \div Cardinality(DOMAIN listed)
                 ELSE Bytes(listed, known) \div Cardinality(known)
  IN IF listed[k] > 0 THEN listed[k] ELSE Max({1, average})

\* What dropping all chunks before k frees.
Older(listed, k) == {j \in DOMAIN listed : j < k}
Freed(listed, used, k) ==
  Bytes([j \in DOMAIN listed |-> Estimate(listed, used, j)], Older(listed, k))

\* Mutant: one chunk more than is needed.
FirstKeptLater(listed, used, need) ==
  LET may == {k \in DOMAIN listed : Cardinality(Older(listed, k)) \in 1..MaxDrop}
  IN Min({k \in may : \E j \in may : j < k /\ Freed(listed, used, j) >= need} \cup {Max(may)})

\* planChunkDrop: the first chunk that is kept, the earliest that frees what is
\* needed; at most MaxDrop go, and never the newest.
FirstKept(listed, used, need) ==
  LET may == {k \in DOMAIN listed : Cardinality(Older(listed, k)) \in 1..MaxDrop}
  IN Min({k \in may : Freed(listed, used, k) >= need} \cup {Max(may)})

\* listChunkSizes and planChunkDrop; sizes may be missing from the answer.
List(c) ==
  /\ At(c, "list")
  /\ \/ Fails(c, "list", To(c, "oldest"))
     \/ Cardinality(DOMAIN size) <= 1 /\ Goes(c, To(c, "oldest"))
     \/ /\ Cardinality(DOMAIN size) > 1
        /\ \E unknown \in {{}} \cup kSubset(1, DOMAIN size) \cup {DOMAIN size} :
             /\ IF unknown = {} THEN Ok ELSE Fault("unknown")
             /\ LET need == Max({1, call[c].seen - Target(LimitOf(call[c].percent))})
                    listed == [k \in DOMAIN size |-> IF k \in unknown THEN 0 ELSE size[k]]
                    kept == FirstKept(listed, call[c].seen, need)
                IN call' = [call EXCEPT ![c] =
                     [To(c, "drop") EXCEPT
                        !.cut = FirstTime(kept),
                        !.enough = Freed(listed, call[c].seen, kept) >= need,
                        !.listed = listed]]
             /\ Local

\* The chunks that end at or before cut.
Before(cut) == {k \in DOMAIN size : FirstTime(k + 1) <= cut}

\* Chunks ks and rows ts go.
Removes(c, r, ks, ts) ==
  /\ rows' = rows \ ts
  /\ size' = [k \in DOMAIN size \ ks |-> size[k]]
  /\ call' = [g \in Caller |-> CASE g = c -> r
                                 [] g # c /\ Busy(g) -> [call[g] EXCEPT !.raced = TRUE]
                                 [] OTHER -> call[g]]
  /\ UNCHANGED <<setVars, calls, edits>>

\* drop_chunks works, at once or with bytes that are still counted; it fails; or
\* it is done and the answer is lost.
DropChunks(c, done, failed) ==
  LET ks == Before(call[c].cut)
      ts == {t \in rows : ChunkOf(t) \in ks}
      works == Removes(c, [done EXCEPT !.removed = @ \/ ks # {}], ks, ts)
  IN \/ /\ works
        /\ \/ Ok /\ UNCHANGED lag
           \/ Fault("lag") /\ lag' = lag + Bytes(size, ks)
     \/ Fails(c, "drop", failed)
     \/ /\ Fault("ackLost") /\ UNCHANGED lag
        /\ Removes(c, [failed EXCEPT !.faulted = TRUE], ks, ts)

\* The planned drop; enough ends the trim.
Drop(c) ==
  /\ At(c, "drop")
  /\ DropChunks(c, IF call[c].enough THEN [To(c, "recheck") EXCEPT !.progress = TRUE]
                                     ELSE NextRound(c),
                   To(c, "oldest"))

\* dropOldestChunk: up to the second chunk if there is one.
Oldest(c) == LET later == {FirstTime(k) : k \in DOMAIN size \ {Min(DOMAIN size)}} IN
  /\ At(c, "oldest")
  /\ \/ Fails(c, "list", To(c, "span"))
     \/ later = {} /\ Goes(c, To(c, "span"))
     \/ later # {} /\ Goes(c, [To(c, "dropOne") EXCEPT !.cut = Min(later)])

DropOne(c) == At(c, "dropOne") /\ DropChunks(c, NextRound(c), To(c, "span"))

\* Mutant: the slice may reach beyond the newest row.
SpanAll(c) ==
  /\ At(c, "span")
  /\ Goes(c, [To(c, "slice") EXCEPT !.cut = Max(rows)])

\* Else a slice of the oldest rows: a tenth of their span, which here is the
\* oldest day and less than the next.
Span(c) ==
  /\ At(c, "span")
  /\ \/ Fails(c, "list", [To(c, "recheck") EXCEPT !.err = TRUE])
     \/ Cardinality(rows) < 2 /\ Goes(c, [To(c, "recheck") EXCEPT !.err = TRUE])
     \/ /\ Cardinality(rows) >= 2
        /\ Goes(c, [To(c, "slice") EXCEPT !.cut = Min(rows)])

\* drop_chunks counts as a drop although it leaves a chunk that ends later.
Slice(c) == At(c, "slice") /\ DropChunks(c, NextRound(c), To(c, "delete"))

\* It follows a failure, so that its own is not counted.
Delete(c) == LET old == {t \in rows : t <= call[c].cut} IN
  /\ At(c, "delete")
  /\ \/ Goes(c, [To(c, "recheck") EXCEPT !.err = TRUE])
     \/ IF old = {} THEN Goes(c, [To(c, "recheck") EXCEPT !.err = TRUE])
        ELSE /\ Removes(c, [NextRound(c) EXCEPT !.removed = TRUE], {}, old)
             /\ Ok /\ UNCHANGED lag

\* Mutant: what was freed does not count.
RecheckForgetful(c) == LET limit == LimitOf(call[c].percent) IN
  /\ At(c, "recheck")
  /\ Goes(c, [call[c] EXCEPT !.seen = Used, !.pc = IF Used < limit THEN "insert" ELSE "halt"])

\* The end of enforceDropOldest.
Recheck(c) == LET limit == LimitOf(call[c].percent) IN
  /\ At(c, "recheck")
  /\ \/ Fails(c, "size", [call[c] EXCEPT
                           !.blind = TRUE,
                           !.pc = CASE call[c].first < limit -> "insert"
                                    [] call[c].first >= limit /\ call[c].progress -> "busy"
                                    [] OTHER -> "halt"])
     \/ Goes(c, [call[c] EXCEPT
                  !.seen = Used,
                  !.pc = CASE Used < limit -> "insert"
                           [] Used >= limit /\ call[c].err /\ ~call[c].progress -> "halt"
                           [] OTHER -> "busy"])

\* The INSERT of WriteBatch: a row of any time, late ones come from the spool.
Insert(c) ==
  /\ At(c, "insert")
  /\ \E t \in 0..MaxTime \ rows :
       /\ rows' = rows \cup {t}
       /\ size' = [k \in DOMAIN size \cup {ChunkOf(t)} |->
                     IF k \notin DOMAIN size THEN RowBytes
                     ELSE size[k] + IF k = ChunkOf(t) THEN RowBytes ELSE 0]
  /\ call' = [g \in Caller |-> CASE g = c -> Idle
                                 [] g # c /\ Busy(g) -> [call[g] EXCEPT !.raced = TRUE]
                                 [] OTHER -> call[g]]
  /\ UNCHANGED <<lag, setVars, calls, faults, edits>>

\* The INSERT fails, or the caller has its refusal.
Return(c) == /\ At(c, "insert") \/ At(c, "halt") \/ At(c, "busy")
             /\ Goes(c, Idle)

\* pg_database_size catches up.
Settle == lag > 0 /\ lag' = 0 /\ UNCHANGED <<rows, size, setVars, call, calls, faults, edits>>

Step(c) == \/ LoadPolicy(c) \/ Gate(c) \/ Size(c) \/ List(c) \/ Drop(c) \/ Oldest(c)
           \/ DropOne(c) \/ Span(c) \/ Slice(c) \/ Delete(c) \/ Recheck(c)
           \/ Insert(c) \/ Return(c)

Next == \/ \E c \in Caller : LoadPercent(c) \/ Step(c)
        \/ StorePercent \/ StorePolicy \/ Settle

Spec == Init /\ [][Next]_vars

-----------------------------------------------------------------------------
(* Properties.                                                             *)

\* Every variable has its type; each row lies in a chunk.
TypeOK == /\ rows \subseteq 0..MaxTime
          /\ \A t \in rows : ChunkOf(t) \in DOMAIN size
          /\ \A k \in DOMAIN size : size[k] \in Nat \ {0}
          /\ lag \in Nat
          /\ \A c \in Caller : Busy(c) => /\ call[c].n \in 1..(MaxPasses + MaxRounds + 1)
                                          /\ call[c].cut \in 0..(MaxTime + Width)

\* The latest sample survives every trim, also one whose plan is older than what
\* another caller has dropped or stored since.
LatestSampleKept == [][rows # {} => Max(rows) \in rows']_rows

\* A planned drop goes no further than needed: if the chunks are as they were
\* listed, then without the last of those that go the size it was planned for
\* would not come below the target.  (A drop by another caller in between, not
\* seen, makes two callers drop twice as much.)
TrimIsTight ==
  [][\A c \in Caller :
       Drop(c) /\ call[c].listed = size /\ DOMAIN size' # DOMAIN size =>
         LET ks == DOMAIN size \ DOMAIN size'
         IN call[c].seen - Bytes(size, ks \ {Max(ks)}) >= Target(LimitOf(call[c].percent))]_vars

\* Nothing a trim could drop: it spares the newest chunk and the latest row.
NothingLeft == Cardinality(DOMAIN size) <= 1 /\ Cardinality(rows) < 2

\* What a call ends with fits what the capacity page would show of the size it
\* has read last: over the limit if the write is refused, not over if it goes
\* ahead.  It halts only if no drop is known to have removed anything, and
\* under drop_oldest only where nothing is left to drop, a query of the call
\* failed or another caller interfered; it answers busy without having removed
\* anything only where everything is one chunk, a query failed or another caller
\* interfered.
RefusalsFit ==
  \A c \in Caller :
    LET k == call[c] IN
    /\ At(c, "insert") /\ ~k.blind => ~Reported(k.seen, k.percent).over
    /\ At(c, "halt") \/ At(c, "busy") =>
         Reported(IF k.blind THEN k.first ELSE k.seen, k.percent).over
    /\ At(c, "halt") => ~k.removed
    /\ At(c, "halt") /\ k.policy = "drop_oldest" => NothingLeft \/ k.raced \/ k.faulted
    /\ At(c, "busy") => k.removed \/ k.raced \/ k.faulted \/ Cardinality(DOMAIN size) <= 1

\* A trim works with a percentage and a policy that were configured together,
\* unless SetCapacityPolicy stored one of them between the two loads or the loads
\* fell between its stores.
TrimsAsConfigured ==
  \A c \in Caller : Busy(c) /\ call[c].pc # "policy" =>
    \/ call[c].crossed
    \/ [percent |-> call[c].percent, policy |-> call[c].policy] \in applied

\* How far a call is within its pass.
Stage(pc) == CHOOSE i \in 1..14 :
  <<"policy", "gate", "size", "list", "drop", "oldest", "dropOne", "span", "slice", "delete",
    "recheck", "insert", "busy", "halt">>[i] = pc

\* Whatever fails and however much the others store or drop, each step of a call
\* ends it, gets on within its pass, or begins the next of a bounded number of
\* passes: WriteBatch always answers.
CallsAdvance ==
  [][\A c \in Caller : Step(c) =>
       \/ At(c, "idle")'
       \/ call[c].n < call'[c].n
       \/ call[c].n = call'[c].n /\ Stage(call[c].pc) < Stage(call'[c].pc)]_vars
=============================================================================
