----------------------------- MODULE FlushSpool -----------------------------
(***************************************************************************)
(* The historian leg: flushLoop batches the samples FanIn sends down the   *)
(* channel toHist and writes each batch to TimescaleDB; a batch the        *)
(* database does not take goes to FileSpool, from which replaySpool writes *)
(* it again, oldest file first.  The two loops are goroutines that share   *)
(* the spool directory and the table collector.samples.                    *)
(*                                                                         *)
(* A sample is an identity; all the database sees of it is its primary key *)
(* (time, tag_id), KeyOf[s].  A batch is a sequence of samples.  A file is *)
(* a batch and whether its JSON is complete.                               *)
(***************************************************************************)
EXTENDS Naturals, Sequences, Functions

CONSTANTS Sample,         \* the samples that can be handed over
          Key,            \* primary keys of collector.samples
          KeyOf,          \* the primary key of each sample
          Unmarshalable,  \* samples encoding/json refuses (NaN, infinities)
          Unstorable,     \* samples Postgres refuses (a NUL byte in a text)
          ChanCap,        \* capacity of toHist (2048 in main)
          MaxBatch,       \* batch size that triggers a flush (200)
          MaxSpool,       \* files the spool takes (5000 in main)
          MaxBoots,       \* bound on restarts
          DiskStates,     \* the sets of file operations that may fail together
          Faults          \* {"ackLost"}, or none

ASSUME FlushSpoolAssumption ==
          /\ KeyOf \in [Sample -> Key]
          /\ Unmarshalable \subseteq Sample
          /\ Unstorable \subseteq Sample
          /\ ChanCap \in Nat \ {0}
          /\ MaxBatch \in Nat \ {0}
          /\ MaxSpool \in Nat
          /\ MaxBoots \in Nat
          /\ {} \in DiskStates

VARIABLES
  sent,       \* samples FanIn has handed over
  toHist,     \* the channel
  buf,        \* flushLoop's buffer
  flight,     \* the batch flushLoop is writing or spooling
  flushPc,    \* "select", "write", "enqueue" or "stopped"
  final,      \* the flush in progress is the one of <-ctx.Done()
  spool,      \* the files of the spool directory, oldest first
  replayPc,   \* "select", "write", "remove" or "stopped"
  rows,       \* samples stored as rows of collector.samples
  db,         \* what the next WriteBatch meets
  failing,    \* the file operations that fail: "write", "read", "remove"
  stopping,   \* ctx is cancelled
  boots       \* restarts so far

chanVars   == <<sent, toHist>>
flushVars  == <<buf, flight, flushPc, final>>
replayVars == <<replayPc>>
storeVars  == <<spool, rows>>
envVars    == <<db, failing>>
procVars   == <<stopping, boots>>
vars == <<chanVars, flushVars, replayVars, storeVars, envVars, procVars>>

Verdict == {"open", "down", "halt", "busy"}
File    == [batch : Seq(Sample), ok : BOOLEAN]

\* The types, with the bounds the code puts on the channel, the buffer and the
\* spool directory.
TypeOK ==
  /\ sent \subseteq Sample
  /\ toHist \in Seq(Sample) /\ Len(toHist) <= ChanCap
  /\ buf \in Seq(Sample) /\ Len(buf) < MaxBatch
  /\ flight \in Seq(Sample)
  /\ flushPc \in {"select", "write", "enqueue", "stopped"}
  /\ final \in BOOLEAN
  /\ spool \in Seq(File) /\ Len(spool) <= MaxSpool
  /\ replayPc \in {"select", "write", "remove", "stopped"}
  /\ rows \subseteq Sample
  /\ db \in Verdict
  /\ failing \in DiskStates
  /\ stopping \in BOOLEAN
  /\ boots \in Nat

Init == /\ sent = {} /\ toHist = <<>>
        /\ buf = <<>> /\ flight = <<>> /\ flushPc = "select" /\ final = FALSE
        /\ replayPc = "select"
        /\ spool = <<>> /\ rows = {}
        /\ db \in Verdict /\ failing = {}
        /\ stopping = FALSE /\ boots = 0

-----------------------------------------------------------------------------
(* Historian.WriteBatch: the capacity gate first (ErrCapacityHalt,         *)
(* ErrCapacityBusy), then one INSERT without ON CONFLICT, which stores all *)
(* of the batch or nothing.                                                *)

Keys(S) == {KeyOf[s] : s \in S}

\* The INSERT violates the primary key: two samples of the batch share a key,
\* or one has the key of a row.
Conflicts(batch) ==
  \/ \E i, j \in DOMAIN batch : i # j /\ KeyOf[batch[i]] = KeyOf[batch[j]]
  \/ Keys(Range(batch)) \cap Keys(rows) # {}

\* What no database stores, however often it is tried.
Storable(batch) == ~Conflicts(batch) /\ Range(batch) \cap Unstorable = {}

Gated == db \in {"halt", "busy"}
Insertable(batch) == db = "open" /\ ~stopping /\ Storable(batch)

\* An INSERT whose acknowledgement is lost (connection cut, ctx cancelled
\* while it runs) is committed and reported as an error.
AckLost(batch) == /\ "ackLost" \in Faults
                  /\ db = "open"
                  /\ Storable(batch)

WriteOk(batch)   == Insertable(batch) /\ rows' = rows \cup Range(batch)
\* Mutant: busy is treated like halt, the deferred batch is dropped.
WriteHaltOrBusy == Gated /\ UNCHANGED rows

WriteHalt        == db = "halt" /\ UNCHANGED rows
WriteError(batch) ==
  \/ db = "busy" /\ UNCHANGED rows
  \/ ~Gated /\ ~Insertable(batch) /\ UNCHANGED rows
  \/ AckLost(batch) /\ rows' = rows \cup Range(batch)

-----------------------------------------------------------------------------
(* FanIn's side of the channel: out <- s blocks while the channel is full. *)

Send(s) == /\ ~stopping
           /\ s \notin sent
           /\ Len(toHist) < ChanCap
           /\ sent' = sent \cup {s}
           /\ toHist' = Append(toHist, s)
           /\ UNCHANGED <<flushVars, replayVars, storeVars, envVars, procVars>>

-----------------------------------------------------------------------------
(* flushLoop                                                               *)

\* The closure flush(): the buffer becomes the batch in flight.
StartFlush(batch) == /\ flight' = batch
                     /\ buf' = <<>>
                     /\ flushPc' = "write"

\* case s := <-in
Receive == /\ flushPc = "select"
           /\ toHist # <<>>
           /\ toHist' = Tail(toHist)
           /\ LET b == Append(buf, Head(toHist))
              IN IF Len(b) >= MaxBatch
                 THEN StartFlush(b)
                 ELSE buf' = b /\ UNCHANGED <<flight, flushPc>>
           /\ UNCHANGED <<sent, final, replayVars, storeVars, envVars, procVars>>

\* case <-ticker.C, with something to flush
Tick == /\ flushPc = "select"
        /\ buf # <<>>
        /\ StartFlush(buf)
        /\ UNCHANGED <<chanVars, final, replayVars, storeVars, envVars, procVars>>

\* case <-ctx.Done(): one last flush, then return.  Nobody waits for it.
Done == /\ flushPc = "select"
        /\ stopping
        /\ IF buf = <<>>
           THEN flushPc' = "stopped" /\ UNCHANGED <<buf, flight, final>>
           ELSE StartFlush(buf) /\ final' = TRUE
        /\ UNCHANGED <<chanVars, replayVars, storeVars, envVars, procVars>>

EndFlush == /\ flight' = <<>>
            /\ flushPc' = IF final THEN "stopped" ELSE "select"

\* WriteBatch returns.  A halted batch is dropped on purpose; any other error,
\* busy included, sends it to the spool.  The last flush has a cancelled
\* context: the capacity gate lets it through and the INSERT fails.
FlushWrite == /\ flushPc = "write"
              /\ \/ ~final /\ (WriteOk(flight) \/ WriteHalt) /\ EndFlush
                 \/ /\ IF final THEN UNCHANGED rows ELSE WriteError(flight)
                    /\ flushPc' = "enqueue"
                    /\ UNCHANGED flight
              /\ UNCHANGED <<chanVars, buf, final, replayVars, spool, envVars,
                             procVars>>

Marshalable(batch) == Range(batch) \cap Unmarshalable = {}

\* Mutant: > for >= in the check of the number of files.
SpoolTakesOneMore(batch) ==
  Len(spool) <= MaxSpool /\ Marshalable(batch) /\ "write" \notin failing

SpoolTakes(batch) ==
  Len(spool) < MaxSpool /\ Marshalable(batch) /\ "write" \notin failing

\* Mutant: file names that sort before the ones already there.
AddFileFirst(batch, ok) == spool' = <<[batch |-> batch, ok |-> ok]>> \o spool

AddFile(batch, ok) == spool' = Append(spool, [batch |-> batch, ok |-> ok])

\* Mutant: flushLoop returns when the spool refuses a batch.
EnqueueOrReturn == /\ flushPc = "enqueue"
                   /\ \/ SpoolTakes(flight) /\ AddFile(flight, TRUE) /\ EndFlush
                      \/ /\ ~SpoolTakes(flight)
                         /\ flushPc' = "stopped"
                         /\ UNCHANGED <<spool, flight>>
                   /\ UNCHANGED <<chanVars, buf, final, replayVars, rows, envVars,
                                  procVars>>

\* FileSpool.Enqueue.  When it fails the batch is gone, with a log line; a
\* failed os.WriteFile may leave a truncated file behind.
Enqueue == /\ flushPc = "enqueue"
           /\ \/ SpoolTakes(flight) /\ AddFile(flight, TRUE)
              \/ ~SpoolTakes(flight) /\ UNCHANGED spool
              \/ /\ "write" \in failing /\ Len(spool) < MaxSpool /\ Marshalable(flight)
                 /\ AddFile(flight, FALSE)
           /\ EndFlush
           /\ UNCHANGED <<chanVars, buf, final, replayVars, rows, envVars, procVars>>

-----------------------------------------------------------------------------
(* replaySpool                                                             *)

\* sp.Load reads the file and parses it; sp.Remove may fail, which is ignored.
Loads == Head(spool).ok /\ "read" \notin failing
RemoveHead == spool' = IF "remove" \in failing THEN spool ELSE Tail(spool)

\* Mutant: a file that does not load is skipped, not removed.
ReplayTickSkips == /\ replayPc = "select"
                   /\ spool # <<>>
                   /\ Loads
                   /\ replayPc' = "write"
                   /\ UNCHANGED <<chanVars, flushVars, storeVars, envVars, procVars>>

\* case <-t.C: pick and load the oldest file; one that does not load is removed
\* on the spot, a truncated one and one that could not be read just now alike.
ReplayTick == /\ replayPc = "select"
              /\ spool # <<>>
              /\ \/ Loads /\ replayPc' = "write" /\ UNCHANGED spool
                 \/ ~Loads /\ RemoveHead /\ UNCHANGED replayPc
              /\ UNCHANGED <<chanVars, flushVars, rows, envVars, procVars>>

\* WriteBatch of the loaded batch: any error leaves the file for the next tick.
ReplayWrite == /\ replayPc = "write"
               /\ LET batch == Head(spool).batch
                  IN \/ WriteOk(batch) /\ replayPc' = "remove"
                     \/ (WriteHalt \/ WriteError(batch)) /\ replayPc' = "select"
               /\ UNCHANGED <<chanVars, flushVars, spool, envVars, procVars>>

\* _ = sp.Remove(path)
ReplayRemove == /\ replayPc = "remove"
                /\ RemoveHead
                /\ replayPc' = "select"
                /\ UNCHANGED <<chanVars, flushVars, rows, envVars, procVars>>

\* case <-ctx.Done()
ReplayDone == /\ replayPc = "select"
              /\ stopping
              /\ replayPc' = "stopped"
              /\ UNCHANGED <<chanVars, flushVars, storeVars, envVars, procVars>>

-----------------------------------------------------------------------------
(* The process and its surroundings                                        *)

Shutdown == /\ ~stopping
            /\ stopping' = TRUE
            /\ UNCHANGED <<chanVars, flushVars, replayVars, storeVars, envVars, boots>>

\* The process ends, by a signal or a crash, and starts again: memory is
\* lost, the disk and the database stay.  An Enqueue cut short leaves a
\* complete file, a truncated one or none.
Restart == /\ boots < MaxBoots
           /\ boots' = boots + 1
           /\ stopping' = FALSE
           /\ toHist' = <<>>
           /\ buf' = <<>> /\ flight' = <<>> /\ flushPc' = "select" /\ final' = FALSE
           /\ replayPc' = "select"
           /\ \/ UNCHANGED spool
              \/ /\ flushPc = "enqueue" /\ SpoolTakes(flight)
                 /\ AddFile(flight, FALSE)
           /\ UNCHANGED <<sent, rows, envVars>>

\* The database goes down or comes back, grows over its limit or is trimmed.
DbChanges == /\ db' \in Verdict \ {db}
             /\ UNCHANGED <<chanVars, flushVars, replayVars, storeVars, failing,
                            procVars>>

\* The disk fills up, turns read-only or unreadable, or recovers.
DiskChanges == /\ failing' \in DiskStates \ {failing}
               /\ UNCHANGED <<chanVars, flushVars, replayVars, storeVars, db, procVars>>

-----------------------------------------------------------------------------
Flush  == Receive \/ Tick \/ Done \/ FlushWrite \/ Enqueue
Replay == ReplayTick \/ ReplayWrite \/ ReplayRemove \/ ReplayDone
Env    == Shutdown \/ Restart \/ DbChanges \/ DiskChanges

\* Samples reach the channel in one fixed order.
Upstream == Sample \ sent # {} /\ Send(CHOOSE s \in Sample \ sent : TRUE)

Next == Upstream \/ Flush \/ Replay \/ Env

Spec == Init /\ [][Next]_vars

\* Both loops keep running: their tickers fire, and a call they make returns.
FairSpec == Spec /\ WF_vars(Flush) /\ WF_vars(Replay)

-----------------------------------------------------------------------------
(* Properties                                                              *)

Spooled  == {s \in Sample : \E f \in Range(spool) : f.ok /\ s \in Range(f.batch)}
Volatile == Range(toHist) \cup Range(buf) \cup Range(flight)

PlaceOf(s) == IF s \in rows THEN "stored"
              ELSE IF s \in Spooled THEN "spooled"
              ELSE IF s \in Volatile THEN "volatile"
              ELSE IF s \in sent THEN "lost" ELSE "none"

\* The file replaySpool removes is the one it has just stored, and complete,
\* whatever flushLoop enqueued meanwhile and wherever a crash fell
\* (flush.go:87-111: path is chosen once, two calls before sp.Remove).
ReplayHoldsStoredHead ==
  replayPc \in {"write", "remove"} =>
    /\ spool # <<>>
    /\ Head(spool).ok
    /\ replayPc = "remove" => Range(Head(spool).batch) \subseteq rows

\* Whatever is in memory, on disk or in the table came through the channel.
Accounted == rows \cup Spooled \cup Volatile \subseteq sent

\* A batch is in flight only while it is written or spooled.
FlightIdle == flushPc \in {"select", "stopped"} => flight = <<>>

\* A sample is in one place at a time: what leaves the channel is not left in
\* it, and what is on disk is not in memory.
OnePlace == /\ IsInjective(toHist)
            /\ Range(toHist) \cap (Range(buf) \cup Range(flight)) = {}
            /\ flushPc # "select" => buf = <<>>
            /\ Spooled \cap Volatile = {}

\* The inductive invariant behind ImplementsLedger.
IInv == TypeOK /\ ReplayHoldsStoredHead /\ Accounted /\ FlightIdle /\ OnePlace

Refusing == db = "halt" \/ ~SpoolTakes(flight)

Ledger == INSTANCE SampleLedger WITH place <- [s \in Sample |-> PlaceOf(s)],
                                     refusing <- Refusing,
                                     unreadable <- "read" \in failing

\* Every step of the two loops, of a crash and of a restart moves samples the
\* way the ledger allows: nothing stored is ever lost, a sample on disk only
\* while reading a spool file fails, and one in memory only when a batch is
\* refused or the process restarts (flush.go:21-56 and 73-117, spool.go:31-76).
ImplementsLedger == Ledger!LedgerSpec

\* A sample FanIn handed over does not stay in memory: flushLoop comes back to
\* its select after every failure of the historian and of the spool
\* (flush.go:57-70).  A process that is stopping is excused.
MemoryDrains == \A s \in Sample :
                  s \in Volatile ~> (s \notin Volatile \/ stopping)

Poisoned == spool # <<>> /\ Head(spool).ok /\ ~Storable(Head(spool).batch)

Healthy == db = "open" /\ failing = {} /\ ~stopping

\* Once the database and the disk are healthy for good the spool empties, unless
\* its oldest file holds a key the table already has or a text that Postgres
\* refuses (flush.go:84-111).
DrainsUnlessPoisoned ==
  <>[]Healthy => []<>(spool = <<>> \/ Poisoned)

\* README.md:99: "replay when under limit / DB healthy".
SpoolDrains == <>[]Healthy => []<>(spool = <<>>)
=============================================================================
