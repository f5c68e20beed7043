-------------------------- MODULE FlushSpoolProofs --------------------------
(***************************************************************************)
(* Theorems about FlushSpool for every set of samples, every channel,      *)
(* batch and spool capacity and every combination of faults.               *)
(***************************************************************************)
EXTENDS FlushSpool, TLAPS

-----------------------------------------------------------------------------
(* Sequences seen as the sets of their elements.                           *)

\* Appending to a sequence adds the element to its range.
LEMMA RangeAppend ==
  ASSUME NEW S, NEW q \in Seq(S), NEW e \in S
  PROVE  /\ Append(q, e) \in Seq(S)
         /\ Len(Append(q, e)) = Len(q) + 1
         /\ Range(Append(q, e)) = Range(q) \cup {e}
         /\ q # <<>> => Head(Append(q, e)) = Head(q)
<1>1. /\ Append(q, e) \in Seq(S) /\ Len(Append(q, e)) = Len(q) + 1
      /\ DOMAIN Append(q, e) = 1..(Len(q) + 1) /\ DOMAIN q = 1..Len(q)
      /\ Len(q) \in Nat
  OBVIOUS
<1>2. /\ \A i \in 1..Len(q) : Append(q, e)[i] = q[i]
      /\ Append(q, e)[Len(q) + 1] = e
  OBVIOUS
<1>3. Range(Append(q, e)) = Range(q) \cup {e}
  <2>1. \A i \in 1..(Len(q) + 1) : i \in 1..Len(q) \/ i = Len(q) + 1
    BY <1>1
  <2>2. \A i \in 1..Len(q) : i \in 1..(Len(q) + 1)
    BY <1>1
  <2>3. Len(q) + 1 \in 1..(Len(q) + 1)
    BY <1>1
  <2> QED BY <1>1, <1>2, <2>1, <2>2, <2>3, Zenon DEF Range
<1>4. q # <<>> => Head(Append(q, e)) = Head(q)
  BY <1>1, <1>2
<1> QED BY <1>1, <1>3, <1>4

\* A non-empty sequence is its head and its tail.
LEMMA RangeHeadTail ==
  ASSUME NEW S, NEW q \in Seq(S), q # <<>>
  PROVE  /\ Head(q) \in S
         /\ Tail(q) \in Seq(S)
         /\ Len(Tail(q)) = Len(q) - 1
         /\ Range(q) = {Head(q)} \cup Range(Tail(q))
<1>1. /\ Head(q) \in S /\ Tail(q) \in Seq(S) /\ Len(Tail(q)) = Len(q) - 1
      /\ Len(q) \in Nat /\ Len(q) >= 1
      /\ DOMAIN q = 1..Len(q) /\ DOMAIN Tail(q) = 1..(Len(q) - 1)
      /\ Head(q) = q[1]
  OBVIOUS
<1>2. \A i \in 1..(Len(q) - 1) : Tail(q)[i] = q[i + 1]
  OBVIOUS
<1>3. Range(Tail(q)) \subseteq Range(q)
  <2>1. ASSUME NEW i \in 1..(Len(q) - 1) PROVE Tail(q)[i] \in Range(q)
    <3>1. i + 1 \in DOMAIN q /\ Tail(q)[i] = q[i + 1]
      BY <1>1, <1>2
    <3> QED BY <3>1, Zenon DEF Range
  <2> QED BY <1>1, <2>1, Zenon DEF Range
<1>4. ASSUME NEW i \in 1..Len(q)
      PROVE  q[i] = Head(q) \/ q[i] \in Range(Tail(q))
  <2>1. CASE i = 1
    BY <1>1, <2>1
  <2>2. CASE i # 1
    <3>1. i - 1 \in 1..(Len(q) - 1) /\ (i - 1) + 1 = i
      BY <1>1, <2>2
    <3>2. Tail(q)[i - 1] = q[i]
      BY <1>2, <3>1
    <3> QED BY <1>1, <3>1, <3>2, Zenon DEF Range
  <2> QED BY <2>1, <2>2
<1>5. Head(q) \in Range(q)
  BY <1>1 DEF Range
<1>6. Range(q) = {Head(q)} \cup Range(Tail(q))
  <2>1. Range(q) \subseteq {Head(q)} \cup Range(Tail(q))
    BY <1>1, <1>4, Zenon DEF Range
  <2> QED BY <1>3, <1>5, <2>1
<1> QED BY <1>1, <1>6

\* The empty sequence, and the elements of a sequence over S.
LEMMA RangeBasics ==
  /\ Range(<<>>) = {} /\ Len(<<>>) = 0
  /\ \A S : <<>> \in Seq(S)
  /\ \A S : \A q \in Seq(S) : Range(q) \subseteq S
<1>1. Range(<<>>) = {} /\ Len(<<>>) = 0 /\ \A S : <<>> \in Seq(S)
  BY DEF Range
<1>2. ASSUME NEW S, NEW q \in Seq(S) PROVE Range(q) \subseteq S
  BY DEF Range
<1> QED BY <1>1, <1>2

-----------------------------------------------------------------------------
(* Type correctness, with the bounds of the channel, the buffer and the    *)
(* spool directory.                                                        *)

\* The initial state has the types.
LEMMA InitTypeOK == Init => TypeOK
<1> SUFFICES ASSUME Init PROVE TypeOK
  OBVIOUS
<1>1. /\ <<>> \in Seq(Sample) /\ <<>> \in Seq(File)
      /\ 0 <= ChanCap /\ 0 < MaxBatch /\ 0 <= MaxSpool
      /\ {} \in DiskStates
  BY FlushSpoolAssumption, RangeBasics
<1> QED BY <1>1, RangeBasics DEF Init, TypeOK

\* WriteBatch only adds samples of its batch to the table.
LEMMA WriteBatchRows ==
  ASSUME NEW batch, Range(batch) \subseteq Sample, rows \subseteq Sample,
         WriteOk(batch) \/ WriteHalt \/ WriteError(batch)
  PROVE  /\ rows \subseteq rows' /\ rows' \subseteq Sample
         /\ rows' \subseteq rows \cup Range(batch)
  BY DEF WriteOk, WriteHalt, WriteError

\* A new file goes behind the files already there.
LEMMA AddFileType ==
  ASSUME TypeOK, NEW ok \in BOOLEAN, AddFile(flight, ok), Len(spool) < MaxSpool
  PROVE  spool' \in Seq(File) /\ Len(spool') <= MaxSpool
<1>1. [batch |-> flight, ok |-> ok] \in File
  BY DEF TypeOK, File
<1> QED BY <1>1, FlushSpoolAssumption, RangeAppend DEF TypeOK, AddFile

\* Removing the oldest file leaves a shorter spool.
LEMMA TailType ==
  ASSUME TypeOK, spool # <<>>
  PROVE  Tail(spool) \in Seq(File) /\ Len(Tail(spool)) <= MaxSpool
<1>1. Tail(spool) \in Seq(File) /\ Len(Tail(spool)) = Len(spool) - 1
  BY RangeHeadTail DEF TypeOK
<1>2. Len(spool) <= MaxSpool /\ Len(spool) \in Nat /\ MaxSpool \in Nat
  BY FlushSpoolAssumption DEF TypeOK
<1> QED BY <1>1, <1>2

\* The head of the spool is removed, or stays where it cannot be.
LEMMA RemoveHeadType ==
  ASSUME TypeOK, spool # <<>>, RemoveHead
  PROVE  /\ spool' \in Seq(File) /\ Len(spool') <= MaxSpool
         /\ spool' = spool \/ spool' = Tail(spool)
BY TailType DEF TypeOK, RemoveHead

\* flushLoop takes one sample from the channel.
LEMMA ReceiveTypeOK == TypeOK /\ Receive => TypeOK'
<1> SUFFICES ASSUME TypeOK, Receive PROVE TypeOK'
  OBVIOUS
<1> DEFINE b == Append(buf, Head(toHist))
<1>1. /\ toHist' \in Seq(Sample) /\ Len(toHist') <= ChanCap
      /\ b \in Seq(Sample) /\ Len(b) = Len(buf) + 1
  BY RangeHeadTail, RangeAppend, FlushSpoolAssumption DEF TypeOK, Receive
<1>2. /\ buf' \in Seq(Sample) /\ Len(buf') < MaxBatch
      /\ flight' \in Seq(Sample) /\ flushPc' \in {"select", "write", "enqueue", "stopped"}
  <2>1. CASE Len(b) >= MaxBatch
    <3>1. buf' = <<>> /\ flight' = b /\ flushPc' = "write"
      BY <2>1 DEF Receive, StartFlush
    <3>2. 0 < MaxBatch
      BY FlushSpoolAssumption
    <3> HIDE DEF b
    <3> QED BY <3>1, <3>2, <1>1, RangeBasics
  <2>2. CASE ~(Len(b) >= MaxBatch)
    <3>1. buf' = b /\ flight' = flight /\ flushPc' = flushPc
      BY <2>2 DEF Receive
    <3> HIDE DEF b
    <3> QED BY <2>2, <3>1, <1>1, FlushSpoolAssumption DEF TypeOK
  <2> QED BY <2>1, <2>2
<1> QED BY <1>1, <1>2 DEF TypeOK, Receive, replayVars, storeVars, envVars, procVars

\* Every step keeps the types, given that replaySpool holds a file.
LEMMA NextTypeOK == TypeOK /\ ReplayHoldsStoredHead /\ [Next]_vars => TypeOK'
<1> SUFFICES ASSUME TypeOK, ReplayHoldsStoredHead, [Next]_vars PROVE TypeOK'
  OBVIOUS
<1>0. /\ 0 <= ChanCap /\ 0 < MaxBatch /\ 0 <= MaxSpool
      /\ ChanCap \in Nat /\ MaxBatch \in Nat /\ MaxSpool \in Nat /\ MaxBoots \in Nat
  BY FlushSpoolAssumption
<1>1. ASSUME NEW s \in Sample, Send(s) PROVE TypeOK'
  <2>1. toHist' \in Seq(Sample) /\ Len(toHist') <= ChanCap
    BY <1>0, <1>1, RangeAppend DEF TypeOK, Send
  <2> QED BY <1>1, <2>1
          DEF TypeOK, Send, flushVars, replayVars, storeVars, envVars, procVars
<1>2. CASE Receive
  BY <1>2, ReceiveTypeOK
<1>3. CASE Tick
  BY <1>0, <1>3, RangeBasics
     DEF TypeOK, Tick, StartFlush, chanVars, replayVars, storeVars, envVars, procVars
<1>4. CASE Done
  <2>1. /\ buf' \in Seq(Sample) /\ Len(buf') < MaxBatch
        /\ flight' \in Seq(Sample) /\ final' \in BOOLEAN
        /\ flushPc' \in {"select", "write", "enqueue", "stopped"}
    BY <1>0, <1>4, RangeBasics DEF TypeOK, Done, StartFlush
  <2> QED BY <1>4, <2>1 DEF TypeOK, Done, chanVars, replayVars, storeVars, envVars, procVars
<1>5. CASE FlushWrite
  <2>1. Range(flight) \subseteq Sample
    BY RangeBasics DEF TypeOK
  <2>2. rows' \subseteq Sample
    <3>1. CASE UNCHANGED rows
      BY <3>1 DEF TypeOK
    <3>2. CASE WriteOk(flight) \/ WriteHalt \/ WriteError(flight)
      BY <2>1, <3>2, WriteBatchRows DEF TypeOK
    <3> QED BY <1>5, <3>1, <3>2 DEF FlushWrite
  <2>3. /\ flight' \in Seq(Sample)
        /\ flushPc' \in {"select", "write", "enqueue", "stopped"}
    BY <1>5, RangeBasics DEF TypeOK, FlushWrite, EndFlush
  <2> QED BY <1>5, <2>2, <2>3 DEF TypeOK, FlushWrite, chanVars, replayVars, envVars, procVars
<1>6. CASE Enqueue
  <2>1. spool' \in Seq(File) /\ Len(spool') <= MaxSpool
    <3>1. CASE AddFile(flight, TRUE) /\ Len(spool) < MaxSpool
      BY <3>1, AddFileType
    <3>2. CASE AddFile(flight, FALSE) /\ Len(spool) < MaxSpool
      BY <3>2, AddFileType
    <3>3. CASE UNCHANGED spool
      BY <3>3 DEF TypeOK
    <3> QED BY <1>6, <3>1, <3>2, <3>3 DEF Enqueue, SpoolTakes
  <2>2. /\ flight' \in Seq(Sample)
        /\ flushPc' \in {"select", "write", "enqueue", "stopped"}
    BY <1>6, RangeBasics DEF TypeOK, Enqueue, EndFlush
  <2> QED BY <1>6, <2>1, <2>2 DEF TypeOK, Enqueue, chanVars, replayVars, envVars, procVars
<1>7. CASE ReplayTick
  <2>1. spool' \in Seq(File) /\ Len(spool') <= MaxSpool
    BY <1>7, RemoveHeadType DEF TypeOK, ReplayTick
  <2> QED BY <1>7, <2>1 DEF TypeOK, ReplayTick, chanVars, flushVars, envVars, procVars
<1>8. CASE ReplayWrite
  <2>0. Head(spool) \in File
    BY <1>8, RangeHeadTail DEF TypeOK, ReplayHoldsStoredHead, ReplayWrite
  <2>1. Range(Head(spool).batch) \subseteq Sample
    BY <2>0, RangeBasics DEF File
  <2>2. rows' \subseteq Sample
    BY <1>8, <2>1, WriteBatchRows DEF TypeOK, ReplayWrite
  <2> QED BY <1>8, <2>2
          DEF TypeOK, ReplayWrite, chanVars, flushVars, envVars, procVars
<1>9. CASE ReplayRemove
  <2>1. spool # <<>>
    BY <1>9 DEF ReplayHoldsStoredHead, ReplayRemove
  <2>2. spool' \in Seq(File) /\ Len(spool') <= MaxSpool
    BY <1>9, <2>1, RemoveHeadType DEF ReplayRemove
  <2> QED BY <1>9, <2>2 DEF TypeOK, ReplayRemove, chanVars, flushVars, envVars, procVars
<1>10. CASE Restart
  <2>1. spool' \in Seq(File) /\ Len(spool') <= MaxSpool
    <3>1. CASE AddFile(flight, FALSE) /\ Len(spool) < MaxSpool
      BY <3>1, AddFileType
    <3>2. CASE UNCHANGED spool
      BY <3>2 DEF TypeOK
    <3> QED BY <1>10, <3>1, <3>2 DEF Restart, SpoolTakes
  <2>2. boots' \in Nat
    BY <1>10 DEF TypeOK, Restart
  <2>3. /\ toHist' \in Seq(Sample) /\ Len(toHist') <= ChanCap
        /\ buf' \in Seq(Sample) /\ Len(buf') < MaxBatch
        /\ flight' \in Seq(Sample)
    BY <1>0, <1>10, RangeBasics DEF Restart
  <2> QED BY <1>10, <2>1, <2>2, <2>3 DEF TypeOK, Restart, envVars
<1>11. CASE Shutdown \/ DbChanges
  BY <1>11 DEF TypeOK, Shutdown, DbChanges, chanVars, flushVars, replayVars,
               storeVars, envVars, procVars
<1>14. CASE DiskChanges
  <2>1. failing' \in DiskStates
    BY <1>14, Zenon DEF DiskChanges
  <2> QED BY <1>14, <2>1 DEF TypeOK, DiskChanges, chanVars, flushVars, replayVars,
                            storeVars, procVars
<1>15. CASE ReplayDone
  BY <1>15 DEF TypeOK, ReplayDone, chanVars, flushVars, storeVars, envVars, procVars
<1>12. CASE UNCHANGED vars
  BY <1>12 DEF TypeOK, vars, chanVars, flushVars, replayVars, storeVars, envVars, procVars
<1>13. CASE Upstream
  <2>1. PICK s \in Sample : Send(s)
    BY <1>13, Zenon DEF Upstream
  <2> QED BY <2>1, <1>1
<1> QED BY <1>2, <1>3, <1>4, <1>5, <1>6, <1>7, <1>8, <1>9, <1>10, <1>11, <1>12, <1>13, <1>14, <1>15
        DEF Next, Flush, Replay, Env

-----------------------------------------------------------------------------
(* replaySpool removes the file it has stored.                             *)

\* A file added behind a non-empty spool leaves its head alone.
LEMMA AddFileKeepsHead ==
  ASSUME TypeOK, NEW ok \in BOOLEAN, AddFile(flight, ok), spool # <<>>
  PROVE  spool' # <<>> /\ Head(spool') = Head(spool)
<1>1. [batch |-> flight, ok |-> ok] \in File
  BY DEF TypeOK, File
<1>2. spool' = Append(spool, [batch |-> flight, ok |-> ok])
  BY DEF AddFile
<1>3. Len(spool') = Len(spool) + 1 /\ Len(spool) \in Nat /\ Head(spool') = Head(spool)
  BY <1>1, <1>2, RangeAppend DEF TypeOK
<1> QED BY <1>3, RangeBasics

\* The step of each goroutine, a crash included, keeps replaySpool's file at
\* the head of the spool until it is stored.
LEMMA NextReplayHolds ==
  TypeOK /\ ReplayHoldsStoredHead /\ [Next]_vars => ReplayHoldsStoredHead'
<1> SUFFICES ASSUME TypeOK, ReplayHoldsStoredHead, [Next]_vars
             PROVE  ReplayHoldsStoredHead'
  OBVIOUS
<1>1. CASE UNCHANGED <<spool, replayPc>> /\ rows \subseteq rows'
  BY <1>1 DEF ReplayHoldsStoredHead
<1>2. CASE FlushWrite
  <2>1. rows \subseteq rows' /\ UNCHANGED <<spool, replayPc>>
    BY <1>2, RangeBasics
       DEF TypeOK, FlushWrite, WriteOk, WriteHalt, WriteError, replayVars
  <2> QED BY <2>1, <1>1
<1>3. CASE Enqueue
  <2>1. rows' = rows /\ replayPc' = replayPc
    BY <1>3 DEF Enqueue, replayVars
  <2>2. CASE UNCHANGED spool
    BY <2>1, <2>2, <1>1
  <2>3. CASE AddFile(flight, TRUE) \/ AddFile(flight, FALSE)
    BY <2>1, <2>3, AddFileKeepsHead DEF ReplayHoldsStoredHead
  <2> QED BY <1>3, <2>2, <2>3 DEF Enqueue
<1>4. CASE ReplayTick
  BY <1>4 DEF ReplayHoldsStoredHead, ReplayTick, Loads
<1>5. CASE ReplayWrite
  <2>1. spool # <<>> /\ Head(spool).ok /\ spool' = spool
    BY <1>5 DEF ReplayHoldsStoredHead, ReplayWrite
  <2>2. replayPc' = "remove" => Range(Head(spool).batch) \subseteq rows'
    BY <1>5 DEF ReplayWrite, WriteOk
  <2> QED BY <2>1, <2>2 DEF ReplayHoldsStoredHead
<1>6. CASE ReplayRemove \/ ReplayDone \/ Restart
  BY <1>6 DEF ReplayHoldsStoredHead, ReplayRemove, ReplayDone, Restart
<1>7. CASE Upstream \/ Receive \/ Tick \/ Done
  BY <1>7, <1>1 DEF Upstream, Send, Receive, Tick, Done, replayVars, storeVars
<1>8. CASE Shutdown \/ DbChanges \/ DiskChanges
  BY <1>8, <1>1 DEF Shutdown, DbChanges, DiskChanges, replayVars, storeVars
<1>9. CASE UNCHANGED vars
  BY <1>9, <1>1 DEF vars, replayVars, storeVars
<1> QED BY <1>2, <1>3, <1>4, <1>5, <1>6, <1>7, <1>8, <1>9 DEF Next, Flush, Replay, Env

\* The variables of flushLoop, replaySpool, the spool and the table keep their
\* types, and the channel, the buffer and the spool directory their bounds;
\* and the file replaySpool is about to remove is the stored, complete file at
\* the head of the spool (flush.go:17-117, spool.go:31-76).
THEOREM TypesAndReplayHold == Spec => [](TypeOK /\ ReplayHoldsStoredHead)
<1>1. Init => TypeOK /\ ReplayHoldsStoredHead
  BY InitTypeOK DEF Init, ReplayHoldsStoredHead
<1>2. TypeOK /\ ReplayHoldsStoredHead /\ [Next]_vars => (TypeOK /\ ReplayHoldsStoredHead)'
  BY NextTypeOK, NextReplayHolds
<1> QED BY <1>1, <1>2, PTL DEF Spec

\* Every variable has its type; buffer, spool and channel keep their capacities
\* (flush.go:16-18, spool.go:50-56).
THEOREM TypesHold == Spec => []TypeOK
<1> QED BY TypesAndReplayHold, PTL

-----------------------------------------------------------------------------
(* FlushSpool implements SampleLedger.                                     *)

\* A sample that arrives is added to memory.
LEMMA SendVolatile ==
  ASSUME TypeOK, NEW s \in Sample, Send(s)
  PROVE  Volatile' = Volatile \cup {s}
BY RangeAppend DEF TypeOK, Send, Volatile, flushVars

\* Filling the buffer and starting a flush keep the samples in memory.
LEMMA BufferVolatile ==
  ASSUME TypeOK, FlightIdle, Receive \/ Tick \/ Done
  PROVE  Volatile' = Volatile
<1>1. CASE Receive
  <2>1. /\ Head(toHist) \in Sample
        /\ Range(toHist) = {Head(toHist)} \cup Range(toHist')
    BY <1>1, RangeHeadTail DEF TypeOK, Receive
  <2>2. Range(Append(buf, Head(toHist))) = Range(buf) \cup {Head(toHist)}
    BY <2>1, RangeAppend DEF TypeOK
  <2>3. flight = <<>>
    BY <1>1 DEF FlightIdle, Receive
  <2>4. \/ buf' = <<>> /\ flight' = Append(buf, Head(toHist))
        \/ buf' = Append(buf, Head(toHist)) /\ flight' = flight
    BY <1>1 DEF Receive, StartFlush
  <2>5. CASE buf' = <<>> /\ flight' = Append(buf, Head(toHist))
    BY <2>1, <2>2, <2>3, <2>5, RangeBasics DEF Volatile
  <2>6. CASE buf' = Append(buf, Head(toHist)) /\ flight' = flight
    BY <2>1, <2>2, <2>6 DEF Volatile
  <2> QED BY <2>4, <2>5, <2>6
<1>2. CASE Tick \/ Done
  <2>1. flight = <<>> /\ toHist' = toHist
    BY <1>2 DEF FlightIdle, Tick, Done, chanVars
  <2>2. \/ buf' = buf /\ flight' = flight
        \/ buf' = <<>> /\ flight' = buf
    BY <1>2 DEF Tick, Done, StartFlush
  <2> QED BY <2>1, <2>2, RangeBasics DEF Volatile
<1> QED BY <1>1, <1>2

\* Only the batch in flight leaves memory when WriteBatch or Enqueue returns.
LEMMA FlightVolatile ==
  ASSUME FlushWrite \/ Enqueue
  PROVE  /\ Volatile' \subseteq Volatile
         /\ Volatile \subseteq Volatile' \cup Range(flight)
<1>1. toHist' = toHist /\ buf' = buf /\ (flight' = <<>> \/ flight' = flight)
  BY DEF FlushWrite, Enqueue, EndFlush, chanVars
<1> QED BY <1>1, RangeBasics DEF Volatile

\* A complete file adds its batch to the spooled samples, a truncated one
\* adds nothing.
LEMMA AddFileSpooled ==
  ASSUME TypeOK, NEW ok \in BOOLEAN, AddFile(flight, ok)
  PROVE  Spooled' = IF ok THEN Spooled \cup Range(flight) ELSE Spooled
<1> DEFINE f == [batch |-> flight, ok |-> ok]
<1>1. f \in File /\ f.ok = ok /\ f.batch = flight
  BY DEF TypeOK, File
<1>2. Range(spool') = Range(spool) \cup {f}
  BY <1>1, RangeAppend DEF TypeOK, AddFile
<1>3. Range(flight) \subseteq Sample
  BY RangeBasics DEF TypeOK
<1> HIDE DEF f
<1> QED BY <1>1, <1>2, <1>3 DEF Spooled

\* Removing the oldest file takes at most its batch from the spooled samples.
LEMMA TailSpooled ==
  ASSUME TypeOK, spool # <<>>, spool' = Tail(spool)
  PROVE  /\ Spooled' \subseteq Spooled
         /\ Spooled \subseteq Spooled' \cup
              (IF Head(spool).ok THEN Range(Head(spool).batch) ELSE {})
<1>1. Range(spool) = {Head(spool)} \cup Range(spool')
  BY RangeHeadTail DEF TypeOK
<1> QED BY <1>1 DEF Spooled

\* The batch replaySpool has loaded is spooled.
LEMMA HeadSpooled ==
  ASSUME TypeOK, spool # <<>>, Head(spool).ok
  PROVE  Range(Head(spool).batch) \subseteq Spooled
<1>1. Head(spool) \in Range(spool) /\ Head(spool) \in File
  BY RangeHeadTail DEF TypeOK
<1>2. Range(Head(spool).batch) \subseteq Sample
  BY <1>1, RangeBasics DEF File
<1> QED BY <1>1, <1>2 DEF Spooled

\* What a step of the next-state relation may do to the three places.  Each
\* line is one kind of ledger step.
Arrives(s)  == /\ s \notin sent /\ sent' = sent \cup {s}
               /\ Volatile' = Volatile \cup {s}
               /\ Spooled' = Spooled /\ rows' = rows /\ boots' = boots
Stores      == /\ sent' = sent /\ boots' = boots
               /\ rows \subseteq rows' /\ rows' \subseteq rows \cup Volatile \cup Spooled
               /\ Volatile' \subseteq Volatile /\ Spooled' \subseteq Spooled
               /\ Volatile \subseteq Volatile' \cup rows'
               /\ Spooled \subseteq Spooled' \cup rows'
SpoolsBatch == /\ sent' = sent /\ boots' = boots /\ rows' = rows
               /\ Spooled \subseteq Spooled' /\ Spooled' \subseteq Spooled \cup Volatile
               /\ Volatile' \subseteq Volatile /\ Volatile \subseteq Volatile' \cup Spooled'
Refuses     == /\ Refusing
               /\ sent' = sent /\ boots' = boots /\ rows' = rows /\ Spooled' = Spooled
               /\ Volatile' \subseteq Volatile
Discards    == /\ "read" \in failing
               /\ sent' = sent /\ boots' = boots /\ rows' = rows
               /\ Volatile' = Volatile /\ Spooled' \subseteq Spooled
Restarts    == /\ sent' = sent /\ boots' = boots + 1 /\ rows' = rows
               /\ Spooled' = Spooled /\ Volatile' = {}

\* Every step of FlushSpool is of one of those kinds.
LEMMA StepKinds ==
  ASSUME IInv, [Next]_vars
  PROVE  \/ \E s \in Sample : Arrives(s)
         \/ Stores \/ SpoolsBatch \/ Refuses \/ Discards \/ Restarts
<1> USE DEF IInv
<1>1. ASSUME NEW s \in Sample, Send(s) PROVE Arrives(s)
  BY <1>1, SendVolatile DEF Send, Arrives, Spooled, storeVars, procVars
<1>2. CASE Receive \/ Tick \/ Done
  <2>1. UNCHANGED <<sent, boots, rows, spool>>
    BY <1>2 DEF Receive, Tick, Done, chanVars, storeVars, procVars
  <2> QED BY <1>2, <2>1, BufferVolatile DEF Stores, Spooled
<1>3. CASE FlushWrite
  <2>1. /\ UNCHANGED <<sent, boots, spool>> /\ Spooled' = Spooled
        /\ Range(flight) \subseteq Sample /\ Range(flight) \subseteq Volatile
        /\ Volatile' \subseteq Volatile /\ Volatile \subseteq Volatile' \cup Range(flight)
    BY <1>3, FlightVolatile, RangeBasics
       DEF TypeOK, FlushWrite, chanVars, procVars, Spooled, Volatile
  <2>2. CASE WriteOk(flight)
    BY <2>1, <2>2 DEF Stores, WriteOk
  <2>3. CASE WriteHalt
    BY <2>1, <2>3 DEF Refuses, Refusing, WriteHalt
  <2>4. CASE WriteError(flight) /\ UNCHANGED flight
    <3>1. /\ rows \subseteq rows' /\ rows' \subseteq rows \cup Range(flight)
      BY <2>4 DEF WriteError
    <3>2. Volatile' = Volatile
      BY <1>3, <2>4 DEF FlushWrite, chanVars, Volatile
    <3> QED BY <2>1, <3>1, <3>2 DEF Stores
  <2>5. CASE UNCHANGED <<rows, flight>>
    <3>1. Volatile' = Volatile
      BY <1>3, <2>5 DEF FlushWrite, chanVars, Volatile
    <3> QED BY <2>1, <2>5, <3>1 DEF Stores
  <2> QED BY <1>3, <2>2, <2>3, <2>4, <2>5 DEF FlushWrite
<1>4. CASE Enqueue
  <2>1. /\ UNCHANGED <<sent, boots, rows>>
        /\ Range(flight) \subseteq Volatile
        /\ Volatile' \subseteq Volatile /\ Volatile \subseteq Volatile' \cup Range(flight)
    BY <1>4, FlightVolatile DEF Enqueue, chanVars, procVars, Volatile
  <2>2. CASE AddFile(flight, TRUE)
    BY <2>1, <2>2, AddFileSpooled DEF SpoolsBatch
  <2>3. CASE ~SpoolTakes(flight) /\ UNCHANGED spool
    BY <2>1, <2>3 DEF Refuses, Refusing, Spooled
  <2>4. CASE "write" \in failing /\ AddFile(flight, FALSE)
    <3>1. Spooled' = Spooled
      BY <2>4, AddFileSpooled
    <3>2. Refusing
      BY <2>4 DEF Refusing, SpoolTakes
    <3> QED BY <2>1, <3>1, <3>2 DEF Refuses
  <2> QED BY <1>4, <2>2, <2>3, <2>4 DEF Enqueue
<1>5. CASE ReplayTick
  <2>1. UNCHANGED <<sent, boots, rows>> /\ Volatile' = Volatile
    BY <1>5 DEF ReplayTick, chanVars, flushVars, procVars, Volatile
  <2>2. CASE spool' = spool
    BY <2>1, <2>2 DEF Stores, Spooled
  <2>3. CASE spool' = Tail(spool) /\ ~Loads
    <3>1. /\ Spooled' \subseteq Spooled
          /\ Spooled \subseteq Spooled' \cup
               (IF Head(spool).ok THEN Range(Head(spool).batch) ELSE {})
      BY <1>5, <2>3, TailSpooled DEF ReplayTick
    <3>2. CASE "read" \in failing
      BY <2>1, <3>1, <3>2 DEF Discards
    <3>3. CASE "read" \notin failing
      BY <2>1, <2>3, <3>1, <3>3 DEF Loads, Stores
    <3> QED BY <3>2, <3>3
  <2> QED BY <1>5, <2>2, <2>3 DEF ReplayTick, RemoveHead
<1>6. CASE ReplayWrite
  <2> DEFINE batch == Head(spool).batch
  <2>1. /\ UNCHANGED <<sent, boots>> /\ Volatile' = Volatile /\ Spooled' = Spooled
    BY <1>6 DEF ReplayWrite, chanVars, flushVars, procVars, Volatile, Spooled
  <2>2. Range(batch) \subseteq Spooled
    BY <1>6, HeadSpooled DEF ReplayWrite, ReplayHoldsStoredHead
  <2>3. rows \subseteq rows' /\ rows' \subseteq rows \cup Range(batch)
    BY <1>6 DEF ReplayWrite, WriteOk, WriteHalt, WriteError
  <2> QED BY <2>1, <2>2, <2>3 DEF Stores
<1>7. CASE ReplayRemove
  <2>1. UNCHANGED <<sent, boots, rows>> /\ Volatile' = Volatile
    BY <1>7 DEF ReplayRemove, chanVars, flushVars, procVars, Volatile
  <2>2. spool # <<>> /\ Head(spool).ok /\ Range(Head(spool).batch) \subseteq rows
    BY <1>7 DEF ReplayRemove, ReplayHoldsStoredHead
  <2>3. CASE spool' = Tail(spool)
    BY <2>1, <2>2, <2>3, TailSpooled DEF Stores
  <2>4. CASE UNCHANGED spool
    BY <2>1, <2>4 DEF Stores, Spooled
  <2> QED BY <1>7, <2>3, <2>4 DEF ReplayRemove, RemoveHead
<1>8. CASE Restart
  <2>1. UNCHANGED <<sent, rows>> /\ boots' = boots + 1 /\ Volatile' = {}
    BY <1>8, RangeBasics DEF Restart, Volatile
  <2>2. Spooled' = Spooled
    <3>1. CASE UNCHANGED spool
      BY <3>1 DEF Spooled
    <3>2. CASE AddFile(flight, FALSE)
      BY <3>2, AddFileSpooled
    <3> QED BY <1>8, <3>1, <3>2 DEF Restart
  <2> QED BY <2>1, <2>2 DEF Restarts
<1>9. CASE ReplayDone \/ Shutdown \/ DbChanges \/ DiskChanges \/ UNCHANGED vars
  BY <1>9 DEF ReplayDone, Shutdown, DbChanges, DiskChanges, vars, chanVars, flushVars, storeVars,
              procVars, Stores, Volatile, Spooled
<1>10. CASE Upstream
  <2>1. PICK s \in Sample : Send(s)
    BY <1>10, Zenon DEF Upstream
  <2> QED BY <2>1, <1>1
<1> QED BY <1>2, <1>3, <1>4, <1>5, <1>6, <1>7, <1>8, <1>9, <1>10
        DEF Next, Flush, Replay, Env

\* An injective sequence stays so with a new element, and without its head,
\* which is not in its tail.
LEMMA InjectiveSeq ==
  ASSUME NEW S, NEW q \in Seq(S), IsInjective(q)
  PROVE  /\ \A e \in S : e \notin Range(q) => IsInjective(Append(q, e))
         /\ q # <<>> => IsInjective(Tail(q)) /\ Head(q) \notin Range(Tail(q))
<1>1. ASSUME NEW e \in S, e \notin Range(q) PROVE IsInjective(Append(q, e))
  <2>1. /\ DOMAIN Append(q, e) = 1..(Len(q) + 1) /\ DOMAIN q = 1..Len(q) /\ Len(q) \in Nat
        /\ \A i \in 1..Len(q) : Append(q, e)[i] = q[i]
        /\ Append(q, e)[Len(q) + 1] = e
    OBVIOUS
  <2>2. \A i \in 1..(Len(q) + 1) : i \in 1..Len(q) \/ i = Len(q) + 1
    BY <2>1
  <2>3. \A i \in 1..Len(q) : q[i] # e
    BY <1>1, <2>1, Zenon DEF Range
  <2>4. \A i, j \in 1..Len(q) : q[i] = q[j] => i = j
    BY <2>1, Zenon DEF IsInjective
  <2>5. ASSUME NEW i \in 1..(Len(q) + 1), NEW j \in 1..(Len(q) + 1),
               Append(q, e)[i] = Append(q, e)[j]
        PROVE  i = j
    <3>1. CASE i \in 1..Len(q) /\ j \in 1..Len(q)
      BY <2>1, <2>4, <2>5, <3>1, Zenon
    <3>2. CASE i = Len(q) + 1 \/ j = Len(q) + 1
      BY <2>1, <2>2, <2>3, <2>5, <3>2, Zenon
    <3> QED BY <2>2, <3>1, <3>2, Zenon
  <2> QED BY <2>1, <2>5, Zenon DEF IsInjective
<1>2. ASSUME q # <<>> PROVE IsInjective(Tail(q)) /\ Head(q) \notin Range(Tail(q))
  <2>1. /\ Len(q) \in Nat /\ Len(q) >= 1 /\ DOMAIN q = 1..Len(q)
        /\ DOMAIN Tail(q) = 1..(Len(q) - 1) /\ Head(q) = q[1]
    BY <1>2
  <2>2. \A i \in 1..(Len(q) - 1) : Tail(q)[i] = q[i + 1]
    BY <1>2
  <2>3. \A i, j \in 1..Len(q) : q[i] = q[j] => i = j
    BY <2>1, Zenon DEF IsInjective
  <2>4. IsInjective(Tail(q))
    <3>1. ASSUME NEW i \in 1..(Len(q) - 1), NEW j \in 1..(Len(q) - 1),
                 Tail(q)[i] = Tail(q)[j]
          PROVE  i = j
      <4>1. i + 1 \in 1..Len(q) /\ j + 1 \in 1..Len(q)
        BY <2>1
      <4>2. i + 1 = j + 1
        BY <2>2, <2>3, <3>1, <4>1
      <4> QED BY <4>2
    <3> QED BY <2>1, <3>1, Zenon DEF IsInjective
  <2>5. ASSUME NEW i \in 1..(Len(q) - 1) PROVE Tail(q)[i] # Head(q)
    <3>1. i + 1 \in 1..Len(q) /\ 1 \in 1..Len(q) /\ i + 1 # 1
      BY <2>1
    <3> QED BY <2>1, <2>2, <2>3, <3>1
  <2>6. Head(q) \notin Range(Tail(q))
    BY <2>1, <2>5, Zenon DEF Range
  <2> QED BY <2>4, <2>6
<1> QED BY <1>1, <1>2

\* Every step keeps a sample in one place: flushLoop takes it out of the channel
\* before it buffers it and forgets the batch it has spooled.
LEMMA NextOnePlace == IInv /\ [Next]_vars => OnePlace'
<1> SUFFICES ASSUME IInv, [Next]_vars PROVE OnePlace'
  OBVIOUS
<1> USE DEF IInv
<1>1. ASSUME NEW s \in Sample, Send(s) PROVE OnePlace'
  <2>1. /\ s \notin sent /\ toHist' = Append(toHist, s)
        /\ buf' = buf /\ flight' = flight /\ flushPc' = flushPc /\ spool' = spool
    BY <1>1 DEF Send, flushVars, storeVars
  <2>2. s \notin Spooled /\ s \notin Volatile
    BY <2>1 DEF Accounted
  <2>3. IsInjective(toHist') /\ Range(toHist') = Range(toHist) \cup {s}
    BY <2>1, <2>2, RangeAppend, InjectiveSeq DEF TypeOK, OnePlace, Volatile
  <2>4. Spooled' = Spooled /\ Volatile' = Volatile \cup {s}
    BY <1>1, <2>1, SendVolatile DEF Spooled
  <2> QED BY <2>1, <2>2, <2>3, <2>4 DEF OnePlace, Volatile
<1>2. CASE Receive
  <2>1. flight = <<>> /\ spool' = spool /\ toHist # <<>> /\ toHist' = Tail(toHist)
    BY <1>2 DEF FlightIdle, Receive, storeVars
  <2>2. /\ Head(toHist) \in Sample /\ Head(toHist) \notin Range(toHist')
        /\ IsInjective(toHist') /\ Range(toHist') \subseteq Range(toHist)
    BY <2>1, RangeHeadTail, InjectiveSeq DEF TypeOK, OnePlace
  <2>3. Range(Append(buf, Head(toHist))) = Range(buf) \cup {Head(toHist)}
    BY <2>2, RangeAppend DEF TypeOK
  <2>4. \/ buf' = <<>> /\ flight' = Append(buf, Head(toHist))
        \/ buf' = Append(buf, Head(toHist)) /\ flight' = flight /\ flushPc' = "select"
    BY <1>2 DEF Receive, StartFlush
  <2>5. Range(buf') \cup Range(flight') = Range(buf) \cup {Head(toHist)}
    BY <2>1, <2>3, <2>4, RangeBasics
  <2>6. flushPc' # "select" => buf' = <<>>
    BY <2>4
  <2>7. Spooled' = Spooled /\ Volatile' = Volatile
    BY <1>2, <2>1, BufferVolatile DEF Spooled
  <2> QED BY <2>2, <2>5, <2>6, <2>7 DEF OnePlace
<1>3. CASE Tick \/ Done
  <2>1. flight = <<>> /\ toHist' = toHist /\ spool' = spool
    BY <1>3 DEF FlightIdle, Tick, Done, chanVars, storeVars
  <2>2. \/ buf' = <<>> /\ buf = <<>> /\ flight' = flight
        \/ buf' = <<>> /\ flight' = buf
    BY <1>3 DEF Tick, Done, StartFlush
  <2>3. Range(buf') \cup Range(flight') = Range(buf) \cup Range(flight)
    BY <2>1, <2>2, RangeBasics
  <2>4. Spooled' = Spooled /\ Volatile' = Volatile
    BY <1>3, <2>1, BufferVolatile DEF Spooled
  <2> QED BY <2>1, <2>2, <2>3, <2>4 DEF OnePlace
<1>4. CASE FlushWrite
  <2>1. /\ toHist' = toHist /\ buf' = buf /\ buf = <<>> /\ spool' = spool
        /\ flight' = <<>> \/ flight' = flight
    BY <1>4 DEF FlushWrite, EndFlush, chanVars, OnePlace
  <2>2. Spooled' = Spooled /\ Volatile' \subseteq Volatile
    BY <1>4, <2>1, FlightVolatile DEF Spooled
  <2> QED BY <2>1, <2>2, RangeBasics DEF OnePlace
<1>5. CASE Enqueue
  <2>1. /\ toHist' = toHist /\ buf' = buf /\ buf = <<>> /\ flight' = <<>>
    BY <1>5 DEF Enqueue, EndFlush, chanVars, OnePlace
  <2>2. Spooled' \subseteq Spooled \cup Range(flight)
    <3>1. CASE UNCHANGED spool
      BY <3>1 DEF Spooled
    <3>2. CASE AddFile(flight, TRUE) \/ AddFile(flight, FALSE)
      BY <3>2, AddFileSpooled
    <3> QED BY <1>5, <3>1, <3>2 DEF Enqueue
  <2>3. Volatile' = Range(toHist)
    BY <2>1, RangeBasics DEF Volatile
  <2> QED BY <2>1, <2>2, <2>3, RangeBasics DEF OnePlace, Volatile
<1>6. CASE Replay
  <2>1. UNCHANGED <<toHist, buf, flight, flushPc>>
    BY <1>6 DEF Replay, ReplayTick, ReplayWrite, ReplayRemove, ReplayDone, chanVars, flushVars
  <2>2. spool' = spool \/ (spool # <<>> /\ spool' = Tail(spool))
    BY <1>6 DEF Replay, ReplayTick, ReplayWrite, ReplayRemove, ReplayDone, RemoveHead, storeVars,
                ReplayHoldsStoredHead
  <2>3. Spooled' \subseteq Spooled
    BY <2>2, TailSpooled DEF Spooled
  <2> QED BY <2>1, <2>3 DEF OnePlace, Volatile
<1>7. CASE Restart
  <2>1. toHist' = <<>> /\ buf' = <<>> /\ flight' = <<>>
    BY <1>7 DEF Restart
  <2>2. Volatile' = {} /\ Range(toHist') = {} /\ IsInjective(toHist')
    BY <2>1, RangeBasics DEF Volatile, IsInjective
  <2> QED BY <2>1, <2>2 DEF OnePlace
<1>8. CASE Shutdown \/ DbChanges \/ DiskChanges \/ UNCHANGED vars
  BY <1>8 DEF Shutdown, DbChanges, DiskChanges, vars, chanVars, flushVars, storeVars, OnePlace,
              Volatile, Spooled
<1>9. CASE Upstream
  <2>1. PICK s \in Sample : Send(s)
    BY <1>9, Zenon DEF Upstream
  <2> QED BY <2>1, <1>1
<1> QED BY <1>2, <1>3, <1>4, <1>5, <1>6, <1>7, <1>8, <1>9 DEF Next, Flush, Env

\* The inductive invariant holds before the loops start.
LEMMA InitIInv == Init => IInv
<1> SUFFICES ASSUME Init PROVE IInv
  OBVIOUS
<1>1. Spooled = {} /\ Volatile = {} /\ rows = {}
  BY RangeBasics DEF Init, Spooled, Volatile
<1>2. OnePlace
  <2>1. toHist = <<>> /\ Range(toHist) = {} /\ IsInjective(toHist)
    BY RangeBasics DEF Init, IsInjective
  <2> QED BY <1>1, <2>1 DEF Init, OnePlace
<1> QED BY <1>1, <1>2, InitTypeOK DEF Init, IInv, ReplayHoldsStoredHead, Accounted, FlightIdle

\* Every step of the loops, of a crash and of the surroundings keeps it.
LEMMA NextIInv == IInv /\ [Next]_vars => IInv'
<1> SUFFICES ASSUME IInv, [Next]_vars PROVE IInv'
  OBVIOUS
<1>1. TypeOK' /\ ReplayHoldsStoredHead'
  BY NextTypeOK, NextReplayHolds DEF IInv
<1>2. Accounted'
  BY StepKinds DEF IInv, Accounted, Arrives, Stores, SpoolsBatch, Refuses, Discards, Restarts
<1>3. FlightIdle'
  BY DEF IInv, FlightIdle, Next, Upstream, Send, Flush, Receive, Tick, Done, StartFlush,
         FlushWrite, Enqueue, EndFlush, Replay, ReplayTick, ReplayWrite, ReplayRemove,
         ReplayDone, Env, Shutdown, Restart, DbChanges, DiskChanges, vars, flushVars
<1> QED BY <1>1, <1>2, <1>3, NextOnePlace DEF IInv

\* Samples that change place and all go to p make a Move of the ledger.
LEMMA PlaceMove ==
  ASSUME NEW S \in SUBSET Sample, NEW p,
         \A s \in Sample : PlaceOf(s)' = IF s \in S THEN p ELSE PlaceOf(s)
  PROVE  Ledger!Move(S, p)
BY DEF Ledger!Move

\* What a place means for a sample.
LEMMA PlaceAt ==
  ASSUME NEW p
  PROVE  Ledger!At(p) = {s \in Sample : PlaceOf(s) = p}
BY DEF Ledger!At

\* The initial state of FlushSpool is one of the ledger.
LEMMA InitLedger == Init => Ledger!LedgerInit
<1> SUFFICES ASSUME Init PROVE Ledger!LedgerInit
  OBVIOUS
<1>1. Spooled = {} /\ Volatile = {} /\ rows = {} /\ sent = {} /\ boots = 0
  BY RangeBasics DEF Init, Spooled, Volatile
<1>2. \A s \in Sample : PlaceOf(s) = "none"
  BY <1>1 DEF PlaceOf
<1>3. Refusing \in BOOLEAN
  BY Zenon DEF Refusing
<1>4. ("read" \in failing) \in BOOLEAN
  OBVIOUS
<1> QED BY <1>1, <1>2, <1>3, <1>4 DEF Ledger!LedgerInit

\* Every step of FlushSpool is a step of the ledger or leaves it unchanged.
LEMMA NextLedger ==
  IInv /\ [Next]_vars => [Ledger!LedgerNext]_<<[s \in Sample |-> PlaceOf(s)], boots>>
<1> SUFFICES ASSUME IInv, [Next]_vars PROVE Ledger!LedgerNext
  OBVIOUS
<1>0. Accounted /\ Spooled \cap Volatile = {}
  BY DEF IInv, OnePlace
<1>1. ASSUME NEW s \in Sample, Arrives(s) PROVE Ledger!LedgerNext
  <2>1. \A r \in Sample : PlaceOf(r)' = IF r \in {s} THEN "volatile" ELSE PlaceOf(r)
    BY <1>0, <1>1 DEF Arrives, PlaceOf, Accounted
  <2>2. s \in Ledger!At("none") /\ boots' = boots
    BY <1>0, <1>1, PlaceAt DEF Arrives, PlaceOf, Accounted
  <2>3. Ledger!Move({s}, "volatile")
    BY <2>1, PlaceMove
  <2> QED BY <2>2, <2>3 DEF Ledger!Accept, Ledger!LedgerNext
<1>2. CASE Stores
  <2> DEFINE S == {s \in Sample : PlaceOf(s) # PlaceOf(s)'}
  <2>1. ASSUME NEW s \in Sample
        PROVE  \/ PlaceOf(s)' = PlaceOf(s)
               \/ PlaceOf(s)' = "stored" /\ PlaceOf(s) \in {"volatile", "spooled"}
    BY <1>0, <1>2 DEF Stores, PlaceOf, Accounted
  <2>2. Ledger!Move(S, "stored")
    BY <2>1, PlaceMove
  <2>3. S \in SUBSET (Ledger!At("volatile") \cup Ledger!At("spooled"))
    BY <2>1, PlaceAt
  <2> QED BY <1>2, <2>2, <2>3 DEF Stores, Ledger!Store, Ledger!LedgerNext
<1>3. CASE SpoolsBatch
  <2> DEFINE S == {s \in Sample : PlaceOf(s) # PlaceOf(s)'}
  <2>1. ASSUME NEW s \in Sample
        PROVE  \/ PlaceOf(s)' = PlaceOf(s)
               \/ PlaceOf(s)' = "spooled" /\ PlaceOf(s) = "volatile"
    BY <1>0, <1>3 DEF SpoolsBatch, PlaceOf, Accounted
  <2>2. Ledger!Move(S, "spooled")
    BY <2>1, PlaceMove
  <2>3. S \in SUBSET Ledger!At("volatile")
    BY <2>1, PlaceAt
  <2> QED BY <1>3, <2>2, <2>3 DEF SpoolsBatch, Ledger!Spool, Ledger!LedgerNext
<1>4. CASE Refuses
  <2> DEFINE S == {s \in Sample : PlaceOf(s) # PlaceOf(s)'}
  <2>1. ASSUME NEW s \in Sample
        PROVE  \/ PlaceOf(s)' = PlaceOf(s)
               \/ PlaceOf(s)' = "lost" /\ PlaceOf(s) = "volatile"
    BY <1>0, <1>4 DEF Refuses, PlaceOf, Accounted
  <2>2. Ledger!Move(S, "lost")
    BY <2>1, PlaceMove
  <2>3. S \in SUBSET Ledger!At("volatile")
    BY <2>1, PlaceAt
  <2> QED BY <1>4, <2>2, <2>3 DEF Refuses, Ledger!Refuse, Ledger!LedgerNext
<1>5. CASE Restarts
  <2>1. \A s \in Sample :
          PlaceOf(s)' = IF s \in Ledger!At("volatile") THEN "lost" ELSE PlaceOf(s)
    BY <1>0, <1>5, PlaceAt DEF Restarts, PlaceOf, Accounted
  <2>2. Ledger!Move(Ledger!At("volatile"), "lost")
    BY <2>1, PlaceAt, PlaceMove
  <2> QED BY <1>5, <2>2 DEF Restarts, Ledger!Restart, Ledger!LedgerNext
<1>6. CASE Discards
  <2> DEFINE S == {s \in Sample : PlaceOf(s) # PlaceOf(s)'}
  <2>1. ASSUME NEW s \in Sample
        PROVE  \/ PlaceOf(s)' = PlaceOf(s)
               \/ PlaceOf(s)' = "lost" /\ PlaceOf(s) = "spooled"
    BY <1>0, <1>6 DEF Discards, PlaceOf, Accounted
  <2>2. Ledger!Move(S, "lost")
    BY <2>1, PlaceMove
  <2>3. S \in SUBSET Ledger!At("spooled")
    BY <2>1, PlaceAt
  <2> QED BY <1>6, <2>2, <2>3 DEF Discards, Ledger!Discard, Ledger!LedgerNext
<1> QED BY StepKinds, <1>1, <1>2, <1>3, <1>4, <1>5, <1>6

\* Nothing stored is ever lost, a spooled sample only while reading a spool file
\* fails, and a sample in memory only when a batch is refused or the process
\* restarts: flushLoop, replaySpool and the spool implement the ledger
\* (flush.go:17-117, spool.go:31-76).
THEOREM FlushSpoolImplementsLedger == Spec => ImplementsLedger
<1>1. Init => IInv /\ Ledger!LedgerInit
  BY InitIInv, InitLedger
<1>2. IInv /\ [Next]_vars => IInv'
  BY NextIInv
<1>3. IInv /\ [Next]_vars => [Ledger!LedgerNext]_<<[s \in Sample |-> PlaceOf(s)], boots>>
  BY NextLedger
<1> QED BY <1>1, <1>2, <1>3, PTL DEF Spec, ImplementsLedger, Ledger!LedgerSpec
=============================================================================
