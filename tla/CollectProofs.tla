--------------------------- MODULE CollectProofs ----------------------------
(***************************************************************************)
(* Theorems about Collect, for any tags, values and capacities of the two  *)
(* channels.                                                               *)
(***************************************************************************)
EXTENDS Collect, SequenceTheorems, TLAPS

\* The types, and what the places of FanIn and of a write handler say of the
\* samples they hold.
TypeInv == /\ TypeOK
           /\ fanPc # "receive" => cur \in Fresh
           /\ writePc # "idle" => written \in Fresh

-----------------------------------------------------------------------------
(* Operators.                                                              *)

\* A channel without its head.
LEMMA Taken ==
  ASSUME NEW S, NEW q \in Seq(S), q # <<>>
  PROVE  /\ Head(q) \in S /\ Head(q) = q[1]
         /\ Tail(q) \in Seq(S) /\ Len(q) \in Nat \ {0} /\ Len(Tail(q)) = Len(q) - 1
         /\ DOMAIN q = 1..Len(q) /\ DOMAIN Tail(q) = 1..(Len(q) - 1)
         /\ \A i \in DOMAIN Tail(q) : Tail(q)[i] = q[i + 1]
BY EmptySeq, HeadTailProperties, LenProperties

\* A channel with one sample more.
LEMMA Sent ==
  ASSUME NEW S, NEW q \in Seq(S), NEW s \in S, NEW cap \in Nat, Len(q) < cap
  PROVE  /\ Append(q, s) \in Seq(S) /\ Len(Append(q, s)) <= cap
         /\ DOMAIN q = 1..Len(q) /\ DOMAIN Append(q, s) = 1..(Len(q) + 1)
         /\ Len(q) \in Nat
         /\ \A i \in DOMAIN q : Append(q, s)[i] = q[i]
         /\ Append(q, s)[Len(q) + 1] = s
BY AppendProperties, LenProperties

\* A merged sample is of the same tag, is never good without a value, and has a
\* value if Live has one.
LEMMA Merged ==
  ASSUME NEW prev \in Fresh \cup {None}, NEW s \in Fresh
  PROVE  /\ Merge(prev, s) \in Fresh
         /\ Merge(prev, s).tag = s.tag
         /\ HasValue(prev) => HasValue(Merge(prev, s))
<1>1. s \in Sample /\ (s.q = "good" => s.val # NoValue) /\ Merge(prev, s) \in {s} \cup Sample
  BY DEF Merge, Fresh, Sample
<1>2. CASE prev # None /\ s.q # "good" /\ s.val = NoValue
  <2>1. Merge(prev, s) = [s EXCEPT !.val = prev.val] BY <1>2 DEF Merge
  <2>2. prev \in Sample BY <1>2 DEF Fresh
  <2>3. /\ Merge(prev, s) \in Sample /\ Merge(prev, s).tag = s.tag
        /\ Merge(prev, s).q = s.q /\ Merge(prev, s).val = prev.val
    BY <1>1, <2>1, <2>2 DEF Sample
  <2>4. QED BY <1>2, <2>3, NoneAssumption DEF Fresh, HasValue
<1>3. CASE ~(prev # None /\ s.q # "good" /\ s.val = NoValue)
  <2>1. Merge(prev, s) = s BY <1>3 DEF Merge
  <2>2. HasValue(prev) => s.val # NoValue
    BY <1>1, <1>3 DEF HasValue
  <2>3. s # None BY <1>1, NoneAssumption
  <2>4. QED BY <2>1, <2>2, <2>3 DEF HasValue
<1>4. QED BY <1>2, <1>3

\* What the driver sends is of the tag it read, and never good without a value.
LEMMA PolledFresh ==
  ASSUME plc \in [Tag -> Value \cup {Unreadable}], NEW t \in Tag
  PROVE  BadSample(t) \in Fresh /\ Mapped(t) \in Fresh
BY FanInAssumption DEF BadSample, Mapped, Fresh, Sample, Quality

-----------------------------------------------------------------------------
(* Type correctness.                                                       *)

\* The parts of the type invariant that belong to FanIn, and the others.
FanTypes == /\ raw \in Seq(Fresh) /\ Len(raw) <= RawCap
            /\ toHist \in Seq(Fresh) /\ Len(toHist) <= HistCap
            /\ live \in [Tag -> Fresh \cup {None}]
            /\ fanPc \in {"receive", "update", "send"}
            /\ cur \in Fresh \cup {None} /\ same \in BOOLEAN
            /\ fanPc # "receive" => cur \in Fresh

DriverTypes == /\ link \in BOOLEAN /\ plc \in [Tag -> Value \cup {Unreadable}]
               /\ session \in BOOLEAN /\ alive \in BOOLEAN /\ cancelled \in BOOLEAN
               /\ pollPc \in {"connect", "wait", "read", "emit", "bad"}
               /\ pending \subseteq Fresh

WriterTypes == /\ writePc \in {"idle", "written", "verify", "seen", "missed", "observed"}
               /\ written \in Fresh \cup {None} /\ verify \in BOOLEAN
               /\ writePc # "idle" => written \in Fresh

OtherTypes == /\ marking \in BOOLEAN
              /\ hist \in [Tag -> {None} \cup [val : Value \cup {NoValue}, q : Quality]]
              /\ edited \subseteq Tag

\* TypeInv, by what changes together.
LEMMA TypeParts == TypeInv <=> FanTypes /\ DriverTypes /\ WriterTypes /\ OtherTypes
BY DEF TypeInv, TypeOK, FanTypes, DriverTypes, WriterTypes, OtherTypes

\* A tag of a sample is a tag, and its payload is what the historian may hold.
LEMMA FreshFields ==
  ASSUME NEW s \in Fresh
  PROVE  /\ s \in Sample /\ s.tag \in Tag /\ s # None
         /\ Payload(s) \in [val : Value \cup {NoValue}, q : Quality]
         /\ Payload(s) # None /\ Payload(s).val = s.val
BY NoneAssumption DEF Fresh, Sample, Payload

\* FanIn keeps the types; the channel to the historian leg keeps its capacity.
LEMMA FanType == ASSUME TypeInv, Fan PROVE TypeInv'
<1>1. FanTypes /\ DriverTypes /\ WriterTypes /\ OtherTypes BY TypeParts
<1>2. FanTypes'
  <2>1. CASE FanReceive
    <3>1. raw # <<>> /\ raw' = Tail(raw) /\ UNCHANGED <<live, toHist>> /\ fanPc' = "update"
      BY <2>1 DEF FanReceive
    <3>2. /\ Head(raw) \in Fresh /\ raw' \in Seq(Fresh) /\ Len(raw') <= RawCap
      <4>1. /\ Head(raw) \in Fresh /\ Tail(raw) \in Seq(Fresh) /\ Len(raw) \in Nat
            /\ Len(Tail(raw)) = Len(raw) - 1
        BY <1>1, <3>1, Taken DEF FanTypes
      <4>2. QED BY <1>1, <3>1, <4>1, FanInAssumption DEF FanTypes
    <3>3. live[Head(raw).tag] \in Fresh \cup {None}
      BY <1>1, <3>2, FreshFields DEF FanTypes
    <3>4. cur' = Merge(live[Head(raw).tag], Head(raw)) /\ same' \in BOOLEAN
      BY <2>1 DEF FanReceive
    <3>5. cur' \in Fresh BY <3>2, <3>3, <3>4, Merged
    <3>6. QED BY <1>1, <3>1, <3>2, <3>4, <3>5 DEF FanTypes
  <2>2. CASE FanUpdate
    <3>1. cur \in Fresh /\ cur.tag \in Tag BY <1>1, <2>2, FreshFields DEF FanTypes, FanUpdate
    <3>2. live' \in [Tag -> Fresh \cup {None}] BY <1>1, <2>2, <3>1 DEF FanTypes, FanUpdate
    <3>3. /\ fanPc' \in {"receive", "send"} /\ cur' \in Fresh \cup {None} /\ same' \in BOOLEAN
          /\ fanPc' # "receive" => cur' \in Fresh
      BY <2>2, <3>1 DEF FanUpdate
    <3>4. QED BY <1>1, <2>2, <3>2, <3>3 DEF FanTypes, FanUpdate
  <2>3. CASE FanSend
    <3>1. cur \in Fresh /\ Len(toHist) < HistCap BY <1>1, <2>3 DEF FanTypes, FanSend
    <3>2. Append(toHist, cur) \in Seq(Fresh) /\ Len(Append(toHist, cur)) <= HistCap
      BY <1>1, <3>1, Sent, FanInAssumption DEF FanTypes
    <3>3. QED BY <1>1, <2>3, <3>2 DEF FanTypes, FanSend
  <2>4. QED BY <2>1, <2>2, <2>3 DEF Fan, FanStep
<1>3. DriverTypes' /\ WriterTypes' /\ OtherTypes'
  BY <1>1 DEF Fan, driver, writer, DriverTypes, WriterTypes, OtherTypes
<1>4. QED BY <1>2, <1>3, TypeParts DEF TypeInv, TypeOK, FanTypes, DriverTypes, WriterTypes, OtherTypes

\* The poll loop keeps the types; the channel to FanIn keeps its capacity.
LEMMA PollType == ASSUME TypeInv, Poll PROVE TypeInv'
<1>1. FanTypes /\ DriverTypes /\ WriterTypes /\ OtherTypes BY TypeParts
<1>2. DriverTypes' /\ raw' \in Seq(Fresh) /\ Len(raw') <= RawCap
  <2> USE <1>1 DEF DriverTypes, FanTypes, fieldVars
  <2>1. CASE Connect BY <2>1 DEF Connect
  <2>2. CASE Tick BY <2>2 DEF Tick
  <2>3. CASE ReadOk
    <3>1. pending' = {Mapped(t) : t \in Tag} BY <2>3 DEF ReadOk
    <3>2. pending' \subseteq Fresh BY <3>1, PolledFresh
    <3>3. QED BY <2>3, <3>2 DEF ReadOk
  <2>4. CASE ReadFail \/ EmitFail
    <3>1. Fail BY <2>4 DEF ReadFail, EmitFail
    <3>2. pending' \subseteq Fresh BY <3>1, PolledFresh DEF Fail
    <3>3. QED BY <3>1, <3>2 DEF Fail
  <2>5. CASE Emit
    <3>1. PICK s \in pending : raw' = Append(raw, s) /\ pending' = pending \ {s}
      BY <2>5 DEF Emit
    <3>2. Len(raw) < RawCap BY <2>5 DEF Emit
    <3>3. s \in Fresh BY <3>1
    <3>4. raw' \in Seq(Fresh) /\ Len(raw') <= RawCap
      BY <3>1, <3>2, <3>3, Sent, FanInAssumption
    <3>5. QED BY <2>5, <3>1, <3>4 DEF Emit
  <2>6. CASE BadCancelled BY <2>6 DEF BadCancelled
  <2>7. CASE PollDone BY <2>7 DEF PollDone
  <2>8. CASE Reconnect BY <2>8 DEF Reconnect
  <2>9. CASE Leave BY <2>9 DEF Leave
  <2>10. QED BY <2>1, <2>2, <2>3, <2>4, <2>5, <2>6, <2>7, <2>8, <2>9 DEF Poll, PollStep
<1>3. FanTypes' /\ WriterTypes' /\ OtherTypes'
  BY <1>1, <1>2 DEF Poll, writer, histVars, FanTypes, WriterTypes, OtherTypes
<1>4. QED BY <1>2, <1>3 DEF TypeInv, TypeOK, FanTypes, DriverTypes, WriterTypes, OtherTypes

\* The historian leg keeps the types.
LEMMA StoreType == ASSUME TypeInv, Store PROVE TypeInv'
<1>1. FanTypes /\ DriverTypes /\ WriterTypes /\ OtherTypes BY TypeParts
<1>2. /\ toHist # <<>> /\ toHist' = Tail(toHist)
      /\ hist' = [hist EXCEPT ![Head(toHist).tag] = Payload(Head(toHist))]
      /\ UNCHANGED <<raw, live, fanPc, cur, same, driver, writer, marking, edited>>
  BY DEF Store
<1>3. /\ Head(toHist) \in Fresh /\ toHist' \in Seq(Fresh)
      /\ Len(toHist) \in Nat /\ Len(toHist') = Len(toHist) - 1
  BY <1>1, <1>2, Taken DEF FanTypes
<1>4. FanTypes' BY <1>1, <1>2, <1>3, FanInAssumption DEF FanTypes
<1>5. OtherTypes'
  <2>1. Payload(Head(toHist)) \in [val : Value \cup {NoValue}, q : Quality]
    BY <1>3, FreshFields
  <2>2. QED BY <1>1, <1>2, <2>1 DEF OtherTypes
<1>6. DriverTypes' /\ WriterTypes' BY <1>1, <1>2 DEF driver, writer, DriverTypes, WriterTypes
<1>7. QED BY <1>4, <1>5, <1>6 DEF TypeInv, TypeOK, FanTypes, DriverTypes, WriterTypes, OtherTypes

\* A sample marked bad is of the same tag and keeps its value.
LEMMA Marked ==
  ASSUME NEW s \in Fresh
  PROVE  /\ [s EXCEPT !.q = "bad"] \in Fresh /\ [s EXCEPT !.q = "bad"].val = s.val
BY DEF Fresh, Sample, Quality

\* Display handlers keep the types.
LEMMA DisplayType == ASSUME TypeInv, DisplayCheck \/ DisplayMark PROVE TypeInv'
<1>1. FanTypes /\ DriverTypes /\ WriterTypes /\ OtherTypes BY TypeParts
<1>2. CASE DisplayCheck
  BY <1>1, <1>2 DEF DisplayCheck, fanVars, driver, writer, histVars, TypeInv, TypeOK
<1>3. CASE DisplayMark
  <2>1. live' \in [Tag -> Fresh \cup {None}]
    <3>1. live' = [t \in Tag |-> IF Stale(t) THEN [live[t] EXCEPT !.q = "bad"] ELSE live[t]]
      BY <1>3 DEF DisplayMark
    <3>2. \A t \in Tag : live[t] \in Fresh \cup {None} BY <1>1 DEF FanTypes
    <3>3. \A t \in Tag : Stale(t) => [live[t] EXCEPT !.q = "bad"] \in Fresh
      BY <3>2, Marked DEF Stale
    <3>4. QED BY <3>1, <3>2, <3>3
  <2>2. FanTypes' BY <1>1, <1>3, <2>1 DEF DisplayMark, FanTypes
  <2>3. OtherTypes' BY <1>1, <1>3 DEF DisplayMark, OtherTypes
  <2>4. DriverTypes' /\ WriterTypes'
    BY <1>1, <1>3 DEF DisplayMark, driver, writer, DriverTypes, WriterTypes
  <2>5. QED BY <2>2, <2>3, <2>4
            DEF TypeInv, TypeOK, FanTypes, DriverTypes, WriterTypes, OtherTypes
<1>4. QED BY <1>2, <1>3

\* Write handlers keep the types.
LEMMA WriteType == ASSUME TypeInv, Write(WriteStep) PROVE TypeInv'
<1>1. FanTypes /\ DriverTypes /\ WriterTypes /\ OtherTypes BY TypeParts
<1>2. /\ WriteStep
      /\ edited' = IF Publishing THEN edited \cup {written.tag} ELSE edited
      /\ UNCHANGED <<raw, fanPc, cur, same, toHist, cancelled, pollPc, pending, marking, hist>>
  BY DEF Write
<1>3. OtherTypes'
  BY <1>1, <1>2, FreshFields DEF OtherTypes, WriterTypes, Publishing
<1>4. Publish => live' \in [Tag -> Fresh \cup {None}]
  BY <1>1 DEF Publish, FanTypes, WriterTypes
<1>5. WriterTypes' /\ DriverTypes' /\ live' \in [Tag -> Fresh \cup {None}]
  <2> USE <1>1, <1>2, <1>4 DEF WriterTypes, DriverTypes, FanTypes, WriteEnd
  <2>1. CASE WritePlc
    <3>1. PICK t \in Writable, v \in Value, optimistic \in BOOLEAN :
            /\ plc' = [plc EXCEPT ![t] = v]
            /\ written' = [tag |-> t, val |-> v, q |-> "good"]
            /\ verify' \in BOOLEAN
            /\ writePc' = IF optimistic \/ ~verify' THEN "written" ELSE "verify"
      BY <2>1 DEF WritePlc
    <3>2. t \in Tag BY CollectAssumption
    <3>3. written' \in Fresh
      BY <3>1, <3>2, FanInAssumption DEF Fresh, Sample, Quality
    <3>4. plc' \in [Tag -> Value \cup {Unreadable}] BY <3>1, <3>2
    <3>5. writePc' \in {"written", "verify"} BY <3>1
    <3>6. UNCHANGED <<link, session, alive, live>> BY <2>1 DEF WritePlc
    <3>7. QED BY <3>1, <3>3, <3>4, <3>5, <3>6
  <2>2. CASE PublishWritten
    <3>1. live' \in [Tag -> Fresh \cup {None}] BY <2>2 DEF PublishWritten, Publish
    <3>2. QED BY <2>2, <3>1 DEF PublishWritten
  <2>3. CASE Readback BY <2>3 DEF Readback
  <2>4. CASE MarkAlive BY <2>4 DEF MarkAlive
  <2>5. CASE GiveUp BY <2>5 DEF GiveUp
  <2>6. CASE PublishObserved
    <3>1. live' \in [Tag -> Fresh \cup {None}] BY <2>6 DEF PublishObserved, Publish
    <3>2. QED BY <2>6, <3>1 DEF PublishObserved
  <2>7. QED BY <2>1, <2>2, <2>3, <2>4, <2>5, <2>6 DEF WriteStep
<1>6. FanTypes' BY <1>1, <1>2, <1>5 DEF FanTypes
<1>7. QED BY <1>3, <1>5, <1>6 DEF TypeInv, TypeOK, FanTypes, DriverTypes, WriterTypes, OtherTypes

\* Link, PLC and configuration keep the types.
LEMMA SurroundingsType == ASSUME TypeInv, Surroundings PROVE TypeInv'
<1>1. FanTypes /\ DriverTypes /\ WriterTypes /\ OtherTypes BY TypeParts
<1>2. DriverTypes'
  <2>1. CASE Reload BY <1>1, <2>1 DEF Reload, fieldVars, DriverTypes
  <2>2. CASE LinkChanges BY <1>1, <2>2 DEF LinkChanges, driverVars, DriverTypes
  <2>3. CASE PlcChanges
    <3>1. PICK t \in Tag, v \in Readings : plc' = [plc EXCEPT ![t] = v]
      BY <2>3 DEF PlcChanges
    <3>2. plc' \in [Tag -> Value \cup {Unreadable}]
      BY <1>1, <3>1, CollectAssumption DEF DriverTypes
    <3>3. QED BY <1>1, <2>3, <3>2 DEF PlcChanges, driverVars, DriverTypes
  <2>4. QED BY <2>1, <2>2, <2>3 DEF Surroundings
<1>3. FanTypes' /\ WriterTypes' /\ OtherTypes'
  BY <1>1 DEF Surroundings, fanVars, writer, histVars, FanTypes, WriterTypes, OtherTypes
<1>4. QED BY <1>2, <1>3 DEF TypeInv, TypeOK, FanTypes, DriverTypes, WriterTypes, OtherTypes

\* The types hold at first.
LEMMA InitType == ASSUME Init PROVE TypeInv
<1>1. <<>> \in Seq(Fresh) /\ Len(<<>>) = 0 BY EmptySeq
<1>2. QED
  <2>1. raw \in Seq(Fresh) /\ Len(raw) <= RawCap /\ toHist \in Seq(Fresh) /\ Len(toHist) <= HistCap
    BY <1>1, FanInAssumption DEF Init, FanInit
  <2>2. plc \in [Tag -> Value \cup {Unreadable}] BY DEF Init, PollInit
  <2>3. alive \in BOOLEAN BY DEF Init, PollInit
  <2>4. QED BY <2>1, <2>2, <2>3 DEF Init, FanInit, PollInit, WriteInit, TypeInv, TypeOK

\* Every step keeps the types.
LEMMA TypeStep == ASSUME TypeInv, [Next]_vars PROVE TypeInv'
<1>1. CASE UNCHANGED vars
  BY <1>1 DEF vars, fanVars, driver, writer, histVars, TypeInv, TypeOK
<1>2. QED
  BY <1>1, FanType, PollType, StoreType, DisplayType, WriteType, SurroundingsType DEF Next

-----------------------------------------------------------------------------
(* What is on its way to the historian.                                    *)

\* Once the channel q is drained into h, it holds p of tag t.
LastIn(q, h, t, p) ==
  \/ \E i \in DOMAIN q : /\ q[i].tag = t /\ Payload(q[i]) = p
                         /\ \A j \in DOMAIN q : j > i => q[j].tag # t
  \/ h[t] = p /\ \A i \in DOMAIN q : q[i].tag # t

Stored(h, s) == [h EXCEPT ![s.tag] = Payload(s)]

\* The sample sent last is what the historian will hold of its tag; of the other
\* tags it will hold what it would have held.
LEMMA LastSent ==
  ASSUME NEW q \in Seq(Fresh), NEW s \in Fresh, Len(q) < HistCap, NEW h
  PROVE  /\ LastIn(Append(q, s), h, s.tag, Payload(s))
         /\ \A t, p : t # s.tag /\ LastIn(q, h, t, p) => LastIn(Append(q, s), h, t, p)
<1>1. /\ DOMAIN q = 1..Len(q) /\ DOMAIN Append(q, s) = 1..(Len(q) + 1) /\ Len(q) \in Nat
      /\ \A i \in DOMAIN q : Append(q, s)[i] = q[i]
      /\ Append(q, s)[Len(q) + 1] = s
  BY Sent, FanInAssumption
<1>2. LastIn(Append(q, s), h, s.tag, Payload(s)) BY <1>1 DEF LastIn
<1>3. ASSUME NEW t, NEW p, t # s.tag, LastIn(q, h, t, p)
      PROVE  LastIn(Append(q, s), h, t, p)
  <2>1. \A i \in DOMAIN Append(q, s) : i \in DOMAIN q \/ i = Len(q) + 1 BY <1>1
  <2>2. CASE \E i \in DOMAIN q : /\ q[i].tag = t /\ Payload(q[i]) = p
                                 /\ \A j \in DOMAIN q : j > i => q[j].tag # t
    <3>1. PICK i \in DOMAIN q : /\ q[i].tag = t /\ Payload(q[i]) = p
                                /\ \A j \in DOMAIN q : j > i => q[j].tag # t
      BY <2>2
    <3>2. i \in DOMAIN Append(q, s) BY <1>1
    <3>3. \A j \in DOMAIN Append(q, s) : j > i => Append(q, s)[j].tag # t
      BY <1>1, <1>3, <2>1, <3>1
    <3>4. QED BY <1>1, <3>1, <3>2, <3>3 DEF LastIn
  <2>3. CASE h[t] = p /\ \A i \in DOMAIN q : q[i].tag # t
    BY <1>1, <1>3, <2>1, <2>3 DEF LastIn
  <2>4. QED BY <1>3, <2>2, <2>3 DEF LastIn
<1>4. QED BY <1>2, <1>3

\* Taking a sample into the historian changes nothing of what it will hold.
LEMMA LastTaken ==
  ASSUME NEW q \in Seq(Fresh), q # <<>>, NEW h, DOMAIN h = Tag, NEW t \in Tag, NEW p,
         LastIn(q, h, t, p)
  PROVE  LastIn(Tail(q), Stored(h, Head(q)), t, p)
<1>1. /\ Head(q) = q[1] /\ Len(q) \in Nat \ {0}
      /\ DOMAIN q = 1..Len(q) /\ DOMAIN Tail(q) = 1..(Len(q) - 1)
      /\ \A i \in DOMAIN Tail(q) : Tail(q)[i] = q[i + 1]
  BY Taken
<1>2. CASE \E i \in DOMAIN q : /\ q[i].tag = t /\ Payload(q[i]) = p
                               /\ \A j \in DOMAIN q : j > i => q[j].tag # t
  <2>1. PICK i \in DOMAIN q : /\ q[i].tag = t /\ Payload(q[i]) = p
                              /\ \A j \in DOMAIN q : j > i => q[j].tag # t
    BY <1>2
  <2>2. CASE i = 1
    <3>1. \A j \in DOMAIN Tail(q) : Tail(q)[j].tag # t BY <1>1, <2>1, <2>2
    <3>2. Stored(h, Head(q))[t] = p BY <1>1, <2>1, <2>2 DEF Stored
    <3>3. QED BY <3>1, <3>2 DEF LastIn
  <2>3. CASE i # 1
    <3>1. i - 1 \in DOMAIN Tail(q) /\ Tail(q)[i - 1] = q[i] BY <1>1, <2>3
    <3>2. \A j \in DOMAIN Tail(q) : j > i - 1 => Tail(q)[j].tag # t BY <1>1, <2>1
    <3>3. QED BY <2>1, <3>1, <3>2 DEF LastIn
  <2>4. QED BY <2>2, <2>3
<1>3. CASE h[t] = p /\ \A i \in DOMAIN q : q[i].tag # t
  <2>1. Head(q).tag # t BY <1>1, <1>3
  <2>2. Stored(h, Head(q))[t] = p BY <1>3, <2>1 DEF Stored
  <2>3. \A i \in DOMAIN Tail(q) : Tail(q)[i].tag # t BY <1>1, <1>3
  <2>4. QED BY <2>2, <2>3 DEF LastIn
<1>4. QED BY <1>2, <1>3 DEF LastIn

-----------------------------------------------------------------------------
(* The historian follows Live.                                             *)

\* What Live shows of a tag no handler has touched is what the historian will
\* hold, counting the sample that FanIn is about to send; a sample that FanIn
\* will not send because it is unchanged still is, if no handler has touched it.
FollowInv ==
  /\ \A t \in Tag : live[t] # None /\ t \notin edited =>
       IF fanPc = "send" /\ cur.tag = t THEN Payload(cur) = Payload(live[t])
       ELSE LastIn(toHist, hist, t, Payload(live[t]))
  /\ fanPc = "update" /\ same /\ cur.tag \notin edited =>
       live[cur.tag] # None /\ Payload(cur) = Payload(live[cur.tag])

\* Steps that touch, in Live and in the historian, only tags they own up to.
LEMMA FollowEdited ==
  ASSUME TypeInv, FollowInv, UNCHANGED <<fanPc, cur, same, toHist>>, edited \subseteq edited',
         \A t \in Tag : t \notin edited' => live'[t] = live[t] /\ hist'[t] = hist[t]
  PROVE  FollowInv'
<1>1. fanPc # "receive" => cur.tag \in Tag BY FreshFields DEF TypeInv
<1>2. ASSUME NEW t \in Tag, live'[t] # None, t \notin edited'
      PROVE  IF fanPc = "send" /\ cur.tag = t THEN Payload(cur) = Payload(live'[t])
             ELSE LastIn(toHist, hist', t, Payload(live'[t]))
  <2>1. live'[t] = live[t] /\ hist'[t] = hist[t] /\ t \notin edited BY <1>2
  <2>2. \A p : LastIn(toHist, hist, t, p) => LastIn(toHist, hist', t, p) BY <2>1 DEF LastIn
  <2>3. QED BY <1>2, <2>1, <2>2 DEF FollowInv
<1>3. fanPc = "update" /\ same /\ cur.tag \notin edited' =>
        live'[cur.tag] # None /\ Payload(cur) = Payload(live'[cur.tag])
  BY <1>1 DEF FollowInv
<1>4. QED BY <1>2, <1>3 DEF FollowInv

\* The comparison: an unchanged sample is the one forwarded last.
LEMMA FollowReceive == ASSUME TypeInv, FollowInv, Fan, FanReceive PROVE FollowInv'
<1>1. /\ fanPc = "receive" /\ fanPc' = "update" /\ raw # <<>>
      /\ cur' = Merge(live[Head(raw).tag], Head(raw))
      /\ same' = (live[Head(raw).tag] # None /\ SamePayload(live[Head(raw).tag], cur'))
      /\ UNCHANGED <<live, toHist, hist, edited>>
  BY DEF Fan, FanReceive, histVars
<1>2. Head(raw) \in Fresh /\ live[Head(raw).tag] \in Fresh \cup {None}
  BY <1>1, Taken, FreshFields DEF TypeInv, TypeOK
<1>3. cur'.tag = Head(raw).tag BY <1>1, <1>2, Merged
<1>4. QED BY <1>1, <1>3 DEF FollowInv, SamePayload

\* The update: the tag is no longer edited, and a changed sample is on its way.
LEMMA FollowUpdate == ASSUME TypeInv, FollowInv, Fan, FanUpdate PROVE FollowInv'
<1>1. /\ fanPc = "update" /\ live' = [live EXCEPT ![cur.tag] = cur]
      /\ fanPc' = IF same THEN "receive" ELSE "send"
      /\ cur' = IF same THEN None ELSE cur
      /\ edited' = IF ~same THEN edited \ {cur.tag} ELSE edited
      /\ same' = FALSE /\ UNCHANGED <<toHist, hist>>
  BY DEF Fan, FanUpdate, histVars
<1>2. cur \in Fresh /\ cur.tag \in Tag /\ live \in [Tag -> Fresh \cup {None}]
  BY <1>1, FreshFields DEF TypeInv, TypeOK
<1>3. live'[cur.tag] = cur /\ \A t \in Tag : t # cur.tag => live'[t] = live[t]
  BY <1>1, <1>2
<1>4. \A t \in Tag : t # cur.tag /\ live'[t] # None /\ t \notin edited' =>
        LastIn(toHist, hist, t, Payload(live'[t]))
  BY <1>1, <1>3 DEF FollowInv
<1>5. CASE same
  <2>1. cur.tag \notin edited' => LastIn(toHist, hist, cur.tag, Payload(live'[cur.tag]))
    BY <1>1, <1>2, <1>3, <1>5 DEF FollowInv
  <2>2. QED BY <1>1, <1>4, <1>5, <2>1 DEF FollowInv
<1>6. CASE ~same BY <1>1, <1>3, <1>4, <1>6 DEF FollowInv
<1>7. QED BY <1>5, <1>6

\* The sample on its way goes to the end of the channel.
LEMMA FollowSend == ASSUME TypeInv, FollowInv, Fan, FanSend PROVE FollowInv'
<1>1. /\ fanPc = "send" /\ fanPc' = "receive" /\ Len(toHist) < HistCap
      /\ toHist' = Append(toHist, cur)
      /\ UNCHANGED <<live, hist, edited>>
  BY DEF Fan, FanSend, histVars
<1>2. cur \in Fresh /\ toHist \in Seq(Fresh) BY <1>1 DEF TypeInv, TypeOK
<1>3. /\ LastIn(toHist', hist, cur.tag, Payload(cur))
      /\ \A t, p : t # cur.tag /\ LastIn(toHist, hist, t, p) => LastIn(toHist', hist, t, p)
  BY <1>1, <1>2, LastSent
<1>4. \A t \in Tag : live[t] # None /\ t \notin edited =>
        LastIn(toHist', hist, t, Payload(live[t]))
  BY <1>1, <1>3 DEF FollowInv
<1>5. QED BY <1>1, <1>4 DEF FollowInv

\* The sample that leaves the channel is the payload in history.
LEMMA FollowStore == ASSUME TypeInv, FollowInv, Store PROVE FollowInv'
<1>1. /\ toHist # <<>> /\ toHist' = Tail(toHist) /\ hist' = Stored(hist, Head(toHist))
      /\ UNCHANGED <<live, fanPc, cur, same, edited>>
  BY DEF Store, Stored
<1>2. toHist \in Seq(Fresh) /\ DOMAIN hist = Tag BY DEF TypeInv, TypeOK
<1>3. \A t \in Tag : \A p : LastIn(toHist, hist, t, p) => LastIn(toHist', hist', t, p)
  BY <1>1, <1>2, LastTaken
<1>4. QED BY <1>1, <1>3 DEF FollowInv

\* A display handler marks what it changes as edited.
LEMMA FollowMark == ASSUME TypeInv, FollowInv, DisplayMark PROVE FollowInv'
<1>1. /\ live' = [t \in Tag |-> IF Stale(t) THEN [live[t] EXCEPT !.q = "bad"] ELSE live[t]]
      /\ edited' = edited \cup {t \in Tag : Stale(t)}
      /\ UNCHANGED <<fanPc, cur, same, toHist, hist>>
  BY DEF DisplayMark
<1>2. \A t \in Tag : t \notin edited' => live'[t] = live[t] BY <1>1
<1>3. QED BY <1>1, <1>2, FollowEdited

\* So does a write handler.
LEMMA FollowWrite == ASSUME TypeInv, FollowInv, Write(WriteStep) PROVE FollowInv'
<1>1. /\ WriteStep
      /\ edited' = IF Publishing THEN edited \cup {written.tag} ELSE edited
      /\ UNCHANGED <<fanPc, cur, same, toHist, hist>>
  BY DEF Write
<1>2. live' = live \/ (Publishing /\ Publish)
  BY <1>1 DEF WriteStep, WritePlc, PublishWritten, Readback, MarkAlive, GiveUp,
              PublishObserved, Publishing
<1>3. \A t \in Tag : t \notin edited' => live'[t] = live[t]
  BY <1>1, <1>2 DEF Publish, TypeInv, TypeOK
<1>4. QED BY <1>1, <1>3, FollowEdited

\* Every step keeps FollowInv.
LEMMA FollowStep == ASSUME TypeInv, FollowInv, [Next]_vars PROVE FollowInv'
<1>1. CASE Fan BY <1>1, FollowReceive, FollowUpdate, FollowSend DEF Fan, FanStep
<1>2. CASE Store BY <1>2, FollowStore
<1>3. CASE DisplayMark BY <1>3, FollowMark
<1>4. CASE Write(WriteStep) BY <1>4, FollowWrite
<1>5. CASE Poll \/ DisplayCheck \/ Surroundings \/ UNCHANGED vars
  <2>1. UNCHANGED <<live, fanPc, cur, same, toHist, hist, edited>>
    BY <1>5 DEF Poll, DisplayCheck, Surroundings, vars, fanVars, histVars
  <2>2. QED BY <2>1, FollowEdited
<1>6. QED BY <1>1, <1>2, <1>3, <1>4, <1>5 DEF Next

\* FollowInv holds at first.
LEMMA InitFollow == ASSUME Init PROVE FollowInv
BY DEF Init, FanInit, FollowInv

\* With FanIn idle and nothing in the channel, that is what the property says.
LEMMA FollowShows == FollowInv => HistoryFollowsLive
<1> SUFFICES ASSUME FollowInv, fanPc = "receive", toHist = <<>>, NEW t \in Tag,
                    live[t] # None, t \notin edited
             PROVE  hist[t] = Payload(live[t])
  BY DEF HistoryFollowsLive
<1>1. LastIn(toHist, hist, t, Payload(live[t])) BY DEF FollowInv
<1>2. DOMAIN toHist = {} OBVIOUS
<1>3. QED BY <1>1, <1>2 DEF LastIn

-----------------------------------------------------------------------------
(* Values that are known are kept.                                         *)

\* The historian h has a value of tag t, or the channel q will bring it one.
Given(q, h, t) == \/ HasValue(h[t])
                  \/ \E i \in DOMAIN q : q[i].tag = t /\ HasValue(q[i])

\* No sample of q takes a value away that the historian has or gets before it.
KeepsValues(q, h) ==
  \A i \in DOMAIN q :
    /\ HasValue(h[q[i].tag]) => HasValue(q[i])
    /\ \A j \in DOMAIN q : j < i /\ q[j].tag = q[i].tag /\ HasValue(q[j]) => HasValue(q[i])

\* A value on its way to the historian is in Live, and in the sample FanIn has
\* merged: a write published since cannot be in that sample, but is not on its way
\* either.
ValueInv ==
  /\ KeepsValues(toHist, hist)
  /\ \A t \in Tag : Given(toHist, hist, t) => HasValue(live[t])
  /\ fanPc # "receive" /\ Given(toHist, hist, cur.tag) => HasValue(cur)
  /\ fanPc = "send" /\ HasValue(cur) => HasValue(live[cur.tag])

\* What a write handler holds has a value.
WritesValue == writePc # "idle" => written.val # NoValue

\* The step that KnownValueKept speaks of.
KeepsKnown == \A t \in Tag : HasValue(hist[t]) => HasValue(live'[t]) /\ HasValue(hist'[t])

\* A payload has a value when its sample has one.
LEMMA PayloadValue == ASSUME NEW s \in Fresh PROVE HasValue(Payload(s)) <=> HasValue(s)
BY FreshFields DEF HasValue

\* Sending a sample that has the value others before it had.
LEMMA ValueSent ==
  ASSUME NEW q \in Seq(Fresh), NEW s \in Fresh, Len(q) < HistCap, NEW h,
         KeepsValues(q, h), Given(q, h, s.tag) => HasValue(s)
  PROVE  /\ KeepsValues(Append(q, s), h)
         /\ \A t : Given(Append(q, s), h, t) => Given(q, h, t) \/ (t = s.tag /\ HasValue(s))
<1>1. /\ DOMAIN q = 1..Len(q) /\ DOMAIN Append(q, s) = 1..(Len(q) + 1) /\ Len(q) \in Nat
      /\ \A i \in DOMAIN q : Append(q, s)[i] = q[i]
      /\ Append(q, s)[Len(q) + 1] = s
  BY Sent, FanInAssumption
<1>2. \A i \in DOMAIN Append(q, s) :
        (i \in DOMAIN q /\ Append(q, s)[i] = q[i]) \/ (i = Len(q) + 1 /\ Append(q, s)[i] = s)
  BY <1>1
<1>3. \A t : Given(Append(q, s), h, t) => Given(q, h, t) \/ (t = s.tag /\ HasValue(s))
  BY <1>2 DEF Given
<1>4. KeepsValues(Append(q, s), h)
  <2> SUFFICES ASSUME NEW i \in DOMAIN Append(q, s)
               PROVE  /\ HasValue(h[Append(q, s)[i].tag]) => HasValue(Append(q, s)[i])
                      /\ \A j \in DOMAIN Append(q, s) :
                           /\ j < i /\ Append(q, s)[j].tag = Append(q, s)[i].tag
                           /\ HasValue(Append(q, s)[j])
                           => HasValue(Append(q, s)[i])
    BY DEF KeepsValues
  <2>1. CASE i \in DOMAIN q
    <3>1. Append(q, s)[i] = q[i] /\ i \in 1..Len(q) BY <1>1, <2>1
    <3>2. \A j \in DOMAIN Append(q, s) : j < i => j \in DOMAIN q /\ Append(q, s)[j] = q[j]
      BY <1>1, <3>1
    <3>3. QED BY <2>1, <3>1, <3>2 DEF KeepsValues
  <2>2. CASE i = Len(q) + 1
    <3>1. Append(q, s)[i] = s BY <1>1, <2>2
    <3>2. \A j \in DOMAIN Append(q, s) : j < i => j \in DOMAIN q /\ Append(q, s)[j] = q[j]
      BY <1>1, <2>2
    <3>3. QED BY <3>1, <3>2 DEF Given
  <2>3. QED BY <1>2, <2>1, <2>2
<1>5. QED BY <1>3, <1>4

\* Taking a sample into the historian brings it no value it was not to get, and
\* takes none away.
LEMMA ValueTaken ==
  ASSUME NEW q \in Seq(Fresh), q # <<>>, NEW h, DOMAIN h = Tag, KeepsValues(q, h)
  PROVE  /\ KeepsValues(Tail(q), Stored(h, Head(q)))
         /\ \A t \in Tag : Given(Tail(q), Stored(h, Head(q)), t) => Given(q, h, t)
         /\ \A t \in Tag : HasValue(h[t]) => HasValue(Stored(h, Head(q))[t])
<1>1. /\ Head(q) = q[1] /\ Head(q) \in Fresh /\ Len(q) \in Nat \ {0}
      /\ DOMAIN q = 1..Len(q) /\ DOMAIN Tail(q) = 1..(Len(q) - 1)
      /\ \A i \in DOMAIN Tail(q) : Tail(q)[i] = q[i + 1] /\ i + 1 \in DOMAIN q
  BY Taken
<1>2. \A t : t # q[1].tag => Stored(h, Head(q))[t] = h[t] BY <1>1 DEF Stored
<1>3. q[1].tag \in Tag /\ Stored(h, Head(q))[q[1].tag] = Payload(q[1])
  BY <1>1, FreshFields DEF Stored
<1>4. HasValue(Stored(h, Head(q))[q[1].tag]) <=> HasValue(q[1])
  BY <1>1, <1>3, PayloadValue
<1>5. 1 \in DOMAIN q BY <1>1
<1>6. KeepsValues(Tail(q), Stored(h, Head(q)))
  <2> SUFFICES ASSUME NEW i \in DOMAIN Tail(q)
               PROVE  /\ HasValue(Stored(h, Head(q))[q[i + 1].tag]) => HasValue(q[i + 1])
                      /\ \A j \in DOMAIN Tail(q) :
                           j < i /\ q[j + 1].tag = q[i + 1].tag /\ HasValue(q[j + 1])
                             => HasValue(q[i + 1])
    BY <1>1 DEF KeepsValues
  <2>1. i + 1 \in DOMAIN q /\ 1 < i + 1 /\ i \in Nat BY <1>1
  <2>2. HasValue(Stored(h, Head(q))[q[i + 1].tag]) => HasValue(q[i + 1])
    <3>1. CASE q[i + 1].tag = q[1].tag BY <1>4, <1>5, <2>1, <3>1 DEF KeepsValues
    <3>2. CASE q[i + 1].tag # q[1].tag BY <1>2, <2>1, <3>2 DEF KeepsValues
    <3>3. QED BY <3>1, <3>2
  <2>3. \A j \in DOMAIN Tail(q) : j < i => j + 1 \in DOMAIN q /\ j + 1 < i + 1
    BY <1>1, <2>1
  <2>4. QED BY <2>1, <2>2, <2>3 DEF KeepsValues
<1>7. \A t \in Tag : Given(Tail(q), Stored(h, Head(q)), t) => Given(q, h, t)
  BY <1>1, <1>2, <1>4, <1>5 DEF Given
<1>8. \A t \in Tag : HasValue(h[t]) => HasValue(Stored(h, Head(q))[t])
  BY <1>2, <1>4, <1>5 DEF KeepsValues
<1>9. QED BY <1>6, <1>7, <1>8

\* Steps that leave FanIn and the historian alone and take no value from Live.
LEMMA ValueQuiet ==
  ASSUME TypeInv, ValueInv, UNCHANGED <<fanPc, cur, toHist, hist>>,
         \A t \in Tag : HasValue(live[t]) => HasValue(live'[t])
  PROVE  ValueInv' /\ KeepsKnown
<1>1. fanPc = "send" => cur.tag \in Tag BY FreshFields DEF TypeInv
<1>2. ValueInv' BY <1>1 DEF ValueInv
<1>3. KeepsKnown BY DEF KeepsKnown, ValueInv, Given
<1>4. QED BY <1>2, <1>3

\* The merge keeps the value that Live has.
LEMMA ValueReceive == ASSUME TypeInv, ValueInv, Fan, FanReceive PROVE ValueInv' /\ KeepsKnown
<1>1. /\ fanPc' = "update" /\ raw # <<>>
      /\ cur' = Merge(live[Head(raw).tag], Head(raw))
      /\ UNCHANGED <<live, toHist, hist>>
  BY DEF Fan, FanReceive, histVars
<1>2. Head(raw) \in Fresh /\ live[Head(raw).tag] \in Fresh \cup {None} /\ Head(raw).tag \in Tag
  BY <1>1, Taken, FreshFields DEF TypeInv, TypeOK
<1>3. cur'.tag = Head(raw).tag /\ (HasValue(live[Head(raw).tag]) => HasValue(cur'))
  BY <1>1, <1>2, Merged
<1>4. ValueInv' BY <1>1, <1>2, <1>3 DEF ValueInv
<1>5. KeepsKnown BY <1>1 DEF KeepsKnown, ValueInv, Given
<1>6. QED BY <1>4, <1>5

\* The update puts no sample without a value over one with it.
LEMMA ValueUpdate == ASSUME TypeInv, ValueInv, Fan, FanUpdate PROVE ValueInv' /\ KeepsKnown
<1>1. /\ fanPc = "update" /\ live' = [live EXCEPT ![cur.tag] = cur]
      /\ fanPc' = IF same THEN "receive" ELSE "send"
      /\ cur' = IF same THEN None ELSE cur
      /\ UNCHANGED <<toHist, hist>>
  BY DEF Fan, FanUpdate, histVars
<1>2. cur \in Fresh /\ cur.tag \in Tag /\ live \in [Tag -> Fresh \cup {None}]
  BY <1>1, FreshFields DEF TypeInv, TypeOK
<1>3. live'[cur.tag] = cur /\ \A t \in Tag : t # cur.tag => live'[t] = live[t]
  BY <1>1, <1>2
<1>4. \A t \in Tag : Given(toHist, hist, t) => HasValue(live'[t])
  BY <1>1, <1>3 DEF ValueInv
<1>5. ValueInv' BY <1>1, <1>3, <1>4 DEF ValueInv
<1>6. KeepsKnown BY <1>1, <1>4 DEF KeepsKnown, Given
<1>7. QED BY <1>5, <1>6

\* What is sent of a tag with a value has one.
LEMMA ValueSend == ASSUME TypeInv, ValueInv, Fan, FanSend PROVE ValueInv' /\ KeepsKnown
<1>1. /\ fanPc = "send" /\ fanPc' = "receive" /\ Len(toHist) < HistCap
      /\ toHist' = Append(toHist, cur)
      /\ UNCHANGED <<live, hist>>
  BY DEF Fan, FanSend, histVars
<1>2. cur \in Fresh /\ toHist \in Seq(Fresh) BY <1>1 DEF TypeInv, TypeOK
<1>3. /\ KeepsValues(toHist', hist)
      /\ \A t : Given(toHist', hist, t) =>
                  Given(toHist, hist, t) \/ (t = cur.tag /\ HasValue(cur))
  BY <1>1, <1>2, ValueSent DEF ValueInv
<1>4. \A t \in Tag : Given(toHist', hist, t) => HasValue(live[t])
  BY <1>1, <1>3 DEF ValueInv
<1>5. ValueInv' BY <1>1, <1>3, <1>4 DEF ValueInv
<1>6. KeepsKnown BY <1>1 DEF KeepsKnown, ValueInv, Given
<1>7. QED BY <1>5, <1>6

\* So does the row that is stored.
LEMMA ValueStore == ASSUME TypeInv, ValueInv, Store PROVE ValueInv' /\ KeepsKnown
<1>1. /\ toHist # <<>> /\ toHist' = Tail(toHist) /\ hist' = Stored(hist, Head(toHist))
      /\ UNCHANGED <<live, fanPc, cur>>
  BY DEF Store, Stored
<1>2. toHist \in Seq(Fresh) /\ DOMAIN hist = Tag BY DEF TypeInv, TypeOK
<1>3. /\ KeepsValues(toHist', hist')
      /\ \A t \in Tag : Given(toHist', hist', t) => Given(toHist, hist, t)
      /\ \A t \in Tag : HasValue(hist[t]) => HasValue(hist'[t])
  BY <1>1, <1>2, ValueTaken DEF ValueInv
<1>4. fanPc # "receive" => cur.tag \in Tag BY FreshFields DEF TypeInv
<1>5. ValueInv' BY <1>1, <1>3, <1>4 DEF ValueInv
<1>6. KeepsKnown BY <1>1, <1>3 DEF KeepsKnown, ValueInv, Given
<1>7. QED BY <1>5, <1>6

\* A display handler changes the quality only.
LEMMA ValueMark == ASSUME TypeInv, ValueInv, DisplayMark PROVE ValueInv' /\ KeepsKnown
<1>1. /\ live' = [t \in Tag |-> IF Stale(t) THEN [live[t] EXCEPT !.q = "bad"] ELSE live[t]]
      /\ UNCHANGED <<fanPc, cur, toHist, hist>>
  BY DEF DisplayMark
<1>2. ASSUME NEW t \in Tag, HasValue(live[t]) PROVE HasValue(live'[t])
  <2>1. live[t] \in Fresh BY <1>2 DEF TypeInv, TypeOK, HasValue
  <2>2. HasValue([live[t] EXCEPT !.q = "bad"])
    BY <1>2, <2>1, Marked, FreshFields DEF HasValue
  <2>3. QED BY <1>1, <1>2, <2>2
<1>3. QED BY <1>1, <1>2, ValueQuiet

\* A write handler publishes values only.
LEMMA ValueWrite ==
  ASSUME TypeInv, WritesValue, ValueInv, Write(WriteStep) PROVE ValueInv' /\ KeepsKnown
<1>1. WriteStep /\ UNCHANGED <<fanPc, cur, toHist, hist>> BY DEF Write
<1>2. live' = live \/ (writePc # "idle" /\ Publish)
  BY <1>1 DEF WriteStep, WritePlc, PublishWritten, Readback, MarkAlive, GiveUp, PublishObserved
<1>3. writePc # "idle" => HasValue(written)
  BY FreshFields DEF WritesValue, TypeInv, HasValue
<1>4. \A t \in Tag : HasValue(live[t]) => HasValue(live'[t])
  BY <1>2, <1>3 DEF Publish, TypeInv, TypeOK
<1>5. QED BY <1>1, <1>4, ValueQuiet

\* It is the value of the request.
LEMMA WritesStep == ASSUME TypeInv, WritesValue, [Next]_vars PROVE WritesValue'
<1>1. CASE Write(WriteStep)
  <2>1. CASE WritePlc
    <3>1. PICK t \in Writable, v \in Value : written' = [tag |-> t, val |-> v, q |-> "good"]
      BY <2>1 DEF WritePlc
    <3>2. QED BY <3>1, FanInAssumption DEF WritesValue
  <2>2. CASE ~WritePlc
    BY <1>1, <2>2
    DEF Write, WriteStep, PublishWritten, Readback, MarkAlive, GiveUp, PublishObserved,
        WriteEnd, WritesValue
  <2>3. QED BY <2>1, <2>2
<1>2. CASE ~Write(WriteStep)
  BY <1>2 DEF Next, Fan, Poll, Store, DisplayCheck, DisplayMark, Surroundings, vars, writer,
              WritesValue
<1>3. QED BY <1>1, <1>2

\* Every step keeps ValueInv and the values that are known.
LEMMA ValueStep ==
  ASSUME TypeInv, WritesValue, ValueInv, [Next]_vars PROVE ValueInv' /\ KeepsKnown
<1>1. CASE Fan BY <1>1, ValueReceive, ValueUpdate, ValueSend DEF Fan, FanStep
<1>2. CASE Store BY <1>2, ValueStore
<1>3. CASE DisplayMark BY <1>3, ValueMark
<1>4. CASE Write(WriteStep) BY <1>4, ValueWrite
<1>5. CASE Poll \/ DisplayCheck \/ Surroundings \/ UNCHANGED vars
  <2>1. UNCHANGED <<live, fanPc, cur, toHist, hist>>
    BY <1>5 DEF Poll, DisplayCheck, Surroundings, vars, fanVars, histVars
  <2>2. QED BY <2>1, ValueQuiet
<1>6. QED BY <1>1, <1>2, <1>3, <1>4, <1>5 DEF Next

\* ValueInv and WritesValue hold at first.
LEMMA InitValue == ASSUME Init PROVE ValueInv /\ WritesValue
BY DEF Init, FanInit, WriteInit, ValueInv, KeepsValues, Given, HasValue, WritesValue

-----------------------------------------------------------------------------
(* Theorems.                                                               *)

\* Whatever the PLC, the link, the handlers and a slow historian do: every
\* variable keeps its type, no good sample is without a value, and neither channel
\* exceeds its capacity.
THEOREM CollectTypes == Spec => []TypeOK
<1>1. Spec => []TypeInv BY InitType, TypeStep, PTL DEF Spec
<1>2. TypeInv => TypeOK BY DEF TypeInv
<1>3. QED BY <1>1, <1>2, PTL

\* Suppressing unchanged samples never leaves the historian behind Live
\* (fanin.go:19-42), for any number of tags and any capacities: when FanIn is idle
\* and its channel empty, the historian holds the payload Live shows of each tag
\* that no handler has written since FanIn forwarded it.
THEOREM HistoryFollows == Spec => []HistoryFollowsLive
<1>1. Init => TypeInv /\ FollowInv BY InitType, InitFollow
<1>2. TypeInv /\ FollowInv /\ [Next]_vars => (TypeInv /\ FollowInv)' BY TypeStep, FollowStep
<1>3. FollowInv => HistoryFollowsLive BY FollowShows
<1>4. QED BY <1>1, <1>2, <1>3, PTL DEF Spec

\* Once the historian has a value of a tag, no later poll, loss of the link or
\* handler takes it from Live or from the historian (fanin.go:24-31,
\* live.go:82-105).
THEOREM ValuesKept == Spec => KnownValueKept
<1>1. Init => TypeInv /\ WritesValue /\ ValueInv BY InitType, InitValue
<1>2. TypeInv /\ WritesValue /\ ValueInv /\ [Next]_vars
        => (TypeInv /\ WritesValue /\ ValueInv)'
  BY TypeStep, WritesStep, ValueStep
<1>3. TypeInv /\ WritesValue /\ ValueInv /\ [Next]_vars
        => [\A t \in Tag : HasValue(hist[t]) => HasValue(live'[t]) /\ HasValue(hist'[t])]_vars
  BY ValueStep DEF KeepsKnown
<1>4. QED BY <1>1, <1>2, <1>3, PTL DEF Spec, KnownValueKept
=============================================================================
