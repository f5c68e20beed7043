------------------------------- MODULE FanIn --------------------------------
(***************************************************************************)
(* The goroutine between the drivers and the rest: FanIn takes each sample *)
(* off the channel raw, writes it to the Live store, broadcasts it, and    *)
(* sends it down toHist only when its payload differs from what Live held  *)
(* a moment before.  API handlers write to Live too, so Live.Get and       *)
(* Live.Update are two steps.                                              *)
(*                                                                         *)
(* A sample is a record with the fields tag, val and q at least; val is    *)
(* NoValue when the three value pointers are nil.  FanIn never reads any   *)
(* other field (the time travels with the sample).                         *)
(***************************************************************************)
EXTENDS Naturals, Sequences

CONSTANTS Tag,      \* tag ids
          Value,    \* values a tag can take
          NoValue,  \* a sample without a value
          None,     \* Live has no entry
          RawCap,   \* capacity of raw (2048 in main)
          HistCap   \* capacity of toHist (2048 in main)

ASSUME FanInAssumption == /\ NoValue \notin Value
                          /\ RawCap \in Nat \ {0}
                          /\ HistCap \in Nat \ {0}

VARIABLES raw,     \* channel from the drivers
          live,    \* Live: the latest sample of each tag
          fanPc,   \* "receive", "update" or "send"
          cur,     \* FanIn's s, after the merge
          same,    \* FanIn's unchanged
          toHist   \* channel to flushLoop

fanVars == <<raw, live, fanPc, cur, same, toHist>>

Quality == {"good", "bad"}
Sample  == [tag : Tag, val : Value \cup {NoValue}, q : Quality]

\* What no map holds is none of the samples, nor what is compared of one.
ASSUME NoneAssumption == None \notin Sample \cup [val : Value \cup {NoValue}, q : Quality]

FanInit == /\ raw = <<>> /\ toHist = <<>>
           /\ live = [t \in Tag |-> None]
           /\ fanPc = "receive" /\ cur = None /\ same = FALSE

-----------------------------------------------------------------------------
Payload(s) == [val |-> s.val, q |-> s.q]

\* Mutant: SamePayload forgets the quality.
SameValue(s, t) == s.val = t.val

\* Sample.SamePayload: values and quality, not time.
SamePayload(s, t) == Payload(s) = Payload(t)

\* Mutant: a bad sample without a value overwrites the value.
MergeNot(prev, s) == s

\* A bad sample without a value keeps the value Live has.
Merge(prev, s) == IF prev # None /\ s.q # "good" /\ s.val = NoValue
                  THEN [s EXCEPT !.val = prev.val]
                  ELSE s

\* case s, ok := <-in, with live.Get, the merge and the comparison.
FanReceive == /\ fanPc = "receive"
              /\ raw # <<>>
              /\ raw' = Tail(raw)
              /\ LET prev == live[Head(raw).tag]
                     s    == Merge(prev, Head(raw))
                 IN /\ cur' = s
                    /\ same' = (prev # None /\ SamePayload(prev, s))
              /\ fanPc' = "update"
              /\ UNCHANGED <<live, toHist>>

\* live.Update and hub.Broadcast; an unchanged sample ends here.
FanUpdate == /\ fanPc = "update"
             /\ live' = [live EXCEPT ![cur.tag] = cur]
             /\ fanPc' = IF same THEN "receive" ELSE "send"
             /\ cur' = IF same THEN None ELSE cur
             /\ same' = FALSE
             /\ UNCHANGED <<raw, toHist>>

\* Mutant: the channel takes one sample more.
FanSendOneMore == /\ fanPc = "send"
                  /\ Len(toHist) <= HistCap
                  /\ toHist' = Append(toHist, cur)
                  /\ fanPc' = "receive"
                  /\ cur' = None
                  /\ UNCHANGED <<raw, live, same>>

\* out <- s blocks while the historian leg is behind.
FanSend == /\ fanPc = "send"
           /\ Len(toHist) < HistCap
           /\ toHist' = Append(toHist, cur)
           /\ fanPc' = "receive"
           /\ cur' = None
           /\ UNCHANGED <<raw, live, same>>

FanStep == FanReceive \/ FanUpdate \/ FanSend
=============================================================================
