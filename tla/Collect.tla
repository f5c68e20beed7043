------------------------------ MODULE Collect -------------------------------
(***************************************************************************)
(* One device from the wire to the Live store and the historian channel:   *)
(* PollLoop sends to raw, FanIn empties it, and two kinds of API handler   *)
(* write to Live beside FanIn: the display handlers, which mark the tags   *)
(* of a disconnected device bad before they answer, and the write          *)
(* handlers (WriteHandler), which publish what they wrote to the PLC.      *)
(*                                                                         *)
(* The historian leg is FlushSpool; here it only keeps the payload of the  *)
(* last sample it was given for each tag.                                  *)
(***************************************************************************)
EXTENDS FanIn

CONSTANTS Unreadable,  \* what a Read returns that mapDataValue refuses
          Readings,    \* what the PLC program may put in a tag by itself
          Writable,    \* tags the write handlers accept
          Displayed    \* tags the display handlers reconcile

ASSUME CollectAssumption == /\ Unreadable \notin Value
                            /\ Readings \subseteq Value \cup {Unreadable}
                            /\ Writable \subseteq Tag
                            /\ Displayed \subseteq Tag

VARIABLES link, plc, session, alive, cancelled, pollPc, pending,
          writePc, written, verify,
          marking,  \* a display handler found the device disconnected
          hist,     \* last payload the historian leg got for each tag
          edited    \* tags a handler changed in Live since FanIn last
                    \* forwarded a sample of theirs (history variable)

INSTANCE PollLoop WITH OutCap <- RawCap, out <- raw
INSTANCE WriteHandler

driver    == <<link, plc, session, alive, cancelled, pollPc, pending>>
writer    == <<writePc, written, verify>>
histVars  == <<hist, edited>>
vars      == <<fanVars, driver, writer, marking, histVars>>

Init == /\ FanInit
        /\ PollInit
        /\ WriteInit
        /\ marking = FALSE
        /\ hist = [t \in Tag |-> None]
        /\ edited = {}

-----------------------------------------------------------------------------
(* reconcileStaleLiveQuality: DevHub.Status first, MarkQualityPreserveTime *)
(* later, with anything in between.                                        *)

Stale(t) == t \in Displayed /\ live[t] # None /\ live[t].q # "bad"

DisplayCheck == /\ ~marking /\ ~alive
                /\ Displayed # {}
                /\ marking' = TRUE
                /\ UNCHANGED <<fanVars, driver, writer, histVars>>

DisplayMark == /\ marking
               /\ live' = [t \in Tag |-> IF Stale(t) THEN [live[t] EXCEPT !.q = "bad"]
                                         ELSE live[t]]
               /\ edited' = edited \cup {t \in Tag : Stale(t)}
               /\ marking' = FALSE
               /\ UNCHANGED <<raw, fanPc, cur, same, toHist, driver, writer, hist>>

-----------------------------------------------------------------------------
Publishing == writePc \in {"written", "observed"}

Write(A) == /\ A
            /\ edited' = IF Publishing THEN edited \cup {written.tag} ELSE edited
            /\ UNCHANGED <<raw, fanPc, cur, same, toHist, cancelled, pollPc, pending,
                           marking, hist>>

Fan == /\ FanStep
       /\ edited' = IF fanPc = "update" /\ ~same THEN edited \ {cur.tag} ELSE edited
       /\ UNCHANGED <<driver, writer, marking, hist>>

Poll == /\ PollStep
        /\ UNCHANGED <<live, fanPc, cur, same, toHist, writer, marking, histVars>>

\* The historian leg takes the next sample.
Store == /\ toHist # <<>>
         /\ toHist' = Tail(toHist)
         /\ hist' = [hist EXCEPT ![Head(toHist).tag] = Payload(Head(toHist))]
         /\ UNCHANGED <<raw, live, fanPc, cur, same, driver, writer, marking, edited>>

Surroundings == /\ Reload \/ LinkChanges \/ PlcChanges
                /\ UNCHANGED <<fanVars, writer, marking, histVars>>

Next == \/ Fan \/ Poll \/ Store
        \/ DisplayCheck \/ DisplayMark \/ Write(WriteStep)
        \/ Surroundings

Spec == Init /\ [][Next]_vars

\* The goroutines keep running and a handler that has begun finishes.  The
\* link, the PLC, the configuration and the clients owe nothing.
FairSpec == /\ Spec
            /\ WF_vars(Fan) /\ WF_vars(Store) /\ WF_vars(Poll)
            /\ WF_vars(DisplayMark) /\ WF_vars(Write(WriteOn))

-----------------------------------------------------------------------------
(* Properties                                                              *)

Fresh == {s \in Sample : s.q = "good" => s.val # NoValue}

\* The types, with the capacities of the two channels.
TypeOK ==
  /\ raw \in Seq(Fresh) /\ Len(raw) <= RawCap
  /\ toHist \in Seq(Fresh) /\ Len(toHist) <= HistCap
  /\ live \in [Tag -> Fresh \cup {None}]
  /\ fanPc \in {"receive", "update", "send"}
  /\ cur \in Fresh \cup {None} /\ same \in BOOLEAN
  /\ link \in BOOLEAN /\ plc \in [Tag -> Value \cup {Unreadable}]
  /\ session \in BOOLEAN /\ alive \in BOOLEAN /\ cancelled \in BOOLEAN
  /\ pollPc \in {"connect", "wait", "read", "emit", "bad"}
  /\ pending \subseteq Fresh
  /\ writePc \in {"idle", "written", "verify", "seen", "missed", "observed"}
  /\ written \in Fresh \cup {None} /\ verify \in BOOLEAN
  /\ marking \in BOOLEAN
  /\ hist \in [Tag -> {None} \cup [val : Value \cup {NoValue}, q : Quality]]
  /\ edited \subseteq Tag

\* Suppressing unchanged samples never leaves the historian behind Live: once
\* FanIn is idle and its channel empty, the last sample of each tag the
\* historian got has the payload Live shows, unless a handler has written to
\* Live since (fanin.go:19-42).
HistoryFollowsLive ==
  fanPc = "receive" /\ toHist = <<>> =>
    \A t \in Tag : live[t] # None /\ t \notin edited => hist[t] = Payload(live[t])

HasValue(p) == p # None /\ p.val # NoValue

\* Once the historian has a value of a tag, no later poll, link loss or handler
\* takes the value away from Live, and no row without a value follows: only
\* the quality turns bad (fanin.go:24-31, live.go:82-105).
KnownValueKept ==
  [][\A t \in Tag : HasValue(hist[t]) => HasValue(live'[t]) /\ HasValue(hist'[t])]_vars

\* What a display handler answers: Live, overridden while the device is down.
Shown(t) == IF live[t] = None THEN "none"
            ELSE IF alive THEN live[t].q ELSE "bad"

\* When the server is gone for good, no tag is shown as good for ever, however
\* polls, reloads and readbacks interleave (driver.go:165-174, live_display.go).
LinkLossShown == <>[]~link => <>[](\A t \in Tag : Shown(t) # "good")

\* Live shows the reading r of the PLC.
Shows(t, r) == /\ live[t] # None
               /\ IF r = Unreadable THEN live[t].q = "bad"
                  ELSE Payload(live[t]) = [val |-> r, q |-> "good"]

\* When the server answers, the configuration rests and the PLC holds a reading
\* still, Live comes to show it and goes on showing it: a late bad sample, a
\* late mark of a display handler or a late write cannot stick.
LiveSettles ==
  \A t \in Tag, r \in Value \cup {Unreadable} :
    <>[](link /\ ~cancelled /\ plc[t] = r) => <>[]Shows(t, r)

\* live_display.go:31-32: "historian is not written here (poll/reconnect or
\* emitBadSamples handle that path)".  When the server is gone for good, and no
\* change of the configuration cuts emitBadSamples short, the last sample the
\* historian has of a tag it knows is bad.
BadReachesHistory ==
  []~cancelled /\ <>[]~link => \A t \in Tag : []<>(hist[t] = None \/ hist[t].q = "bad")
=============================================================================
