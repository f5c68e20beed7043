----------------------------- MODULE WipeProofs -----------------------------
(***************************************************************************)
(* Theorems about Wipe, for any tags, values and capacities of the         *)
(* channels: the steps of Collect keep their invariants beside a wipe, and *)
(* each step of the wipe owns up to the tags it takes from the historian   *)
(* or from Live.                                                           *)
(***************************************************************************)
EXTENDS Wipe, CollectProofs

\* Once taken and until it is dropped, the snapshot is one of Live.
SnapInv == wipePc \in {"snapped", "cleared"} => snap \in [Tag -> Fresh \cup {None}]

WipeInv == TypeInv /\ SnapInv /\ FollowInv

-----------------------------------------------------------------------------
(* The steps of the wipe.                                                  *)

\* Steps that change the historian or Live, and nothing else of Collect but the tags
\* they own up to.
LEMMA WipeChanges ==
  ASSUME TypeInv, FollowInv, edited \subseteq edited', edited' \subseteq Tag,
         UNCHANGED <<raw, fanPc, cur, same, toHist, driver, writer, marking>>,
         live' \in [Tag -> Fresh \cup {None}],
         hist' \in [Tag -> {None} \cup [val : Value \cup {NoValue}, q : Quality]],
         \A t \in Tag : t \notin edited' => live'[t] = live[t] /\ hist'[t] = hist[t]
  PROVE  TypeInv' /\ FollowInv'
<1>1. TypeInv' BY DEF TypeInv, TypeOK, driver, writer
<1>2. QED BY <1>1, FollowEdited

\* Emptying the table keeps WipeInv: no payload is forwarded last of any tag.
LEMMA WipeSamplesStep == ASSUME WipeInv, WipeSamples PROVE WipeInv'
<1>1. /\ wipePc' = "truncated" /\ hist' = [t \in Tag |-> None]
      /\ edited' = edited \cup {t \in Tag : hist[t] # None}
      /\ UNCHANGED <<raw, live, fanPc, cur, same, toHist, driver, writer, marking>>
  BY DEF WipeSamples, fanVars
<1>2. TypeInv' /\ FollowInv'
  BY <1>1, WipeChanges DEF WipeInv, TypeInv, TypeOK
<1>3. QED BY <1>1, <1>2 DEF WipeInv, SnapInv

\* Clearing Live keeps WipeInv.
LEMMA ClearStep == ASSUME WipeInv, Clear PROVE WipeInv'
<1>1. /\ wipePc = "snapped" /\ snap' = snap
      /\ live' = [t \in Tag |-> None]
      /\ edited' = edited \cup Known
      /\ UNCHANGED <<raw, fanPc, cur, same, toHist, driver, writer, marking, hist>>
  BY DEF Clear
<1>2. \A t \in Tag : t \notin edited' => live'[t] = live[t] BY <1>1 DEF Known
<1>3. edited' \subseteq Tag BY <1>1 DEF Known, WipeInv, TypeInv, TypeOK
<1>4. TypeInv' /\ FollowInv'
  BY <1>1, <1>2, <1>3, WipeChanges DEF WipeInv, TypeInv, TypeOK
<1>5. QED BY <1>1, <1>4 DEF WipeInv, SnapInv

\* The reseed keeps WipeInv.
LEMMA ReseedStep == ASSUME WipeInv, Reseed PROVE WipeInv'
<1>1. /\ wipePc = "cleared" /\ wipePc' = "done"
      /\ hist' = [t \in Tag |-> IF t \in Seeds THEN Payload(snap[t]) ELSE hist[t]]
      /\ edited' = edited \cup Seeds
      /\ UNCHANGED <<raw, live, fanPc, cur, same, toHist, driver, writer, marking>>
  BY DEF Reseed, fanVars
<1>2. \A t \in Seeds : Payload(snap[t]) \in [val : Value \cup {NoValue}, q : Quality]
  BY <1>1, FreshFields DEF Seeds, WipeInv, SnapInv
<1>3. hist' \in [Tag -> {None} \cup [val : Value \cup {NoValue}, q : Quality]]
  BY <1>1, <1>2 DEF WipeInv, TypeInv, TypeOK
<1>4. edited' \subseteq Tag BY <1>1 DEF Seeds, WipeInv, TypeInv, TypeOK
<1>5. TypeInv' /\ FollowInv'
  BY <1>1, <1>3, <1>4, WipeChanges DEF WipeInv, TypeInv, TypeOK
<1>6. QED BY <1>1, <1>5 DEF WipeInv, SnapInv

\* The other steps of the wipe leave what Collect has as it is.
LEMMA WipeQuiet == ASSUME WipeInv, UNCHANGED vars PROVE TypeInv' /\ FollowInv'
BY TypeStep, FollowStep DEF WipeInv

\* Every step keeps WipeInv.
LEMMA WipeStep == ASSUME WipeInv, [WipeNext]_allVars PROVE WipeInv'
<1>1. CASE Next /\ UNCHANGED wipeVars
  BY <1>1, TypeStep, FollowStep DEF WipeInv, SnapInv, wipeVars
<1>2. CASE WipeSamples BY <1>2, WipeSamplesStep
<1>3. CASE ClearTagsFails \/ ReseedFails
  <2>1. UNCHANGED vars /\ wipePc' = "done" BY <1>3 DEF ClearTagsFails, ReseedFails
  <2>2. QED BY <2>1, WipeQuiet DEF WipeInv, SnapInv
<1>4. CASE Snapshot
  <2>1. UNCHANGED vars /\ wipePc' = "snapped" /\ snap' = live BY <1>4 DEF Snapshot
  <2>2. live \in [Tag -> Fresh \cup {None}] BY DEF WipeInv, TypeInv, TypeOK
  <2>3. QED BY <2>1, <2>2, WipeQuiet DEF WipeInv, SnapInv
<1>5. CASE Clear BY <1>5, ClearStep
<1>6. CASE Reseed BY <1>6, ReseedStep
<1>7. CASE UNCHANGED allVars BY <1>7, WipeQuiet DEF WipeInv, SnapInv, allVars, wipeVars
<1>8. QED BY <1>1, <1>2, <1>3, <1>4, <1>5, <1>6, <1>7 DEF WipeNext, WipeOn

\* The suppression of unchanged samples stays sound beside a wipe, wherever FanIn
\* and the historian leg are when the table is emptied, Live cleared and the
\* snapshot written back (database.go:212-305): whatever the wipe has not touched,
\* the historian holds as Live shows it.
THEOREM FollowsBesideWipe == WipeSpec => []HistoryFollowsLive
<1>1. WipeInit => WipeInv
  BY InitType, InitFollow DEF WipeInit, WipeInv, SnapInv
<1>2. WipeInv => HistoryFollowsLive BY FollowShows DEF WipeInv
<1>3. QED BY <1>1, <1>2, WipeStep, PTL DEF WipeSpec
=============================================================================
