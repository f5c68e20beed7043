-------------------------------- MODULE Wipe --------------------------------
(***************************************************************************)
(* handleWipeSamples beside the collection of Collect: the handler empties *)
(* the table, takes a snapshot of Live, clears Live so that FanIn forwards *)
(* the next poll, and writes the snapshot as the first rows.  Nothing      *)
(* keeps FanIn and the historian leg out in between.                       *)
(*                                                                         *)
(* hist is what the table holds last of each tag, in the order of the      *)
(* writes; a sample in toHist when the table is emptied is stored after.   *)
(***************************************************************************)
EXTENDS Collect

VARIABLES wipePc,  \* "idle", "truncated", "snapped", "cleared" or "done"
          snap,    \* the snapshot of Live
          missed   \* tags whose rows the wipe took and FanIn will not forward
                   \* again by itself (history variable)

wipeVars == <<wipePc, snap, missed>>
allVars  == <<vars, wipeVars>>

WipeInit == Init /\ wipePc = "idle" /\ snap = None /\ missed = {}

Known == {t \in Tag : live[t] # None}

\* DB.WipeSamples: TRUNCATE, or DELETE where it is not allowed.
WipeSamples == /\ wipePc = "idle"
               /\ wipePc' = "truncated"
               /\ hist' = [t \in Tag |-> None]
               /\ edited' = edited \cup {t \in Tag : hist[t] # None}
               /\ UNCHANGED <<fanVars, driver, writer, marking, snap, missed>>

\* The handler returns when the tags could not be cleared as well: Live is
\* left as it is.
ClearTagsFails == /\ wipePc = "truncated"
                  /\ wipePc' = "done"
                  /\ missed' = Known
                  /\ UNCHANGED <<vars, snap>>

\* snap := live.All()
Snapshot == /\ wipePc = "truncated"
            /\ wipePc' = "snapped"
            /\ snap' = live
            /\ UNCHANGED <<vars, missed>>

\* Mutant: Live keeps what it has.
ClearNot == /\ wipePc = "snapped"
            /\ wipePc' = "cleared"
            /\ UNCHANGED <<vars, snap, missed>>

\* live.Clear().  A sample FanIn has compared with the old entry and not yet
\* put into Live will be put there unsent.
Clear == /\ wipePc = "snapped"
         /\ wipePc' = "cleared"
         /\ live' = [t \in Tag |-> None]
         /\ edited' = edited \cup Known
         /\ missed' = IF fanPc = "update" /\ same THEN {cur.tag} ELSE {}
         /\ UNCHANGED <<raw, fanPc, cur, same, toHist, driver, writer, marking, hist, snap>>

Seeds == {t \in Tag : snap[t] # None}

\* WriteBatch of the snapshot, with the time set to now.
Reseed == /\ wipePc = "cleared"
          /\ wipePc' = "done"
          /\ hist' = [t \in Tag |-> IF t \in Seeds THEN Payload(snap[t]) ELSE hist[t]]
          /\ edited' = edited \cup Seeds
          /\ missed' = {}
          /\ snap' = None
          /\ UNCHANGED <<fanVars, driver, writer, marking>>

\* WriteBatch fails, or the gate refuses it.
ReseedFails == /\ wipePc = "cleared"
               /\ wipePc' = "done"
               /\ snap' = None
               /\ UNCHANGED <<vars, missed>>

WipeOn == Snapshot \/ Clear \/ Reseed \/ ReseedFails

WipeNext == \/ Next /\ UNCHANGED wipeVars
            \/ WipeSamples \/ ClearTagsFails \/ WipeOn

WipeSpec == WipeInit /\ [][WipeNext]_allVars

\* As in Collect; a wipe that has begun comes to its end.
FairWipeSpec == /\ WipeSpec
                /\ WF_allVars(Fan /\ UNCHANGED wipeVars)
                /\ WF_allVars(Store /\ UNCHANGED wipeVars)
                /\ WF_allVars(Poll /\ UNCHANGED wipeVars)
                /\ WF_allVars(DisplayMark /\ UNCHANGED wipeVars)
                /\ WF_allVars(Write(WriteOn) /\ UNCHANGED wipeVars)
                /\ WF_allVars(WipeOn)

\* database.go:287: "write errors leave Live cleared so the next poll still
\* refills the historian".  When the server answers and a tag holds a reading
\* still, the table comes to have a row of it for good, whatever FanIn and
\* the wipe did to each other.  Excepted are a sample FanIn was comparing
\* when Live was cleared, should the reseed fail as well, and a wipe that
\* left before it cleared Live.
HistoryRefills ==
  \A t \in Tag : \A r \in Value \cup {Unreadable} :
    <>[](link /\ ~cancelled /\ plc[t] = r) => <>[](hist[t] # None \/ t \in missed)
=============================================================================
