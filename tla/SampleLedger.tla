---------------------------- MODULE SampleLedger ----------------------------
(***************************************************************************)
(* What the historian leg of the collector promises about a sample once    *)
(* FanIn has handed it over, with no loop, channel, file or database in    *)
(* sight.  Every sample is in one place:                                   *)
(*                                                                         *)
(*   "none"      not handed over yet                                       *)
(*   "volatile"  in the memory of the process                              *)
(*   "spooled"   in a spool file on disk                                   *)
(*   "stored"    a row of collector.samples                                *)
(*   "lost"      gone, and the reason was legitimate                       *)
(*                                                                         *)
(* A stored sample stays stored and a lost one stays lost; a spooled       *)
(* sample becomes stored, and is lost only in a step in which a spool file *)
(* cannot be read; a volatile one is lost only in a step in which the      *)
(* historian or the disk refuses it, or in one that restarts the process.  *)
(* FlushSpool implements this specification.                               *)
(***************************************************************************)
EXTENDS Naturals

CONSTANT Sample

VARIABLES place,       \* where each sample is
          refusing,    \* a batch may be refused now: halt, full spool, bad disk
          unreadable,  \* a spool file cannot be read now
          boots        \* restarts of the process so far

lvars == <<place, refusing, unreadable, boots>>

Place == {"none", "volatile", "spooled", "stored", "lost"}

LedgerTypeOK == /\ place \in [Sample -> Place]
                /\ refusing \in BOOLEAN /\ unreadable \in BOOLEAN
                /\ boots \in Nat

At(p) == {s \in Sample : place[s] = p}

Move(S, p) == place' = [s \in Sample |-> IF s \in S THEN p ELSE place[s]]

LedgerInit == /\ place = [s \in Sample |-> "none"]
              /\ refusing \in BOOLEAN /\ unreadable \in BOOLEAN
              /\ boots = 0

Accept == /\ \E s \in At("none") : Move({s}, "volatile")
          /\ boots' = boots

Store == /\ \E S \in SUBSET (At("volatile") \cup At("spooled")) : Move(S, "stored")
         /\ boots' = boots

Spool == /\ \E S \in SUBSET At("volatile") : Move(S, "spooled")
         /\ boots' = boots

Refuse == /\ refusing
          /\ \E S \in SUBSET At("volatile") : Move(S, "lost")
          /\ boots' = boots

Discard == /\ unreadable
           /\ \E S \in SUBSET At("spooled") : Move(S, "lost")
           /\ boots' = boots

Restart == /\ Move(At("volatile"), "lost")
           /\ boots' = boots + 1

LedgerNext == Accept \/ Store \/ Spool \/ Refuse \/ Discard \/ Restart

\* refusing and unreadable are inputs of the ledger: they change freely.
LedgerSpec == LedgerInit /\ [][LedgerNext]_<<place, boots>>
=============================================================================
