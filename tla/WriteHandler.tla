---------------------------- MODULE WriteHandler ----------------------------
(***************************************************************************)
(* One POST of a tag value: executeWrite writes the value to the PLC, then *)
(* publishes it to Live and the WebSocket hub, before the readback         *)
(* (optimistic), after it (verify), both, or without one.  The readback    *)
(* goes through pollBatch, which marks the device alive once its Read has  *)
(* returned, whatever the collector goroutine has done to the driver since.*)
(*                                                                         *)
(* One handler at a time: the composition runs one instance.               *)
(***************************************************************************)
EXTENDS Naturals

CONSTANTS Tag, Value, None,
          Writable  \* tags with writable = true and simulate = false

VARIABLES link, plc,       \* the server, as in PollLoop
          session, alive,  \* the driver, as in PollLoop
          live,            \* the Live store
          writePc,         \* "idle", "written", "verify", "seen", "missed"
                           \* or "observed"
          written,         \* the sample of the value written
          verify           \* the request asks for a readback

writeVars == <<writePc, written, verify>>

WriteInit == writePc = "idle" /\ written = None /\ verify = FALSE

WriteEnd == writePc' = "idle" /\ written' = None /\ verify' = FALSE

\* writer.WriteValue, refused for a tag that is not writable and while the
\* driver does not count as connected.
WritePlc == /\ writePc = "idle"
            /\ alive /\ session /\ link
            /\ \E t \in Writable, v \in Value, optimistic \in BOOLEAN :
                 /\ plc' = [plc EXCEPT ![t] = v]
                 /\ written' = [tag |-> t, val |-> v, q |-> "good"]
                 /\ verify' \in BOOLEAN
                 /\ writePc' = IF optimistic \/ ~verify' THEN "written" ELSE "verify"
            /\ UNCHANGED <<link, session, alive, live>>

Publish == live' = [live EXCEPT ![written.tag] = written]

\* publishLive(written): optimistic, or no readback asked for.
PublishWritten == /\ writePc = "written"
                  /\ Publish
                  /\ IF verify THEN writePc' = "verify" /\ UNCHANGED <<written, verify>>
                               ELSE WriteEnd
                  /\ UNCHANGED <<link, plc, session, alive>>

\* reader.ReadValue: the Read of pollBatch returns with a value.
Readback == /\ writePc = "verify"
            /\ alive /\ session /\ link
            /\ writePc' = IF plc[written.tag] = written.val THEN "seen" ELSE "missed"
            /\ UNCHANGED <<link, plc, session, alive, live, written, verify>>

\* d.alive.Store(true) in pollBatch; a readback that does not match is retried.
MarkAlive == /\ writePc \in {"seen", "missed"}
             /\ alive' = TRUE
             /\ writePc' = IF writePc = "seen" THEN "observed" ELSE "verify"
             /\ UNCHANGED <<link, plc, session, live, written, verify>>

\* The verify timeout.
GiveUp == /\ writePc = "verify"
          /\ WriteEnd
          /\ UNCHANGED <<link, plc, session, alive, live>>

\* Mutant: the observed value is published again and again.
PublishOften == /\ writePc = "observed"
                /\ Publish
                /\ UNCHANGED <<writeVars, link, plc, session, alive>>

\* publishLive(*observed), which matches the value written.
PublishObserved == /\ writePc = "observed"
                   /\ Publish
                   /\ WriteEnd
                   /\ UNCHANGED <<link, plc, session, alive>>

WriteStep == \/ WritePlc \/ PublishWritten \/ Readback \/ MarkAlive \/ GiveUp
             \/ PublishObserved

\* What the handler does by itself once it has begun.
WriteOn == PublishWritten \/ MarkAlive \/ GiveUp \/ PublishObserved
=============================================================================
