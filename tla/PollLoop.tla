------------------------------ MODULE PollLoop ------------------------------
(***************************************************************************)
(* The collector goroutine of one OPC UA device: runDevice connects, then  *)
(* Driver.Subscribe polls all enabled tags on a ticker and reconnects when *)
(* a poll fails, until watchConfig cancels it because the configuration    *)
(* changed; then runDevice disconnects and starts over.                    *)
(*                                                                         *)
(* The poll is concurrent inside (pollOnce runs up to PollConcurrency      *)
(* batches), so the samples of one poll go out in any order.               *)
(***************************************************************************)
EXTENDS Naturals, Sequences

CONSTANTS Tag, Value, NoValue, OutCap,
          Unreadable,  \* what a Read returns that mapDataValue refuses
          Readings     \* what the PLC program may put in a tag by itself

VARIABLES link,       \* the server can be reached
          plc,        \* what a Read of each tag returns
          session,    \* driver.client # nil
          alive,      \* driver.alive, what Connected() returns
          cancelled,  \* the context of Subscribe is cancelled
          pollPc,     \* "connect", "wait", "read", "emit" or "bad"
          pending,    \* samples of this poll not sent yet
          out         \* the channel raw

driverVars == <<session, alive, cancelled, pollPc, pending>>
fieldVars  == <<link, plc>>
pollVars   == <<driverVars, fieldVars, out>>

PollInit == /\ link \in BOOLEAN
            /\ plc \in [Tag -> Value]
            /\ session \in BOOLEAN      \* Hub.Upsert has tried to connect
            /\ alive = session /\ cancelled = FALSE
            /\ pollPc = "connect" /\ pending = {}
            /\ out = <<>>

BadSample(t) == [tag |-> t, val |-> NoValue, q |-> "bad"]

\* mapDataValue: a value that cannot be read or mapped becomes a bad sample.
Mapped(t) == IF plc[t] = Unreadable
             THEN BadSample(t)
             ELSE [tag |-> t, val |-> plc[t], q |-> "good"]

-----------------------------------------------------------------------------
\* runDevice: Connect, unless the driver says it is connected; then Subscribe
\* starts with a context of its own.  While Connect fails the loop backs off.
Connect == /\ pollPc = "connect"
           /\ alive \/ link
           /\ session' = (session \/ ~alive)
           /\ alive' = TRUE
           /\ cancelled' = FALSE
           /\ pollPc' = "wait"
           /\ UNCHANGED <<pending, fieldVars, out>>

\* case <-ticker.C
Tick == /\ pollPc = "wait"
        /\ pollPc' = "read"
        /\ UNCHANGED <<session, alive, cancelled, pending, fieldVars, out>>

\* pollBatch: the Read returns, the device counts as alive again.
ReadOk == /\ pollPc = "read"
          /\ session /\ link /\ ~cancelled
          /\ alive' = TRUE
          /\ pending' = {Mapped(t) : t \in Tag}
          /\ pollPc' = "emit"
          /\ UNCHANGED <<session, cancelled, fieldVars, out>>

\* A failed poll: markDown(true), then emitBadSamples.
Fail == /\ alive' = FALSE
        /\ pending' = {BadSample(t) : t \in Tag}
        /\ pollPc' = "bad"
        /\ UNCHANGED <<session, cancelled, fieldVars, out>>

\* Mutant: pollOnce loses the error of its batches.
ReadFailIgnored == /\ pollPc = "read" /\ (~session \/ ~link \/ cancelled)
                   /\ pollPc' = "wait"
                   /\ UNCHANGED <<session, alive, cancelled, pending, fieldVars, out>>

\* The Read fails: no client, no server, or a context cancelled under it.
ReadFail == pollPc = "read" /\ (~session \/ ~link \/ cancelled) /\ Fail

\* The poll fails half-way: a later batch cannot be read, or the context is
\* cancelled while a good sample waits for the channel (a bad one does not
\* look at the context).
EmitFail == /\ pollPc = "emit"
            /\ pending # {}
            /\ \/ ~link
               \/ cancelled /\ \E s \in pending : s.q = "good"
            /\ Fail

\* out <- s, blocking while the channel is full.
Emit == /\ pollPc \in {"emit", "bad"}
        /\ Len(out) < OutCap
        /\ \E s \in pending : /\ out' = Append(out, s)
                              /\ pending' = pending \ {s}
        /\ UNCHANGED <<session, alive, cancelled, pollPc, fieldVars>>

\* emitBadSamples stops where it is when the context is cancelled.
BadCancelled == /\ pollPc = "bad" /\ cancelled /\ pending # {}
                /\ pending' = {}
                /\ UNCHANGED <<session, alive, cancelled, pollPc, fieldVars, out>>

PollDone == /\ pollPc = "emit" /\ pending = {}
            /\ pollPc' = "wait"
            /\ UNCHANGED <<session, alive, cancelled, pending, fieldVars, out>>

\* Mutant: Disconnect and no Connect.
ReconnectNot == /\ pollPc = "bad" /\ pending = {}
                /\ session' = FALSE
                /\ alive' = FALSE
                /\ pollPc' = "wait"
                /\ UNCHANGED <<cancelled, pending, fieldVars, out>>

\* Disconnect, then Connect in the context of Subscribe; when that fails the next poll fails again.
Reconnect == /\ pollPc = "bad" /\ pending = {}
             /\ session' = (link /\ ~cancelled)
             /\ alive' = session'
             /\ pollPc' = "wait"
             /\ UNCHANGED <<cancelled, pending, fieldVars, out>>

\* case <-ctx.Done(): Subscribe returns and runDevice disconnects.
Leave == /\ pollPc = "wait" /\ cancelled
         /\ session' = FALSE /\ alive' = FALSE
         /\ pollPc' = "connect"
         /\ UNCHANGED <<cancelled, pending, fieldVars, out>>

PollStep == \/ Connect \/ Tick \/ ReadOk \/ ReadFail \/ EmitFail \/ Emit
            \/ BadCancelled \/ PollDone \/ Reconnect \/ Leave

-----------------------------------------------------------------------------
\* watchConfig sees another generation of the configuration.
Reload == /\ pollPc # "connect" /\ ~cancelled
          /\ cancelled' = TRUE
          /\ UNCHANGED <<session, alive, pollPc, pending, fieldVars, out>>

LinkChanges == link' = ~link /\ UNCHANGED <<driverVars, plc, out>>

PlcChanges == /\ \E t \in Tag, v \in Readings :
                   plc[t] # v /\ plc' = [plc EXCEPT ![t] = v]
              /\ UNCHANGED <<driverVars, link, out>>
=============================================================================
