---------------------------- MODULE WriteValue ----------------------------
(***************************************************************************)
(* One write of a value to one node of the PLC and its verification:       *)
(* executeWrite coerces the value of the request to the data type of the   *)
(* tag, Driver.WriteValue writes it, and once more in another width when   *)
(* the server answers BadTypeMismatch, and verifyWriteReadback polls the   *)
(* node until what it reads matches or the time is over.                   *)
(*                                                                         *)
(* The data type of the tag is what an operator configured or a sync found *)
(* and need not be that of the node.  The program of the PLC may change    *)
(* the node under way.  Who publishes what to Live is in WriteHandler.     *)
(***************************************************************************)
EXTENDS Conversions

CONSTANTS Request,    \* values of requests: records of a kind and a number x
          NodeType,   \* types of nodes
          PlcValue,   \* numbers the program of the PLC may give to a node
          None

\* A text of digits or a number in JSON may be as large as an infinity; of
\* any other text only the length or the outcome of its parser matters.
RequestAssumption ==
  \A r \in Request :
    /\ DOMAIN r = {"kind", "x"}
    /\ \/ r.kind \in {"num", "digits"} /\ r.x \in -Inf..Inf
       \/ r.kind \in {"bool", "switch"} /\ r.x \in {0, Unit}
       \/ r.kind = "word" /\ r.x \in Nat
       \/ r.kind = "stamp" /\ r.x \in Int

ASSUME WriteValueAssumption ==
  /\ RequestAssumption
  /\ NodeType \subseteq {"bool", "string", "time"} \cup FloatType \cup SignedInt \cup UnsignedInt
  /\ PlcValue \subseteq Int
  /\ None \notin {"verified", "mismatch", "unread"}

VARIABLES node,       \* the node: its type t and its value x
          request, dataType,
          expected,   \* the sample the readback is compared with
          scalar,     \* the Go scalar on its way to the server
          pc,         \* "idle", "write", "retry", "again", "verify", "done"
          result,     \* the outcome answered
          read,       \* verifyWriteReadback has read a sample
          disturbed   \* the program of the PLC changed the node meanwhile

vars == <<node, request, dataType, expected, scalar, pc, result, read, disturbed>>

Idle == /\ request = None /\ dataType = None /\ expected = None /\ scalar = None
        /\ pc = "idle" /\ result = None
        /\ read = FALSE /\ disturbed = FALSE

Init == /\ node \in [t : NodeType, x : {0}]
        /\ Idle

Done(r) == pc' = "done" /\ result' = r

\* The request is refused before its value is looked at: more or less than
\* one value in the body; the tag is unknown, ambiguous, not writable or
\* simulated.
Deny == /\ pc = "idle"
        /\ Done("denied")
        /\ UNCHANGED <<node, request, dataType, expected, scalar, read, disturbed>>

Ask == /\ pc = "idle"
       /\ \E r \in Request, dt \in DataType :
            /\ request' = r /\ dataType' = dt
            /\ IF CoerceWriteValue(dt, r) = {}
               THEN Done("invalid") /\ UNCHANGED <<expected, scalar>>
               ELSE /\ scalar' \in CoerceWriteValue(dt, r)
                    /\ expected' = SampleFromCoerced(dt, scalar')
                    /\ pc' = "write"
                    /\ UNCHANGED result
       /\ UNCHANGED <<node, read, disturbed>>

\* The server takes a variant of the type of the node and no other.
Takes(v) == v.t = node.t
Stored(v) == IF v.t = "time" THEN DateTime(v.x) ELSE v.x
Store == node' = [node EXCEPT !.x = Stored(scalar)]

Written == /\ pc \in {"write", "again"}
           /\ Takes(scalar)
           /\ Store
           /\ pc' = "verify"
           /\ UNCHANGED <<request, dataType, expected, scalar, result, read, disturbed>>

\* The link fails before the write or after it, or the server refuses.
Failed == /\ pc \in {"write", "again"}
          /\ \/ Takes(scalar) /\ Store /\ Done("failed")
             \/ UNCHANGED node /\ Done("failed")
             \/ UNCHANGED node /\ Done("refused")
          /\ UNCHANGED <<request, dataType, expected, scalar, read, disturbed>>

Mismatch == /\ pc = "write"
            /\ ~Takes(scalar)
            /\ pc' = "retry"
            /\ UNCHANGED <<node, request, dataType, expected, scalar, result, read, disturbed>>

\* retryValueForTypeMismatch.
Retry == /\ pc = "retry"
         /\ \E known \in BOOLEAN :
              LET values == RetryValue(known, node.t, scalar) IN
              IF values = {} THEN Done("refused") /\ UNCHANGED scalar
                             ELSE scalar' \in values /\ pc' = "again" /\ UNCHANGED result
         /\ UNCHANGED <<node, request, dataType, expected, read, disturbed>>

\* The program of the PLC gives the node another value, once.
InRange(v) == CASE v.t = "float32" -> Float32(v.x) = v.x
                [] v.t = "float64" -> Float64(v.x) = v.x
                [] v.t \in SignedInt -> Fits(v.x, IntBits[v.t])
                [] v.t \in UnsignedInt -> Whole(v.x) /\ v.x \in 0..MaxUint(IntBits[v.t])
                [] v.t = "bool" -> v.x \in {0, Unit}
                [] v.t = "time" -> v.x = ZeroTime \/ (Whole(v.x) /\ Reached(v.x))
                [] OTHER -> Whole(v.x) /\ v.x >= 0

PlcChanges == /\ pc = "verify" /\ ~disturbed
              /\ \E x \in PlcValue \ {node.x} :
                   /\ InRange([node EXCEPT !.x = x])
                   /\ node' = [node EXCEPT !.x = x]
              /\ disturbed' = TRUE
              /\ UNCHANGED <<request, dataType, expected, scalar, pc, result, read>>

\* One round of verifyWriteReadback; a sample that does not match is kept
\* and the node read again.
Readback == /\ pc = "verify"
            /\ read' = TRUE
            /\ IF WriteVerifyMatch(dataType, expected, MapDataValue(dataType, node))
               THEN Done("verified") ELSE UNCHANGED <<pc, result>>
            /\ UNCHANGED <<node, request, dataType, expected, scalar, disturbed>>

\* The time of verify_timeout_ms is over, or the device has no reader.
Timeout == /\ pc = "verify"
           /\ Done(IF read THEN "mismatch" ELSE "unread")
           /\ UNCHANGED <<node, request, dataType, expected, scalar, read, disturbed>>

\* The next request finds the node as this one left it.
NextRequest == /\ pc = "done"
               /\ UNCHANGED node
               /\ request' = None /\ dataType' = None /\ expected' = None /\ scalar' = None
               /\ pc' = "idle" /\ result' = None
               /\ read' = FALSE /\ disturbed' = FALSE

Next == \/ Deny \/ Ask \/ Written \/ Failed \/ Mismatch \/ Retry
        \/ PlcChanges \/ Readback \/ Timeout \/ NextRequest

Spec == Init /\ [][Next]_vars

(***************************************************************************)
(* Properties.                                                             *)
(***************************************************************************)

\* The number a request asks for, as its decoder and the tag can hold it.
AskedFor(dt, r) ==
  LET x == IF r.kind = "num" THEN Float64(r.x) ELSE r.x
  IN  CASE dt = "float64" -> Float64(x)
        [] dt = "string" -> Truncated(x)
        [] OTHER -> x
Asked == AskedFor(dataType, request)

\* What a node of type t holds of it: the nearest number, never another one.
\* The way to a float32 leads through a float64, so that a long whole number
\* is rounded twice.
Held(t, x) == CASE t = "float32" -> Float32(Float64(x))
                [] t = "float64" -> Float64(x)
                [] t = "time" -> IF x = ZeroTime THEN x ELSE Tick(x)
                [] OTHER -> x

\* 2^63, which the range tests of the code take for an int64.
Edge == Asked = MaxInt(Bits64) + Unit

\* A date before 1678 or after 2262, other than the zero time.
FarDate == node.t = "time" /\ Asked # ZeroTime /\ ~Reached(Asked)

\* A write that was accepted, in the first width or the second, left the
\* node with the number asked for in the node's type: it was not cut, not
\* wrapped round and not that of another attempt (WriteValue,
\* coerceToOPCWireType, alternateWriteWidth).  2^63 is excepted, and so are
\* far dates: these are wrapped round.
WrittenAsAsked ==
  (pc = "verify" \/ result \in {"verified", "mismatch", "unread"}) /\ ~disturbed /\ ~Edge
    /\ ~FarDate
    => node.x = Held(node.t, Asked)

\* A write answered with verified: true was read back from a node that
\* holds the number asked for, as far as a float64, or for a float tag the
\* epsilon of the readback, tells numbers apart, and a text as far as a
\* sample holds it, although the PLC may have changed the node in between
\* (writeVerifyMatch).  2^63 and infinities are excepted: there the code
\* does verify.
VerifiedIsHeld ==
  result = "verified" /\ ~Edge
    => CASE dataType = "float64" -> \/ Infinite(Asked) \/ Infinite(Float64(node.x))
                                    \/ NearlyEqual(Asked, Float64(node.x))
         [] dataType \in {"int64", "uint"} -> Float64(node.x) = Float64(Asked)
         [] dataType = "string" -> Truncated(node.x) = Asked
         [] OTHER -> node.x = Asked

\* A mismatch is only reported of a node the PLC changed, when the tag has
\* the data type that the node's type maps to: no second width and no
\* rounding in between makes an honest write look failed (MapOPCTypeID,
\* writeVerifyMatch).  Some times are excepted, for which the readback can
\* never match although nothing went wrong: a time with more digits than a
\* tick, a date before 1678 or after 2262, and with these the zero time,
\* which is read back as an empty text.
MismatchMeansDisturbed ==
  result = "mismatch" /\ dataType = MapOPCTypeID(node.t)
    => disturbed \/ (node.t = "time" /\ ~(Whole(Asked) /\ Reached(Asked)))
=============================================================================
