------------------------- MODULE WriteValueProofs -------------------------
(***************************************************************************)
(* What is proved of one write: what was accepted is what was asked for,   *)
(* what was verified is held, and an honest write reads back.              *)
(***************************************************************************)
EXTENDS WriteValue, TLAPS

(***************************************************************************)
(* Conversions.                                                            *)
(***************************************************************************)

\* The limits of the formats are integers, and no number is longer than a
\* text may be.
LEMMA Limits ==
  /\ Unit = 2
  /\ Inf \in Int /\ Inf <= Unit * MaxStringBytes
  /\ MaxStringBytes \in Nat
  /\ Eps \in Nat
  /\ MaxInt(Bits64) \in Int /\ MinInt(Bits64) \in Int
<1>1. Unit = 2 /\ MaxStringBytes \in Nat /\ Eps \in Nat
  BY WidthAssumption DEF Unit
<1>2. 2^Range64 \in Int /\ 2^(Bits64 - 1) \in Int
  BY WidthAssumption
<1>3. Inf \in Int /\ Inf <= Unit * MaxStringBytes
  BY <1>1, <1>2, WidthAssumption DEF Inf
<1>4. MaxInt(Bits64) \in Int /\ MinInt(Bits64) \in Int
  BY <1>1, <1>2 DEF MaxInt, MinInt
<1> QED BY <1>1, <1>3, <1>4

\* Rounding, number by number (RoundingAssumption).
LEMMA Rounding ==
  ASSUME NEW x \in -Inf..Inf
  PROVE  /\ x \in Int
         /\ Float32(x) \in -Inf..Inf /\ Float64(x) \in -Inf..Inf
         /\ Float64(Float64(x)) = Float64(x)
         /\ Float64(Float32(x)) = Float32(x)
         /\ Infinite(Float32(x)) \/ NearlyEqual(x, Float32(x))
  BY Limits, RoundingAssumption

\* Truncating what is truncated changes nothing.
LEMMA TruncatedTwice ==
  ASSUME NEW x \in Int
  PROVE  /\ Truncated(x) \in Int
         /\ Truncated(Truncated(x)) = Truncated(x)
         /\ x <= Unit * MaxStringBytes => Truncated(x) = x
  BY Limits DEF Truncated, Least

\* The conversion of a float64 to int64 gives the same number, but for 2^63.
LEMMA ToInt64Keeps ==
  ASSUME NEW x \in Int, NEW y \in ToInt64(x)
  PROVE  /\ y \in Int
         /\ y = x \/ x = MaxInt(Bits64) + Unit
<1>1. Whole(x) /\ x <= MaxInt(Bits64) + Unit
  BY RoundingAssumption, Limits DEF ToInt64
<1>2. CASE x > MaxInt(Bits64)
  <2>1. x = MaxInt(Bits64) + 1 \/ x = MaxInt(Bits64) + 2
    BY <1>1, <1>2, Limits
  <2>2. MaxInt(Bits64) % 2 = 0
    <3>1. 2^(Bits64 - 1) - 1 \in Int
      BY WidthAssumption
    <3> QED BY <3>1 DEF MaxInt, Unit
  <2>3. x # MaxInt(Bits64) + 1
    BY <1>1, <2>2, Limits DEF Whole
  <2>4. y \in {MinInt(Bits64), MaxInt(Bits64)}
    BY <1>1, <1>2 DEF ToInt64
  <2> QED BY <2>1, <2>3, <2>4, Limits
<1>3. CASE ~(x > MaxInt(Bits64))
  BY <1>3, Limits DEF ToInt64
<1> QED BY <1>2, <1>3

\* A DateTime holds the whole ticks that nanoseconds reach, and the zero time, which
\* they do not.
LEMMA DateTimes ==
  ASSUME NEW x \in Int
  PROVE  /\ ~Reached(ZeroTime)
         /\ x = ZeroTime \/ Reached(x) => DateTime(x) = IF x = ZeroTime THEN x ELSE Tick(x)
         /\ Reached(x) /\ Whole(x) => x # ZeroTime /\ DateTime(x) = x
<1>1. ZeroTime \in Int /\ TimeSpan \in Nat /\ ZeroTime < -TimeSpan
  BY WidthAssumption
<1>2. ~Reached(ZeroTime)
  BY <1>1 DEF Reached
<1>3. Whole(x) => Tick(x) = x
  BY Limits DEF Whole, Tick
<1>4. Reached(x) => Wrapped(x) = x
  BY DEF Wrapped
<1> QED BY <1>2, <1>3, <1>4 DEF DateTime

\* The number of a request, as its decoder has it.
Decoded(r) == IF r.kind = "num" THEN Float64(r.x) ELSE r.x

\* The decoder leaves a number a number, and small ones alone.
LEMMA DecodedNumber ==
  ASSUME NEW r \in Request
  PROVE  /\ Decoded(r) \in Int
         /\ r.kind \in {"num", "digits"} => Decoded(r) \in -Inf..Inf
         /\ r.x \in {0, Unit} => Decoded(r) = r.x
         /\ r.kind = "num" => Float64(Decoded(r)) = Decoded(r)
<1>1. r.x \in Int
  BY WriteValueAssumption, Limits DEF RequestAssumption
<1>2. r.kind = "num" => r.x \in -Inf..Inf
  BY WriteValueAssumption DEF RequestAssumption
<1>3. CASE r.kind = "num"
  <2>1. r.x \in -Inf..Inf
    BY <1>2, <1>3
  <2> QED BY <1>3, <2>1, Rounding, RoundingAssumption DEF Decoded
<1>4. CASE r.kind # "num"
  BY <1>1, <1>4, WriteValueAssumption DEF RequestAssumption, Decoded
<1> QED BY <1>3, <1>4

\* The data types by name.
LEMMA DataTypes ==
  /\ DataType = {"bool", "int64", "uint", "float64", "string", "datetime"}
  /\ ScalarType["bool"] = "bool" /\ ScalarType["int64"] = "int64"
  /\ ScalarType["uint"] = "uint32" /\ ScalarType["float64"] = "float64"
  /\ ScalarType["string"] = "string" /\ ScalarType["datetime"] = "time"
  BY DEF DataType, ScalarType

\* CoerceWriteValue gives the number asked for in the type of the tag, or
\* the number asked for is 2^63.
LEMMA Coerced ==
  ASSUME NEW r \in Request, NEW dt \in DataType, NEW v \in CoerceWriteValue(dt, r)
  PROVE  /\ v.t = ScalarType[dt] /\ v.x \in Int /\ AskedFor(dt, r) \in Int
         /\ \/ v.x = AskedFor(dt, r)
            \/ dt = "int64" /\ AskedFor(dt, r) = MaxInt(Bits64) + Unit
         /\ dt = "uint" => v.x >= 0
         /\ dt = "float64" => v.x \in -Inf..Inf /\ Float64(v.x) = v.x
         /\ dt = "string" => Truncated(v.x) = v.x
<1> DEFINE x == Decoded(r)
<1>a. x \in Int /\ Unit = 2
  BY DecodedNumber, Limits
<1>b. r.kind \in {"num", "digits", "bool", "switch", "word", "stamp"}
  BY WriteValueAssumption DEF RequestAssumption
<1>1. CASE dt = "bool"
  <2>1. v.t = "bool" /\ v.x \in CoerceBool(r)
    BY <1>1, DataTypes DEF CoerceWriteValue
  <2>2. v.x = r.x /\ r.x \in {0, Unit}
    BY <2>1, WriteValueAssumption DEF CoerceBool, RequestAssumption
  <2>3. AskedFor(dt, r) = x
    BY <1>1 DEF AskedFor, Decoded
  <2> QED BY <1>1, <1>a, <2>1, <2>2, <2>3, DecodedNumber, DataTypes
<1>2. CASE dt = "int64"
  <2>1. v.t = "int64" /\ v.x \in CoerceInt64(r)
    BY <1>2, DataTypes DEF CoerceWriteValue
  <2>2. AskedFor(dt, r) = x
    BY <1>2 DEF AskedFor, Decoded
  <2>3. CASE r.kind = "num"
    <3>1. v.x \in ToInt64(x)
      BY <2>1, <2>3 DEF CoerceInt64, Decoded
    <3> QED BY <1>2, <1>a, <2>1, <2>2, <3>1, ToInt64Keeps, DataTypes
  <2>4. CASE r.kind = "digits"
    <3>1. v.x = x
      BY <2>1, <2>4 DEF CoerceInt64, Decoded
    <3> QED BY <1>2, <1>a, <2>1, <2>2, <3>1, DataTypes
  <2> QED BY <2>1, <2>3, <2>4 DEF CoerceInt64
<1>3. CASE dt = "uint"
  <2>1. v.t = "uint32" /\ v.x \in CoerceUint32(r)
    BY <1>3, DataTypes DEF CoerceWriteValue
  <2>2. AskedFor(dt, r) = x
    BY <1>3 DEF AskedFor, Decoded
  <2>3. v.x = x /\ x \in 0..MaxUint(Bits32)
    BY <2>1 DEF CoerceUint32, Decoded
  <2> QED BY <1>3, <1>a, <2>1, <2>2, <2>3, DataTypes
<1>4. CASE dt = "float64"
  <2>1. v.t = "float64" /\ v.x \in CoerceFloat64(r)
    BY <1>4, DataTypes DEF CoerceWriteValue
  <2>2. AskedFor(dt, r) = Float64(x)
    BY <1>4 DEF AskedFor, Decoded
  <2>3. r.kind \in {"num", "digits"} /\ v.x = Float64(r.x)
    BY <2>1 DEF CoerceFloat64
  <2>4. r.x \in -Inf..Inf /\ x \in -Inf..Inf
    BY <2>3, DecodedNumber, WriteValueAssumption DEF RequestAssumption
  <2>5. v.x = Float64(x)
    BY <2>3, DecodedNumber DEF Decoded
  <2>6. Float64(x) \in -Inf..Inf /\ Float64(x) \in Int /\ Float64(Float64(x)) = Float64(x)
    BY <2>4, Rounding
  <2> QED BY <1>4, <2>1, <2>2, <2>5, <2>6, DataTypes
<1>5. CASE dt = "string"
  <2>1. v.t = "string" /\ v.x \in CoerceString(r)
    BY <1>5, DataTypes DEF CoerceWriteValue
  <2>2. AskedFor(dt, r) = Truncated(x)
    BY <1>5 DEF AskedFor, Decoded
  <2>3. CASE r.kind \in Text
    <3>1. v.x = Truncated(x)
      BY <2>1, <2>3 DEF CoerceString, Decoded, Text
    <3> QED BY <1>5, <1>a, <2>1, <2>2, <3>1, TruncatedTwice, DataTypes
  <2>4. CASE r.kind \notin Text
    <3>1. v.x = x
      BY <2>1, <2>4 DEF CoerceString, Decoded, Text
    <3>2. x \in -Inf..Inf \/ x \in {0, Unit}
      BY <2>4, <1>b, DecodedNumber, WriteValueAssumption DEF Text, RequestAssumption
    <3>3. x <= Unit * MaxStringBytes \/ x = Unit
      BY <3>2, Limits
    <3>4. Unit <= Unit * MaxStringBytes
      BY Limits, WidthAssumption
    <3>5. Truncated(x) = x
      BY <1>a, <3>3, <3>4, TruncatedTwice
    <3> QED BY <1>5, <1>a, <2>1, <2>2, <3>1, <3>5, DataTypes
  <2> QED BY <2>3, <2>4
<1>6. CASE dt = "datetime"
  <2>1. v.t = "time" /\ v.x \in CoerceDateTime(r)
    BY <1>6, DataTypes DEF CoerceWriteValue
  <2>2. AskedFor(dt, r) = x /\ v.x = x
    BY <1>6, <2>1 DEF AskedFor, Decoded, CoerceDateTime
  <2> QED BY <1>6, <1>a, <2>1, <2>2, DataTypes
<1> QED BY <1>1, <1>2, <1>3, <1>4, <1>5, <1>6, DataTypes

\* The second width only ever holds the same whole number, or the number
\* rounded to a float; what is neither a whole number nor a float has none.
LEMMA Retried ==
  ASSUME NEW dt \in DataType, NEW first, first.t = ScalarType[dt], first.x \in Int,
         dt = "float64" => Float64(first.x) = first.x,
         NEW known, NEW t, NEW v \in RetryValue(known, t, first)
  PROVE  \/ /\ dt = "int64"
            /\ \/ v.t \in SignedInt /\ v.x = first.x
               \/ v.t = "float32" /\ v.x = Float32(Float64(first.x))
               \/ v.t = "float64" /\ v.x = Float64(first.x)
         \/ /\ dt = "float64"
            /\ \/ v.t = "float32" /\ v.x = Float32(first.x)
               \/ /\ v.t \in SignedInt /\ v.x \in Int
                  /\ v.x = first.x \/ first.x = MaxInt(Bits64) + Unit
<1> DEFINE wire == CoerceToOPCWireType(t, first)
           alternate == AlternateWriteWidth(first)
<1>1. v \in wire \/ v \in alternate
  BY DEF RetryValue
<1>2. CASE dt = "int64"
  <2>1. first.t = "int64"
    BY <1>2, DataTypes
  <2>2. AsInt64Any(first) = {first.x} /\ AsFloat64Any(first) = {Float64(first.x)}
    BY <2>1 DEF AsInt64Any, AsFloat64Any, SignedInt, FloatType
  <2>3. CASE v \in wire
    BY <1>2, <2>1, <2>2, <2>3 DEF CoerceToOPCWireType, SignedInt
  <2>4. CASE v \in alternate
    BY <1>2, <2>1, <2>4 DEF AlternateWriteWidth, SignedInt
  <2> QED BY <1>1, <2>3, <2>4
<1>3. CASE dt = "float64"
  <2>1. first.t = "float64" /\ Float64(first.x) = first.x
    BY <1>3, DataTypes
  <2>2. AsInt64Any(first) = ToInt64(first.x) /\ AsFloat64Any(first) = {first.x}
    BY <2>1 DEF AsInt64Any, AsFloat64Any, SignedInt, FloatType
  <2>3. CASE v \in wire
    <3>1. CASE t \in SignedInt
      <4>1. v.t = t /\ v.x \in ToInt64(first.x)
        BY <2>1, <2>2, <2>3, <3>1 DEF CoerceToOPCWireType, SignedInt
      <4> QED BY <1>3, <3>1, <4>1, ToInt64Keeps
    <3>2. CASE t \notin SignedInt
      BY <1>3, <2>1, <2>2, <2>3, <3>2 DEF CoerceToOPCWireType
    <3> QED BY <3>1, <3>2
  <2>4. CASE v \in alternate
    BY <1>3, <2>1, <2>4 DEF AlternateWriteWidth
  <2> QED BY <1>1, <2>3, <2>4
<1>4. CASE dt \notin {"int64", "float64"}
  <2>1. first.t \in {"bool", "uint32", "string", "time"}
    BY <1>4, DataTypes
  <2>2. AsInt64Any(first) = {} /\ AsFloat64Any(first) = {} /\ alternate = {}
    BY <2>1 DEF AsInt64Any, AsFloat64Any, AlternateWriteWidth, SignedInt, FloatType
  <2>3. wire = {}
    BY <2>2 DEF CoerceToOPCWireType
  <2> QED BY <1>1, <2>2, <2>3
<1> QED BY <1>2, <1>3, <1>4

(***************************************************************************)
(* The invariant.                                                          *)
(***************************************************************************)

\* The value was coerced and its write has not failed.
Underway == pc \in {"write", "retry", "again", "verify"}
            \/ result \in {"verified", "mismatch", "unread"}

\* The server has taken the scalar.
Accepted == pc = "verify" \/ result \in {"verified", "mismatch", "unread"}

Matches == WriteVerifyMatch(dataType, expected, MapDataValue(dataType, node))

\* What is written is the coerced value, or one that retryValueForTypeMismatch
\* made of it; what is expected is made of the coerced value.
Attempt ==
  \E first \in CoerceWriteValue(dataType, request) :
    /\ expected = SampleFromCoerced(dataType, first)
    /\ \/ scalar = first
       \/ /\ pc \notin {"write", "retry"}
          /\ \E known \in BOOLEAN : scalar \in RetryValue(known, node.t, first)

NodeInv == /\ DOMAIN node = {"t", "x"}
           /\ node.t \in NodeType

AttemptInv == Underway => request \in Request /\ dataType \in DataType /\ Attempt

\* The PLC and the readback only come after the write.
OrderInv == /\ pc \in {"idle", "write", "retry", "again", "verify", "done"}
            /\ pc # "done" => result = None
            /\ pc \in {"idle", "write", "retry", "again"} => ~disturbed /\ ~read

\* Until the PLC changes it, the node holds what was written.
StoredInv == Accepted /\ ~disturbed => Takes(scalar) /\ node.x = Stored(scalar)

ReadInv == /\ result = "verified" => Matches
           /\ (pc = "verify" /\ read) \/ result = "mismatch" => disturbed \/ ~Matches

IInv == NodeInv /\ AttemptInv /\ OrderInv /\ StoredInv /\ ReadInv

(***************************************************************************)
(* The invariant implies the properties.                                   *)
(***************************************************************************)

\* An accepted scalar is what the node's type holds of the number asked for.
LEMMA StoredIsAsked ==
  ASSUME NEW dt \in DataType, NEW r \in Request, NEW first \in CoerceWriteValue(dt, r),
         NEW t, NEW v, v.t = t,
         v = first \/ \E known \in BOOLEAN : v \in RetryValue(known, t, first),
         AskedFor(dt, r) # MaxInt(Bits64) + Unit,
         t = "time" => AskedFor(dt, r) = ZeroTime \/ Reached(AskedFor(dt, r))
  PROVE  Stored(v) = Held(t, AskedFor(dt, r))
<1>1. /\ first.t = ScalarType[dt] /\ first.x = AskedFor(dt, r) /\ first.x \in Int
      /\ dt = "float64" => Float64(first.x) = first.x
  BY Coerced
<1>2. CASE v = first
  <2>1. t = ScalarType[dt]
    BY <1>1, <1>2
  <2>2. t \in {"bool", "int64", "uint32", "string"} \/ t = "time" \/ (t = "float64" /\ dt = "float64")
    BY <2>1, DataTypes
  <2>3. CASE t = "time"
    BY <1>1, <1>2, <2>3, DateTimes DEF Stored, Held
  <2> QED BY <1>1, <1>2, <2>2, <2>3 DEF Stored, Held
<1>3. CASE \E known \in BOOLEAN : v \in RetryValue(known, t, first)
  <2>1. \/ v.t \in SignedInt /\ v.x = first.x
        \/ v.t = "float32" /\ v.x = Float32(Float64(first.x))
        \/ v.t = "float64" /\ v.x = Float64(first.x)
    BY <1>1, <1>3, Retried
  <2> QED BY <1>1, <2>1 DEF Stored, Held, SignedInt
<1> QED BY <1>2, <1>3

\* WrittenAsAsked: while the PLC leaves the node alone it holds the accepted
\* scalar.
LEMMA HoldsAsked == IInv => WrittenAsAsked
<1> SUFFICES ASSUME IInv, Accepted, ~disturbed, ~Edge, ~FarDate
             PROVE  node.x = Held(node.t, Asked)
  BY DEF WrittenAsAsked, Accepted
<1>1. scalar.t = node.t /\ node.x = Stored(scalar)
  BY DEF IInv, StoredInv, Takes
<1>2. request \in Request /\ dataType \in DataType /\ Attempt
  BY DEF IInv, AttemptInv, Underway, Accepted
<1>3. PICK first \in CoerceWriteValue(dataType, request) :
        scalar = first \/ \E known \in BOOLEAN : scalar \in RetryValue(known, node.t, first)
  BY <1>2 DEF Attempt
<1>4. AskedFor(dataType, request) # MaxInt(Bits64) + Unit
  BY DEF Edge, Asked
<1>5. node.t = "time" => AskedFor(dataType, request) = ZeroTime
                         \/ Reached(AskedFor(dataType, request))
  BY DEF FarDate, Asked
<1>6. Stored(scalar) = Held(node.t, AskedFor(dataType, request))
  BY <1>1, <1>2, <1>3, <1>4, <1>5, StoredIsAsked
<1> QED BY <1>1, <1>6 DEF Asked

\* VerifiedIsHeld: the readback matched what the coerced value makes expected.
LEMMA HoldsVerified == IInv => VerifiedIsHeld
<1> SUFFICES ASSUME IInv, result = "verified", ~Edge
             PROVE  CASE dataType = "float64" -> \/ Infinite(Asked) \/ Infinite(Float64(node.x))
                                                 \/ NearlyEqual(Asked, Float64(node.x))
                      [] dataType \in {"int64", "uint"} -> Float64(node.x) = Float64(Asked)
                      [] dataType = "string" -> Truncated(node.x) = Asked
                      [] OTHER -> node.x = Asked
  BY DEF VerifiedIsHeld
<1>1. request \in Request /\ dataType \in DataType /\ Attempt
  BY DEF IInv, AttemptInv, Underway
<1>2. PICK first \in CoerceWriteValue(dataType, request) :
        expected = SampleFromCoerced(dataType, first)
  BY <1>1 DEF Attempt
<1>3. /\ first.x = Asked /\ first.x \in Int
      /\ dataType = "float64" => Float64(first.x) = first.x
  BY <1>1, Coerced DEF Edge, Asked
<1>4. WriteVerifyMatch(dataType, expected, MapDataValue(dataType, node))
  BY DEF IInv, ReadInv, Matches
<1>5. CASE dataType = "float64"
  <2>1. expected = Asked /\ MapDataValue(dataType, node) \subseteq {Float64(node.x)}
    BY <1>2, <1>3, <1>5 DEF SampleFromCoerced, MapDataValue
  <2>2. FloatNearlyEqual(Asked, Float64(node.x))
    BY <1>4, <1>5, <2>1 DEF WriteVerifyMatch
  <2>3. CASE Asked = Float64(node.x)
    <3>1. Asked \in Int /\ Asked - Asked = 0 /\ Abs(0) = 0
      BY <1>3 DEF Abs
    <3>2. Eps * 0 = 0 /\ Abs(Asked) \in Int /\ Abs(Asked) >= 0
      BY <3>1, Limits DEF Abs
    <3>3. NearlyEqual(Asked, Asked)
      BY <3>1, <3>2, Limits DEF NearlyEqual, Greatest
    <3> QED BY <1>5, <2>3, <3>3
  <2> QED BY <1>5, <2>2, <2>3 DEF FloatNearlyEqual
<1>6. CASE dataType \in {"int64", "uint"}
  <2>1. expected = Float64(Asked) /\ MapDataValue(dataType, node) \subseteq {Float64(node.x)}
    BY <1>2, <1>3, <1>6 DEF SampleFromCoerced, MapDataValue
  <2>2. Float64(node.x) = Float64(Asked)
    BY <1>4, <1>6, <2>1 DEF WriteVerifyMatch
  <2> QED BY <1>6, <2>2
<1>7. CASE dataType = "string"
  <2>1. expected = Asked /\ MapDataValue(dataType, node) \subseteq {Truncated(node.x)}
    BY <1>2, <1>3, <1>7 DEF SampleFromCoerced, MapDataValue
  <2> QED BY <1>4, <1>7, <2>1 DEF WriteVerifyMatch
<1>8. CASE dataType \in {"bool", "datetime"}
  <2>1. expected = Asked /\ MapDataValue(dataType, node) \subseteq {node.x, EmptyText}
    BY <1>2, <1>3, <1>8 DEF SampleFromCoerced, MapDataValue
  <2>2. Asked # EmptyText
    BY <1>3, WidthAssumption
  <2> QED BY <1>4, <1>8, <2>1, <2>2 DEF WriteVerifyMatch
<1> QED BY <1>1, <1>5, <1>6, <1>7, <1>8, DataTypes

\* A sample is nearly equal to itself and to its float32.
LEMMA NearSelf ==
  ASSUME NEW x \in -Inf..Inf, Float64(x) = x
  PROVE  /\ FloatNearlyEqual(x, Float64(x))
         /\ FloatNearlyEqual(x, Float64(Float32(x)))
<1>1. Float64(Float32(x)) = Float32(x) /\ (Infinite(Float32(x)) \/ NearlyEqual(x, Float32(x)))
  BY Rounding
<1> QED BY <1>1 DEF FloatNearlyEqual

\* In a tag of the type its node maps to, what was accepted matches what is
\* expected when it is read back, but for a time that no DateTime holds or that is
\* not set.
LEMMA ReadsBack ==
  ASSUME NEW t \in NodeType, NEW dt \in DataType, dt = MapOPCTypeID(t),
         NEW r \in Request, NEW first \in CoerceWriteValue(dt, r),
         NEW v, v.t = t,
         v = first \/ \E known \in BOOLEAN : v \in RetryValue(known, t, first),
         NEW n, n.t = t, n.x = Stored(v),
         t = "time" => Whole(AskedFor(dt, r)) /\ Reached(AskedFor(dt, r))
  PROVE  WriteVerifyMatch(dt, SampleFromCoerced(dt, first), MapDataValue(dt, n))
<1>1. /\ first.t = ScalarType[dt] /\ first.x \in Int
      /\ dt = "uint" => first.x >= 0
      /\ dt = "float64" => first.x \in -Inf..Inf /\ Float64(first.x) = first.x
      /\ dt = "string" => Truncated(first.x) = first.x
      /\ dt = "datetime" => first.x = AskedFor(dt, r)
  BY Coerced
<1>2. v = first \/ dt \in {"int64", "float64"}
  BY <1>1, Retried
<1>3. CASE t \in SignedInt
  <2>1. dt = "int64"
    BY <1>3 DEF MapOPCTypeID, SignedInt, UnsignedInt, FloatType
  <2>2. v.x = first.x
    BY <1>1, <1>3, <2>1, Retried DEF SignedInt
  <2>3. n.x = first.x /\ ~TooLarge(n)
    BY <1>3, <2>2 DEF Stored, TooLarge, SignedInt
  <2>4. MapDataValue(dt, n) = {Float64(first.x)}
    BY <1>3, <2>1, <2>3 DEF MapDataValue
  <2> QED BY <2>1, <2>4 DEF WriteVerifyMatch, SampleFromCoerced
<1>4. CASE t \in UnsignedInt
  <2>1. dt = "uint"
    BY <1>4 DEF MapOPCTypeID, SignedInt, UnsignedInt, FloatType
  <2>2. n.x = first.x
    BY <1>2, <1>4, <2>1 DEF Stored, UnsignedInt
  <2>3. MapDataValue(dt, n) = {Float64(first.x)}
    BY <1>1, <1>4, <2>1, <2>2 DEF MapDataValue
  <2> QED BY <2>1, <2>3 DEF WriteVerifyMatch, SampleFromCoerced
<1>5. CASE t \in FloatType
  <2>1. dt = "float64" /\ first.t = "float64"
    BY <1>1, <1>5, DataTypes DEF MapOPCTypeID, SignedInt, UnsignedInt, FloatType
  <2>2. n.x = first.x \/ n.x = Float32(first.x)
    <3>1. CASE v = first
      BY <1>5, <3>1 DEF Stored, FloatType
    <3>2. CASE \E known \in BOOLEAN : v \in RetryValue(known, t, first)
      <4>1. v.x = Float32(first.x)
        BY <1>1, <1>5, <2>1, <3>2, Retried DEF FloatType, SignedInt
      <4> QED BY <1>5, <4>1 DEF Stored, FloatType
    <3> QED BY <3>1, <3>2
  <2>3. MapDataValue(dt, n) = {Float64(n.x)}
    <3>1. ~TooLarge(n)
      BY <1>5 DEF TooLarge, FloatType
    <3> QED BY <1>5, <2>1, <3>1 DEF MapDataValue
  <2>4. FloatNearlyEqual(first.x, Float64(n.x))
    BY <1>1, <2>1, <2>2, NearSelf
  <2>5. SampleFromCoerced(dt, first) = first.x
    BY <1>1, <2>1 DEF SampleFromCoerced
  <2> QED BY <2>1, <2>3, <2>4, <2>5 DEF WriteVerifyMatch
<1>6. CASE t = "bool"
  <2>1. dt = "bool" /\ n.x = first.x
    BY <1>2, <1>6 DEF MapOPCTypeID, SignedInt, UnsignedInt, FloatType, Stored
  <2> QED BY <1>6, <2>1 DEF MapDataValue, SampleFromCoerced, WriteVerifyMatch
<1>7. CASE t = "string"
  <2>1. dt = "string"
    BY <1>7 DEF MapOPCTypeID, SignedInt, UnsignedInt, FloatType
  <2>2. n.x = first.x
    BY <1>2, <1>7, <2>1 DEF Stored
  <2>3. MapDataValue(dt, n) = {first.x}
    BY <1>1, <1>7, <2>1, <2>2 DEF MapDataValue
  <2> QED BY <2>1, <2>3 DEF SampleFromCoerced, WriteVerifyMatch
<1>8. CASE t = "time"
  <2>1. dt = "datetime"
    BY <1>8 DEF MapOPCTypeID, SignedInt, UnsignedInt, FloatType
  <2>2. Whole(first.x) /\ Reached(first.x)
    BY <1>1, <1>8, <2>1
  <2>3. n.x = first.x /\ first.x # ZeroTime
    BY <1>1, <1>2, <1>8, <2>1, <2>2, DateTimes DEF Stored
  <2> QED BY <1>8, <2>1, <2>3 DEF MapDataValue, SampleFromCoerced, WriteVerifyMatch
<1> QED BY <1>3, <1>4, <1>5, <1>6, <1>7, <1>8, WriteValueAssumption

\* MismatchMeansDisturbed: what was not matched cannot be what was written.
LEMMA HoldsHonest == IInv => MismatchMeansDisturbed
<1> SUFFICES ASSUME IInv, result = "mismatch", dataType = MapOPCTypeID(node.t), ~disturbed,
                    node.t = "time" => Whole(Asked) /\ Reached(Asked)
             PROVE  FALSE
  BY DEF MismatchMeansDisturbed
<1>1. node.t \in NodeType /\ scalar.t = node.t /\ node.x = Stored(scalar) /\ ~Matches
  BY DEF IInv, NodeInv, StoredInv, Accepted, Takes, ReadInv
<1>2. request \in Request /\ dataType \in DataType /\ Attempt
  BY DEF IInv, AttemptInv, Underway
<1>3. PICK first \in CoerceWriteValue(dataType, request) :
        /\ expected = SampleFromCoerced(dataType, first)
        /\ scalar = first \/ \E known \in BOOLEAN : scalar \in RetryValue(known, node.t, first)
  BY <1>2 DEF Attempt
<1>4. node.t = "time" => Whole(AskedFor(dataType, request))
                         /\ Reached(AskedFor(dataType, request))
  BY DEF Asked
<1>5. WriteVerifyMatch(dataType, SampleFromCoerced(dataType, first), MapDataValue(dataType, node))
  BY <1>1, <1>2, <1>3, <1>4, ReadsBack
<1> QED BY <1>1, <1>3, <1>5 DEF Matches

(***************************************************************************)
(* The invariant is inductive.                                             *)
(***************************************************************************)

\* The invariant holds at the start.
LEMMA StartsWell == Init => IInv
<1> SUFFICES ASSUME Init PROVE IInv
  OBVIOUS
<1>1. NodeInv
  BY DEF Init, NodeInv
<1>2. pc = "idle" /\ result = None /\ ~disturbed /\ ~read
  BY DEF Init, Idle
<1>3. ~Underway /\ ~Accepted
  BY <1>2, WriteValueAssumption DEF Underway, Accepted
<1> QED BY <1>1, <1>2, <1>3, WriteValueAssumption
        DEF IInv, AttemptInv, OrderInv, StoredInv, ReadInv

\* Only Written, Failed and PlcChanges touch the node, and never its type.
LEMMA NodeStays ==
  ASSUME IInv, Next
  PROVE  NodeInv' /\ node'.t = node.t
<1>1. NodeInv
  BY DEF IInv
<1>2. node' = node \/ \E x : node' = [node EXCEPT !.x = x]
  BY DEF Next, Deny, Ask, Written, Failed, Store, Mismatch, Retry, PlcChanges, Readback,
         Timeout, NextRequest
<1> QED BY <1>1, <1>2 DEF NodeInv

\* A step of the write itself: nothing is judged yet.
LEMMA BeginsKeep ==
  ASSUME IInv, Ask \/ Mismatch \/ Retry
  PROVE  IInv'
<1>1. NodeInv' /\ node' = node
  BY NodeStays DEF Next, Ask, Mismatch, Retry
<1>2. pc \in {"idle", "write", "retry"} /\ result = None /\ ~disturbed /\ ~read
      /\ ~disturbed' /\ ~read'
  BY DEF IInv, OrderInv, Ask, Mismatch, Retry
<1>3. OrderInv' /\ ~Accepted' /\ pc' # "verify" /\ result' \notin {"verified", "mismatch", "unread"}
  <2>1. CASE Ask
    BY <1>2, <2>1, WriteValueAssumption DEF Ask, Done, OrderInv, Accepted
  <2>2. CASE Mismatch
    BY <1>2, <2>2, WriteValueAssumption DEF Mismatch, OrderInv, Accepted
  <2>3. CASE Retry
    BY <1>2, <2>3, WriteValueAssumption DEF Retry, Done, OrderInv, Accepted
  <2> QED BY <2>1, <2>2, <2>3
<1>4. StoredInv' /\ ReadInv'
  BY <1>3 DEF StoredInv, ReadInv
<1>5. AttemptInv'
  <2> SUFFICES ASSUME Underway' PROVE (request \in Request /\ dataType \in DataType /\ Attempt)'
    BY DEF AttemptInv
  <2>1. pc' \in {"write", "retry", "again"}
    BY <1>3 DEF Underway
  <2>2. CASE Ask
    <3>1. PICK r \in Request, dt \in DataType :
            /\ request' = r /\ dataType' = dt
            /\ IF CoerceWriteValue(dt, r) = {}
               THEN Done("invalid") /\ UNCHANGED <<expected, scalar>>
               ELSE /\ scalar' \in CoerceWriteValue(dt, r)
                    /\ expected' = SampleFromCoerced(dt, scalar')
                    /\ pc' = "write"
                    /\ UNCHANGED result
      BY <2>2 DEF Ask
    <3>2. scalar' \in CoerceWriteValue(dataType', request')
          /\ expected' = SampleFromCoerced(dataType', scalar')
      BY <2>1, <3>1 DEF Done
    <3> QED BY <3>1, <3>2 DEF Attempt
  <2>3. CASE Mismatch
    <3>1. request \in Request /\ dataType \in DataType /\ Attempt /\ pc = "write"
      BY <2>3 DEF IInv, AttemptInv, Underway, Mismatch
    <3> QED BY <1>1, <2>3, <3>1 DEF Attempt, Mismatch
  <2>4. CASE Retry
    <3>1. request \in Request /\ dataType \in DataType /\ Attempt /\ pc = "retry"
      BY <2>4 DEF IInv, AttemptInv, Underway, Retry
    <3>2. scalar \in CoerceWriteValue(dataType, request)
          /\ expected = SampleFromCoerced(dataType, scalar)
      BY <3>1 DEF Attempt
    <3>3. PICK known \in BOOLEAN : scalar' \in RetryValue(known, node.t, scalar)
      BY <2>1, <2>4 DEF Retry, Done
    <3>4. UNCHANGED <<request, dataType, expected>> /\ pc' = "again"
      BY <2>1, <2>4 DEF Retry, Done
    <3> QED BY <1>1, <3>1, <3>2, <3>3, <3>4 DEF Attempt
  <2> QED BY <2>2, <2>3, <2>4
<1> QED BY <1>1, <1>3, <1>4, <1>5 DEF IInv

\* The attempt under way is the same while only the node's value changes.
LEMMA AttemptStays ==
  ASSUME IInv, Underway, node'.t = node.t, pc' \notin {"write", "retry"},
         UNCHANGED <<request, dataType, expected, scalar>>
  PROVE  AttemptInv'
<1>1. request \in Request /\ dataType \in DataType /\ Attempt
  BY DEF IInv, AttemptInv
<1>2. Attempt'
  BY <1>1 DEF Attempt
<1> QED BY <1>1, <1>2 DEF AttemptInv

\* The server takes the scalar.
LEMMA WrittenKeeps == ASSUME IInv, Written PROVE IInv'
<1>1. NodeInv' /\ node'.t = node.t
  BY NodeStays DEF Next
<1>2. result = None /\ result' = None /\ pc' = "verify" /\ ~disturbed' /\ ~read'
  BY DEF IInv, OrderInv, Written
<1>3. OrderInv'
  BY <1>2 DEF OrderInv
<1>4. AttemptInv'
  BY <1>1, AttemptStays DEF Written, Underway
<1>5. StoredInv'
  <2>1. node'.x = Stored(scalar)
    BY DEF Written, Store, IInv, NodeInv
  <2>2. scalar' = scalar /\ scalar.t = node.t
    BY DEF Written, Takes
  <2>3. scalar'.t = node'.t /\ node'.x = Stored(scalar')
    BY <1>1, <2>1, <2>2
  <2> QED BY <2>3 DEF StoredInv, Takes, Stored
<1>6. ReadInv'
  BY <1>2, WriteValueAssumption DEF ReadInv
<1> QED BY <1>1, <1>3, <1>4, <1>5, <1>6 DEF IInv

\* The PLC changes the node while it is read back.
LEMMA PlcChangesKeeps == ASSUME IInv, PlcChanges PROVE IInv'
<1>1. NodeInv' /\ node'.t = node.t
  BY NodeStays DEF Next
<1>2. pc = "verify" /\ pc' = "verify" /\ result = None /\ result' = None /\ disturbed'
  BY DEF IInv, OrderInv, PlcChanges
<1>3. OrderInv' /\ StoredInv' /\ ReadInv'
  BY <1>2, WriteValueAssumption DEF OrderInv, StoredInv, ReadInv
<1>4. AttemptInv'
  BY <1>1, <1>2, AttemptStays DEF PlcChanges, Underway
<1> QED BY <1>1, <1>3, <1>4 DEF IInv

\* What the readback says is said of the node as it is.
LEMMA JudgedKeeps == ASSUME IInv, Readback \/ Timeout PROVE IInv'
<1>1. NodeInv' /\ pc = "verify" /\ result = None
      /\ UNCHANGED <<node, request, dataType, expected, scalar, disturbed>>
  BY NodeStays DEF Next, IInv, OrderInv, Readback, Timeout
<1>2. Matches' <=> Matches
  BY <1>1 DEF Matches
<1>3. OrderInv' /\ pc' \in {"verify", "done"}
  <2>1. CASE Readback
    BY <1>1, <2>1 DEF OrderInv, Readback, Done
  <2>2. CASE Timeout
    BY <1>1, <2>2 DEF OrderInv, Timeout, Done
  <2> QED BY <2>1, <2>2
<1>4. AttemptInv'
  BY <1>1, <1>3, AttemptStays DEF Underway
<1>5. StoredInv'
  BY <1>1 DEF IInv, StoredInv, Accepted, Takes, Stored
<1>6. ReadInv'
  <2>1. CASE Readback
    BY <1>1, <1>2, <2>1, WriteValueAssumption DEF ReadInv, Readback, Done, Matches
  <2>2. CASE Timeout
    BY <1>1, <1>2, <2>2 DEF IInv, ReadInv, Timeout, Done
  <2> QED BY <2>1, <2>2
<1> QED BY <1>1, <1>3, <1>4, <1>5, <1>6 DEF IInv

\* A write that is given up, or over, promises nothing.
LEMMA EndsKeep == ASSUME IInv, Deny \/ Failed \/ NextRequest PROVE IInv'
<1>1. NodeInv'
  BY NodeStays DEF Next
<1>2. pc' \in {"idle", "done"} /\ result' \in {None, "denied", "failed", "refused"}
      /\ (pc' # "done" => result' = None /\ ~disturbed' /\ ~read')
  BY DEF Deny, Failed, NextRequest, Done
<1>3. ~Underway' /\ ~Accepted'
  BY <1>2, WriteValueAssumption DEF Underway, Accepted
<1>4. OrderInv' /\ AttemptInv' /\ StoredInv' /\ ReadInv'
  BY <1>2, <1>3, WriteValueAssumption DEF OrderInv, AttemptInv, StoredInv, ReadInv
<1> QED BY <1>1, <1>4 DEF IInv

\* A step of nobody.
LEMMA StutterKeeps == ASSUME IInv, UNCHANGED vars PROVE IInv'
<1>1. UNCHANGED <<node, request, dataType, expected, scalar, pc, result, read, disturbed>>
  BY DEF vars
<1>2. NodeInv' /\ OrderInv'
  BY <1>1 DEF IInv, NodeInv, OrderInv
<1>3. AttemptInv'
  BY <1>1 DEF IInv, AttemptInv, Underway, Attempt
<1>4. StoredInv' /\ ReadInv'
  BY <1>1 DEF IInv, StoredInv, ReadInv, Accepted, Takes, Stored, Matches
<1> QED BY <1>2, <1>3, <1>4 DEF IInv

\* Every step keeps the invariant.
LEMMA Inductive == IInv /\ [Next]_vars => IInv'
<1>1. ASSUME IInv, Next PROVE IInv'
  BY <1>1, BeginsKeep, WrittenKeeps, PlcChangesKeeps, JudgedKeeps, EndsKeep DEF Next
<1> QED BY <1>1, StutterKeeps

\* A write that was accepted left the node with the number asked for, in the
\* first width or the second (WriteValue, coerceToOPCWireType,
\* alternateWriteWidth), but for 2^63 and far dates.
THEOREM AcceptedIsAsked == Spec => []WrittenAsAsked
<1> QED BY StartsWell, Inductive, HoldsAsked, PTL DEF Spec

\* What was answered with verified: true was read back from a node that
\* holds the number asked for, up to the epsilon of the readback
\* (writeVerifyMatch), but for 2^63 and infinities.
THEOREM VerifiedIsRight == Spec => []VerifiedIsHeld
<1> QED BY StartsWell, Inductive, HoldsVerified, PTL DEF Spec

\* In a tag of its node's type only a change by the PLC makes a write that
\* was accepted look failed (MapOPCTypeID, writeVerifyMatch), but for a time
\* between two ticks, a far date and the zero time.
THEOREM HonestWritesRead == Spec => []MismatchMeansDisturbed
<1> QED BY StartsWell, Inductive, HoldsHonest, PTL DEF Spec
===========================================================================
