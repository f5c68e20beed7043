---------------------------- MODULE Conversions ----------------------------
(***************************************************************************)
(* What happens to a value between a write request, the PLC and the        *)
(* readback: CoerceWriteValue, the second width tried after                *)
(* BadTypeMismatch, mapDataValue and writeVerifyMatch.                     *)
(*                                                                         *)
(* A number is an integer that counts halves: 1 is 0.5, Unit is 1.  A      *)
(* bool is 0 or Unit, a time counts halves of the 100 ns tick of an OPC    *)
(* DateTime from 1970 on, a text is told by its number or else by its      *)
(* length (no text of a number is long enough to be truncated).  Widths are scaled; what   *)
(* counts is their order: Int16, mantissa of float32, Int32, mantissa of   *)
(* float64, Int64.  NaN is left out.  A conversion yields the set of its   *)
(* possible results: none is an error, two an undefined conversion.        *)
(***************************************************************************)
EXTENDS Integers

CONSTANTS Bits16, Bits32, Bits64,    \* widths of the integer types
          Mantissa32, Mantissa64,    \* significant bits of the float types
          Range32, Range64,          \* binary exponents where they overflow
          Eps,                       \* 1 / verifyFloatRelEps
          MaxStringBytes,
          TimeSpan,                  \* the ticks that the nanoseconds of an int64 cover
          ZeroTime,                  \* the zero time.Time, of the year 1
          EmptyText                  \* the sample of a time that is not set

ASSUME WidthAssumption ==
  /\ {Bits16, Bits32, Bits64, Mantissa32, Mantissa64, Range32, Range64, MaxStringBytes}
       \subseteq Nat
  /\ 1 < Bits16 /\ Bits16 < Mantissa32 /\ Mantissa32 < Bits32
  /\ Bits32 < Mantissa64 /\ Mantissa64 < Bits64
  /\ Bits64 < Range32 /\ Range32 < Range64
  /\ Eps \in Nat \ {0}
  /\ 1 <= MaxStringBytes
  /\ 2^Range64 <= MaxStringBytes
  /\ TimeSpan \in Nat \ {0} /\ EmptyText \notin Int
  /\ ZeroTime \in Int /\ ZeroTime < -TimeSpan /\ ZeroTime % 2 = 0

Unit == 2
Inf == Unit * 2^Range64
Infinite(x) == x \in {Inf, -Inf}
Abs(x) == IF x < 0 THEN -x ELSE x
Least(x, y) == IF x < y THEN x ELSE y
Greatest(x, y) == IF x < y THEN y ELSE x
Whole(x) == x % Unit = 0

\* Equal up to the relative epsilon, and near zero up to the same epsilon.
NearlyEqual(a, b) == Eps * Abs(a - b) <= Greatest(Unit, Greatest(Abs(a), Abs(b)))

\* The value of a float format next to x, ties to even.
Ulp(mantissa, n) == CHOOSE u \in {2^k : k \in 0..Range64 + 1} :
                      /\ n < u * 2^mantissa
                      /\ u = 1 \/ u * 2^(mantissa - 1) <= n
Nearest(mantissa, n) ==
  LET u == Ulp(mantissa, n)
      up == 2 * (n % u) > u \/ (2 * (n % u) = u /\ (n \div u) % 2 = 1)
  IN  (n \div u + IF up THEN 1 ELSE 0) * u
Float(mantissa, range, x) ==
  LET n == Nearest(mantissa, Abs(x))
      y == IF n < Unit * 2^range THEN n ELSE Inf
  IN  IF x < 0 THEN -y ELSE y
Float32(x) == Float(Mantissa32, Range32, x)
Float64(x) == Float(Mantissa64, Range64, x)

MaxInt(bits) == Unit * (2^(bits - 1) - 1)
MinInt(bits) == -Unit * 2^(bits - 1)
MaxUint(bits) == Unit * (2^bits - 1)
Fits(x, bits) == Whole(x) /\ x \in MinInt(bits)..MaxInt(bits)

\* What is used of the formats: rounding what is rounded changes nothing, a
\* float32 is a float64, neither goes beyond the infinities, the bools are
\* exact, the largest int64 is rounded up, and rounding to a float32 stays
\* below the epsilon of the readback unless it overflows.
ASSUME RoundingAssumption ==
  /\ \A x \in -Inf..Inf :
       /\ Float32(x) \in -Inf..Inf
       /\ Float64(x) \in -Inf..Inf
       /\ Float64(Float64(x)) = Float64(x)
       /\ Float64(Float32(x)) = Float32(x)
       /\ Infinite(Float32(x)) \/ NearlyEqual(x, Float32(x))
  /\ \A x \in {0, Unit} : Float64(x) = x
  /\ Float64(MaxInt(Bits64)) = MaxInt(Bits64) + Unit

\* int64(x) of a float64.  float64(math.MaxInt64) is 2^63, so both range
\* tests of the code let 2^63 pass; what its conversion gives differs
\* between processors.
ToInt64(x) ==
  IF ~Whole(x) \/ x > Float64(MaxInt(Bits64)) \/ x < MinInt(Bits64) THEN {}
  ELSE IF x > MaxInt(Bits64) THEN {MinInt(Bits64), MaxInt(Bits64)} ELSE {x}

(***************************************************************************)
(* CoerceWriteValue.  A value of a request is a JSON number, which the     *)
(* decoder makes a float64, a bool, or a text: digits, a switch word such  *)
(* as "on" or "no", a date ("stamp") or another word.                      *)
(***************************************************************************)
Text == {"digits", "switch", "stamp", "word"}

CoerceBool(v) == IF \/ v.kind \in {"bool", "switch"}
                    \/ v.kind \in {"num", "digits"} /\ v.x \in {0, Unit}
                 THEN {v.x} ELSE {}

CoerceInt64(v) == CASE v.kind = "num" -> ToInt64(Float64(v.x))
                    [] v.kind = "digits" /\ Fits(v.x, Bits64) -> {v.x}
                    [] OTHER -> {}

CoerceUint32(v) ==
  LET x == IF v.kind = "num" THEN Float64(v.x) ELSE v.x
  IN  IF v.kind \in {"num", "digits"} /\ Whole(x) /\ x \in 0..MaxUint(Bits32)
      THEN {x} ELSE {}

\* ParseFloat reports a finite text out of range, and takes "inf".
CoerceFloat64(v) == CASE v.kind = "num" -> {Float64(v.x)}
                      [] v.kind = "digits" /\ (Infinite(v.x) \/ ~Infinite(Float64(v.x)))
                           -> {Float64(v.x)}
                      [] OTHER -> {}

Truncated(length) == Least(length, Unit * MaxStringBytes)

CoerceString(v) == CASE v.kind \in Text -> {Truncated(v.x)}
                     [] v.kind = "num" -> {Float64(v.x)}
                     [] OTHER -> {v.x}

CoerceDateTime(v) == IF v.kind = "stamp" THEN {v.x} ELSE {}

\* The Go scalar each data type of a tag is coerced to.
ScalarType == [bool |-> "bool", int64 |-> "int64", uint |-> "uint32",
               float64 |-> "float64", string |-> "string", datetime |-> "time"]

DataType == DOMAIN ScalarType

CoerceWriteValue(dt, v) ==
  LET values == CASE dt = "bool" -> CoerceBool(v)
                  [] dt = "int64" -> CoerceInt64(v)
                  [] dt = "uint" -> CoerceUint32(v)
                  [] dt = "float64" -> CoerceFloat64(v)
                  [] dt = "string" -> CoerceString(v)
                  [] dt = "datetime" -> CoerceDateTime(v)
  IN  {[t |-> ScalarType[dt], x |-> x] : x \in values}

(***************************************************************************)
(* The second attempt after BadTypeMismatch.                               *)
(***************************************************************************)
SignedInt == {"int16", "int32", "int64"}
FloatType == {"float32", "float64"}

\* Mutant: a float is cut to its whole part.
AsInt64AnyCut(v) == CASE v.t \in SignedInt -> {v.x}
                      [] v.t \in FloatType -> ToInt64(v.x - (v.x % Unit))
                      [] OTHER -> {}

AsInt64Any(v) == CASE v.t \in SignedInt -> {v.x}
                   [] v.t \in FloatType -> ToInt64(v.x)
                   [] OTHER -> {}

AsFloat64Any(v) == IF v.t \in SignedInt \cup FloatType THEN {Float64(v.x)} ELSE {}

IntBits == [int16 |-> Bits16, int32 |-> Bits32, int64 |-> Bits64,
            uint16 |-> Bits16, uint32 |-> Bits32, uint64 |-> Bits64]

\* The scalar of the type the node says it has, unless the value has it.
CoerceToOPCWireType(t, v) ==
  LET values == CASE t = "float32" -> {Float32(x) : x \in AsFloat64Any(v)}
                  [] t = "float64" -> AsFloat64Any(v)
                  [] t \in SignedInt -> {x \in AsInt64Any(v) : Fits(x, IntBits[t])}
                  [] OTHER -> {}
  IN  IF t = v.t THEN {} ELSE {[t |-> t, x |-> x] : x \in values}

AlternateWriteWidth(v) ==
  CASE v.t = "float64" -> {[t |-> "float32", x |-> Float32(v.x)]}
    [] v.t = "float32" -> {[t |-> "float64", x |-> v.x]}
    [] v.t = "int64" /\ Fits(v.x, Bits32) -> {[t |-> "int32", x |-> v.x]}
    [] v.t = "int32" -> {[t |-> "int64", x |-> v.x]}
    [] OTHER -> {}

\* known: the node's DataType attribute could be read.
RetryValue(known, t, v) ==
  LET wire == CoerceToOPCWireType(t, v)
  IN  IF known /\ wire # {} THEN wire ELSE AlternateWriteWidth(v)

(***************************************************************************)
(* An OPC DateTime: ticks, told from int64 nanoseconds since 1970 and cut  *)
(* towards it; dates that these do not reach are wrapped round.  The zero  *)
(* time is the DateTime that is not set.                                   *)
(***************************************************************************)
Reached(x) == x \in -TimeSpan..(TimeSpan - 1)
Wrapped(x) == IF Reached(x) THEN x ELSE ((x + TimeSpan) % (2 * TimeSpan)) - TimeSpan
Tick(x) == IF x < 0 THEN x + (x % Unit) ELSE x - (x % Unit)
DateTime(x) == IF x = ZeroTime THEN x ELSE Tick(Wrapped(x))

(***************************************************************************)
(* The readback, and the data type that a sync gives to a tag.             *)
(***************************************************************************)
UnsignedInt == {"uint16", "uint32", "uint64"}

MapOPCTypeID(t) == CASE t = "bool" -> "bool"
                     [] t \in SignedInt -> "int64"
                     [] t \in UnsignedInt -> "uint"
                     [] t \in FloatType -> "float64"
                     [] t = "string" -> "string"
                     [] t = "time" -> "datetime"

TooLarge(v) == v.t = "uint64" /\ v.x > MaxInt(Bits64)

\* The value of the sample; a readback that cannot be converted is bad, a time
\* that is not set is an empty text.
MapDataValue(dt, v) ==
  CASE dt = "float64" /\ v.t \in FloatType \cup SignedInt \cup UnsignedInt
       /\ ~TooLarge(v) -> {Float64(v.x)}
    [] dt = "int64" /\ v.t \in SignedInt \cup UnsignedInt /\ ~TooLarge(v) -> {Float64(v.x)}
    [] dt = "uint" /\ v.t \in SignedInt \cup UnsignedInt /\ v.x >= 0 -> {Float64(v.x)}
    [] dt = "bool" /\ v.t = "bool" -> {v.x}
    [] dt = "string" /\ v.t = "string" -> {Truncated(v.x)}
    [] dt = "datetime" /\ v.t = "time" -> {IF v.x = ZeroTime THEN EmptyText ELSE v.x}
    [] OTHER -> {}

\* The sample of the value written: numbers become a float64, a time its text,
\* the zero time too.
SampleFromCoerced(dt, v) ==
  IF dt \in {"int64", "uint", "float64"} THEN Float64(v.x) ELSE v.x

\* Mutant: the scale is taken for the tolerance.
FloatNearlyEqualLoose(a, b) == Abs(a - b) <= Greatest(Unit, Greatest(Abs(a), Abs(b)))

\* Inf <= 1e-6 * Inf holds, so an infinite side is close to anything.
FloatNearlyEqual(a, b) ==
  \/ a = b
  \/ Infinite(a) \/ Infinite(b)
  \/ NearlyEqual(a, b)

\* Mutant: a float must come back as it was coerced.
WriteVerifyMatchExact(dt, expected, observed) == expected \in observed

WriteVerifyMatch(dt, expected, observed) ==
  \E o \in observed : IF dt = "float64" THEN FloatNearlyEqual(expected, o)
                                        ELSE expected = o
=============================================================================
