---------------------------- MODULE MCWriteValue ----------------------------
(***************************************************************************)
(* The values asked for: both sides of every width, whole and not, numbers *)
(* and texts.  Widths: Int16 3 bits, float32 4, Int32 6, float64 7 and     *)
(* Int64 9, a float32 overflows at 2^10 and a float64 at 2^12.  Times:     *)
(* whole ticks, between two ticks on both sides of 1970, a date too late   *)
(* for int64 nanoseconds and the zero time.                                *)
(***************************************************************************)
EXTENDS WriteValue

MCZeroTime == -3000

\* In units: 0, 0.5, 1, -1, 2.5, 3, 4, -4, -5, 31, 32, -32, -33, 37, 63, 64,
\* 129, 137, 253, 255, 256, -256, -257, 1000, 1024, 2047.5.
MCNumber == {0, 1, 2, -2, 5, 6, 8, -8, -10, 62, 64, -64, -66, 74, 126, 128,
             258, 274, 506, 510, 512, -512, -514, 2000, 2048, 4095}

\* In units: what is asked for or near it, and what is in no width or all.
MCPlcValue == {0, 1, Unit, -Unit, 3, 8, 62, 64, 128, 256, 272, 288, 510, 514, 1000, 2000, 2001, Inf,
               Unit * (MaxStringBytes + 2), ZeroTime}

MCRequest == [kind : {"num", "digits"}, x : MCNumber]
             \cup [kind : {"digits"}, x : {Inf, -Inf, Inf - 1}]
             \cup [kind : {"bool", "switch"}, x : {0, Unit}]
             \cup [kind : {"word"}, x : {0, Unit, Unit * (MaxStringBytes + 1)}]
             \cup [kind : {"stamp"}, x : {Unit, Unit + 1, -Unit - 1, TimeSpan, ZeroTime}]

MCNodeType == {"bool", "string", "time"} \cup FloatType \cup SignedInt \cup UnsignedInt
=============================================================================
