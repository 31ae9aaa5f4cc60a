----------------------------- MODULE CellValues -----------------------------
(***************************************************************************)
(* A cell of a result on its way to the user and back: column_data_to_json *)
(* and numeric_to_string (src/driver.rs; mssql.rs has a copy), and, when   *)
(* the user sends the value back as a parameter, mssql_param and to_sql    *)
(* (mssql.rs).                                                             *)
(*                                                                         *)
(* A cell is [type, value], with None for NULL.  A decimal is [value,      *)
(* scale]; its text is [negative, whole, fraction], the digits before and  *)
(* after the point.  A date is [valid, text]: whether chrono can decode it.*)
(* Binary data is a sequence of bytes; its text is [prefix, digits].       *)
(***************************************************************************)
EXTENDS Integers, Sequences, SequencesExt

CONSTANTS
  MaxInt,   \* bound: the integers of i64 are -MaxInt-1..MaxInt here
  None

Integer == {"U8", "I16", "I32", "I64"}
Float == {"F32", "F64"}
Temporal == {"DateTime", "SmallDateTime", "DateTime2", "Date", "Time", "DateTimeOffset"}

(* What the columns of a type hold: NULL, or for an integer type and for a *)
(* decimal a number, for binary data bytes.                                *)
CellForm(cell) ==
  /\ cell.type \in Integer \cup Float \cup Temporal
                    \cup {"Bit", "Numeric", "String", "Guid", "Xml", "Binary"}
  /\ cell.value # None =>
       /\ cell.type \in Integer => cell.value \in (-MaxInt - 1)..MaxInt
       /\ cell.type = "Numeric" => cell.value \in [value : Int, scale : Nat]
       /\ cell.type = "Binary" => cell.value \in Seq(0..255)

Zeros(n) == [i \in 1..n |-> 0]
(* The decimal digits of n, without leading zeros. *)
Digits(n) ==
  LET digits[k \in 0..n] ==
        IF k < 10 THEN <<k>> ELSE Append(digits[k \div 10], k % 10)
  IN digits[n]
Abs(n) == IF n < 0 THEN -n ELSE n

(* A mutant: no zero is put before the point. *)
NumericToStringBare(value, scale) ==
  LET digits == Digits(Abs(value))
      padded == IF Len(digits) < scale THEN Zeros(scale - Len(digits)) \o digits ELSE digits
      point == Len(padded) - scale
  IN [negative |-> value < 0, whole |-> SubSeq(padded, 1, point),
      fraction |-> SubSeq(padded, point + 1, Len(padded))]

(* numeric_to_string; with scale 0 the fraction is empty. *)
NumericToString(value, scale) ==
  LET digits == Digits(Abs(value))
      padded == IF Len(digits) <= scale THEN Zeros(scale + 1 - Len(digits)) \o digits ELSE digits
      point == Len(padded) - scale
  IN [negative |-> value < 0, whole |-> SubSeq(padded, 1, point),
      fraction |-> SubSeq(padded, point + 1, Len(padded))]

(* hex_encode behind "\x": two digits for each byte, the high one first.    *)
HexText(bytes) ==
  [prefix |-> "\\x",
   digits |-> [i \in 1..2 * Len(bytes) |->
                 LET byte == bytes[(i + 1) \div 2] IN
                 IF i % 2 = 1 THEN byte \div 16 ELSE byte % 16]]

JsonNull == [kind |-> "null", of |-> None]
Json(kind, of) == [kind |-> kind, of |-> of]

ColumnDataToJson(cell) ==
  CASE cell.value = None -> JsonNull
    [] cell.value # None /\ cell.type \in Integer -> Json("integer", cell.value)
    [] cell.value # None /\ cell.type \in Float -> Json("float", cell.value)
    [] cell.value # None /\ cell.type = "Bit" -> Json("bool", cell.value)
    [] cell.value # None /\ cell.type = "Numeric" ->
         Json("string", NumericToString(cell.value.value, cell.value.scale))
    [] cell.value # None /\ cell.type \in Temporal ->
         IF cell.value.valid THEN Json("string", cell.value.text) ELSE JsonNull
    [] cell.value # None /\ cell.type \in {"String", "Guid", "Xml"} -> Json("string", cell.value)
    [] cell.value # None /\ cell.type = "Binary" -> Json("string", HexText(cell.value))

(* mssql_param: an integer that is not an i64 goes as a float. *)
MssqlParam(json) ==
  CASE json.kind = "integer" /\ json.of \notin (-MaxInt - 1)..MaxInt -> Json("float", json.of)
    [] OTHER -> json

(* MssqlParam::to_sql *)
ToSql(param) ==
  [type |-> CASE param.kind = "null" -> "I32"
              [] param.kind = "bool" -> "Bit"
              [] param.kind = "integer" -> "I64"
              [] param.kind = "float" -> "F64"
              [] param.kind = "string" -> "String",
   value |-> param.of]
=============================================================================
