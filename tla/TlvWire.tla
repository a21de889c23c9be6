------------------------------ MODULE TlvWire ------------------------------
(***************************************************************************)
(* The bytes of a TLV field.  The repository has two encoders, the client's*)
(* (tests/application_client/tlv.py) and that of the unit tests            *)
(* (unit-tests/tlv_helpers.h); the parser is the SDK's.  A payload grows   *)
(* field by field in both encoders at once.                                *)
(*                                                                         *)
(* A byte has Base values and a word Width bytes: the forms of tags and    *)
(* lengths change at Base \div 2, Base and Base^2, as they do at 0x80,     *)
(* 0x100 and 0x10000.  A field is [tag, kind, value]; its kind says what   *)
(* the value is: an unsigned integer, a signed one packed into a word (the *)
(* amount of a margin update), or bytes.                                   *)
(***************************************************************************)
EXTENDS MarginAmount, SequencesExt

CONSTANTS
    Base,        \* the values of a byte
    Width,       \* the bytes of a word
    Fields,      \* the fields a payload may hold
    MaxFields    \* bound: the fields of one payload

ASSUME WordsAssumption == Base \in Nat /\ Base % 2 = 0 /\ Base^Width = 2 * SignBit

VARIABLES
    fields,     \* what the payload says
    payload,    \* its bytes, as the client sends them
    buf         \* its bytes, as the unit tests hand them to the parser

vars == <<fields, payload, buf>>

-----------------------------------------------------------------------------
(* The encoder of the unit tests *)

HighBit == Base \div 2

BigEndian(value, count) == [i \in 1..count |-> (value \div Base^(count - i)) % Base]

(* A faulty variant of DerEncode: the first value of the long form is      *)
(* written in the short one.                                               *)
DerEncodeOffByOne(value) ==
    CASE value <= HighBit -> <<value>>
      [] value > HighBit /\ value < Base -> <<HighBit + 1>> \o BigEndian(value, 1)
      [] value >= Base /\ value < Base^2 -> <<HighBit + 2>> \o BigEndian(value, 2)
      [] OTHER -> <<HighBit + 3>> \o BigEndian(value, 3)

DerEncode(value) ==
    CASE value < HighBit -> <<value>>
      [] value >= HighBit /\ value < Base -> <<HighBit + 1>> \o BigEndian(value, 1)
      [] value >= Base /\ value < Base^2 -> <<HighBit + 2>> \o BigEndian(value, 2)
      [] OTHER -> <<HighBit + 3>> \o BigEndian(value, 3)

(* The leading zeros are skipped, all but one. *)
EncodeIntBe(value) ==
    LET tmp   == BigEndian(value, Width)
        start == CHOOSE i \in 1..Width :
                     /\ i = Width \/ tmp[i] # 0
                     /\ \A j \in 1..(i - 1) : tmp[j] = 0
    IN  SubSeq(tmp, start, Width)

AppendedValue(field) ==
    CASE field.kind = "uint"  -> EncodeIntBe(field.value)
      [] field.kind = "int"   -> BigEndian(ToUnsigned(field.value), Width)
      [] field.kind = "bytes" -> field.value

TlvAppendField(tag, value) == DerEncode(tag) \o DerEncode(Len(value)) \o value

-----------------------------------------------------------------------------
(* The encoder of the client *)

(* max(1, (value.bit_length() + 7) // 8) *)
ByteLength(value) ==
    CHOOSE n \in 1..(value + 1) : value < Base^n /\ \A m \in 1..(n - 1) : value >= Base^m

(* A faulty variant of ClientDer: the short form is used one value too far.*)
ClientDerInclusive(value) ==
    LET bytes == BigEndian(value, ByteLength(value))
    IN  IF value > HighBit THEN <<HighBit + Len(bytes)>> \o bytes ELSE bytes

ClientDer(value) ==
    LET bytes == BigEndian(value, ByteLength(value))
    IN  IF value >= HighBit THEN <<HighBit + Len(bytes)>> \o bytes ELSE bytes

(* A signed amount is packed before it comes here. *)
ClientValue(field) ==
    CASE field.kind = "uint"  -> BigEndian(field.value, ByteLength(field.value))
      [] field.kind = "int"   -> BigEndian(ToUnsigned(field.value), Width)
      [] field.kind = "bytes" -> field.value

ClientField(field) ==
    LET value == ClientValue(field)
    IN  ClientDer(field.tag) \o ClientDer(Len(value)) \o value

-----------------------------------------------------------------------------
(* The parser of the SDK *)

NumberOf(bytes) == FoldLeft(LAMBDA number, byte : number * Base + byte, 0, bytes)

(* A tag or a length at the front of the bytes, and how many it takes;     *)
(* none if the bytes end before it does                                    *)
ReadDer(bytes) ==
    IF bytes = <<>> \/ Len(bytes) <= bytes[1] - HighBit THEN [value |-> -1, size |-> 0]
    ELSE IF bytes[1] < HighBit THEN [value |-> bytes[1], size |-> 1]
    ELSE LET count == bytes[1] - HighBit
         IN  [value |-> NumberOf(SubSeq(bytes, 2, 1 + count)), size |-> 1 + count]

(* What is left after so many bytes *)
Cut(bytes, size) == SubSeq(bytes, size + 1, Len(bytes))

(* A field that is cut off is refused, and with it the payload. *)
Refused == <<[tag |-> -1, value |-> <<>>]>>

RECURSIVE ParseTlv(_)
ParseTlv(bytes) ==
    LET tag    == ReadDer(bytes)
        after  == Cut(bytes, tag.size)
        length == ReadDer(after)
        rest   == Cut(after, length.size)
    IN  IF bytes = <<>> THEN <<>>
        ELSE IF tag.value < 0 \/ length.value \notin 0..Len(rest) THEN Refused
        ELSE <<[tag |-> tag.value, value |-> SubSeq(rest, 1, length.value)]>>
             \o ParseTlv(Cut(rest, length.value))

ReadValue(kind, bytes) ==
    CASE kind = "uint"  -> NumberOf(bytes)
      [] kind = "int"   -> HandleNtli(NumberOf(bytes))
      [] kind = "bytes" -> bytes

-----------------------------------------------------------------------------
Init ==
    /\ fields = <<>>
    /\ payload = <<>>
    /\ buf = <<>>

AppendField ==
    /\ Len(fields) < MaxFields
    /\ \E field \in Fields :
          /\ fields' = Append(fields, field)
          /\ payload' = payload \o ClientField(field)
          /\ buf' = buf \o TlvAppendField(field.tag, AppendedValue(field))

Next == AppendField

Spec == Init /\ [][Next]_vars

-----------------------------------------------------------------------------
(* The unit tests hand the parser the bytes the client sends: both         *)
(* encoders agree on every field, whatever form its tag, its length and    *)
(* its value take (tlv_helpers.h:19-145, tlv.py:5-29).                     *)
EncodersAgree == payload = buf

(* What is sent is what is read, field by field: no length or tag is taken *)
(* for another, and no field for the end of the one before (tlv.py:5-29).  *)
FieldsReadBack ==
    LET read == ParseTlv(payload)
    IN  /\ Len(read) = Len(fields)
        /\ \A i \in DOMAIN fields :
              /\ read[i].tag = fields[i].tag
              /\ ReadValue(fields[i].kind, read[i].value) = fields[i].value

(* The user reads off the page the amount the host packed, through the     *)
(* bytes of the field, the copy of the word and the split into direction   *)
(* and magnitude (update_isolated_margin.c:15-23, op_update_margin.c:      *)
(* 19-23).                                                                 *)
ShownAmountIsMeant ==
    LET read == ParseTlv(payload)
    IN  \A i \in DOMAIN fields :
            fields[i].kind = "int" =>
                LET page == ShowMarginUpdate(ReadValue("int", read[i].value))
                IN  /\ AmountRead(page) = fields[i].value
                    /\ page.magnitude \in UnsignedWords
=============================================================================
