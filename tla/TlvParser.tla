----------------------------- MODULE TlvParser -----------------------------
(***************************************************************************)
(* The TLV library of the SDK, as the parsers of the application use it.   *)
(* A payload is a sequence of fields [tag, value]; the value of a nested   *)
(* structure is again a sequence of fields.  A value the decoder of its    *)
(* field refuses (wrong size, more bytes than the integer holds, a boolean *)
(* that is neither 0 nor 1, an empty or too long string) is OutOfRange.    *)
(*                                                                         *)
(* The context of a parser is a record with at least ok (no handler has    *)
(* failed), received (the tags so far) and value (the structure filled).   *)
(***************************************************************************)
EXTENDS Naturals, Sequences, TLC

CONSTANT OutOfRange   \* a value the decoder of its field refuses

Refuse(out) == [out EXCEPT !.ok = FALSE]

(* The parsers that DEFINE_TLV_PARSER makes of a tag table: every field is *)
(* handed to the handler of its tag, a tag declared ENFORCE_UNIQUE_TAG at  *)
(* most once, and the first failure ends the parsing.                      *)

Admits(out, tag, repeatable) == out.ok /\ tag \notin out.received \ repeatable

RunTlvParser(Handle(_, _), repeatable, payload, context) ==
    LET Step(out, field) ==
            IF Admits(out, field.tag, repeatable)
            THEN LET handled == Handle(out, field)
                 IN  [handled EXCEPT !.received = @ \cup {field.tag}]
            ELSE Refuse(out)
        parsed[n \in 0..Len(payload)] ==
            IF n = 0 THEN context ELSE Step(parsed[n - 1], payload[n])
    IN  parsed[Len(payload)]

(* TLV_CHECK_RECEIVED_TAGS and the other test of a verify_ function *)
Verify(out, required, check) ==
    [out EXCEPT !.ok = out.ok /\ required \subseteq out.received /\ check]

(* The structure with one member set, whether it had it or not *)
With(structure, name, value) ==
    [member \in {name} \cup DOMAIN structure |->
        IF member = name THEN value ELSE structure[member]]

Store(out, name, value) == [out EXCEPT !.value = With(@, name, value)]

StoreScalar(out, name, value) ==
    IF value # OutOfRange THEN Store(out, name, value) ELSE Refuse(out)

StoreEnum(out, name, value, enumerators) ==
    IF value \in enumerators THEN Store(out, name, value) ELSE Refuse(out)

StoreParsed(out, name, parsed) ==
    IF parsed.ok THEN Store(out, name, parsed.value) ELSE Refuse(out)
=============================================================================
