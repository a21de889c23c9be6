---------------------------- MODULE MarginAmount ----------------------------
(***************************************************************************)
(* The amount of an isolated margin update, from the host to the screen:   *)
(* a signed word that travels as an unsigned one, is copied back into a    *)
(* signed one, and is shown as a direction and an unsigned magnitude       *)
(* (update_isolated_margin.c, ui/op_update_margin.c).  Arithmetic is that  *)
(* of C words of any width.                                                *)
(***************************************************************************)
EXTENDS Integers

CONSTANT SignBit   \* 2^63: half the number of words

ASSUME SignBitAssumption == SignBit \in Nat \ {0}

SignedWords == -SignBit..(SignBit - 1)
UnsignedWords == 0..(2 * SignBit - 1)

-----------------------------------------------------------------------------
(* Words *)

ToUnsigned(n) == IF n < 0 THEN n + 2 * SignBit ELSE n

ToSigned(u) == IF u >= SignBit THEN u - 2 * SignBit ELSE u

NegateUnsigned(u) == IF u = 0 THEN 0 ELSE 2 * SignBit - u

(* A faulty variant of Magnitude: the sign is dropped by the conversion. *)
MagnitudeByCast(n) == ToUnsigned(n)

(* The conversion comes before the negation, which no signed word would    *)
(* survive for the most negative amount.                                   *)
Magnitude(n) == IF n < 0 THEN NegateUnsigned(ToUnsigned(n)) ELSE ToUnsigned(n)

-----------------------------------------------------------------------------
(* handle_ntli: an unsigned word, copied byte for byte *)
HandleNtli(word) == ToSigned(word)

(* ui_update_margin: what the page shows of the amount *)
ShowMarginUpdate(ntli) == [removing |-> ntli < 0, magnitude |-> Magnitude(ntli)]

(* The amount a user reads off the page *)
AmountRead(page) == IF page.removing THEN -page.magnitude ELSE page.magnitude
=============================================================================
