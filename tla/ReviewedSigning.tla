-------------------------- MODULE ReviewedSigning --------------------------
(***************************************************************************)
(* What the signing session promises, without commands, contexts or        *)
(* screens: a batch is shown, the user approves or declines it as a whole, *)
(* and the signatures of an approved batch are released one at a time, in  *)
(* order, each once.  Approval and the first signature are one step.  An   *)
(* approved batch may be abandoned at any time, and is never changed.      *)
(***************************************************************************)
EXTENDS Naturals, Sequences

CONSTANTS
    NoBatch,
    Size(_),             \* the number of actions of a batch
    Reviewable(_),       \* whether a batch can be shown
    Signature(_, _)      \* the k-th signature of a batch

VARIABLES
    shown,      \* the batch the user is looking at
    approved,   \* the approved batch that still has signatures to release
    signed      \* the signatures released since a batch was last shown

vars == <<shown, approved, signed>>

Init ==
    /\ shown = NoBatch
    /\ approved = NoBatch
    /\ signed = <<>>

(* A batch is shown only when no other one is shown or half signed. *)
Show ==
    /\ shown = NoBatch
    /\ approved = NoBatch
    /\ shown' # NoBatch
    /\ Reviewable(shown')
    /\ signed' = <<>>
    /\ UNCHANGED approved

(* The user declines, or the approved batch cannot be signed. *)
Decline ==
    /\ shown # NoBatch
    /\ shown' = NoBatch
    /\ UNCHANGED <<approved, signed>>

Release(batch, k) ==
    /\ signed' = Append(signed, Signature(batch, k))
    /\ approved' = IF k = Size(batch) THEN NoBatch ELSE batch

Approve ==
    /\ shown # NoBatch
    /\ shown' = NoBatch
    /\ Release(shown, 1)

SignNext ==
    /\ approved # NoBatch
    /\ Release(approved, Len(signed) + 1)
    /\ UNCHANGED shown

Abandon ==
    /\ approved # NoBatch
    /\ approved' = NoBatch
    /\ UNCHANGED <<shown, signed>>

Restart ==
    /\ shown' = NoBatch
    /\ approved' = NoBatch
    /\ signed' = <<>>

Next == Show \/ Decline \/ Approve \/ SignNext \/ Abandon \/ Restart

Spec == Init /\ [][Next]_vars
=============================================================================
