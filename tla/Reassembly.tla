----------------------------- MODULE Reassembly -----------------------------
(***************************************************************************)
(* What the reception of chunked payloads promises, without buffer, sizes  *)
(* in bytes or offsets: one transfer at a time gathers bytes for the       *)
(* handler it was opened for, a handler only ever gets all the bytes of    *)
(* one transfer in the order they came, and a transfer that is not         *)
(* completed leaves nothing behind.                                        *)
(***************************************************************************)
EXTENDS Naturals, Sequences

CONSTANTS
    Byte,
    Handlers,
    MaxSize,       \* the largest payload
    NoTransfer,
    Nothing

VARIABLES
    transfer,   \* the transfer under way: its handler, its size, its bytes
    handed      \* what the last step handed to a handler

vars == <<transfer, handed>>

Transfers ==
    [handler : Handlers, size : 1..MaxSize, bytes : Seq(Byte)]

Init == transfer = NoTransfer /\ handed = Nothing

(* A transfer is opened, with the bytes of its first chunk. *)
Open ==
    /\ transfer = NoTransfer
    /\ transfer' \in Transfers
    /\ Len(transfer'.bytes) < transfer'.size
    /\ handed' = Nothing

Extend ==
    /\ transfer # NoTransfer
    /\ transfer' \in Transfers
    /\ transfer'.handler = transfer.handler
    /\ transfer'.size = transfer.size
    /\ Len(transfer'.bytes) \in (Len(transfer.bytes) + 1)..(transfer.size - 1)
    /\ SubSeq(transfer'.bytes, 1, Len(transfer.bytes)) = transfer.bytes
    /\ handed' = Nothing

(* All the bytes are there, in one chunk or as the last of several. *)
Complete ==
    /\ transfer' = NoTransfer
    /\ handed' \in [handler : Handlers, bytes : Seq(Byte)]
    /\ Len(handed'.bytes) \in 1..MaxSize
    /\ transfer # NoTransfer =>
           /\ handed'.handler = transfer.handler
           /\ Len(handed'.bytes) = transfer.size
           /\ SubSeq(handed'.bytes, 1, Len(transfer.bytes)) = transfer.bytes

Drop ==
    /\ transfer' = NoTransfer
    /\ handed' = Nothing

Next == Open \/ Extend \/ Complete \/ Drop

Spec == Init /\ [][Next]_vars
=============================================================================
