----------------------------- MODULE Serializer -----------------------------
(***************************************************************************)
(* compute_connection_id: an accepted action is serialized into a buffer   *)
(* of fixed size, part by part, and the bytes are hashed together with the *)
(* nonce.  By then the user has approved the action: a refusal for want of *)
(* room is a signature that cannot be made.  Eip712 goes on from there.    *)
(***************************************************************************)
EXTENDS Serialization

CONSTANTS
    Requests,    \* what may be signed: [action, metadata, wallet]
    Capacities   \* the sizes the buffer may have

(* What the parsers let through *)
IsParsed(action) ==
    /\ action.type \in ActionTypes
    /\ action.type = "BULK_ORDER"             => action.body \in BulkOrders
    /\ action.type = "BULK_MODIFY"            => action.body \in BulkModifies
    /\ action.type = "BULK_CANCEL"            => action.body \in BulkCancels
    /\ action.type = "UPDATE_LEVERAGE"        => action.body \in LeverageUpdates
    /\ action.type = "UPDATE_ISOLATED_MARGIN" => action.body \in MarginUpdates

ASSUME RequestsAssumption ==
    \A r \in Requests : IsParsed(r.action) /\ r.metadata.network \in Networks

ASSUME CapacitiesAssumption == Capacities \subseteq Nat

VARIABLES
    request,    \* what is to be signed
    capacity,   \* MAX_SERIALIZED_ACTION_SIZE: never changes
    stage,      \* what is written next
    written,    \* the requests of the action written so far
    offset,     \* buf.offset
    out         \* the items in the buffer, and at the end what is hashed

buffer_vars == <<request, capacity, stage, written, offset, out>>

(* The action the user approved *)
approved == request.action

(* Room for the longest action of every type: with a BULK_MAX_SIZE of 5    *)
(* and a buffer of 1024 bytes there is.                                    *)
BufferHoldsLargest ==
    /\ capacity >= 63
    /\ capacity >= 118 + BulkMaxSize * 166
    /\ capacity >= 30 + BulkMaxSize * 186

-----------------------------------------------------------------------------
(* action_hash serializes the actions that have a MessagePack form. *)
StartSerializer ==
    /\ request \in Requests
    /\ ParseBody(approved, request.metadata)
    /\ capacity \in Capacities
    /\ stage = IF approved.type \in SerializedTypes THEN "header" ELSE "unused"
    /\ written = 0
    /\ offset = 0
    /\ out = <<>>

(* Faulty variants of Fits: one byte over is let in; the last byte is not  *)
(* used.                                                                   *)
FitsAndOneMore(size) == offset + size <= capacity + 1

FitsWithRoomToSpare(size) == offset + size < capacity

(* The test of ser_writer *)
Fits(size) == offset + size <= capacity

Put(items, size) ==
    /\ Fits(size)
    /\ offset' = offset + size
    /\ out' = out \o items

WriteHeader ==
    /\ stage = "header"
    /\ Put(HeaderItems(approved), HeaderSize(approved))
    /\ stage' = "requests"
    /\ UNCHANGED <<request, capacity, written>>

WriteRequest ==
    /\ stage = "requests"
    /\ written < Len(RequestsOf(approved))
    /\ Put(RequestItems(approved, written + 1), RequestSize(approved, written + 1))
    /\ written' = written + 1
    /\ UNCHANGED <<request, capacity, stage>>

WriteTrailer ==
    /\ stage = "requests"
    /\ written = Len(RequestsOf(approved))
    /\ Put(TrailerItems(approved), TrailerSize(approved))
    /\ stage' = "hash"
    /\ UNCHANGED <<request, capacity, written>>

NextSize ==
    IF stage = "header" THEN HeaderSize(approved)
    ELSE IF written < Len(RequestsOf(approved)) THEN RequestSize(approved, written + 1)
    ELSE TrailerSize(approved)

(* The part that comes next does not fit: some item of it is refused, and  *)
(* so is the action.                                                       *)
RefuseToWrite ==
    /\ stage \in {"header", "requests"}
    /\ ~Fits(NextSize)
    /\ stage' = "refused"
    /\ UNCHANGED <<request, capacity, written, offset, out>>

(* The nonce and the end byte follow the buffer into the hash. *)
HashTail(nonce) == <<<<"nonce", nonce>>, <<"end", 0>>>>

HashBuffer ==
    /\ stage = "hash"
    /\ stage' = "done"
    /\ out' = out \o HashTail(approved.nonce)
    /\ UNCHANGED <<request, capacity, written, offset>>

Serialize == WriteHeader \/ WriteRequest \/ WriteTrailer \/ RefuseToWrite \/ HashBuffer

-----------------------------------------------------------------------------
(* An action that was accepted, and approved on screen, always fits the    *)
(* buffer: the limit on the requests of a bulk action is what keeps it     *)
(* there (bulk_order.c:92, bulk_modify.c:73, bulk_cancel.c:77,             *)
(* action.c:297-300).                                                      *)
AlwaysFits == BufferHoldsLargest => stage # "refused"

(* The sums of the first weights of a sequence, from none to all of them *)
RunningSum(weights) ==
    LET sum[n \in 0..Len(weights)] == IF n = 0 THEN 0 ELSE sum[n - 1] + weights[n]
    IN  sum

Widths(items) == [i \in DOMAIN items |-> ItemWidth(items[i])]

BytesOf(items) == RunningSum(Widths(items))[Len(items)]

(* The buffer is never overrun, and its offset is the number of bytes      *)
(* written, so what is hashed is all of them (action.c:297-302, 324).      *)
InBuffer ==
    /\ offset <= capacity
    /\ stage # "done" => offset = BytesOf(out)

(* An action is refused only if its bytes really exceed the buffer         *)
(* (action.c:297).                                                         *)
RefusedOnlyIfTooLong ==
    stage = "refused" => BytesOf(ActionItems(approved)) > capacity

(* The items an item announces, beyond itself *)
Announced(item) ==
    CASE item[1] = "map"   -> 2 * item[2]
      [] item[1] = "array" -> item[2]
      [] OTHER             -> 0

Needs(items) == [i \in DOMAIN items |-> Announced(items[i]) - 1]

(* How many more items the value begun by the first n items still needs *)
ItemsNeeded(items, n) == 1 + RunningSum(Needs(items))[n]

(* The buffer that is hashed holds one MessagePack value and nothing more: *)
(* every map and array announces as many items as follow, whatever         *)
(* optional fields there are (order_request.c:335, bulk_order.c:171, 185). *)
OneValue ==
    /\ stage # "done" => \A n \in 0..(Len(out) - 1) : ItemsNeeded(out, n) > 0
    /\ stage = "hash" => ItemsNeeded(out, Len(out)) = 0

(* What is hashed of every request, written at once *)
HashedBytes ==
    [r \in {r \in Requests : r.action.type \in SerializedTypes} |->
        ActionItems(r.action) \o HashTail(r.action.nonce)]

(* No two actions have the same connection id: whatever differs between    *)
(* them differs in the bytes hashed, which begin with a self-delimiting    *)
(* value and end with a nonce of fixed width.  This is what HlAction takes *)
(* for granted when it makes the action itself the connection id           *)
(* (order_request.c:55-84, 141-179, 334-405, action.c:306-342).            *)
BytesDetermineAction ==
    stage = "done" =>
        \A r \in DOMAIN HashedBytes :
            out = HashedBytes[r] => ConnectionId(r.action) = ConnectionId(approved)
=============================================================================
