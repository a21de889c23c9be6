--------------------------- MODULE ReviewBatches ---------------------------
(***************************************************************************)
(* What a review tells the user.  The states of this module are the        *)
(* batches a session can gather under given metadata, one accepted action  *)
(* at a time; its properties relate the screen handle_ui builds for a      *)
(* batch to the actions that get signed when the user approves.            *)
(***************************************************************************)
EXTENDS HlReview

CONSTANTS Metadata, Actions

(* What the C types say of an action (order_request.h, action.h): its      *)
(* requests are in an array, an order is a limit or a trigger, a trigger   *)
(* takes a profit or stops a loss, and the flags are booleans.             *)
IsOrder(order) ==
    /\ order.order_type \in {"LIMIT", "TRIGGER"}
    /\ order.is_buy \in BOOLEAN /\ order.reduce_only \in BOOLEAN
    /\ order.order_type = "TRIGGER" => /\ order.trigger.tpsl \in {"TP", "SL"}
                                       /\ order.trigger.is_market \in BOOLEAN

ASSUME MetadataAssumption == \A m \in Metadata : m.op_type \in OpTypes

ASSUME ActionsAssumption ==
    \A action \in Actions :
        /\ action.type = "BULK_ORDER" =>
               /\ IsList(action.body.orders)
               /\ \A order \in Range(action.body.orders) : IsOrder(order)
        /\ action.type = "BULK_MODIFY" =>
               /\ IsList(action.body.modifies)
               /\ \A modify \in Range(action.body.modifies) : IsOrder(modify.order)
        /\ action.type = "BULK_CANCEL" => IsList(action.body.cancels)
        /\ action.type = "UPDATE_LEVERAGE" => action.body.is_cross \in BOOLEAN
        /\ action.type = "UPDATE_ISOLATED_MARGIN" => /\ action.body.is_buy \in BOOLEAN
                                                     /\ action.body.ntli \in Int

VARIABLES metadata, actions

vars == <<metadata, actions>>

Init == metadata \in Metadata /\ actions = <<>>

QueueAction(action) ==
    LET ctx == [metadata |-> metadata, actions |-> actions, index |-> 0]
    IN  /\ AcceptsAction(ctx, action)
        /\ actions' = CtxPushAction(ctx, action).actions
        /\ UNCHANGED metadata

Next == \E action \in Actions : QueueAction(action)

Spec == Init /\ [][Next]_vars

-----------------------------------------------------------------------------
Accepted == actions # <<>> /\ UiAccepts(metadata, actions)

(* The items under which the screen of an operation shows one request each *)
RequestItems ==
    CASE metadata.op_type \in {"ORDER", "CLOSE"} -> {"Size", "Take Profit", "Stop Loss"}
      [] metadata.op_type = "MODIFY"             -> {"Take Profit", "Stop Loss"}
      [] metadata.op_type = "UPDATE_MARGIN"      -> {"New Margin"}
      [] OTHER                                   -> {"Order ID"}

RequestCount ==
    CASE CtxHasAction(actions, "BULK_ORDER")  -> Len(OrdersOf(actions))
      [] CtxHasAction(actions, "BULK_MODIFY") -> Len(ModifyRequests(actions))
      [] CtxHasAction(actions, "BULK_CANCEL") -> Len(CancelsOf(actions))
      [] OTHER                                -> 1

(* "No hidden extra orders that would be signed without being shown"       *)
(* (op_order.c:161-162, op_modify.c:74-75): every request of the action    *)
(* that heads the batch has a pair of its own on the screen.               *)
EveryRequestShown ==
    Accepted =>
        LET pairs == Screen(metadata, actions).pairs
        IN  RequestCount = Cardinality({i \in DOMAIN pairs : pairs[i][1] \in RequestItems})

-----------------------------------------------------------------------------
(* What a batch does, in the terms of its operation.  Left out throughout  *)
(* are the client order ids, grouping, builder and nonces, of a MODIFY the *)
(* sides of its triggers ("whichever hidden direction they carry",         *)
(* op_modify.c:121-122), of an ORDER the approvals that ride along, and of *)
(* an order executed at once the price that bounds it.                     *)

(* The terms of a limit order: how long it stays, and at what price. *)
Terms(order) ==
    <<order.limit.tif, IF order.limit.tif = "IOC" THEN "market" ELSE order.limit_px>>

(* An opening order, its side being the one the screen takes for it. *)
LimitEssence(order) == <<ShortLong(order), order.sz, Terms(order)>>

TriggerEssence(order) ==
    <<order.trigger.tpsl, order.trigger.trigger_px, order.limit_px, order.sz,
      order.reduce_only, order.trigger.is_market>>

TriggersIn(orders) == {TriggerEssence(order) : order \in {o \in Range(orders) : ~IsLimit(o)}}

LimitOf(batch) == FirstOf(OrdersOf(batch), LimitsIn(OrdersOf(batch)))

(* What a CLOSE takes of the position *)
PositionClosed(batch) ==
    LET order == OrdersOf(batch)[1] IN <<order.is_buy, order.reduce_only, order.sz>>

Essence(batch) ==
    CASE metadata.op_type = "ORDER" ->
             <<LimitEssence(LimitOf(batch)),
               TriggersIn(OrdersOf(batch)),
               CtxHasAction(batch, "UPDATE_LEVERAGE"),
               IF CtxHasAction(batch, "UPDATE_LEVERAGE")
               THEN <<LeverageOf(batch).leverage, LeverageOf(batch).is_cross>> ELSE <<>> >>
      [] metadata.op_type = "CLOSE" ->
             <<PositionClosed(batch), Terms(OrdersOf(batch)[1])>>
      [] metadata.op_type = "MODIFY" ->
             {<<request.oid, TriggerEssence(request.order)>> :
                 request \in Range(ModifyRequests(batch))}
      [] metadata.op_type = "UPDATE_MARGIN" ->
             <<MarginOf(batch).is_buy, MarginOf(batch).ntli>>
      [] OTHER -> [i \in DOMAIN CancelsOf(batch) |-> CancelsOf(batch)[i].oid]

(* The batch the host could have sent instead of this one *)
Substitute(i, action) == [actions EXCEPT ![i] = action]

(* Another action of the same type, or of the other type a MODIFY may use, *)
(* gives a batch that is accepted too and has the same screen.             *)
PassesFor(i, action) ==
    /\ ParseBody(action, metadata)
    /\ \/ action.type = actions[i].type
       \/ metadata.op_type = "MODIFY" /\ action.type \in TypesOf("MODIFY")
    /\ UiAccepts(metadata, Substitute(i, action))
    /\ Screen(metadata, Substitute(i, action)) = Screen(metadata, actions)

(* Two batches with the same screen do the same thing: whatever the screen *)
(* leaves out of orders, triggers, leverage, cancels and margins has only  *)
(* one value the checks of the ui_* functions let through (op_order.c:     *)
(* 161-182, op_modify.c:74-128, common.c:91-100).  Not so for a CLOSE,     *)
(* whose screen decides the position and the size (op_close.c:16-28) but   *)
(* not the terms of the order: see ScreenDeterminesClose.                  *)
ScreenDeterminesBatch ==
    Accepted =>
        \A i \in DOMAIN actions :
            \A action \in {a \in Actions : PassesFor(i, a)} :
                LET other == Substitute(i, action)
                IN  IF metadata.op_type = "CLOSE"
                    THEN PositionClosed(other) = PositionClosed(actions)
                    ELSE Essence(other) = Essence(actions)

(* "The set of actions signed is guaranteed to match what was shown on     *)
(* screen" (handler/sign_action.c:93-94), for a CLOSE: no order that rests *)
(* on the book at some price has the screen of one executed at once, or of *)
(* one that rests at another price (op_close.c:21-60).                     *)
ScreenDeterminesClose ==
    (Accepted /\ metadata.op_type = "CLOSE") =>
        \A i \in DOMAIN actions :
            \A action \in {a \in Actions : PassesFor(i, a)} :
                Essence(Substitute(i, action)) = Essence(actions)

Without(i) ==
    [j \in 1..(Len(actions) - 1) |-> actions[IF j < i THEN j ELSE j + 1]]

SilentlySigned(i) ==
    /\ UiAccepts(metadata, Without(i))
    /\ Screen(metadata, Without(i)) = Screen(metadata, actions)

(* An action that leaves no trace on the screen is one of the two types    *)
(* that are "signed silently by design" (action.c:205-207).                *)
OnlyApprovalsAreSilent ==
    Accepted =>
        \A i \in DOMAIN actions :
            SilentlySigned(i) =>
                actions[i].type \in {"APPROVE_BUILDER_FEE", "USER_SET_ABSTRACTION"}

(* "All actions in the batch are described to the user in a single review  *)
(* screen before any signature is produced" (handler/sign_action.c:88-90). *)
AllActionsDescribed ==
    Accepted => \A i \in DOMAIN actions : ~SilentlySigned(i)

(* "The set of actions signed is guaranteed to match what was shown on     *)
(* screen" (handler/sign_action.c:93-94), for the side of an opening       *)
(* order: no other order that has this screen buys where this one sells.   *)
ScreenDeterminesSide ==
    (Accepted /\ metadata.op_type = "ORDER") =>
        \A i \in {j \in DOMAIN actions : actions[j].type = "BULK_ORDER"} :
            \A action \in {a \in Actions : PassesFor(i, a)} :
                LimitOf(Substitute(i, action)).is_buy = LimitOf(actions).is_buy
=============================================================================
