----------------------------- MODULE ScreenTexts -----------------------------
(***************************************************************************)
(* How a review is laid out in memory (ui/op_*.c and prepare_review_sign_  *)
(* msgs): every pair points at a buffer of s_ui_ctx that snprintf filled,  *)
(* and is read when the review is displayed, after everything is written.  *)
(* HlReview says which pairs there are; here a text is its length, the     *)
(* wording included, and a buffer remembers for which pair it was filled.  *)
(*                                                                         *)
(* The wording of the intent depends on the device; numbers are measured   *)
(* by the operators Digits (of an integer) and TextLength (strlen).        *)
(***************************************************************************)
EXTENDS HlReview

CONSTANTS
    Batches,         \* what may be reviewed: [metadata, actions]
    TextLength(_),
    Digits(_)

VARIABLES
    batch,
    wallet_screen,   \* SCREEN_SIZE_WALLET
    pairs,           \* sequence of [item, value], the value a buffer name
    buffers          \* the filled buffers: name -> [for, wanted, stored]

vars == <<batch, wallet_screen, pairs, buffers>>

-----------------------------------------------------------------------------
(* Sizes of the buffers *)

ASSET_TICKER_LENGTH == 48
NUMERIC_STRING_LENGTH == 21
UINT32_STRING_LENGTH == 10
PRICE_STRING_LENGTH == NUMERIC_STRING_LENGTH + 1 + ASSET_TICKER_LENGTH

(* A faulty value of MAX_UI_PAIRS: enough for the longest order of a       *)
(* mainnet session.                                                        *)
MaxUiPairsMainnet == 8

MAX_UI_PAIRS == 16

(* A faulty variant of OperationSize: one formula for every position. *)
OperationSizeOfPosition(op_type) == 5 + 3 + ASSET_TICKER_LENGTH + 1

OperationSize(op_type) ==
    CASE op_type \in {"ORDER", "MODIFY"}        -> 6 + 1 + 5 + 3 + ASSET_TICKER_LENGTH + 1
      [] op_type \in {"CLOSE", "UPDATE_MARGIN"} -> 5 + 3 + ASSET_TICKER_LENGTH + 1
      [] OTHER                                  -> 15 + ASSET_TICKER_LENGTH + 1 + 25 + 1

(* A name is <<field>>, and <<field, i>> in an array. *)
BufferSize(op_type, name) ==
    CASE name[1] = "intent"                         -> 100 + 1
      [] name[1] \in {"review_msg", "sign_msg"}     -> 128 + 1
      [] name[1] = "operation"                      -> OperationSize(op_type)
      [] name[1] = "leverage"                       -> UINT32_STRING_LENGTH + 1 + 1
      [] name[1] \in {"oid", "tp_oid", "sl_oid"}    -> 20 + 1
      [] OTHER                                      -> PRICE_STRING_LENGTH + 1

-----------------------------------------------------------------------------
(* What may be reviewed: the batches a session gathers, with the texts and *)
(* the numbers the parsers and the C types let through                     *)

IsNumericText(text) == TextLength(text) \in 1..NUMERIC_STRING_LENGTH

IsUint64(number) == Digits(number) \in 1..20

IsUint32(number) == Digits(number) \in 1..UINT32_STRING_LENGTH

HasNumericTexts(order) ==
    /\ IsNumericText(order.limit_px)
    /\ IsNumericText(order.sz)
    /\ order.order_type = "TRIGGER" => IsNumericText(order.trigger.trigger_px)

HasTexts(action) ==
    /\ action.type = "BULK_ORDER" =>
           /\ IsList(action.body.orders)
           /\ \A order \in Range(action.body.orders) : HasNumericTexts(order)
    /\ action.type = "BULK_MODIFY" =>
           /\ IsList(action.body.modifies)
           /\ \A modify \in Range(action.body.modifies) :
                  HasNumericTexts(modify.order) /\ IsUint64(modify.oid)
    /\ action.type = "BULK_CANCEL" =>
           /\ IsList(action.body.cancels)
           /\ \A cancel \in Range(action.body.cancels) : IsUint64(cancel.oid)
    /\ action.type = "UPDATE_LEVERAGE" => IsUint32(action.body.leverage)
    /\ action.type = "UPDATE_ISOLATED_MARGIN" =>
           /\ action.body.ntli \in Int
           /\ IsUint64(IF action.body.ntli < 0 THEN -action.body.ntli ELSE action.body.ntli)

IsReviewable(b) ==
    /\ b.metadata.op_type \in OpTypes
    /\ TextLength(b.metadata.ticker) \in 1..ASSET_TICKER_LENGTH
    /\ b.metadata.has_margin => IsUint64(b.metadata.margin)
    /\ b.metadata.has_leverage => IsUint32(b.metadata.leverage)
    /\ IsList(b.actions)
    /\ \A i, j \in DOMAIN b.actions : b.actions[i].type = b.actions[j].type => i = j
    /\ \A action \in Range(b.actions) : ParseBody(action, b.metadata) /\ HasTexts(action)

ASSUME BatchesAssumption == \A b \in Batches : IsReviewable(b)

-----------------------------------------------------------------------------
(* The buffer an item is written to *)

(* A faulty variant of BufferOf: a line copied from the take profit. *)
BufferOfCopied(item, position) ==
    CASE item \in {"Operation", "Active Position", "Position to close"} -> <<"operation">>
      [] item \in {"Margin", "New Margin"}    -> <<"margin">>
      [] item = "Limit Price"                 -> <<"limit_price">>
      [] item = "Leverage"                    -> <<"leverage">>
      [] item \in {"Take Profit", "Stop Loss"} -> <<"tp_price">>
      [] item = "TP Order ID"                 -> <<"tp_oid">>
      [] item = "SL Order ID"                 -> <<"sl_oid">>
      [] item = "Size"                        -> <<"size">>
      [] item = "Order ID"                    -> <<"oid", position>>

BufferOf(item, position) ==
    CASE item \in {"Operation", "Active Position", "Position to close"} -> <<"operation">>
      [] item \in {"Margin", "New Margin"} -> <<"margin">>
      [] item = "Limit Price"              -> <<"limit_price">>
      [] item = "Leverage"                 -> <<"leverage">>
      [] item = "Take Profit"              -> <<"tp_price">>
      [] item = "Stop Loss"                -> <<"sl_price">>
      [] item = "TP Order ID"              -> <<"tp_oid">>
      [] item = "SL Order ID"              -> <<"sl_oid">>
      [] item = "Size"                     -> <<"size">>
      [] item = "Order ID"                 -> <<"oid", position>>

(* The first pairs point at texts in the program itself. *)
IsConstantText(pair) == pair[1] \in {"Protocol", "Network"}

-----------------------------------------------------------------------------
(* The lengths of the texts *)

(* format_fpu64_trimmed: at most a digit before the point and all after it *)
MarginLength(margin) == (IF Digits(margin) > 6 THEN Digits(margin) ELSE 7) + 1

Priced(length) == length + 1 + TextLength("USDC")

Target(tp, sl) ==
    IF wallet_screen THEN IF tp /\ sl THEN "Take Profit and Stop Loss"
                          ELSE IF tp THEN "Take Profit" ELSE "Stop Loss"
    ELSE IF tp /\ sl THEN "TP/SL" ELSE IF tp THEN "TP" ELSE "SL"

CancelTarget(op_type) ==
    Target(op_type # "CANCEL_SL", op_type # "CANCEL_TP")

OperationLength(op_type, pair) ==
    LET ticker == TextLength(batch.metadata.ticker)
        side   == TextLength(pair[Len(pair) - 1])
    IN  CASE op_type = "ORDER"  -> TextLength(pair[2]) + 1 + side + 3 + ticker
          [] op_type = "MODIFY" -> TextLength("Market") + 1 + side + 3 + ticker
          [] op_type \in {"CLOSE", "UPDATE_MARGIN"} -> side + 3 + ticker
          [] op_type = "CANCEL" -> TextLength("Cancel order - ") + ticker
          [] OTHER -> TextLength("Cancel order - ") + ticker + 1
                      + TextLength(CancelTarget(op_type))

PairLength(pair) ==
    LET op_type == batch.metadata.op_type
    IN  CASE BufferOf(pair[1], 1) = <<"operation">> -> OperationLength(op_type, pair)
          [] pair[1] \in {"Margin", "New Margin"}   -> Priced(MarginLength(pair[2]))
          [] pair[1] = "Leverage"                   -> Digits(pair[2]) + 1
          [] pair[1] = "Limit Price"                -> Priced(TextLength(pair[2]))
          [] pair[1] \in {"Take Profit", "Stop Loss"} -> Priced(TextLength(pair[Len(pair)]))
          [] pair[1] = "Size" -> TextLength(pair[2]) + 1 + TextLength(pair[3])
          [] OTHER            -> Digits(pair[2])

(* The intents of the review screens, with the longer of the two sides; a  *)
(* wallet screen also names the asset.                                     *)
IntentLength ==
    LET op_type == batch.metadata.op_type
        intent  == Screen(batch.metadata, batch.actions).intent
        Named(before, after) == IF wallet_screen
                                THEN TextLength(before) + 1 + TextLength(batch.metadata.ticker)
                                     + TextLength(after)
                                ELSE TextLength(before) + TextLength(after)
    IN  CASE op_type = "ORDER" /\ intent[1] = "Open" -> Named("open", " short")
          [] op_type = "ORDER"  -> Named("open", " limit order")
          [] op_type = "MODIFY" -> Named(intent[1], " ") + TextLength(Target(intent[3], intent[4]))
          [] op_type = "CLOSE"  -> Named("close", " short position")
          [] op_type = "UPDATE_MARGIN" ->
                 Named(IF intent[1] = "Add" THEN "Add margin to" ELSE "Remove margin from",
                       " short")
          [] op_type = "CANCEL" -> Named("cancel", " order")
          [] OTHER -> Named("cancel", " ") + TextLength(CancelTarget(op_type))

(* The lengths of the wording these operators name *)
ASSUME WordingAssumption ==
    /\ TextLength("USDC") = 4 /\ TextLength(" ") = 1 /\ TextLength("?") = 1
    /\ TextLength("short") = 5 /\ TextLength("long") = 4
    /\ TextLength("Short") = 5 /\ TextLength("Long") = 4
    /\ TextLength("Market") = 6 /\ TextLength("Limit") = 5
    /\ TextLength("Take Profit and Stop Loss") = 25
    /\ TextLength("Take Profit") = 11 /\ TextLength("Stop Loss") = 9
    /\ TextLength("TP/SL") = 5 /\ TextLength("TP") = 2 /\ TextLength("SL") = 2
    /\ TextLength("open") = 4 /\ TextLength(" short") = 6 /\ TextLength(" limit order") = 12
    /\ TextLength("Edit") = 4 /\ TextLength("Set") = 3
    /\ TextLength("close") = 5 /\ TextLength(" short position") = 15
    /\ TextLength("Add margin to") = 13 /\ TextLength("Remove margin from") = 18
    /\ TextLength("cancel") = 6 /\ TextLength(" order") = 6
    /\ TextLength("Cancel order - ") = 15
    /\ TextLength("Review message to ") = 18 /\ TextLength("Sign message to ") = 16

-----------------------------------------------------------------------------
(* snprintf keeps what fits, with room for the end of the text. *)
Snprintf(name, for, length) ==
    LET room == BufferSize(batch.metadata.op_type, name) - 1
        text == [for |-> for, wanted |-> length, stored |-> IF length > room THEN room ELSE length]
    IN  buffers' = [n \in DOMAIN buffers \cup {name} |-> IF n = name THEN text ELSE buffers[n]]

PairsToShow == Screen(batch.metadata, batch.actions).pairs

(* Where the i-th pair is written; the order ids go into an array in order. *)
OidsUpTo(i) == {k \in 1..i : PairsToShow[k][1] = "Order ID"}

NameOf(i) == BufferOf(PairsToShow[i][1], Cardinality(OidsUpTo(i)))

(* handle_ui clears the context first; what it refuses is not displayed. *)
Init ==
    /\ batch \in {b \in Batches : UiAccepts(b.metadata, b.actions)}
    /\ wallet_screen \in BOOLEAN
    /\ pairs = <<>>
    /\ buffers = [name \in {} |-> 0]

AddConstantPair ==
    /\ Len(pairs) < Len(PairsToShow)
    /\ LET pair == PairsToShow[Len(pairs) + 1]
       IN  /\ IsConstantText(pair)
           /\ pairs' = Append(pairs, [item |-> pair[1], value |-> <<"constant">>])
    /\ UNCHANGED <<batch, wallet_screen, buffers>>

AddPair ==
    /\ Len(pairs) < Len(PairsToShow)
    /\ LET next == Len(pairs) + 1
           pair == PairsToShow[next]
       IN  /\ ~IsConstantText(pair)
           /\ Snprintf(NameOf(next), next, PairLength(pair))
           /\ pairs' = Append(pairs, [item |-> pair[1], value |-> NameOf(next)])
    /\ UNCHANGED <<batch, wallet_screen>>

WriteIntent ==
    /\ Len(pairs) = Len(PairsToShow)
    /\ <<"intent">> \notin DOMAIN buffers
    /\ Snprintf(<<"intent">>, 0, IntentLength)
    /\ UNCHANGED <<batch, wallet_screen, pairs>>

(* prepare_review_sign_msgs *)
WriteReviewMessage ==
    /\ <<"intent">> \in DOMAIN buffers
    /\ <<"review_msg">> \notin DOMAIN buffers
    /\ Snprintf(<<"review_msg">>, 0,
                TextLength("Review message to ") + buffers[<<"intent">>].stored)
    /\ UNCHANGED <<batch, wallet_screen, pairs>>

WriteSignMessage ==
    /\ <<"review_msg">> \in DOMAIN buffers
    /\ <<"sign_msg">> \notin DOMAIN buffers
    /\ Snprintf(<<"sign_msg">>, 0,
                TextLength("Sign message to ") + buffers[<<"intent">>].stored + TextLength("?"))
    /\ UNCHANGED <<batch, wallet_screen, pairs>>

Next == AddConstantPair \/ AddPair \/ WriteIntent \/ WriteReviewMessage \/ WriteSignMessage

Spec == Init /\ [][Next]_vars

-----------------------------------------------------------------------------
(* The user reads whole texts: no ticker, price, size, order id or intent  *)
(* is cut by the buffer it is written to, on either kind of device         *)
(* (op_modify.c:129-225, operation.c:46-52 and the sizes of op_*.h).       *)
NothingIsCut == \A name \in DOMAIN buffers : buffers[name].stored = buffers[name].wanted

(* A pair keeps its text until it is displayed: what was written for it is *)
(* not overwritten by what is written for another (op_modify.c:131-197).   *)
PairsKeepTheirTexts ==
    \A i \in DOMAIN pairs :
        pairs[i].value # <<"constant">> => buffers[pairs[i].value].for = i

(* The arrays of pairs and of order ids are never overrun, although no     *)
(* line that adds a pair looks at nbPairs (operation.c:58-65,              *)
(* op_cancel.c:9-18, ui_context.h:12-15).                                  *)
PairsFit ==
    /\ Len(pairs) <= MAX_UI_PAIRS
    /\ \A i \in DOMAIN pairs : pairs[i].value[1] = "oid" => pairs[i].value[2] \in 1..BulkMaxSize
=============================================================================
