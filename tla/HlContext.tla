----------------------------- MODULE HlContext -----------------------------
(***************************************************************************)
(* The signing context of the application (hl_context.c): the metadata of  *)
(* the operation the host announced, the actions it queued and the index   *)
(* of the next action to sign.  The C module keeps it in the static g_ctx; *)
(* here a context is a record and each function of the C module is an      *)
(* operator on it, so that the modules that own the state say when it is   *)
(* applied.  action_count is the length of the sequence.                   *)
(***************************************************************************)
EXTENDS Integers, Sequences

CONSTANTS
    NoMetadata,      \* has_metadata is false
    MaxActionCount   \* MAX_ACTION_COUNT

ASSUME MaxActionCountAssumption == MaxActionCount \in 1..255

(* ctx_reset *)
EmptyCtx == [metadata |-> NoMetadata, actions |-> <<>>, index |-> 0]

(* ctx_save_action_metadata *)
CtxSaveActionMetadata(ctx, metadata) == [ctx EXCEPT !.metadata = metadata]

(* ctx_get_action: the lookup by type that the review screens use, and the *)
(* NULL test on its result.                                                *)
CtxHasAction(actions, type) == \E i \in DOMAIN actions : actions[i].type = type

CtxGetAction(actions, type) ==
    LET found == {i \in DOMAIN actions : actions[i].type = type}
    IN  actions[CHOOSE i \in found : \A j \in found : i <= j]

(* Faulty variants of CtxCanPush: no limit; actions taken between two      *)
(* signatures.                                                             *)
CtxCanPushPastTheEnd(ctx, action) ==
    ctx.index = 0 /\ ~CtxHasAction(ctx.actions, action.type)

CtxCanPushWhileSigning(ctx, action) ==
    Len(ctx.actions) < MaxActionCount /\ ~CtxHasAction(ctx.actions, action.type)

(* ctx_push_action: its three refusals, and the append. *)
CtxCanPush(ctx, action) ==
    /\ Len(ctx.actions) < MaxActionCount
    /\ ctx.index = 0
    /\ ~CtxHasAction(ctx.actions, action.type)

CtxPushAction(ctx, action) == [ctx EXCEPT !.actions = Append(ctx.actions, action)]

(* ctx_get_current_action, and the NULL test on its result *)
CtxHasCurrentAction(ctx) == ctx.index < Len(ctx.actions)

CtxCurrentAction(ctx) == ctx.actions[ctx.index + 1]

(* ctx_switch_to_next_action *)
CtxSwitchToNextAction(ctx) == [ctx EXCEPT !.index = ctx.index + 1]

(* ctx_current_action_is_first *)
CtxCurrentActionIsFirst(ctx) == ctx.index = 0

(* ctx_remaining_actions: the difference is returned as a uint8_t *)
CtxRemainingActions(ctx) == (Len(ctx.actions) - ctx.index) % 256
=============================================================================
