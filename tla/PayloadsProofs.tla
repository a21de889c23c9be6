--------------------------- MODULE PayloadsProofs ---------------------------
(***************************************************************************)
(* Proofs about Payloads and the parsers it uses, for every payload,       *)
(* whatever its fields and their order; and about the amount that one of   *)
(* its fields carries.                                                     *)
(***************************************************************************)
EXTENDS Payloads, MarginAmount, SequenceTheorems, WellFoundedInduction, TLAPS

-----------------------------------------------------------------------------
(* Counting *)

(* Every set of numbers that is not empty has a smallest one. *)
LEMMA Smallest ==
  ASSUME NEW T \in SUBSET Nat, T # {}
  PROVE  \E x \in T : \A y \in T : x <= y
  <1> DEFINE R == {p \in Nat \X Nat : p[1] < p[2]}
  <1>1. IsWellFoundedOn(R, Nat)
    <2>1. IsWellFoundedOn(OpToRel(<, Nat), Nat)
      BY NatLessThanWellFounded
    <2>2. OpToRel(<, Nat) = R
      BY DEF OpToRel
    <2> QED
      BY <2>1, <2>2
  <1>2. PICK x \in T : \A y \in T : ~ (<<y, x>> \in R)
    <2> HIDE DEF R
    <2> QED
      BY <1>1, WFMin
  <1>3. ASSUME NEW y \in Nat, y < x PROVE <<y, x>> \in R
    <2>1. <<y, x>> \in Nat \X Nat
      OBVIOUS
    <2> QED
      BY <1>3, <2>1
  <1>4. \A y \in T : ~(y < x)
    BY <1>2, <1>3
  <1> QED
    BY <1>4

(* Counting up: what holds of 0, and of n + 1 with n, holds up to the last *)
(* number.                                                                 *)
LEMMA CountingUp ==
  ASSUME NEW last \in Nat, NEW S, 0 \in S,
         \A n \in 0..last : n \in S /\ n # last => n + 1 \in S
  PROVE  \A n \in 0..last : n \in S
  <1> DEFINE T == {n \in 0..last : n \notin S}
  <1> SUFFICES ASSUME T # {} PROVE FALSE
    OBVIOUS
  <1>1. T \in SUBSET Nat
    OBVIOUS
  <1>2. PICK x \in T : \A y \in T : x <= y
    BY <1>1, Smallest
  <1>3. x \in 0..last /\ x # 0
    OBVIOUS
  <1>4. x - 1 \in 0..last /\ x - 1 # last /\ ~(x <= x - 1)
    BY <1>3
  <1>5. x - 1 \in S
    BY <1>2, <1>4
  <1>6. (x - 1) + 1 \in S
    BY <1>4, <1>5
  <1> QED
    BY <1>3, <1>6

-----------------------------------------------------------------------------
(* The run of the metadata parser, one context per field *)

MetadataStep(out, field) ==
    IF Admits(out, field.tag, {})
    THEN [MetadataTag(HandleCommon(out, field), field) EXCEPT !.received = @ \cup {field.tag}]
    ELSE Refuse(out)

IsMetadataRun(run, fields, last) ==
    run = [n \in 0..last |->
              IF n = 0 THEN MetadataContext ELSE MetadataStep(run[n - 1], fields[n])]

MetadataRun(fields) == CHOOSE run : IsMetadataRun(run, fields, Len(fields))

LEMMA MetadataRunIs ==
  ASSUME NEW fields, Len(fields) \in Nat
  PROVE  /\ IsMetadataRun(MetadataRun(fields), fields, Len(fields))
         /\ ParseActionMetadata(fields) = VerifyActionMetadata(MetadataRun(fields)[Len(fields)])
  <1> DEFINE last == Len(fields)
             S == {m \in 0..last : \E run : IsMetadataRun(run, fields, m)}
  <1>1. 0 \in S
    <2>1. IsMetadataRun([n \in 0..0 |-> MetadataContext], fields, 0)
      BY DEF IsMetadataRun
    <2> QED
      BY <2>1
  <1>2. ASSUME NEW m \in 0..last, m \in S, m # last PROVE m + 1 \in S
    <2>1. PICK g : IsMetadataRun(g, fields, m)
      BY <1>2
    <2> DEFINE h == [n \in 0..(m + 1) |-> IF n <= m THEN g[n] ELSE MetadataStep(g[m], fields[m + 1])]
    <2>2. ASSUME NEW n \in 0..(m + 1)
          PROVE  h[n] = IF n = 0 THEN MetadataContext ELSE MetadataStep(h[n - 1], fields[n])
      <3>1. CASE n = 0
        <4>1. 0 \in 0..m
          BY <1>2
        <4>2. h[0] = g[0] /\ g[0] = MetadataContext
          BY <2>1, <4>1 DEF IsMetadataRun
        <4> QED
          BY <3>1, <4>2
      <3>2. CASE n \in 1..m
        <4>1. n \in 0..m /\ n - 1 \in 0..m /\ n - 1 \in 0..(m + 1) /\ n # 0
          BY <1>2, <3>2
        <4>2. h[n] = g[n] /\ h[n - 1] = g[n - 1]
          BY <4>1
        <4>3. g[n] = MetadataStep(g[n - 1], fields[n])
          BY <2>1, <4>1 DEF IsMetadataRun
        <4> QED
          BY <4>1, <4>2, <4>3
      <3>3. CASE n = m + 1
        <4>1. n # 0 /\ ~(n <= m) /\ n - 1 = m /\ m \in 0..(m + 1) /\ m <= m
          BY <1>2, <3>3
        <4>2. h[n] = MetadataStep(g[m], fields[m + 1]) /\ h[m] = g[m]
          BY <4>1
        <4> QED
          BY <3>3, <4>1, <4>2
      <3> QED
        BY <1>2, <3>1, <3>2, <3>3
    <2>3. IsMetadataRun(h, fields, m + 1)
      BY <2>2 DEF IsMetadataRun
    <2>4. m + 1 \in 0..last
      BY <1>2
    <2> HIDE DEF h
    <2> QED
      BY <2>3, <2>4
  <1>3. last \in S
    <2> HIDE DEF S, last
    <2>1. last \in Nat
      BY DEF last
    <2>2. \A m \in 0..last : m \in S
      BY <1>1, <1>2, <2>1, CountingUp
    <2> QED
      BY <2>1, <2>2
  <1>4. IsMetadataRun(MetadataRun(fields), fields, last)
    BY <1>3 DEF MetadataRun
  <1>5. ParseActionMetadata(fields) = VerifyActionMetadata(MetadataRun(fields)[last])
    BY DEF ParseActionMetadata, RunTlvParser, MetadataRun, IsMetadataRun, MetadataStep
  <1> QED
    BY <1>4, <1>5

-----------------------------------------------------------------------------
(* What a field does to the context *)

MetadataNames ==
    {"op_type", "asset_id", "ticker", "network", "has_builder_addr", "builder_addr",
     "has_margin", "margin", "has_leverage", "leverage"}

OptionalTags == {"BUILDER_ADDR", "MARGIN", "LEVERAGE"}

ValueTags == {"OPERATION_TYPE", "ASSET_ID", "ASSET_TICKER", "NETWORK"} \cup OptionalTags

(* The member of s_action_metadata that a field fills, and the flag that   *)
(* says it was there                                                       *)
NameOf(tag) ==
    CASE tag = "OPERATION_TYPE" -> "op_type"
      [] tag = "ASSET_ID"       -> "asset_id"
      [] tag = "ASSET_TICKER"   -> "ticker"
      [] tag = "NETWORK"        -> "network"
      [] tag = "BUILDER_ADDR"   -> "builder_addr"
      [] tag = "MARGIN"         -> "margin"
      [] tag = "LEVERAGE"       -> "leverage"

FlagOf(tag) ==
    CASE tag = "BUILDER_ADDR" -> "has_builder_addr"
      [] tag = "MARGIN"       -> "has_margin"
      [] tag = "LEVERAGE"     -> "has_leverage"

LEMMA NamesDiffer ==
  /\ \A tag \in ValueTags : NameOf(tag) \in MetadataNames
  /\ \A tag \in OptionalTags : FlagOf(tag) \in MetadataNames /\ tag \in ValueTags
  /\ \A tag, other \in ValueTags : NameOf(tag) = NameOf(other) => tag = other
  /\ \A tag, other \in OptionalTags : FlagOf(tag) = FlagOf(other) => tag = other
  /\ \A tag \in ValueTags, other \in OptionalTags : NameOf(tag) # FlagOf(other)
  <1>1. /\ NameOf("OPERATION_TYPE") = "op_type" /\ NameOf("ASSET_ID") = "asset_id"
        /\ NameOf("ASSET_TICKER") = "ticker" /\ NameOf("NETWORK") = "network"
        /\ NameOf("BUILDER_ADDR") = "builder_addr" /\ NameOf("MARGIN") = "margin"
        /\ NameOf("LEVERAGE") = "leverage"
    BY DEF NameOf
  <1>2. /\ FlagOf("BUILDER_ADDR") = "has_builder_addr" /\ FlagOf("MARGIN") = "has_margin"
        /\ FlagOf("LEVERAGE") = "has_leverage"
    BY DEF FlagOf
  <1>3. \A tag \in ValueTags : NameOf(tag) \in MetadataNames
    BY <1>1 DEF MetadataNames, ValueTags, OptionalTags
  <1>4. \A tag \in OptionalTags : FlagOf(tag) \in MetadataNames /\ tag \in ValueTags
    BY <1>2 DEF MetadataNames, ValueTags, OptionalTags
  <1>5. \A tag, other \in ValueTags : NameOf(tag) = NameOf(other) => tag = other
    BY <1>1 DEF ValueTags, OptionalTags
  <1>6. \A tag, other \in OptionalTags : FlagOf(tag) = FlagOf(other) => tag = other
    BY <1>2 DEF OptionalTags
  <1>7. \A tag \in ValueTags, other \in OptionalTags : NameOf(tag) # FlagOf(other)
    BY <1>1, <1>2 DEF ValueTags, OptionalTags
  <1> QED
    BY <1>3, <1>4, <1>5, <1>6, <1>7

(* A metadata is its members. *)
IsMetadata(value) == value = [name \in MetadataNames |-> value[name]]

ContextParts == {"ok", "received", "value", "hashed", "signature"}

IsMetadataContext(out) ==
    /\ out = [part \in ContextParts |-> out[part]]
    /\ IsMetadata(out.value)

(* The context with one member filled *)
Filled(out, name, value) == [out EXCEPT !.value = [@ EXCEPT ![name] = value]]

(* The context with one flag set *)
Flagged(out, flag) == Filled(out, flag, TRUE)

LEMMA FilledIs ==
  ASSUME NEW out, IsMetadataContext(out), NEW name \in MetadataNames, NEW value
  PROVE  /\ IsMetadataContext(Filled(out, name, value))
         /\ Filled(out, name, value).value[name] = value
         /\ \A other \in MetadataNames \ {name} :
                Filled(out, name, value).value[other] = out.value[other]
         /\ Filled(out, name, value).ok = out.ok
         /\ Filled(out, name, value).received = out.received
         /\ Filled(out, name, value).hashed = out.hashed
         /\ Filled(out, name, value).signature = out.signature
  BY DEF Filled, IsMetadataContext, ContextParts, IsMetadata

LEMMA FlaggedIs ==
  ASSUME NEW out, IsMetadataContext(out), NEW flag \in MetadataNames
  PROVE  /\ IsMetadataContext(Flagged(out, flag))
         /\ Flagged(out, flag).value[flag] = TRUE
         /\ \A other \in MetadataNames \ {flag} :
                Flagged(out, flag).value[other] = out.value[other]
         /\ Flagged(out, flag).ok = out.ok
         /\ Flagged(out, flag).received = out.received
         /\ Flagged(out, flag).hashed = out.hashed
         /\ Flagged(out, flag).signature = out.signature
  BY DEF Flagged, Filled, IsMetadataContext, ContextParts, IsMetadata

LEMMA StoreIs ==
  ASSUME NEW out, IsMetadataContext(out), NEW name \in MetadataNames, NEW value
  PROVE  /\ Store(out, name, value) = Filled(out, name, value)
         /\ IsMetadataContext(Store(out, name, value))
  <1>1. With(out.value, name, value) = [out.value EXCEPT ![name] = value]
    BY DEF IsMetadataContext, IsMetadata, With
  <1>2. Store(out, name, value) = Filled(out, name, value)
    BY <1>1 DEF Store, Filled
  <1>3. IsMetadataContext(Filled(out, name, value))
    BY FilledIs
  <1> QED
    BY <1>2, <1>3

LEMMA RefuseIs ==
  ASSUME NEW out, IsMetadataContext(out)
  PROVE  IsMetadataContext(Refuse(out)) /\ Refuse(out).ok = FALSE
  BY DEF Refuse, IsMetadataContext, ContextParts

LEMMA StoreScalarIs ==
  ASSUME NEW out, IsMetadataContext(out), NEW name \in MetadataNames, NEW value,
         StoreScalar(out, name, value).ok
  PROVE  StoreScalar(out, name, value) = Filled(out, name, value) /\ value # OutOfRange
  BY StoreIs, RefuseIs DEF StoreScalar

LEMMA StoreEnumIs ==
  ASSUME NEW out, IsMetadataContext(out), NEW name \in MetadataNames, NEW value, NEW enumerators,
         StoreEnum(out, name, value, enumerators).ok
  PROVE  StoreEnum(out, name, value, enumerators) = Filled(out, name, value)
  BY StoreIs, RefuseIs DEF StoreEnum

LEMMA StoreOptionalIs ==
  ASSUME NEW out, IsMetadataContext(out), NEW flag \in MetadataNames,
         NEW name \in MetadataNames, NEW value, StoreOptional(out, flag, name, value).ok
  PROVE  StoreOptional(out, flag, name, value) = Filled(Flagged(out, flag), name, value)
  <1> DEFINE flagged == Flagged(out, flag)
  <1>1. Store(out, flag, TRUE) = flagged
    BY StoreIs DEF Flagged
  <1>2. IsMetadataContext(flagged)
    BY FilledIs DEF Flagged
  <1> HIDE DEF flagged
  <1>3. StoreScalar(flagged, name, value).ok
    BY <1>1 DEF StoreOptional
  <1>4. StoreScalar(flagged, name, value) = Filled(flagged, name, value)
    BY <1>2, <1>3, StoreScalarIs
  <1> QED
    BY <1>1, <1>4 DEF StoreOptional, flagged

(* What a handler that did not refuse has done *)
HandledWell(out, field, handled) ==
    /\ field.tag \in OptionalTags =>
           handled = Filled(Flagged(out, FlagOf(field.tag)), NameOf(field.tag), field.value)
    /\ field.tag \in ValueTags \ OptionalTags =>
           handled = Filled(out, NameOf(field.tag), field.value)
    /\ field.tag = "SIGNATURE" =>
           field.value # OutOfRange /\ handled = [out EXCEPT !.signature = field.value]
    /\ field.tag \notin ValueTags \cup {"SIGNATURE"} => handled = out

LEMMA MetadataTagTells ==
  ASSUME NEW out, IsMetadataContext(out), NEW field, MetadataTag(out, field).ok
  PROVE  HandledWell(out, field, MetadataTag(out, field))
  <1> DEFINE tag == field.tag
             handled == MetadataTag(out, field)
  <1>n. /\ "op_type" \in MetadataNames /\ "asset_id" \in MetadataNames
        /\ "ticker" \in MetadataNames /\ "network" \in MetadataNames
        /\ "has_builder_addr" \in MetadataNames /\ "builder_addr" \in MetadataNames
        /\ "has_margin" \in MetadataNames /\ "margin" \in MetadataNames
        /\ "has_leverage" \in MetadataNames /\ "leverage" \in MetadataNames
    BY DEF MetadataNames
  <1>1. CASE tag = "OPERATION_TYPE"
    <2>1. handled = StoreEnum(out, "op_type", field.value, OpTypes)
      BY <1>1 DEF MetadataTag
    <2>2. handled = Filled(out, "op_type", field.value)
      BY <2>1, <1>n, StoreEnumIs
    <2> QED
      BY <1>1, <2>2 DEF HandledWell, NameOf, ValueTags, OptionalTags
  <1>2. CASE tag = "ASSET_ID"
    <2>1. handled = StoreScalar(out, "asset_id", field.value)
      BY <1>2 DEF MetadataTag
    <2>2. handled = Filled(out, "asset_id", field.value)
      BY <2>1, <1>n, StoreScalarIs
    <2> QED
      BY <1>2, <2>2 DEF HandledWell, NameOf, ValueTags, OptionalTags
  <1>3. CASE tag = "ASSET_TICKER"
    <2>1. handled = StoreScalar(out, "ticker", field.value)
      BY <1>3 DEF MetadataTag
    <2>2. handled = Filled(out, "ticker", field.value)
      BY <2>1, <1>n, StoreScalarIs
    <2> QED
      BY <1>3, <2>2 DEF HandledWell, NameOf, ValueTags, OptionalTags
  <1>4. CASE tag = "NETWORK"
    <2>1. handled = StoreEnum(out, "network", field.value, Networks)
      BY <1>4 DEF MetadataTag
    <2>2. handled = Filled(out, "network", field.value)
      BY <2>1, <1>n, StoreEnumIs
    <2> QED
      BY <1>4, <2>2 DEF HandledWell, NameOf, ValueTags, OptionalTags
  <1>5. CASE tag = "BUILDER_ADDR"
    <2>1. handled = StoreOptional(out, "has_builder_addr", "builder_addr", field.value)
      BY <1>5 DEF MetadataTag
    <2>2. StoreOptional(out, "has_builder_addr", "builder_addr", field.value).ok
      BY <2>1
    <2>3. StoreOptional(out, "has_builder_addr", "builder_addr", field.value)
              = Filled(Flagged(out, "has_builder_addr"), "builder_addr", field.value)
      BY <2>2, <1>n, StoreOptionalIs
    <2> QED
      BY <1>5, <2>1, <2>3 DEF HandledWell, NameOf, FlagOf, ValueTags, OptionalTags
  <1>6. CASE tag = "MARGIN"
    <2>1. handled = StoreOptional(out, "has_margin", "margin", field.value)
      BY <1>6 DEF MetadataTag
    <2>2. StoreOptional(out, "has_margin", "margin", field.value).ok
      BY <2>1
    <2>3. StoreOptional(out, "has_margin", "margin", field.value)
              = Filled(Flagged(out, "has_margin"), "margin", field.value)
      BY <2>2, <1>n, StoreOptionalIs
    <2> QED
      BY <1>6, <2>1, <2>3 DEF HandledWell, NameOf, FlagOf, ValueTags, OptionalTags
  <1>7. CASE tag = "LEVERAGE"
    <2>1. handled = StoreOptional(out, "has_leverage", "leverage", field.value)
      BY <1>7 DEF MetadataTag
    <2>2. StoreOptional(out, "has_leverage", "leverage", field.value).ok
      BY <2>1
    <2>3. StoreOptional(out, "has_leverage", "leverage", field.value)
              = Filled(Flagged(out, "has_leverage"), "leverage", field.value)
      BY <2>2, <1>n, StoreOptionalIs
    <2> QED
      BY <1>7, <2>1, <2>3 DEF HandledWell, NameOf, FlagOf, ValueTags, OptionalTags
  <1>8. CASE tag = "SIGNATURE"
    <2>1. handled = IF field.value = OutOfRange THEN Refuse(out)
                    ELSE [out EXCEPT !.signature = field.value]
      BY <1>8 DEF MetadataTag
    <2>2. field.value # OutOfRange
      BY <2>1, RefuseIs
    <2> QED
      BY <1>8, <2>1, <2>2 DEF HandledWell, ValueTags, OptionalTags
  <1>9. CASE tag \notin ValueTags \cup {"SIGNATURE"}
    <2>1. handled = out \/ handled = Refuse(out)
      BY <1>9 DEF MetadataTag, ValueTags, OptionalTags
    <2>2. handled = out
      BY <2>1, RefuseIs
    <2> QED
      BY <1>9, <2>2 DEF HandledWell, ValueTags, OptionalTags
  <1> QED
    BY <1>1, <1>2, <1>3, <1>4, <1>5, <1>6, <1>7, <1>8, <1>9 DEF ValueTags, OptionalTags

(* A handler leaves a context of the parser, refused or not. *)
LEMMA StoresLeaveContexts ==
  ASSUME NEW out, IsMetadataContext(out), NEW name \in MetadataNames, NEW value
  PROVE  /\ IsMetadataContext(StoreScalar(out, name, value))
         /\ \A enumerators : IsMetadataContext(StoreEnum(out, name, value, enumerators))
         /\ \A flag \in MetadataNames : IsMetadataContext(StoreOptional(out, flag, name, value))
  <1>1. ASSUME NEW context, IsMetadataContext(context)
        PROVE  IsMetadataContext(StoreScalar(context, name, value))
    BY <1>1, StoreIs, RefuseIs DEF StoreScalar
  <1>2. ASSUME NEW enumerators
        PROVE  IsMetadataContext(StoreEnum(out, name, value, enumerators))
    BY StoreIs, RefuseIs DEF StoreEnum
  <1>3. ASSUME NEW flag \in MetadataNames
        PROVE  IsMetadataContext(StoreOptional(out, flag, name, value))
    <2>1. IsMetadataContext(Store(out, flag, TRUE))
      BY StoreIs
    <2> QED
      BY <1>1, <2>1 DEF StoreOptional
  <1> QED
    BY <1>1, <1>2, <1>3

LEMMA MetadataTagLeavesContext ==
  ASSUME NEW out, IsMetadataContext(out), NEW field
  PROVE  IsMetadataContext(MetadataTag(out, field))
  <1> DEFINE Good(context) == IsMetadataContext(context)
  <1>1. /\ "op_type" \in MetadataNames /\ "asset_id" \in MetadataNames
        /\ "ticker" \in MetadataNames /\ "network" \in MetadataNames
        /\ "has_builder_addr" \in MetadataNames /\ "builder_addr" \in MetadataNames
        /\ "has_margin" \in MetadataNames /\ "margin" \in MetadataNames
        /\ "has_leverage" \in MetadataNames /\ "leverage" \in MetadataNames
    BY DEF MetadataNames
  <1>2. /\ Good(StoreEnum(out, "op_type", field.value, OpTypes))
        /\ Good(StoreScalar(out, "asset_id", field.value))
        /\ Good(StoreScalar(out, "ticker", field.value))
        /\ Good(StoreEnum(out, "network", field.value, Networks))
    BY <1>1, StoresLeaveContexts
  <1>3. /\ Good(StoreOptional(out, "has_builder_addr", "builder_addr", field.value))
        /\ Good(StoreOptional(out, "has_margin", "margin", field.value))
        /\ Good(StoreOptional(out, "has_leverage", "leverage", field.value))
    BY <1>1, StoresLeaveContexts
  <1>4. Good(out) /\ Good(Refuse(out)) /\ Good([out EXCEPT !.signature = field.value])
    BY RefuseIs DEF IsMetadataContext, ContextParts
  <1> QED
    BY <1>2, <1>3, <1>4 DEF MetadataTag

-----------------------------------------------------------------------------
(* What the fields of a payload say of the metadata *)

(* The values are those of the fields; an optional one that is not there   *)
(* has its flag down and the value explicit_bzero left.                    *)
Says(fields, value) ==
    /\ \A i \in DOMAIN fields :
          fields[i].tag \in ValueTags => value[NameOf(fields[i].tag)] = fields[i].value
    /\ \A tag \in OptionalTags :
          IF tag \in TagsOf(fields) THEN value[FlagOf(tag)] = TRUE
          ELSE /\ value[FlagOf(tag)] = FALSE
               /\ value[NameOf(tag)] = ZeroMetadata[NameOf(tag)]

(* What one more field changes *)
Tells(field, old, new) ==
    /\ field.tag \in ValueTags => new[NameOf(field.tag)] = field.value
    /\ field.tag \in OptionalTags => new[FlagOf(field.tag)] = TRUE
    /\ \A tag \in ValueTags \ {field.tag} : new[NameOf(tag)] = old[NameOf(tag)]
    /\ \A tag \in OptionalTags \ {field.tag} : new[FlagOf(tag)] = old[FlagOf(tag)]

LEMMA NothingSaid == Says(<<>>, ZeroMetadata)
  <1>1. \A tag \in OptionalTags : ZeroMetadata[FlagOf(tag)] = FALSE
    BY DEF OptionalTags, FlagOf, ZeroMetadata
  <1>2. TagsOf(<<>>) = {}
    BY DEF TagsOf
  <1>3. DOMAIN <<>> = {}
    OBVIOUS
  <1> QED
    BY <1>1, <1>2, <1>3 DEF Says

LEMMA TagsOfAppend ==
  ASSUME NEW F, NEW fields \in Seq(F), NEW field
  PROVE  TagsOf(Append(fields, field)) = TagsOf(fields) \cup {field.tag}
  <1> DEFINE more == Append(fields, field)
  <1>1. /\ DOMAIN more = DOMAIN fields \cup {Len(fields) + 1}
        /\ more[Len(fields) + 1] = field
        /\ \A i \in DOMAIN fields : more[i] = fields[i]
    OBVIOUS
  <1> HIDE DEF more
  <1> QED
    BY <1>1 DEF TagsOf

LEMMA SaysMore ==
  ASSUME NEW F, NEW fields \in Seq(F), NEW field, field.tag \notin TagsOf(fields),
         NEW old, NEW new, Says(fields, old), Tells(field, old, new)
  PROVE  Says(Append(fields, field), new)
  <1> DEFINE more == Append(fields, field)
  <1>1. TagsOf(more) = TagsOf(fields) \cup {field.tag}
    BY TagsOfAppend
  <1>2. /\ DOMAIN more = DOMAIN fields \cup {Len(fields) + 1}
        /\ more[Len(fields) + 1] = field
        /\ \A i \in DOMAIN fields : more[i] = fields[i]
    OBVIOUS
  <1> HIDE DEF more
  <1>3. ASSUME NEW i \in DOMAIN more, more[i].tag \in ValueTags
        PROVE  new[NameOf(more[i].tag)] = more[i].value
    <2>1. CASE i \in DOMAIN fields
      <3>1. more[i] = fields[i] /\ fields[i].tag \in TagsOf(fields)
        BY <1>2, <2>1 DEF TagsOf
      <3>2. fields[i].tag \in ValueTags \ {field.tag}
        BY <1>3, <3>1
      <3>3. new[NameOf(fields[i].tag)] = old[NameOf(fields[i].tag)]
        BY <3>2 DEF Tells
      <3>4. old[NameOf(fields[i].tag)] = fields[i].value
        BY <2>1, <3>2 DEF Says
      <3> QED
        BY <3>1, <3>3, <3>4
    <2>2. CASE more[i] = field
      BY <1>3, <2>2 DEF Tells
    <2> QED
      BY <1>2, <2>1, <2>2
  <1>4. ASSUME NEW tag \in OptionalTags
        PROVE  IF tag \in TagsOf(more) THEN new[FlagOf(tag)] = TRUE
               ELSE new[FlagOf(tag)] = FALSE /\ new[NameOf(tag)] = ZeroMetadata[NameOf(tag)]
    <2>1. CASE tag = field.tag
      BY <1>1, <2>1 DEF Tells
    <2>2. CASE tag # field.tag
      <3>1. tag \in ValueTags
        BY NamesDiffer
      <3>2. new[FlagOf(tag)] = old[FlagOf(tag)] /\ new[NameOf(tag)] = old[NameOf(tag)]
        BY <2>2, <3>1 DEF Tells
      <3>3. tag \in TagsOf(more) <=> tag \in TagsOf(fields)
        BY <1>1, <2>2
      <3>4. IF tag \in TagsOf(fields) THEN old[FlagOf(tag)] = TRUE
            ELSE old[FlagOf(tag)] = FALSE /\ old[NameOf(tag)] = ZeroMetadata[NameOf(tag)]
        BY DEF Says
      <3> QED
        BY <3>2, <3>3, <3>4
    <2> QED
      BY <2>1, <2>2
  <1> QED
    BY <1>3, <1>4 DEF Says, more

-----------------------------------------------------------------------------
(* What the context says of the fields read so far *)

LEMMA HandledTells ==
  ASSUME NEW out, IsMetadataContext(out), NEW field, NEW handled,
         HandledWell(out, field, handled)
  PROVE  /\ IsMetadataContext(handled)
         /\ Tells(field, out.value, handled.value)
         /\ handled.received = out.received
         /\ handled.hashed = out.hashed
         /\ IF field.tag = "SIGNATURE"
            THEN field.value # OutOfRange /\ handled.signature = field.value
            ELSE handled.signature = out.signature
  <1> DEFINE tag == field.tag
  <1>1. CASE tag \in OptionalTags
    <2> DEFINE flagged == Flagged(out, FlagOf(tag))
    <2>1. tag \in ValueTags /\ NameOf(tag) \in MetadataNames /\ FlagOf(tag) \in MetadataNames
      BY <1>1, NamesDiffer
    <2>2. handled = Filled(flagged, NameOf(tag), field.value)
      BY <1>1 DEF HandledWell
    <2>3. /\ IsMetadataContext(flagged)
          /\ flagged.value[FlagOf(tag)] = TRUE
          /\ \A other \in MetadataNames \ {FlagOf(tag)} : flagged.value[other] = out.value[other]
          /\ flagged.received = out.received
          /\ flagged.hashed = out.hashed
          /\ flagged.signature = out.signature
      BY <2>1, FlaggedIs
    <2> HIDE DEF flagged
    <2>4. /\ IsMetadataContext(handled)
          /\ handled.value[NameOf(tag)] = field.value
          /\ \A other \in MetadataNames \ {NameOf(tag)} :
                 handled.value[other] = flagged.value[other]
          /\ handled.received = flagged.received
          /\ handled.hashed = flagged.hashed
          /\ handled.signature = flagged.signature
      BY <2>1, <2>2, <2>3, FilledIs
    <2>5. handled.value[FlagOf(tag)] = TRUE
      <3>1. FlagOf(tag) \in MetadataNames \ {NameOf(tag)}
        BY <1>1, <2>1, NamesDiffer
      <3> QED
        BY <2>3, <2>4, <3>1
    <2>6. ASSUME NEW other \in ValueTags \ {tag}
          PROVE  handled.value[NameOf(other)] = out.value[NameOf(other)]
      <3>1. NameOf(other) \in MetadataNames \ {NameOf(tag), FlagOf(tag)}
        BY <1>1, <2>1, NamesDiffer
      <3> QED
        BY <2>3, <2>4, <3>1
    <2>7. ASSUME NEW other \in OptionalTags \ {tag}
          PROVE  handled.value[FlagOf(other)] = out.value[FlagOf(other)]
      <3>1. FlagOf(other) \in MetadataNames \ {NameOf(tag), FlagOf(tag)}
        BY <1>1, <2>1, NamesDiffer
      <3> QED
        BY <2>3, <2>4, <3>1
    <2>8. tag # "SIGNATURE"
      BY <1>1 DEF OptionalTags
    <2> QED
      BY <2>3, <2>4, <2>5, <2>6, <2>7, <2>8 DEF Tells
  <1>2. CASE tag \in ValueTags \ OptionalTags
    <2>1. NameOf(tag) \in MetadataNames
      BY <1>2, NamesDiffer
    <2>2. handled = Filled(out, NameOf(tag), field.value)
      BY <1>2 DEF HandledWell
    <2>3. /\ IsMetadataContext(handled)
          /\ handled.value[NameOf(tag)] = field.value
          /\ \A other \in MetadataNames \ {NameOf(tag)} : handled.value[other] = out.value[other]
          /\ handled.received = out.received
          /\ handled.hashed = out.hashed
          /\ handled.signature = out.signature
      BY <2>1, <2>2, FilledIs
    <2>4. ASSUME NEW other \in ValueTags \ {tag}
          PROVE  handled.value[NameOf(other)] = out.value[NameOf(other)]
      <3>1. NameOf(other) \in MetadataNames \ {NameOf(tag)}
        BY <1>2, NamesDiffer
      <3> QED
        BY <2>3, <3>1
    <2>5. ASSUME NEW other \in OptionalTags \ {tag}
          PROVE  handled.value[FlagOf(other)] = out.value[FlagOf(other)]
      <3>1. FlagOf(other) \in MetadataNames \ {NameOf(tag)}
        BY <1>2, NamesDiffer
      <3> QED
        BY <2>3, <3>1
    <2>6. tag # "SIGNATURE"
      BY <1>2 DEF ValueTags, OptionalTags
    <2> QED
      BY <1>2, <2>3, <2>4, <2>5, <2>6 DEF Tells
  <1>3. CASE tag = "SIGNATURE"
    <2>1. tag \notin ValueTags /\ tag \notin OptionalTags
      BY <1>3 DEF ValueTags, OptionalTags
    <2>2. field.value # OutOfRange /\ handled = [out EXCEPT !.signature = field.value]
      BY <1>3, <2>1 DEF HandledWell
    <2>3. /\ IsMetadataContext(handled) /\ handled.value = out.value
          /\ handled.received = out.received /\ handled.hashed = out.hashed
          /\ handled.signature = field.value
      BY <2>2 DEF IsMetadataContext, ContextParts
    <2> QED
      BY <1>3, <2>1, <2>2, <2>3 DEF Tells
  <1>4. CASE tag \notin ValueTags \cup {"SIGNATURE"}
    <2>1. tag \notin OptionalTags
      BY <1>4, NamesDiffer
    <2>2. handled = out
      BY <1>4, <2>1 DEF HandledWell
    <2> QED
      BY <1>4, <2>1, <2>2 DEF Tells
  <1> QED
    BY <1>1, <1>2, <1>3, <1>4

LEMMA HandleCommonIs ==
  ASSUME NEW out, IsMetadataContext(out), NEW field
  PROVE  /\ IsMetadataContext(HandleCommon(out, field))
         /\ HandleCommon(out, field).ok = out.ok
         /\ HandleCommon(out, field).value = out.value
         /\ HandleCommon(out, field).received = out.received
         /\ HandleCommon(out, field).signature = out.signature
         /\ HandleCommon(out, field).hashed =
               IF field.tag = "SIGNATURE" THEN out.hashed ELSE Append(out.hashed, field)
  BY DEF HandleCommon, IsMetadataContext, ContextParts

(* F: the fields of the payload.  What was hashed is said by the metadata, *)
(* no tag of it can come again, and the signature is one of the payload.   *)
SaysSoFar(F, out) ==
    /\ out.hashed \in Seq(F)
    /\ TagsOf(out.hashed) \subseteq out.received
    /\ Says(out.hashed, out.value)
    /\ "SIGNATURE" \in out.received =>
           \E field \in F : /\ field.tag = "SIGNATURE" /\ field.value # OutOfRange
                            /\ out.signature = field.value

ContextInv(F, out) == IsMetadataContext(out) /\ (out.ok => SaysSoFar(F, out))

LEMMA ContextStarts == ASSUME NEW F PROVE ContextInv(F, MetadataContext)
  <1>1. IsMetadata(ZeroMetadata)
    BY DEF IsMetadata, MetadataNames, ZeroMetadata
  <1>2. IsMetadataContext(MetadataContext)
    BY <1>1 DEF MetadataContext, IsMetadataContext, ContextParts
  <1>3. TagsOf(<<>>) = {}
    BY DEF TagsOf
  <1>4. SaysSoFar(F, MetadataContext)
    BY <1>3, NothingSaid DEF SaysSoFar, MetadataContext
  <1> QED
    BY <1>2, <1>4 DEF ContextInv

LEMMA ContextKeeps ==
  ASSUME NEW F, NEW field \in F, NEW out, ContextInv(F, out)
  PROVE  ContextInv(F, MetadataStep(out, field))
  <1> DEFINE tag == field.tag
             common == HandleCommon(out, field)
             handled == MetadataTag(common, field)
             next == [handled EXCEPT !.received = @ \cup {tag}]
  <1>1. IsMetadataContext(out)
    BY DEF ContextInv
  <1>2. CASE ~Admits(out, tag, {})
    <2>1. MetadataStep(out, field) = Refuse(out)
      BY <1>2 DEF MetadataStep
    <2> QED
      BY <1>1, <2>1, RefuseIs DEF ContextInv
  <1>3. CASE Admits(out, tag, {})
    <2>1. MetadataStep(out, field) = next
      BY <1>3 DEF MetadataStep
    <2>2. out.ok /\ tag \notin out.received
      BY <1>3 DEF Admits
    <2>3. SaysSoFar(F, out)
      BY <2>2 DEF ContextInv
    <2>4. /\ IsMetadataContext(common)
          /\ common.value = out.value
          /\ common.received = out.received
          /\ common.signature = out.signature
          /\ common.hashed = IF tag = "SIGNATURE" THEN out.hashed ELSE Append(out.hashed, field)
      BY <1>1, HandleCommonIs
    <2> HIDE DEF common
    <2>5. IsMetadataContext(handled)
      BY <2>4, MetadataTagLeavesContext
    <2>6. handled.ok => HandledWell(common, field, handled)
      BY <2>4, MetadataTagTells
    <2> HIDE DEF handled
    <2>7. /\ IsMetadataContext(next)
          /\ next.ok = handled.ok /\ next.value = handled.value /\ next.hashed = handled.hashed
          /\ next.signature = handled.signature
          /\ next.received = handled.received \cup {tag}
      BY <2>5 DEF IsMetadataContext, ContextParts
    <2> HIDE DEF next
    <2>8. ASSUME next.ok PROVE SaysSoFar(F, next)
      <3>1. /\ Tells(field, common.value, handled.value)
            /\ handled.received = common.received
            /\ handled.hashed = common.hashed
            /\ IF tag = "SIGNATURE"
               THEN field.value # OutOfRange /\ handled.signature = field.value
               ELSE handled.signature = common.signature
        BY <2>4, <2>6, <2>7, <2>8, HandledTells
      <3>2. next.received = out.received \cup {tag}
        BY <2>4, <2>7, <3>1
      <3>3. "SIGNATURE" \in next.received =>
               \E other \in F : /\ other.tag = "SIGNATURE" /\ other.value # OutOfRange
                                /\ next.signature = other.value
        BY <2>3, <2>4, <2>7, <3>1, <3>2 DEF SaysSoFar
      <3>4. CASE tag = "SIGNATURE"
        <4>1. next.hashed = out.hashed
          BY <2>4, <2>7, <3>1, <3>4
        <4>2. tag \notin ValueTags /\ tag \notin OptionalTags
          BY <3>4 DEF ValueTags, OptionalTags
        <4>3. Says(out.hashed, next.value)
          <5>1. \A other \in ValueTags : next.value[NameOf(other)] = out.value[NameOf(other)]
            BY <2>4, <2>7, <3>1, <4>2 DEF Tells
          <5>2. \A other \in OptionalTags : /\ next.value[FlagOf(other)] = out.value[FlagOf(other)]
                                            /\ other \in ValueTags
            BY <2>4, <2>7, <3>1, <4>2, NamesDiffer DEF Tells
          <5>3. Says(out.hashed, out.value)
            BY <2>3 DEF SaysSoFar
          <5> QED
            BY <5>1, <5>2, <5>3 DEF Says
        <4> QED
          BY <2>3, <3>2, <3>3, <4>1, <4>3 DEF SaysSoFar
      <3>5. CASE tag # "SIGNATURE"
        <4>1. next.hashed = Append(out.hashed, field)
          BY <2>4, <2>7, <3>1, <3>5
        <4>2. out.hashed \in Seq(F) /\ tag \notin TagsOf(out.hashed)
          BY <2>2, <2>3 DEF SaysSoFar
        <4>3. Append(out.hashed, field) \in Seq(F)
          BY <4>2
        <4>4. TagsOf(Append(out.hashed, field)) = TagsOf(out.hashed) \cup {tag}
          BY <4>2, TagsOfAppend
        <4>5. Tells(field, out.value, next.value) /\ Says(out.hashed, out.value)
          BY <2>3, <2>4, <2>7, <3>1 DEF SaysSoFar
        <4>6. Says(Append(out.hashed, field), next.value)
          BY <4>2, <4>5, SaysMore
        <4>7. TagsOf(out.hashed) \subseteq out.received
          BY <2>3 DEF SaysSoFar
        <4> QED
          BY <3>2, <3>3, <4>1, <4>3, <4>4, <4>6, <4>7 DEF SaysSoFar
      <3> QED
        BY <3>4, <3>5
    <2> QED
      BY <2>1, <2>7, <2>8 DEF ContextInv
  <1> QED
    BY <1>2, <1>3

-----------------------------------------------------------------------------
(* What is accepted *)

LEMMA RunSays ==
  ASSUME NEW F, NEW fields \in Seq(F)
  PROVE  \A n \in 0..Len(fields) : ContextInv(F, MetadataRun(fields)[n])
  <1> DEFINE last == Len(fields)
             run == MetadataRun(fields)
             S == {n \in 0..last : ContextInv(F, run[n])}
  <1>1. last \in Nat /\ \A n \in 1..last : fields[n] \in F
    OBVIOUS
  <1>2. IsMetadataRun(run, fields, last)
    BY <1>1, MetadataRunIs
  <1> HIDE DEF last, run
  <1>3. 0 \in S
    <2>1. 0 \in 0..last
      BY <1>1
    <2>2. run[0] = MetadataContext
      BY <1>2, <2>1 DEF IsMetadataRun
    <2> QED
      BY <2>1, <2>2, ContextStarts
  <1>4. ASSUME NEW n \in 0..last, n \in S, n # last PROVE n + 1 \in S
    <2>1. n + 1 \in 0..last /\ n + 1 \in 1..last /\ n + 1 # 0 /\ (n + 1) - 1 = n
      BY <1>1, <1>4
    <2>2. run[n + 1] = MetadataStep(run[n], fields[n + 1])
      BY <1>2, <2>1 DEF IsMetadataRun
    <2>3. ContextInv(F, run[n]) /\ fields[n + 1] \in F
      BY <1>1, <1>4, <2>1
    <2>4. ContextInv(F, run[n + 1])
      BY <2>2, <2>3, ContextKeeps
    <2> QED
      BY <2>1, <2>4
  <1>5. \A n \in 0..last : n \in S
    <2> HIDE DEF S
    <2> QED
      BY <1>1, <1>3, <1>4, CountingUp
  <1> QED
    BY <1>5 DEF last, run

LEMMA VerifiedIs ==
  ASSUME NEW out, IsMetadataContext(out)
  PROVE  /\ VerifyActionMetadata(out).value = out.value
         /\ VerifyActionMetadata(out).ok <=>
               /\ out.ok
               /\ {"STRUCT_TYPE", "STRUCT_VERSION", "OPERATION_TYPE", "ASSET_ID", "ASSET_TICKER",
                   "NETWORK", "SIGNATURE"} \subseteq out.received
               /\ out.signature = [over |-> out.hashed]
  <1> DEFINE verified == VerifyActionMetadata(out)
             required == {"STRUCT_TYPE", "STRUCT_VERSION", "OPERATION_TYPE", "ASSET_ID",
                          "ASSET_TICKER", "NETWORK", "SIGNATURE"}
             check == out.ok /\ out.signature = [over |-> out.hashed]
  <1>1. verified = [out EXCEPT !.ok = out.ok /\ required \subseteq out.received /\ check]
    BY DEF VerifyActionMetadata, Verify
  <1> HIDE DEF required, verified
  <1>2. /\ verified.value = out.value
        /\ verified.ok <=> out.ok /\ required \subseteq out.received /\ check
    BY <1>1 DEF IsMetadataContext, ContextParts
  <1> QED
    BY <1>2 DEF verified, required

LEMMA ParsedSays ==
  ASSUME NEW F, NEW fields \in Seq(F), ParseActionMetadata(fields).ok
  PROVE  /\ IsMetadata(ParseActionMetadata(fields).value)
         /\ \E field \in F, hashed \in Seq(F) :
                /\ field.tag = "SIGNATURE" /\ field.value # OutOfRange
                /\ field.value = [over |-> hashed]
                /\ Says(hashed, ParseActionMetadata(fields).value)
  <1> DEFINE last == Len(fields)
             run == MetadataRun(fields)
             out == run[last]
  <1>1. last \in Nat /\ last \in 0..last
    OBVIOUS
  <1>2. ParseActionMetadata(fields) = VerifyActionMetadata(out)
    BY <1>1, MetadataRunIs
  <1>3. ContextInv(F, out)
    BY <1>1, RunSays
  <1> HIDE DEF out
  <1>4. IsMetadataContext(out)
    BY <1>3 DEF ContextInv
  <1>5. out.ok /\ "SIGNATURE" \in out.received /\ out.signature = [over |-> out.hashed]
    BY <1>2, <1>4, VerifiedIs
  <1>6. ParseActionMetadata(fields).value = out.value
    BY <1>2, <1>4, VerifiedIs
  <1>7. SaysSoFar(F, out)
    BY <1>3, <1>5 DEF ContextInv
  <1>8. PICK field \in F : /\ field.tag = "SIGNATURE" /\ field.value # OutOfRange
                           /\ out.signature = field.value
    BY <1>5, <1>7 DEF SaysSoFar
  <1>9. out.hashed \in Seq(F) /\ Says(out.hashed, out.value) /\ IsMetadata(out.value)
    BY <1>4, <1>7 DEF SaysSoFar, IsMetadataContext
  <1> QED
    BY <1>5, <1>6, <1>8, <1>9

-----------------------------------------------------------------------------
(* What the service signs *)

TellsAll(fields, value) ==
    \A i \in DOMAIN fields :
        fields[i].tag \in ValueTags => value[NameOf(fields[i].tag)] = fields[i].value

LEMMA TellsConcat ==
  ASSUME NEW F, NEW s \in Seq(F), NEW t \in Seq(F)
  PROVE  /\ s \o t \in Seq(F)
         /\ TagsOf(s \o t) = TagsOf(s) \cup TagsOf(t)
         /\ \A value : TellsAll(s \o t, value) => TellsAll(s, value) /\ TellsAll(t, value)
  <1> DEFINE joined == s \o t
  <1>1. /\ joined \in Seq(F) /\ DOMAIN joined = 1..(Len(s) + Len(t))
        /\ Len(s) \in Nat /\ Len(t) \in Nat /\ DOMAIN s = 1..Len(s) /\ DOMAIN t = 1..Len(t)
    OBVIOUS
  <1>2. \A i \in 1..(Len(s) + Len(t)) :
            joined[i] = IF i <= Len(s) THEN s[i] ELSE t[i - Len(s)]
    OBVIOUS
  <1> HIDE DEF joined
  <1>3. ASSUME NEW i \in DOMAIN s PROVE i \in DOMAIN joined /\ joined[i] = s[i]
    BY <1>1, <1>2
  <1>4. ASSUME NEW i \in DOMAIN t PROVE \E j \in DOMAIN joined : joined[j] = t[i]
    <2>1. Len(s) + i \in DOMAIN joined /\ ~(Len(s) + i <= Len(s)) /\ (Len(s) + i) - Len(s) = i
      BY <1>1
    <2> QED
      BY <1>1, <1>2, <2>1
  <1>5. ASSUME NEW j \in DOMAIN joined
        PROVE  (\E i \in DOMAIN s : joined[j] = s[i]) \/ (\E i \in DOMAIN t : joined[j] = t[i])
    <2>1. CASE j <= Len(s)
      BY <1>1, <1>2, <2>1
    <2>2. CASE ~(j <= Len(s))
      <3>1. j - Len(s) \in DOMAIN t
        BY <1>1, <2>2
      <3> QED
        BY <1>1, <1>2, <2>2, <3>1
    <2> QED
      BY <2>1, <2>2
  <1>6. TagsOf(joined) = TagsOf(s) \cup TagsOf(t)
    BY <1>3, <1>4, <1>5 DEF TagsOf
  <1>7. ASSUME NEW value, TellsAll(joined, value)
        PROVE  TellsAll(s, value) /\ TellsAll(t, value)
    BY <1>3, <1>4, <1>7 DEF TellsAll
  <1> QED
    BY <1>1, <1>6, <1>7 DEF joined

IsOptionalField(F, tag, sent, encoded, fields) ==
    /\ fields \in Seq(F)
    /\ TagsOf(fields) = IF sent THEN {tag} ELSE {}
    /\ \A value : sent /\ TellsAll(fields, value) => value[NameOf(tag)] = encoded

LEMMA OptionalFieldIs ==
  ASSUME NEW F, NEW tag \in ValueTags, NEW sent \in BOOLEAN, NEW encoded,
         Host!Field(tag, encoded) \in F
  PROVE  IsOptionalField(F, tag, sent, encoded, Host!OptionalField(tag, sent, encoded))
  <1> DEFINE field == Host!Field(tag, encoded)
             fields == Host!OptionalField(tag, sent, encoded)
  <1>1. field.tag = tag /\ field.value = encoded
    BY DEF Host!Field
  <1>2. field \in F
    OBVIOUS
  <1>3. CASE sent
    <2>1. fields = <<field>>
      BY <1>3 DEF Host!OptionalField
    <2> HIDE DEF field, fields
    <2>2. fields \in Seq(F) /\ DOMAIN fields = {1} /\ fields[1] = field
      BY <1>2, <2>1
    <2>3. TagsOf(fields) = {tag}
      BY <1>1, <2>2 DEF TagsOf
    <2>4. ASSUME NEW value, TellsAll(fields, value) PROVE value[NameOf(tag)] = encoded
      BY <1>1, <2>2, <2>4 DEF TellsAll
    <2> QED
      BY <1>3, <2>2, <2>3, <2>4 DEF IsOptionalField, fields
  <1>4. CASE ~sent
    <2>1. fields = <<>>
      BY <1>4 DEF Host!OptionalField
    <2> HIDE DEF field, fields
    <2>2. fields \in Seq(F) /\ DOMAIN fields = {}
      BY <2>1
    <2> QED
      BY <1>4, <2>2 DEF IsOptionalField, TagsOf, fields
  <1> QED
    BY <1>3, <1>4

SignedFields(metadata) ==
    {Host!Field("STRUCT_TYPE", "METADATA"), Host!Field("STRUCT_VERSION", 1),
     Host!Field("OPERATION_TYPE", metadata.op_type), Host!Field("ASSET_ID", metadata.asset_id),
     Host!Field("ASSET_TICKER", metadata.ticker), Host!Field("NETWORK", metadata.network),
     Host!Field("BUILDER_ADDR", metadata.builder_addr), Host!Field("MARGIN", metadata.margin),
     Host!Field("LEVERAGE", metadata.leverage)}

LEMMA MetadataFieldsAre ==
  ASSUME NEW metadata \in Issued
  PROVE  Host!MetadataFields(metadata) \in Seq(SignedFields(metadata))
  <1> DEFINE mandatory ==
               <<Host!Field("STRUCT_TYPE", "METADATA"), Host!Field("STRUCT_VERSION", 1),
                 Host!Field("OPERATION_TYPE", metadata.op_type),
                 Host!Field("ASSET_ID", metadata.asset_id),
                 Host!Field("ASSET_TICKER", metadata.ticker),
                 Host!Field("NETWORK", metadata.network)>>
             F == SignedFields(metadata)
             s1 == Host!OptionalField("BUILDER_ADDR", metadata.has_builder_addr,
                                      metadata.builder_addr)
             s2 == Host!OptionalField("MARGIN", metadata.has_margin, metadata.margin)
             s3 == Host!OptionalField("LEVERAGE", metadata.has_leverage, metadata.leverage)
  <1>1. Host!MetadataFields(metadata) = ((mandatory \o s1) \o s2) \o s3
    BY DEF Host!MetadataFields
  <1>2. mandatory \in Seq(F)
    BY DEF SignedFields
  <1>3. /\ Host!Field("BUILDER_ADDR", metadata.builder_addr) \in F
        /\ Host!Field("MARGIN", metadata.margin) \in F
        /\ Host!Field("LEVERAGE", metadata.leverage) \in F
    BY DEF SignedFields
  <1> HIDE DEF mandatory, F
  <1>4. s1 \in Seq(F) /\ s2 \in Seq(F) /\ s3 \in Seq(F)
    BY <1>3 DEF Host!OptionalField
  <1> HIDE DEF s1, s2, s3
  <1>5. ((mandatory \o s1) \o s2) \o s3 \in Seq(F)
    BY <1>2, <1>4
  <1> QED
    BY <1>1, <1>5 DEF F

(* A metadata is told, member by member, by the fields that are signed. *)
LEMMA SignedSays ==
  ASSUME NEW metadata \in Issued, NEW value, IsMetadata(value),
         Says(Host!MetadataFields(metadata), value)
  PROVE  value = metadata
  <1> DEFINE mandatory ==
               <<Host!Field("STRUCT_TYPE", "METADATA"), Host!Field("STRUCT_VERSION", 1),
                 Host!Field("OPERATION_TYPE", metadata.op_type),
                 Host!Field("ASSET_ID", metadata.asset_id),
                 Host!Field("ASSET_TICKER", metadata.ticker),
                 Host!Field("NETWORK", metadata.network)>>
             builder == Host!Field("BUILDER_ADDR", metadata.builder_addr)
             margin == Host!Field("MARGIN", metadata.margin)
             leverage == Host!Field("LEVERAGE", metadata.leverage)
             F == {mandatory[i] : i \in 1..6} \cup {builder, margin, leverage}
             s1 == Host!OptionalField("BUILDER_ADDR", metadata.has_builder_addr,
                                      metadata.builder_addr)
             s2 == Host!OptionalField("MARGIN", metadata.has_margin, metadata.margin)
             s3 == Host!OptionalField("LEVERAGE", metadata.has_leverage, metadata.leverage)
             fields == Host!MetadataFields(metadata)
  <1>1. fields = ((mandatory \o s1) \o s2) \o s3
    BY DEF Host!MetadataFields
  <1>2. /\ mandatory[3] = Host!Field("OPERATION_TYPE", metadata.op_type)
        /\ mandatory[4] = Host!Field("ASSET_ID", metadata.asset_id)
        /\ mandatory[5] = Host!Field("ASSET_TICKER", metadata.ticker)
        /\ mandatory[6] = Host!Field("NETWORK", metadata.network)
        /\ DOMAIN mandatory = 1..6
    OBVIOUS
  <1>3. mandatory \in Seq(F)
    OBVIOUS
  <1>4. \A i \in 1..6 : mandatory[i].tag \notin OptionalTags
    BY DEF Host!Field, OptionalTags
  <1> HIDE DEF mandatory
  <1>5. /\ metadata = [name \in DOMAIN ZeroMetadata |-> metadata[name]]
        /\ metadata.has_builder_addr \in BOOLEAN /\ metadata.has_margin \in BOOLEAN
        /\ metadata.has_leverage \in BOOLEAN
        /\ ~metadata.has_builder_addr => metadata.builder_addr = ZeroMetadata.builder_addr
        /\ ~metadata.has_margin => metadata.margin = ZeroMetadata.margin
        /\ ~metadata.has_leverage => metadata.leverage = ZeroMetadata.leverage
    BY IssuedAssumption
  <1>6. "BUILDER_ADDR" \in ValueTags /\ "MARGIN" \in ValueTags /\ "LEVERAGE" \in ValueTags
    BY DEF ValueTags, OptionalTags
  <1>7. /\ Host!Field("BUILDER_ADDR", metadata.builder_addr) \in F
        /\ Host!Field("MARGIN", metadata.margin) \in F
        /\ Host!Field("LEVERAGE", metadata.leverage) \in F
    OBVIOUS
  <1> HIDE DEF F, s1, s2, s3, fields, builder, margin, leverage
  <1>8. /\ s1 \in Seq(F)
        /\ TagsOf(s1) = IF metadata.has_builder_addr THEN {"BUILDER_ADDR"} ELSE {}
        /\ metadata.has_builder_addr /\ TellsAll(s1, value)
              => value[NameOf("BUILDER_ADDR")] = metadata.builder_addr
    <2>1. IsOptionalField(F, "BUILDER_ADDR", metadata.has_builder_addr, metadata.builder_addr, s1)
      BY <1>5, <1>6, <1>7, OptionalFieldIs DEF s1
    <2> QED
      BY <2>1 DEF IsOptionalField
  <1>9. /\ s2 \in Seq(F)
        /\ TagsOf(s2) = IF metadata.has_margin THEN {"MARGIN"} ELSE {}
        /\ metadata.has_margin /\ TellsAll(s2, value)
              => value[NameOf("MARGIN")] = metadata.margin
    <2>1. IsOptionalField(F, "MARGIN", metadata.has_margin, metadata.margin, s2)
      BY <1>5, <1>6, <1>7, OptionalFieldIs DEF s2
    <2> QED
      BY <2>1 DEF IsOptionalField
  <1>10. /\ s3 \in Seq(F)
         /\ TagsOf(s3) = IF metadata.has_leverage THEN {"LEVERAGE"} ELSE {}
         /\ metadata.has_leverage /\ TellsAll(s3, value)
               => value[NameOf("LEVERAGE")] = metadata.leverage
    <2>1. IsOptionalField(F, "LEVERAGE", metadata.has_leverage, metadata.leverage, s3)
      BY <1>5, <1>6, <1>7, OptionalFieldIs DEF s3
    <2> QED
      BY <2>1 DEF IsOptionalField
  <1>11. TagsOf(fields) = ((TagsOf(mandatory) \cup TagsOf(s1)) \cup TagsOf(s2)) \cup TagsOf(s3)
    <2> DEFINE t1 == mandatory \o s1
               t2 == t1 \o s2
               t3 == t2 \o s3
    <2>1. t1 \in Seq(F) /\ TagsOf(t1) = TagsOf(mandatory) \cup TagsOf(s1)
      BY <1>3, <1>8, TellsConcat
    <2> HIDE DEF t1
    <2>2. t2 \in Seq(F) /\ TagsOf(t2) = TagsOf(t1) \cup TagsOf(s2)
      BY <1>9, <2>1, TellsConcat
    <2> HIDE DEF t2
    <2>3. TagsOf(t3) = TagsOf(t2) \cup TagsOf(s3)
      BY <1>10, <2>2, TellsConcat
    <2>4. fields = t3
      BY <1>1 DEF t1, t2
    <2> QED
      BY <2>1, <2>2, <2>3, <2>4
  <1>12. TellsAll(mandatory, value) /\ TellsAll(s1, value) /\ TellsAll(s2, value) /\ TellsAll(s3, value)
    <2> DEFINE t1 == mandatory \o s1
               t2 == t1 \o s2
               t3 == t2 \o s3
    <2>1. TellsAll(fields, value)
      BY DEF Says, TellsAll, fields
    <2>2. fields = t3
      BY <1>1
    <2>3. t1 \in Seq(F) /\ (TellsAll(t1, value) => TellsAll(mandatory, value) /\ TellsAll(s1, value))
      BY <1>3, <1>8, TellsConcat
    <2> HIDE DEF t1
    <2>4. t2 \in Seq(F) /\ (TellsAll(t2, value) => TellsAll(t1, value) /\ TellsAll(s2, value))
      BY <1>9, <2>3, TellsConcat
    <2> HIDE DEF t2
    <2>5. TellsAll(t3, value) => TellsAll(t2, value) /\ TellsAll(s3, value)
      BY <1>10, <2>4, TellsConcat
    <2> QED
      BY <2>1, <2>2, <2>3, <2>4, <2>5
  <1>13. /\ value["op_type"] = metadata.op_type /\ value["asset_id"] = metadata.asset_id
         /\ value["ticker"] = metadata.ticker /\ value["network"] = metadata.network
    <2>1. ASSUME NEW i \in 1..6, NEW tag \in ValueTags, NEW encoded,
                 mandatory[i] = Host!Field(tag, encoded)
          PROVE  value[NameOf(tag)] = encoded
      <3>1. mandatory[i].tag = tag /\ mandatory[i].value = encoded
        BY <2>1 DEF Host!Field
      <3> QED
        BY <1>2, <1>12, <3>1 DEF TellsAll
    <2>2. /\ "OPERATION_TYPE" \in ValueTags /\ "ASSET_ID" \in ValueTags
          /\ "ASSET_TICKER" \in ValueTags /\ "NETWORK" \in ValueTags
      BY DEF ValueTags
    <2>3. /\ value[NameOf("OPERATION_TYPE")] = metadata.op_type
          /\ value[NameOf("ASSET_ID")] = metadata.asset_id
          /\ value[NameOf("ASSET_TICKER")] = metadata.ticker
          /\ value[NameOf("NETWORK")] = metadata.network
      <3>1. 3 \in 1..6 /\ 4 \in 1..6 /\ 5 \in 1..6 /\ 6 \in 1..6
        OBVIOUS
      <3> QED
        BY <1>2, <2>1, <2>2, <3>1
    <2>4. /\ NameOf("OPERATION_TYPE") = "op_type" /\ NameOf("ASSET_ID") = "asset_id"
          /\ NameOf("ASSET_TICKER") = "ticker" /\ NameOf("NETWORK") = "network"
      BY DEF NameOf
    <2> QED
      BY <2>3, <2>4
  <1>14. \A tag \in OptionalTags :
            IF tag \in TagsOf(s1) \cup TagsOf(s2) \cup TagsOf(s3) THEN value[FlagOf(tag)] = TRUE
            ELSE value[FlagOf(tag)] = FALSE /\ value[NameOf(tag)] = ZeroMetadata[NameOf(tag)]
    <2>1. \A tag \in OptionalTags : tag \notin TagsOf(mandatory)
      BY <1>2, <1>4 DEF TagsOf
    <2> QED
      BY <1>11, <2>1 DEF Says, fields
  <1>15. \A tag \in OptionalTags :
            /\ tag \in TagsOf(s1) \cup TagsOf(s2) \cup TagsOf(s3)
                  <=> \/ tag = "BUILDER_ADDR" /\ metadata.has_builder_addr
                      \/ tag = "MARGIN" /\ metadata.has_margin
                      \/ tag = "LEVERAGE" /\ metadata.has_leverage
    BY <1>8, <1>9, <1>10
  <1>16. /\ value["has_builder_addr"] = metadata.has_builder_addr
         /\ value["builder_addr"] = metadata.builder_addr
    BY <1>5, <1>8, <1>12, <1>14, <1>15 DEF OptionalTags, FlagOf, NameOf
  <1>17. value["has_margin"] = metadata.has_margin /\ value["margin"] = metadata.margin
    BY <1>5, <1>9, <1>12, <1>14, <1>15 DEF OptionalTags, FlagOf, NameOf
  <1>18. value["has_leverage"] = metadata.has_leverage /\ value["leverage"] = metadata.leverage
    BY <1>5, <1>10, <1>12, <1>14, <1>15 DEF OptionalTags, FlagOf, NameOf
  <1>19. \A name \in MetadataNames : value[name] = metadata[name]
    BY <1>13, <1>16, <1>17, <1>18 DEF MetadataNames
  <1>20. DOMAIN ZeroMetadata = MetadataNames
    BY DEF ZeroMetadata, MetadataNames
  <1> QED
    BY <1>5, <1>19, <1>20 DEF IsMetadata

(* What the device takes for metadata is one the service issued, if every  *)
(* signature in the payload is (action_metadata.c:154-192).                *)
LEMMA AcceptedIsIssued ==
  ASSUME NEW F, NEW fields \in Seq(F),
         \A field \in F :
             field.tag = "SIGNATURE" => field.value \in IssuedSignatures \cup {OutOfRange},
         ParseActionMetadata(fields).ok
  PROVE  ParseActionMetadata(fields).value \in Issued
  <1> DEFINE value == ParseActionMetadata(fields).value
  <1>1. PICK field \in F, hashed \in Seq(F) :
            /\ field.tag = "SIGNATURE" /\ field.value # OutOfRange
            /\ field.value = [over |-> hashed]
            /\ Says(hashed, value)
    BY ParsedSays
  <1>2. IsMetadata(value)
    BY ParsedSays
  <1> HIDE DEF value
  <1>3. field.value \in IssuedSignatures
    BY <1>1
  <1>4. PICK metadata \in Issued : field.value = Host!SignatureOf(Host!MetadataFields(metadata))
    BY <1>3 DEF IssuedSignatures
  <1>5. field.value.over = hashed
    BY <1>1
  <1>6. field.value.over = Host!MetadataFields(metadata)
    BY <1>4 DEF Host!SignatureOf
  <1>7. Says(Host!MetadataFields(metadata), value)
    BY <1>1, <1>5, <1>6
  <1>8. value = metadata
    BY <1>2, <1>7, SignedSays
  <1> QED
    BY <1>8 DEF value

-----------------------------------------------------------------------------
(* The payloads of PROVIDE_ACTION_METADATA *)

(* No edit makes a nested field or a signature of a field that is not one, *)
(* and no signature is other than one of those the service made.           *)
IsFlat(field) ==
    /\ field = [part \in {"tag", "value"} |-> field[part]]
    /\ field.tag \notin NestedTags
    /\ field.tag = "SIGNATURE" => field.value \in IssuedSignatures \cup {OutOfRange}

Elements(list) == {list[i] : i \in DOMAIN list}

IsFlatList(list) == list \in Seq(Elements(list)) /\ \A field \in Elements(list) : IsFlat(field)

FlatInv == command = "PROVIDE_ACTION_METADATA" => meant \in Issued /\ IsFlatList(payload)

LEMMA FlatLists ==
  ASSUME NEW G, \A field \in G : IsFlat(field), NEW list \in Seq(G)
  PROVE  IsFlatList(list)
  <1>1. /\ Len(list) \in Nat /\ DOMAIN list = 1..Len(list)
        /\ list = [i \in 1..Len(list) |-> list[i]]
        /\ \A i \in DOMAIN list : list[i] \in G
    OBVIOUS
  <1>2. \A i \in DOMAIN list : list[i] \in Elements(list)
    BY DEF Elements
  <1>3. list \in Seq(Elements(list))
    BY <1>1, <1>2
  <1>4. Elements(list) \subseteq G
    BY <1>1 DEF Elements
  <1> QED
    BY <1>3, <1>4 DEF IsFlatList

LEMMA FlatPaths ==
  ASSUME NEW list, IsFlatList(list)
  PROVE  /\ Paths(list) = {<<>>}
         /\ ListAt(list, <<>>) = list
         /\ \A new : WithListAt(list, <<>>, new) = new
  <1>1. Len(<<>>) = 0 /\ 0..0 = {0}
    OBVIOUS
  <1>2. ListAt(list, <<>>) = list
    <2> DEFINE IsRun(run) ==
                   run = [n \in 0..Len(<<>>) |->
                             IF n = 0 THEN list ELSE run[n - 1][(<<>>)[n]].value]
               run == CHOOSE run : IsRun(run)
    <2>1. IsRun([n \in {0} |-> list])
      BY <1>1
    <2>2. IsRun(run)
      BY <2>1
    <2>3. ListAt(list, <<>>) = run[Len(<<>>)]
      BY DEF ListAt
    <2>4. run[0] = list
      <3> HIDE DEF run
      <3> QED
        BY <1>1, <2>2
    <2> HIDE DEF run
    <2> QED
      BY <1>1, <2>3, <2>4
  <1>3. ASSUME NEW new PROVE WithListAt(list, <<>>, new) = new
    <2> DEFINE IsRun(run) ==
                   run = [n \in 0..Len(<<>>) |->
                             IF n = Len(<<>>) THEN new
                             ELSE [ListAt(list, SubSeq(<<>>, 1, n))
                                      EXCEPT ![(<<>>)[n + 1]].value = run[n + 1]]]
               run == CHOOSE run : IsRun(run)
    <2>1. IsRun([n \in {0} |-> new])
      BY <1>1
    <2>2. IsRun(run)
      BY <2>1
    <2>3. WithListAt(list, <<>>, new) = run[0]
      BY DEF WithListAt
    <2>4. run[0] = new
      <3> HIDE DEF run
      <3> QED
        BY <1>1, <2>2
    <2> QED
      BY <2>3, <2>4
  <1>4. Below(list, {<<>>}) = {}
    <2>1. \A i \in DOMAIN list : list[i].tag \notin NestedTags
      BY DEF IsFlatList, IsFlat, Elements
    <2> QED
      BY <1>2, <2>1 DEF Below
  <1>5. Below(list, {}) = {}
    BY DEF Below
  <1> QED
    BY <1>2, <1>3, <1>4, <1>5 DEF Paths

LEMMA PartsOfFlat ==
  ASSUME NEW list, IsFlatList(list), NEW i \in DOMAIN list
  PROVE  /\ i \in 1..Len(list) /\ Len(list) \in Nat
         /\ list[i] \in Elements(list) /\ IsFlat(list[i])
         /\ RemoveAt(list, i) \in Seq(Elements(list))
         /\ SubSeq(list, 1, i - 1) \in Seq(Elements(list))
         /\ SubSeq(list, i, Len(list)) \in Seq(Elements(list))
  <1> DEFINE G == Elements(list)
  <1>1. list \in Seq(G) /\ \A field \in G : IsFlat(field)
    BY DEF IsFlatList
  <1>2. list[i] \in G
    BY DEF Elements
  <1> HIDE DEF G
  <1>3. i \in 1..Len(list) /\ Len(list) \in Nat
    BY <1>1
  <1>4. /\ SubSeq(list, 1, i - 1) \in Seq(G) /\ SubSeq(list, i, Len(list)) \in Seq(G)
        /\ SubSeq(list, i + 1, Len(list)) \in Seq(G)
    BY <1>1, <1>3
  <1>5. RemoveAt(list, i) \in Seq(G)
    <2> DEFINE s == SubSeq(list, 1, i - 1)
               t == SubSeq(list, i + 1, Len(list))
    <2>1. s \in Seq(G) /\ t \in Seq(G) /\ RemoveAt(list, i) = s \o t
      BY <1>4 DEF RemoveAt
    <2> HIDE DEF s, t
    <2> QED
      BY <2>1
  <1> QED
    BY <1>1, <1>2, <1>3, <1>4, <1>5 DEF G

(* Fields moved, lost and repeated are fields of the list. *)
LEMMA FlatRearranged ==
  ASSUME NEW list, IsFlatList(list),
         NEW new \in Moves(list) \cup Losses(list) \cup Repetitions(list)
  PROVE  IsFlatList(new)
  <1> DEFINE G == Elements(list)
  <1>1. \A field \in G : IsFlat(field)
    BY DEF IsFlatList
  <1> HIDE DEF G
  <1>2. ASSUME new \in Moves(list) PROVE new \in Seq(G)
    <2>1. PICK i \in DOMAIN list : \/ new = <<list[i]>> \o RemoveAt(list, i)
                                  \/ new = Append(RemoveAt(list, i), list[i])
      BY <1>2 DEF Moves
    <2> DEFINE rest == RemoveAt(list, i)
    <2>2. rest \in Seq(G) /\ list[i] \in G
      BY PartsOfFlat DEF G
    <2> HIDE DEF rest
    <2>3. <<list[i]>> \o rest \in Seq(G) /\ Append(rest, list[i]) \in Seq(G)
      BY <2>2
    <2> QED
      BY <2>1, <2>3 DEF rest
  <1>3. ASSUME new \in Losses(list) PROVE new \in Seq(G)
    BY <1>3, PartsOfFlat DEF Losses, G
  <1>4. ASSUME new \in Repetitions(list) PROVE new \in Seq(G)
    <2>1. PICK i \in DOMAIN list : new = InsertAt(list, i, list[i])
      BY <1>4 DEF Repetitions
    <2> DEFINE s == SubSeq(list, 1, i - 1)
               t == SubSeq(list, i, Len(list))
    <2>2. s \in Seq(G) /\ t \in Seq(G) /\ list[i] \in G
      BY PartsOfFlat DEF G
    <2>3. new = (s \o <<list[i]>>) \o t
      BY <2>1 DEF InsertAt
    <2> HIDE DEF s, t
    <2> QED
      BY <2>2, <2>3
  <1>5. new \in Seq(G)
    BY <1>2, <1>3, <1>4
  <1> QED
    BY <1>1, <1>5, FlatLists

(* One field changed for another that is flat *)
LEMMA FlatChanged ==
  ASSUME NEW list, IsFlatList(list), NEW i \in DOMAIN list, NEW field, IsFlat(field)
  PROVE  IsFlatList(ReplaceAt(list, i, field))
  <1> DEFINE G == Elements(list) \cup {field}
  <1>1. list \in Seq(G) /\ \A other \in G : IsFlat(other)
    BY DEF IsFlatList
  <1>2. field \in G
    OBVIOUS
  <1> HIDE DEF G
  <1>3. ReplaceAt(list, i, field) \in Seq(G)
    BY <1>1, <1>2 DEF ReplaceAt
  <1> QED
    BY <1>1, <1>3, FlatLists

LEMMA FlatReplaced ==
  ASSUME NEW list, IsFlatList(list), NEW new \in Replacements(list, OtherValues)
  PROVE  IsFlatList(new)
  <1>1. PICK i \in DOMAIN list : \E value \in OtherValues(list[i].tag) :
            new = [list EXCEPT ![i].value = value]
    BY DEF Replacements
  <1>2. PICK value \in OtherValues(list[i].tag) : new = [list EXCEPT ![i].value = value]
    BY <1>1
  <1> DEFINE field == [list[i] EXCEPT !.value = value]
  <1>3. IsFlat(list[i])
    BY PartsOfFlat
  <1>4. list[i].tag = "SIGNATURE" => value \in IssuedSignatures \cup {OutOfRange}
    BY <1>2 DEF OtherValues
  <1>5. IsFlat(field)
    BY <1>3, <1>4 DEF IsFlat
  <1>6. new = ReplaceAt(list, i, field)
    BY <1>2 DEF ReplaceAt
  <1> HIDE DEF field
  <1>7. IsFlatList(ReplaceAt(list, i, field))
    BY <1>1, <1>5, FlatChanged
  <1> QED
    BY <1>6, <1>7

LEMMA FlatRetagged ==
  ASSUME NEW list, IsFlatList(list), NEW new \in Retaggings(list, OtherTags)
  PROVE  IsFlatList(new)
  <1>1. PICK i \in DOMAIN list : \E tag \in OtherTags(list[i].tag) :
            new = [list EXCEPT ![i].tag = tag]
    BY DEF Retaggings
  <1>2. PICK tag \in OtherTags(list[i].tag) : new = [list EXCEPT ![i].tag = tag]
    BY <1>1
  <1> DEFINE field == [list[i] EXCEPT !.tag = tag]
  <1>3. IsFlat(list[i])
    BY PartsOfFlat
  <1>4. PICK tags \in LikeEncoded : list[i].tag \in tags /\ tag \in tags
    BY <1>2 DEF OtherTags
  <1>5. tags # NestedTags
    BY <1>3, <1>4 DEF IsFlat
  <1>6. tag \notin NestedTags /\ tag # "SIGNATURE"
    BY <1>4, <1>5 DEF LikeEncoded, NestedTags
  <1>7. IsFlat(field)
    BY <1>3, <1>6 DEF IsFlat
  <1>8. new = ReplaceAt(list, i, field)
    BY <1>2 DEF ReplaceAt
  <1> HIDE DEF field
  <1>9. IsFlatList(ReplaceAt(list, i, field))
    BY <1>1, <1>7, FlatChanged
  <1> QED
    BY <1>8, <1>9

LEMMA EncodedIsFlat ==
  ASSUME NEW metadata \in Issued
  PROVE  IsFlatList(Host!EncodeMetadata(metadata))
  <1> DEFINE fields == Host!MetadataFields(metadata)
             signature == Host!Field("SIGNATURE", Host!SignatureOf(fields))
             G == SignedFields(metadata) \cup {signature}
  <1>1. ASSUME NEW field \in SignedFields(metadata) PROVE IsFlat(field)
    <2>1. field = [part \in {"tag", "value"} |-> field[part]]
      BY <1>1 DEF SignedFields, Host!Field
    <2>2. field.tag \in ValueTags \cup {"STRUCT_TYPE", "STRUCT_VERSION"}
      BY <1>1 DEF SignedFields, Host!Field, ValueTags, OptionalTags
    <2>3. field.tag \notin NestedTags /\ field.tag # "SIGNATURE"
      BY <2>2 DEF ValueTags, OptionalTags, NestedTags
    <2> QED
      BY <2>1, <2>3 DEF IsFlat
  <1>2. IsFlat(signature)
    <2>1. Host!SignatureOf(fields) \in IssuedSignatures
      BY DEF IssuedSignatures
    <2> HIDE DEF fields
    <2>2. signature.tag = "SIGNATURE" /\ signature.value = Host!SignatureOf(fields)
      BY DEF Host!Field
    <2>3. signature = [part \in {"tag", "value"} |-> signature[part]]
      BY DEF Host!Field
    <2>4. "SIGNATURE" \notin NestedTags
      BY DEF NestedTags
    <2> HIDE DEF signature
    <2> QED
      BY <2>1, <2>2, <2>3, <2>4 DEF IsFlat
  <1>3. fields \in Seq(SignedFields(metadata))
    BY MetadataFieldsAre
  <1>4. Host!EncodeMetadata(metadata) = Append(fields, signature)
    BY DEF Host!EncodeMetadata, Host!Signed
  <1> HIDE DEF fields, signature
  <1>5. Append(fields, signature) \in Seq(G)
    <2>1. fields \in Seq(G) /\ signature \in G
      BY <1>3
    <2> HIDE DEF G
    <2> QED
      BY <2>1
  <1>6. \A field \in G : IsFlat(field)
    BY <1>1, <1>2
  <1> HIDE DEF G
  <1> QED
    BY <1>4, <1>5, <1>6, FlatLists

-----------------------------------------------------------------------------
(* The theorem *)

LEMMA InitFlat == Init => FlatInv
  <1> SUFFICES ASSUME Init, command = "PROVIDE_ACTION_METADATA"
               PROVE  meant \in Issued /\ IsFlatList(payload)
    BY DEF FlatInv
  <1>1. SendMetadata
    BY DEF Init, SendAction, SendMetadata
  <1> QED
    BY <1>1, EncodedIsFlat DEF SendMetadata

LEMMA NextFlat == FlatInv /\ [Next]_vars => FlatInv'
  <1> SUFFICES ASSUME FlatInv, [Next]_vars, command' = "PROVIDE_ACTION_METADATA"
               PROVE  meant' \in Issued /\ IsFlatList(payload')
    BY DEF FlatInv, IsFlatList, IsFlat, Elements
  <1>1. CASE UNCHANGED vars
    BY <1>1 DEF FlatInv, vars
  <1>2. ASSUME Next PROVE IsFlatList(payload) /\ meant' \in Issued
    BY <1>2 DEF FlatInv, Next, MoveField, DropField, RepeatField, ReplaceField, RetagField, Edit
  <1>3. ASSUME Next PROVE /\ Paths(payload) = {<<>>} /\ ListAt(payload, <<>>) = payload
                          /\ \A new : WithListAt(payload, <<>>, new) = new
    BY <1>2, <1>3, FlatPaths
  <1>4. CASE MoveField
    <2>1. payload' \in Moves(payload)
      BY <1>3, <1>4 DEF MoveField, Edit, Next
    <2> QED
      BY <1>2, <1>4, <2>1, FlatRearranged DEF Next
  <1>5. CASE DropField
    <2>1. payload' \in Losses(payload)
      BY <1>3, <1>5 DEF DropField, Edit, Next
    <2> QED
      BY <1>2, <1>5, <2>1, FlatRearranged DEF Next
  <1>6. CASE RepeatField
    <2>1. payload' \in Repetitions(payload)
      BY <1>3, <1>6 DEF RepeatField, Edit, Next
    <2> QED
      BY <1>2, <1>6, <2>1, FlatRearranged DEF Next
  <1>7. CASE ReplaceField
    <2>1. payload' \in Replacements(payload, OtherValues)
      BY <1>3, <1>7 DEF ReplaceField, Edit, Next
    <2> QED
      BY <1>2, <1>7, <2>1, FlatReplaced DEF Next
  <1>8. CASE RetagField
    <2>1. payload' \in Retaggings(payload, OtherTags)
      BY <1>3, <1>8 DEF RetagField, Edit, Next
    <2> QED
      BY <1>2, <1>8, <2>1, FlatRetagged DEF Next
  <1> QED
    BY <1>1, <1>4, <1>5, <1>6, <1>7, <1>8 DEF Next

LEMMA FlatIssued == FlatInv => OnlyIssuedMetadata
  <1> SUFFICES ASSUME FlatInv, command = "PROVIDE_ACTION_METADATA",
                      ParseActionMetadata(payload).ok
               PROVE  ParseActionMetadata(payload).value \in Issued
    BY DEF OnlyIssuedMetadata
  <1> DEFINE F == Elements(payload)
  <1>1. payload \in Seq(F) /\ \A field \in F : IsFlat(field)
    BY DEF FlatInv, IsFlatList
  <1> HIDE DEF F
  <1>2. \A field \in F :
            field.tag = "SIGNATURE" => field.value \in IssuedSignatures \cup {OutOfRange}
    BY <1>1 DEF IsFlat
  <1> QED
    BY <1>1, <1>2, AcceptedIsIssued

(* What the device takes for metadata is one the service issued, whatever  *)
(* the service issues and however many fields are moved, lost, repeated,   *)
(* replaced or sent under another tag (action_metadata.c:150-198).         *)
THEOREM MetadataIsIssued == Spec => []OnlyIssuedMetadata
  <1>1. Init => FlatInv
    BY InitFlat
  <1>2. FlatInv /\ [Next]_vars => FlatInv'
    BY NextFlat
  <1>3. FlatInv => OnlyIssuedMetadata
    BY FlatIssued
  <1> QED
    BY <1>1, <1>2, <1>3, PTL DEF Spec

-----------------------------------------------------------------------------
(* The fields of some tags, read off one by one *)

IsKept(kept, fields, tags, last) ==
    kept = [n \in 0..last |->
               IF n = 0 THEN <<>>
               ELSE IF fields[n].tag \in tags THEN Append(kept[n - 1], fields[n])
               ELSE kept[n - 1]]

Kept(fields, tags) == CHOOSE kept : IsKept(kept, fields, tags, Len(fields))

LEMMA KeptIs ==
  ASSUME NEW fields, Len(fields) \in Nat, NEW tags
  PROVE  /\ IsKept(Kept(fields, tags), fields, tags, Len(fields))
         /\ OnlyTags(fields, tags) = Kept(fields, tags)[Len(fields)]
  <1> DEFINE last == Len(fields)
             S == {m \in 0..last : \E kept : IsKept(kept, fields, tags, m)}
             With1(list, field) == IF field.tag \in tags THEN Append(list, field) ELSE list
  <1>1. 0 \in S
    <2>1. IsKept([n \in 0..0 |-> <<>>], fields, tags, 0)
      BY DEF IsKept
    <2> QED
      BY <2>1
  <1>2. ASSUME NEW m \in 0..last, m \in S, m # last PROVE m + 1 \in S
    <2>1. PICK g : IsKept(g, fields, tags, m)
      BY <1>2
    <2> DEFINE h == [n \in 0..(m + 1) |-> IF n <= m THEN g[n] ELSE With1(g[m], fields[m + 1])]
    <2>2. ASSUME NEW n \in 0..(m + 1)
          PROVE  h[n] = IF n = 0 THEN <<>> ELSE With1(h[n - 1], fields[n])
      <3> HIDE DEF With1
      <3>1. CASE n = 0
        <4>1. 0 \in 0..m
          BY <1>2
        <4>2. h[0] = g[0] /\ g[0] = <<>>
          BY <2>1, <4>1 DEF IsKept
        <4> QED
          BY <3>1, <4>2
      <3>2. CASE n \in 1..m
        <4>1. n \in 0..m /\ n - 1 \in 0..m /\ n - 1 \in 0..(m + 1) /\ n # 0
          BY <1>2, <3>2
        <4>2. h[n] = g[n] /\ h[n - 1] = g[n - 1]
          BY <4>1
        <4>3. g[n] = With1(g[n - 1], fields[n])
          BY <2>1, <4>1 DEF IsKept, With1
        <4> QED
          BY <4>1, <4>2, <4>3
      <3>3. CASE n = m + 1
        <4>1. n # 0 /\ ~(n <= m) /\ n - 1 = m /\ m \in 0..(m + 1) /\ m <= m
          BY <1>2, <3>3
        <4>2. h[n] = With1(g[m], fields[m + 1]) /\ h[m] = g[m]
          BY <4>1
        <4> QED
          BY <3>3, <4>1, <4>2
      <3> QED
        BY <1>2, <3>1, <3>2, <3>3
    <2>3. IsKept(h, fields, tags, m + 1)
      BY <2>2 DEF IsKept
    <2>4. m + 1 \in 0..last
      BY <1>2
    <2> HIDE DEF h
    <2> QED
      BY <2>3, <2>4
  <1>3. last \in S
    <2> HIDE DEF S, last
    <2>1. last \in Nat
      BY DEF last
    <2>2. \A m \in 0..last : m \in S
      BY <1>1, <1>2, <2>1, CountingUp
    <2> QED
      BY <2>1, <2>2
  <1>4. IsKept(Kept(fields, tags), fields, tags, last)
    BY <1>3 DEF Kept
  <1>5. OnlyTags(fields, tags) = Kept(fields, tags)[last]
    BY DEF OnlyTags, Kept, IsKept
  <1> QED
    BY <1>4, <1>5

LEMMA KeptStarts ==
  ASSUME NEW F, NEW fields \in Seq(F), NEW tags
  PROVE  Kept(fields, tags)[0] = <<>>
  <1>1. Len(fields) \in Nat /\ 0 \in 0..Len(fields)
    OBVIOUS
  <1> DEFINE kept == Kept(fields, tags)
  <1>2. IsKept(kept, fields, tags, Len(fields))
    BY <1>1, KeptIs
  <1> HIDE DEF kept
  <1> QED
    BY <1>1, <1>2 DEF IsKept, kept

LEMMA KeptNext ==
  ASSUME NEW F, NEW fields \in Seq(F), NEW tags, NEW n \in 0..Len(fields), n # Len(fields)
  PROVE  /\ n + 1 \in 0..Len(fields) /\ n + 1 \in DOMAIN fields /\ fields[n + 1] \in F
         /\ Kept(fields, tags)[n + 1] =
               IF fields[n + 1].tag \in tags
               THEN Append(Kept(fields, tags)[n], fields[n + 1])
               ELSE Kept(fields, tags)[n]
  <1>1. Len(fields) \in Nat /\ DOMAIN fields = 1..Len(fields)
    OBVIOUS
  <1> DEFINE kept == Kept(fields, tags)
             last == Len(fields)
  <1>2. IsKept(kept, fields, tags, Len(fields))
    BY <1>1, KeptIs
  <1>3. n + 1 \in 0..last /\ n + 1 \in 1..last /\ n + 1 # 0 /\ (n + 1) - 1 = n
    <2>1. last \in Nat /\ n \in 0..last /\ n # last
      BY <1>1
    <2> HIDE DEF last
    <2> QED
      BY <2>1
  <1>4. fields[n + 1] \in F
    BY <1>3
  <1> HIDE DEF kept
  <1>5. kept[n + 1] = IF fields[n + 1].tag \in tags THEN Append(kept[n], fields[n + 1])
                      ELSE kept[n]
    BY <1>2, <1>3 DEF IsKept
  <1> QED
    BY <1>1, <1>3, <1>4, <1>5 DEF kept

(* What is kept so far is a beginning of what is kept in the end. *)
Begins(s, t) == Len(s) <= Len(t) /\ \A i \in 1..Len(s) : s[i] = t[i]

LEMMA KeptGrows ==
  ASSUME NEW F, NEW fields \in Seq(F), NEW tags
  PROVE  \A n \in 0..Len(fields) :
            /\ Kept(fields, tags)[n] \in Seq(F)
            /\ Begins(Kept(fields, tags)[n], OnlyTags(fields, tags))
            /\ TagsOf(Kept(fields, tags)[n]) \subseteq tags
  <1> DEFINE last == Len(fields)
             kept == Kept(fields, tags)
             S == {n \in 0..last : /\ kept[n] \in Seq(F)
                                   /\ \A m \in 0..n : Begins(kept[m], kept[n])
                                   /\ TagsOf(kept[n]) \subseteq tags}
  <1>1. last \in Nat
    OBVIOUS
  <1>2. OnlyTags(fields, tags) = kept[last]
    BY KeptIs
  <1>3. 0 \in S
    <2>1. kept[0] = <<>>
      BY KeptStarts
    <2> HIDE DEF kept, last
    <2>2. TagsOf(<<>>) = {}
      BY DEF TagsOf
    <2>3. Begins(<<>>, <<>>)
      BY DEF Begins
    <2>4. 0 \in 0..last
      BY <1>1
    <2>5. ASSUME NEW m \in 0..0 PROVE Begins(kept[m], kept[0])
      <3>1. m = 0
        OBVIOUS
      <3> QED
        BY <2>1, <2>3, <3>1
    <2>6. kept[0] \in Seq(F) /\ TagsOf(kept[0]) \subseteq tags
      BY <2>1, <2>2
    <2> QED
      BY <2>4, <2>5, <2>6
  <1>4. ASSUME NEW n \in 0..last, n \in S, n # last PROVE n + 1 \in S
    <2> DEFINE field == fields[n + 1]
    <2>1. /\ n + 1 \in 0..last /\ field \in F
          /\ kept[n + 1] = IF field.tag \in tags THEN Append(kept[n], field) ELSE kept[n]
      BY <1>4, KeptNext
    <2> HIDE DEF last, kept, field
    <2>2. /\ kept[n] \in Seq(F) /\ TagsOf(kept[n]) \subseteq tags
          /\ \A m \in 0..n : Begins(kept[m], kept[n])
      BY <1>4
    <2>3. kept[n + 1] \in Seq(F)
      BY <2>1, <2>2
    <2>4. TagsOf(kept[n + 1]) \subseteq tags
      BY <2>1, <2>2, TagsOfAppend
    <2>5. /\ Len(kept[n]) \in Nat
          /\ Len(kept[n]) <= Len(kept[n + 1])
          /\ \A i \in 1..Len(kept[n]) : kept[n][i] = kept[n + 1][i]
      BY <2>1, <2>2
    <2>6. ASSUME NEW m \in 0..(n + 1) PROVE Begins(kept[m], kept[n + 1])
      <3>1. CASE m = n + 1
        <4>1. Len(kept[m]) \in Nat
          BY <2>3, <3>1
        <4> QED
          BY <3>1, <4>1 DEF Begins
      <3>2. CASE m # n + 1
        <4>1. m \in 0..n
          BY <1>1, <3>2
        <4>2. Len(kept[m]) <= Len(kept[n]) /\ \A i \in 1..Len(kept[m]) : kept[m][i] = kept[n][i]
          BY <2>2, <4>1 DEF Begins
        <4> QED
          BY <2>5, <4>2 DEF Begins
      <3> QED
        BY <3>1, <3>2
    <2> QED
      BY <2>1, <2>3, <2>4, <2>6
  <1>5. \A n \in 0..last : n \in S
    <2> HIDE DEF S, last
    <2> QED
      BY <1>1, <1>3, <1>4, CountingUp
  <1>6. last \in S
    BY <1>1, <1>5
  <1>7. \A m \in 0..last : Begins(kept[m], kept[last])
    BY <1>6
  <1>8. \A n \in 0..last : kept[n] \in Seq(F) /\ TagsOf(kept[n]) \subseteq tags
    BY <1>5
  <1> HIDE DEF kept
  <1> QED
    BY <1>2, <1>7, <1>8 DEF kept

(* Of an encoded metadata: the fields before the signature, and the        *)
(* signature alone                                                         *)
LEMMA OnlyBeforeLast ==
  ASSUME NEW F, NEW fields \in Seq(F), NEW signature \in F, NEW tags,
         \A i \in DOMAIN fields : fields[i].tag \in tags, signature.tag \notin tags
  PROVE  OnlyTags(Append(fields, signature), tags) = fields
  <1> DEFINE more == Append(fields, signature)
             last == Len(fields)
             kept == Kept(more, tags)
             S == {n \in 0..last : Len(kept[n]) = n /\ \A i \in 1..n : kept[n][i] = fields[i]}
  <1>1. /\ last \in Nat /\ more \in Seq(F) /\ Len(more) = last + 1
        /\ more[last + 1] = signature
        /\ \A i \in 1..last : more[i] = fields[i] /\ i \in DOMAIN fields
    OBVIOUS
  <1> HIDE DEF more, last
  <1>2. kept[0] = <<>>
    BY <1>1, KeptStarts
  <1>3. ASSUME NEW n \in 0..last
        PROVE  kept[n + 1] = IF more[n + 1].tag \in tags THEN Append(kept[n], more[n + 1])
                             ELSE kept[n]
    <2>1. n \in 0..Len(more) /\ n # Len(more)
      BY <1>1
    <2> QED
      BY <1>1, <2>1, KeptNext
  <1>4. \A n \in 0..last : kept[n] \in Seq(F)
    <2>1. \A n \in 0..Len(more) : kept[n] \in Seq(F)
      BY <1>1, KeptGrows
    <2> QED
      BY <1>1, <2>1
  <1>5. OnlyTags(more, tags) = kept[last + 1]
    BY <1>1, KeptIs
  <1> HIDE DEF kept
  <1>6. 0 \in S
    BY <1>1, <1>2
  <1>7. ASSUME NEW n \in 0..last, n \in S, n # last PROVE n + 1 \in S
    <2>1. n + 1 \in 0..last /\ n + 1 \in 1..last /\ n \in Nat
      BY <1>1, <1>7
    <2>2. kept[n + 1] = Append(kept[n], fields[n + 1])
      BY <1>1, <1>3, <2>1
    <2>3. kept[n] \in Seq(F) /\ Len(kept[n]) = n /\ \A i \in 1..n : kept[n][i] = fields[i]
      BY <1>4, <1>7
    <2>4. /\ Len(kept[n + 1]) = n + 1
          /\ kept[n + 1][n + 1] = fields[n + 1]
          /\ \A i \in 1..n : kept[n + 1][i] = kept[n][i]
      BY <2>1, <2>2, <2>3
    <2>5. \A i \in 1..(n + 1) : kept[n + 1][i] = fields[i]
      <3>1. \A i \in 1..(n + 1) : i \in 1..n \/ i = n + 1
        BY <2>1
      <3> QED
        BY <2>3, <2>4, <3>1
    <2> QED
      BY <2>1, <2>4, <2>5
  <1>8. \A n \in 0..last : n \in S
    <2> HIDE DEF S
    <2> QED
      BY <1>1, <1>6, <1>7, CountingUp
  <1>9. last \in 0..last
    BY <1>1
  <1>10. Len(kept[last]) = last /\ \A i \in 1..last : kept[last][i] = fields[i]
    BY <1>8, <1>9
  <1>11. kept[last] = fields
    <2>1. kept[last] \in Seq(F) /\ fields \in Seq(F) /\ Len(fields) = last
      BY <1>4, <1>9 DEF last
    <2> QED
      BY <1>10, <2>1
  <1>12. kept[last + 1] = kept[last]
    BY <1>1, <1>3, <1>9
  <1> QED
    BY <1>5, <1>11, <1>12 DEF more

LEMMA OnlyLast ==
  ASSUME NEW F, NEW fields \in Seq(F), NEW signature \in F, NEW tags,
         \A i \in DOMAIN fields : fields[i].tag \notin tags, signature.tag \in tags
  PROVE  OnlyTags(Append(fields, signature), tags) = <<signature>>
  <1> DEFINE more == Append(fields, signature)
             last == Len(fields)
             kept == Kept(more, tags)
             S == {n \in 0..last : kept[n] = <<>>}
  <1>1. /\ last \in Nat /\ more \in Seq(F) /\ Len(more) = last + 1
        /\ more[last + 1] = signature
        /\ \A i \in 1..last : more[i] = fields[i] /\ i \in DOMAIN fields
    OBVIOUS
  <1> HIDE DEF more, last
  <1>2. kept[0] = <<>>
    BY <1>1, KeptStarts
  <1>3. ASSUME NEW n \in 0..last
        PROVE  kept[n + 1] = IF more[n + 1].tag \in tags THEN Append(kept[n], more[n + 1])
                             ELSE kept[n]
    <2>1. n \in 0..Len(more) /\ n # Len(more)
      BY <1>1
    <2> QED
      BY <1>1, <2>1, KeptNext
  <1>4. OnlyTags(more, tags) = kept[last + 1]
    BY <1>1, KeptIs
  <1> HIDE DEF kept
  <1>5. 0 \in S
    BY <1>1, <1>2
  <1>6. ASSUME NEW n \in 0..last, n \in S, n # last PROVE n + 1 \in S
    <2>1. n + 1 \in 0..last /\ n + 1 \in 1..last
      BY <1>1, <1>6
    <2>2. kept[n + 1] = kept[n]
      BY <1>1, <1>3, <2>1
    <2> QED
      BY <1>6, <2>1, <2>2
  <1>7. \A n \in 0..last : n \in S
    <2> HIDE DEF S
    <2> QED
      BY <1>1, <1>5, <1>6, CountingUp
  <1>8. last \in 0..last /\ kept[last] = <<>>
    BY <1>1, <1>7
  <1>9. kept[last + 1] = Append(<<>>, signature)
    BY <1>1, <1>3, <1>8
  <1> QED
    BY <1>4, <1>9 DEF more

(* The values of a payload whose fields are not nested *)
LEMMA FlatValues ==
  ASSUME NEW list, IsFlatList(list)
  PROVE  ValuesByTag(list) =
           [tag \in TagsOf(list) |->
              [i \in DOMAIN OnlyTags(list, {tag}) |-> OnlyTags(list, {tag})[i].value]]
  <1> DEFINE Value(values, field, tag) ==
                 IF tag \in NestedTags THEN values[field.value] ELSE field.value
             Values(values, fields) ==
                 [tag \in TagsOf(fields) |->
                    [i \in DOMAIN OnlyTags(fields, {tag}) |->
                       Value(values, OnlyTags(fields, {tag})[i], tag)]]
             IsRun(values) ==
                 values = [fields \in {ListAt(list, path) : path \in Paths(list)} |->
                             Values(values, fields)]
             run == CHOOSE values : IsRun(values)
             flat == [tag \in TagsOf(list) |->
                        [i \in DOMAIN OnlyTags(list, {tag}) |-> OnlyTags(list, {tag})[i].value]]
  <1>1. {ListAt(list, path) : path \in Paths(list)} = {list}
    <2>1. Paths(list) = {<<>>} /\ ListAt(list, <<>>) = list
      BY FlatPaths
    <2> QED
      BY <2>1
  <1>2. \A tag \in TagsOf(list) : tag \notin NestedTags
    BY DEF TagsOf, IsFlatList, IsFlat, Elements
  <1>3. \A values : Values(values, list) = flat
    BY <1>2
  <1>4. IsRun([fields \in {list} |-> flat])
    <2> DEFINE g == [fields \in {list} |-> flat]
    <2>1. g = [fields \in {list} |-> Values(g, fields)]
      <3> HIDE DEF Values, flat
      <3>1. \A fields \in {list} : flat = Values(g, fields)
        BY <1>3
      <3> QED
        BY <3>1
    <2> HIDE DEF Values, flat
    <2> QED
      BY <1>1, <2>1
  <1>5. IsRun(run)
    <2> HIDE DEF IsRun
    <2> QED
      BY <1>4
  <1>6. ValuesByTag(list) = run[list]
    BY DEF ValuesByTag
  <1>7. run[list] = Values(run, list)
    <2> HIDE DEF run, Values
    <2> QED
      BY <1>1, <1>5
  <1> HIDE DEF Values, run, flat
  <1>8. ValuesByTag(list) = flat
    BY <1>3, <1>6, <1>7
  <1> QED
    BY <1>8 DEF flat

-----------------------------------------------------------------------------
(* Every field the service signs is accepted, once. *)

DistinctTags(fields) ==
    \A i, j \in DOMAIN fields : fields[i].tag = fields[j].tag => i = j

LEMMA DistinctConcat ==
  ASSUME NEW F, NEW s \in Seq(F), NEW t \in Seq(F), DistinctTags(s), DistinctTags(t),
         TagsOf(s) \cap TagsOf(t) = {}
  PROVE  DistinctTags(s \o t)
  <1> DEFINE joined == s \o t
             k == Len(s)
             l == Len(t)
  <1>1. /\ DOMAIN joined = 1..(k + l) /\ k \in Nat /\ l \in Nat
        /\ DOMAIN s = 1..k /\ DOMAIN t = 1..l
    OBVIOUS
  <1>2. \A i \in 1..(k + l) : joined[i] = IF i <= k THEN s[i] ELSE t[i - k]
    OBVIOUS
  <1> HIDE DEF joined, k, l
  <1>3. ASSUME NEW i \in 1..(k + l), i <= k
        PROVE  i \in DOMAIN s /\ joined[i] = s[i] /\ joined[i].tag \in TagsOf(s)
    <2>1. i \in DOMAIN s /\ joined[i] = s[i]
      BY <1>1, <1>2, <1>3
    <2> QED
      BY <2>1 DEF TagsOf
  <1>4. ASSUME NEW i \in 1..(k + l), ~(i <= k)
        PROVE  i - k \in DOMAIN t /\ joined[i] = t[i - k] /\ joined[i].tag \in TagsOf(t)
    <2>1. i - k \in DOMAIN t /\ joined[i] = t[i - k]
      BY <1>1, <1>2, <1>4
    <2> QED
      BY <2>1 DEF TagsOf
  <1>5. ASSUME NEW i \in 1..(k + l), NEW j \in 1..(k + l), joined[i].tag = joined[j].tag
        PROVE  i = j
    <2>1. CASE i <= k /\ j <= k
      BY <1>3, <1>5, <2>1 DEF DistinctTags
    <2>2. CASE ~(i <= k) /\ ~(j <= k)
      <3>1. i - k = j - k
        BY <1>4, <1>5, <2>2 DEF DistinctTags
      <3> QED
        BY <1>1, <3>1
    <2>3. CASE i <= k /\ ~(j <= k)
      BY <1>3, <1>4, <1>5, <2>3
    <2>4. CASE ~(i <= k) /\ j <= k
      BY <1>3, <1>4, <1>5, <2>4
    <2> QED
      BY <2>1, <2>2, <2>3, <2>4
  <1> QED
    BY <1>1, <1>5 DEF DistinctTags, joined

LEMMA OptionalDistinct ==
  ASSUME NEW tag, NEW sent \in BOOLEAN, NEW encoded
  PROVE  DistinctTags(Host!OptionalField(tag, sent, encoded))
  <1>1. CASE sent
    <2> DEFINE field == Host!Field(tag, encoded)
    <2>1. Host!OptionalField(tag, sent, encoded) = <<field>>
      BY <1>1 DEF Host!OptionalField
    <2> HIDE DEF field
    <2>2. DistinctTags(<<field>>)
      BY DEF DistinctTags
    <2> QED
      BY <2>1, <2>2
  <1>2. CASE ~sent
    <2>1. Host!OptionalField(tag, sent, encoded) = <<>>
      BY <1>2 DEF Host!OptionalField
    <2>2. DistinctTags(<<>>)
      BY DEF DistinctTags
    <2> QED
      BY <2>1, <2>2
  <1> QED
    BY <1>1, <1>2

MandatoryTags ==
    {"STRUCT_TYPE", "STRUCT_VERSION", "OPERATION_TYPE", "ASSET_ID", "ASSET_TICKER", "NETWORK"}

LEMMA SignedTags ==
  ASSUME NEW metadata \in Issued
  PROVE  /\ DistinctTags(Host!MetadataFields(metadata))
         /\ MandatoryTags \subseteq TagsOf(Host!MetadataFields(metadata))
  <1> DEFINE mandatory ==
               <<Host!Field("STRUCT_TYPE", "METADATA"), Host!Field("STRUCT_VERSION", 1),
                 Host!Field("OPERATION_TYPE", metadata.op_type),
                 Host!Field("ASSET_ID", metadata.asset_id),
                 Host!Field("ASSET_TICKER", metadata.ticker),
                 Host!Field("NETWORK", metadata.network)>>
             F == SignedFields(metadata)
             s1 == Host!OptionalField("BUILDER_ADDR", metadata.has_builder_addr,
                                      metadata.builder_addr)
             s2 == Host!OptionalField("MARGIN", metadata.has_margin, metadata.margin)
             s3 == Host!OptionalField("LEVERAGE", metadata.has_leverage, metadata.leverage)
             t1 == mandatory \o s1
             t2 == t1 \o s2
             t3 == t2 \o s3
  <1>1. Host!MetadataFields(metadata) = t3
    BY DEF Host!MetadataFields
  <1>2. mandatory \in Seq(F)
    BY DEF SignedFields
  <1>3. /\ DOMAIN mandatory = 1..6
        /\ mandatory[1].tag = "STRUCT_TYPE" /\ mandatory[2].tag = "STRUCT_VERSION"
        /\ mandatory[3].tag = "OPERATION_TYPE" /\ mandatory[4].tag = "ASSET_ID"
        /\ mandatory[5].tag = "ASSET_TICKER" /\ mandatory[6].tag = "NETWORK"
    BY DEF Host!Field
  <1> HIDE DEF mandatory
  <1>4. DistinctTags(mandatory)
    <2>1. \A i \in 1..6 : i = 1 \/ i = 2 \/ i = 3 \/ i = 4 \/ i = 5 \/ i = 6
      OBVIOUS
    <2> QED
      BY <1>3, <2>1 DEF DistinctTags
  <1>5. TagsOf(mandatory) = MandatoryTags
    <2>1. 1..6 = {1, 2, 3, 4, 5, 6}
      OBVIOUS
    <2> QED
      BY <1>3, <2>1 DEF TagsOf, MandatoryTags
  <1>6. /\ metadata.has_builder_addr \in BOOLEAN /\ metadata.has_margin \in BOOLEAN
        /\ metadata.has_leverage \in BOOLEAN
    BY IssuedAssumption
  <1>7. DistinctTags(s1) /\ DistinctTags(s2) /\ DistinctTags(s3)
    BY <1>6, OptionalDistinct
  <1>8. /\ Host!Field("BUILDER_ADDR", metadata.builder_addr) \in F
        /\ Host!Field("MARGIN", metadata.margin) \in F
        /\ Host!Field("LEVERAGE", metadata.leverage) \in F
        /\ "BUILDER_ADDR" \in ValueTags /\ "MARGIN" \in ValueTags /\ "LEVERAGE" \in ValueTags
    BY DEF SignedFields, ValueTags, OptionalTags
  <1> HIDE DEF F
  <1>9. s1 \in Seq(F) /\ TagsOf(s1) \subseteq {"BUILDER_ADDR"}
    <2>1. IsOptionalField(F, "BUILDER_ADDR", metadata.has_builder_addr, metadata.builder_addr, s1)
      BY <1>6, <1>8, OptionalFieldIs
    <2> QED
      BY <2>1 DEF IsOptionalField
  <1>10. s2 \in Seq(F) /\ TagsOf(s2) \subseteq {"MARGIN"}
    <2>1. IsOptionalField(F, "MARGIN", metadata.has_margin, metadata.margin, s2)
      BY <1>6, <1>8, OptionalFieldIs
    <2> QED
      BY <2>1 DEF IsOptionalField
  <1>11. s3 \in Seq(F) /\ TagsOf(s3) \subseteq {"LEVERAGE"}
    <2>1. IsOptionalField(F, "LEVERAGE", metadata.has_leverage, metadata.leverage, s3)
      BY <1>6, <1>8, OptionalFieldIs
    <2> QED
      BY <2>1 DEF IsOptionalField
  <1> HIDE DEF s1, s2, s3, t1, t2, t3
  <1>12. t1 \in Seq(F) /\ TagsOf(t1) = TagsOf(mandatory) \cup TagsOf(s1) /\ DistinctTags(t1)
    <2>1. TagsOf(mandatory) \cap TagsOf(s1) = {}
      BY <1>5, <1>9 DEF MandatoryTags
    <2> QED
      BY <1>2, <1>4, <1>7, <1>9, <2>1, TellsConcat, DistinctConcat DEF t1
  <1>13. t2 \in Seq(F) /\ TagsOf(t2) = TagsOf(t1) \cup TagsOf(s2) /\ DistinctTags(t2)
    <2>1. TagsOf(t1) \cap TagsOf(s2) = {}
      BY <1>5, <1>9, <1>10, <1>12 DEF MandatoryTags
    <2> QED
      BY <1>7, <1>10, <1>12, <2>1, TellsConcat, DistinctConcat DEF t2
  <1>14. TagsOf(t3) = TagsOf(t2) \cup TagsOf(s3) /\ DistinctTags(t3)
    <2>1. TagsOf(t2) \cap TagsOf(s3) = {}
      BY <1>5, <1>9, <1>10, <1>11, <1>12, <1>13 DEF MandatoryTags
    <2> QED
      BY <1>7, <1>11, <1>13, <2>1, TellsConcat, DistinctConcat DEF t3
  <1> QED
    BY <1>1, <1>5, <1>12, <1>13, <1>14

LEMMA SignedHandled ==
  ASSUME NEW metadata \in Issued, metadata.op_type \in OpTypes,
         NEW field \in SignedFields(metadata), NEW out, IsMetadataContext(out), out.ok
  PROVE  MetadataTag(out, field).ok
  <1>1. /\ metadata.network \in Networks /\ metadata.asset_id # OutOfRange
        /\ metadata.ticker # OutOfRange /\ metadata.builder_addr # OutOfRange
        /\ metadata.margin # OutOfRange /\ metadata.leverage # OutOfRange
    BY DecodedAssumption
  <1>2. /\ "op_type" \in MetadataNames /\ "asset_id" \in MetadataNames
        /\ "ticker" \in MetadataNames /\ "network" \in MetadataNames
        /\ "has_builder_addr" \in MetadataNames /\ "builder_addr" \in MetadataNames
        /\ "has_margin" \in MetadataNames /\ "margin" \in MetadataNames
        /\ "has_leverage" \in MetadataNames /\ "leverage" \in MetadataNames
    BY DEF MetadataNames
  <1>3. ASSUME NEW context, IsMetadataContext(context), context.ok,
               NEW name \in MetadataNames, NEW value, value # OutOfRange
        PROVE  StoreScalar(context, name, value).ok
    <2>1. StoreScalar(context, name, value) = Filled(context, name, value)
      BY <1>3, StoreIs DEF StoreScalar
    <2>2. Filled(context, name, value).ok = context.ok
      BY <1>3, FilledIs
    <2> QED
      BY <1>3, <2>1, <2>2
  <1>4. ASSUME NEW name \in MetadataNames, NEW enumerators, NEW value \in enumerators
        PROVE  StoreEnum(out, name, value, enumerators).ok
    <2>1. StoreEnum(out, name, value, enumerators) = Filled(out, name, value)
      BY StoreIs DEF StoreEnum
    <2>2. Filled(out, name, value).ok = out.ok
      BY FilledIs
    <2> QED
      BY <2>1, <2>2
  <1>5. ASSUME NEW flag \in MetadataNames, NEW name \in MetadataNames, NEW value,
               value # OutOfRange
        PROVE  StoreOptional(out, flag, name, value).ok
    <2>1. Store(out, flag, TRUE) = Flagged(out, flag)
      BY StoreIs DEF Flagged
    <2>2. IsMetadataContext(Flagged(out, flag)) /\ Flagged(out, flag).ok
      BY FlaggedIs
    <2>3. StoreScalar(Flagged(out, flag), name, value).ok
      BY <1>3, <1>5, <2>2
    <2> QED
      BY <2>1, <2>3 DEF StoreOptional
  <1> DEFINE handled == MetadataTag(out, field)
  <1>6. \/ field = Host!Field("STRUCT_TYPE", "METADATA")
        \/ field = Host!Field("STRUCT_VERSION", 1)
        \/ field = Host!Field("OPERATION_TYPE", metadata.op_type)
        \/ field = Host!Field("ASSET_ID", metadata.asset_id)
        \/ field = Host!Field("ASSET_TICKER", metadata.ticker)
        \/ field = Host!Field("NETWORK", metadata.network)
        \/ field = Host!Field("BUILDER_ADDR", metadata.builder_addr)
        \/ field = Host!Field("MARGIN", metadata.margin)
        \/ field = Host!Field("LEVERAGE", metadata.leverage)
    BY DEF SignedFields
  <1>7. \A tag, value : Host!Field(tag, value).tag = tag /\ Host!Field(tag, value).value = value
    BY DEF Host!Field
  <1>8. \/ field.tag = "STRUCT_TYPE" /\ field.value = "METADATA"
        \/ field.tag = "STRUCT_VERSION" /\ field.value = 1
        \/ field.tag = "OPERATION_TYPE" /\ field.value = metadata.op_type
        \/ field.tag = "ASSET_ID" /\ field.value = metadata.asset_id
        \/ field.tag = "ASSET_TICKER" /\ field.value = metadata.ticker
        \/ field.tag = "NETWORK" /\ field.value = metadata.network
        \/ field.tag = "BUILDER_ADDR" /\ field.value = metadata.builder_addr
        \/ field.tag = "MARGIN" /\ field.value = metadata.margin
        \/ field.tag = "LEVERAGE" /\ field.value = metadata.leverage
    BY <1>6, <1>7
  <1>9. CASE field.tag = "STRUCT_TYPE" \/ field.tag = "STRUCT_VERSION"
    <2>1. handled = out
      BY <1>8, <1>9 DEF MetadataTag
    <2> QED
      BY <2>1
  <1>10. CASE field.tag = "OPERATION_TYPE"
    <2>1. handled = StoreEnum(out, "op_type", field.value, OpTypes) /\ field.value \in OpTypes
      BY <1>8, <1>10 DEF MetadataTag
    <2>2. StoreEnum(out, "op_type", field.value, OpTypes).ok
      BY <1>2, <1>4, <2>1
    <2> QED
      BY <2>1, <2>2
  <1>11. CASE field.tag = "ASSET_ID"
    <2>1. handled = StoreScalar(out, "asset_id", field.value) /\ field.value # OutOfRange
      BY <1>1, <1>8, <1>11 DEF MetadataTag
    <2>2. StoreScalar(out, "asset_id", field.value).ok
      BY <1>2, <1>3, <2>1
    <2> QED
      BY <2>1, <2>2
  <1>12. CASE field.tag = "ASSET_TICKER"
    <2>1. handled = StoreScalar(out, "ticker", field.value) /\ field.value # OutOfRange
      BY <1>1, <1>8, <1>12 DEF MetadataTag
    <2>2. StoreScalar(out, "ticker", field.value).ok
      BY <1>2, <1>3, <2>1
    <2> QED
      BY <2>1, <2>2
  <1>13. CASE field.tag = "NETWORK"
    <2>1. handled = StoreEnum(out, "network", field.value, Networks) /\ field.value \in Networks
      BY <1>1, <1>8, <1>13 DEF MetadataTag
    <2>2. StoreEnum(out, "network", field.value, Networks).ok
      BY <1>2, <1>4, <2>1
    <2> QED
      BY <2>1, <2>2
  <1>14. CASE field.tag = "BUILDER_ADDR"
    <2>1. /\ handled = StoreOptional(out, "has_builder_addr", "builder_addr", field.value)
          /\ field.value # OutOfRange
      BY <1>1, <1>8, <1>14 DEF MetadataTag
    <2>2. StoreOptional(out, "has_builder_addr", "builder_addr", field.value).ok
      BY <1>2, <1>5, <2>1
    <2> QED
      BY <2>1, <2>2
  <1>15. CASE field.tag = "MARGIN"
    <2>1. /\ handled = StoreOptional(out, "has_margin", "margin", field.value)
          /\ field.value # OutOfRange
      BY <1>1, <1>8, <1>15 DEF MetadataTag
    <2>2. StoreOptional(out, "has_margin", "margin", field.value).ok
      BY <1>2, <1>5, <2>1
    <2> QED
      BY <2>1, <2>2
  <1>16. CASE field.tag = "LEVERAGE"
    <2>1. /\ handled = StoreOptional(out, "has_leverage", "leverage", field.value)
          /\ field.value # OutOfRange
      BY <1>1, <1>8, <1>16 DEF MetadataTag
    <2>2. StoreOptional(out, "has_leverage", "leverage", field.value).ok
      BY <1>2, <1>5, <2>1
    <2> QED
      BY <2>1, <2>2
  <1> QED
    BY <1>8, <1>9, <1>10, <1>11, <1>12, <1>13, <1>14, <1>15, <1>16

LEMMA StepAccepts ==
  ASSUME NEW out, IsMetadataContext(out), out.ok, NEW field, field.tag \notin out.received,
         MetadataTag(HandleCommon(out, field), field).ok
  PROVE  LET next == MetadataStep(out, field)
         IN  /\ next.ok
             /\ next.received = out.received \cup {field.tag}
             /\ next.hashed =
                   IF field.tag = "SIGNATURE" THEN out.hashed ELSE Append(out.hashed, field)
             /\ next.signature =
                   IF field.tag = "SIGNATURE" THEN field.value ELSE out.signature
  <1> DEFINE common == HandleCommon(out, field)
             handled == MetadataTag(common, field)
             next == [handled EXCEPT !.received = @ \cup {field.tag}]
  <1>1. MetadataStep(out, field) = next
    BY DEF MetadataStep, Admits
  <1>2. /\ IsMetadataContext(common)
        /\ common.received = out.received
        /\ common.signature = out.signature
        /\ common.hashed =
              IF field.tag = "SIGNATURE" THEN out.hashed ELSE Append(out.hashed, field)
    BY HandleCommonIs
  <1>3. handled.ok
    OBVIOUS
  <1> HIDE DEF common
  <1>4. IsMetadataContext(handled)
    BY <1>2, MetadataTagLeavesContext
  <1>5. HandledWell(common, field, handled)
    BY <1>2, <1>3, MetadataTagTells
  <1> HIDE DEF handled
  <1>6. /\ handled.received = common.received
        /\ handled.hashed = common.hashed
        /\ handled.signature = IF field.tag = "SIGNATURE" THEN field.value ELSE common.signature
    BY <1>2, <1>5, HandledTells
  <1>7. /\ next.ok = handled.ok /\ next.hashed = handled.hashed
        /\ next.signature = handled.signature
        /\ next.received = handled.received \cup {field.tag}
    BY <1>4 DEF IsMetadataContext, ContextParts
  <1> HIDE DEF next
  <1> QED
    BY <1>1, <1>2, <1>3, <1>6, <1>7

(* A payload that holds the signed fields in their order, and their        *)
(* signature wherever it stands, is accepted for what it is.               *)
LEMMA SignedIsUnderstood ==
  ASSUME NEW metadata \in Issued, metadata.op_type \in OpTypes, NEW F, NEW fields \in Seq(F),
         HashedFields(fields) = Host!MetadataFields(metadata),
         Len(OnlyTags(fields, {"SIGNATURE"})) = 1,
         OnlyTags(fields, {"SIGNATURE"})[1].value
            = Host!SignatureOf(Host!MetadataFields(metadata))
  PROVE  /\ ParseActionMetadata(fields).ok
         /\ ParseActionMetadata(fields).value = metadata
  <1> DEFINE last == Len(fields)
             run == MetadataRun(fields)
             signed == Host!MetadataFields(metadata)
             signature == Host!SignatureOf(signed)
             tags == TagsOf(fields) \ {"SIGNATURE"}
             kept == Kept(fields, tags)
             only == {"SIGNATURE"}
             sigs == Kept(fields, only)
             final == OnlyTags(fields, only)
             Goes(n) == /\ run[n].ok
                        /\ run[n].hashed = kept[n]
                        /\ run[n].received = TagsOf(kept[n]) \cup TagsOf(sigs[n])
                        /\ sigs[n] # <<>> => run[n].signature = signature
             S == {n \in 0..last : Goes(n)}
  <1>1. last \in Nat /\ 0 \in 0..last /\ last \in 0..last
    OBVIOUS
  <1>2. IsMetadataRun(run, fields, last) /\ ParseActionMetadata(fields) = VerifyActionMetadata(run[last])
    BY <1>1, MetadataRunIs
  <1>3. OnlyTags(fields, tags) = signed
    BY DEF HashedFields
  <1>4. \A n \in 0..last : ContextInv(F, run[n]) /\ IsMetadataContext(run[n])
    BY RunSays DEF ContextInv
  <1>5. \A n \in 0..last : kept[n] \in Seq(F) /\ Begins(kept[n], signed) /\ TagsOf(kept[n]) \subseteq tags
    <2> HIDE DEF tags, signed
    <2>1. \A n \in 0..last : /\ kept[n] \in Seq(F)
                            /\ Begins(kept[n], OnlyTags(fields, tags))
                            /\ TagsOf(kept[n]) \subseteq tags
      BY KeptGrows
    <2> QED
      BY <1>3, <2>1
  <1>6. \A n \in 0..last : sigs[n] \in Seq(F) /\ Begins(sigs[n], final) /\ TagsOf(sigs[n]) \subseteq only
    <2> HIDE DEF only
    <2> QED
      BY KeptGrows
  <1>7. kept[0] = <<>> /\ sigs[0] = <<>>
    BY KeptStarts
  <1>8. ASSUME NEW n \in 0..last, n # last
        PROVE  LET field == fields[n + 1]
               IN  /\ n + 1 \in 0..last /\ field \in F /\ field.tag \in TagsOf(fields)
                   /\ kept[n + 1] = IF field.tag \in tags THEN Append(kept[n], field) ELSE kept[n]
                   /\ sigs[n + 1] = IF field.tag \in only THEN Append(sigs[n], field) ELSE sigs[n]
                   /\ run[n + 1] = MetadataStep(run[n], field)
    <2>1. n + 1 \in 0..last /\ n + 1 \in DOMAIN fields /\ fields[n + 1] \in F
      BY <1>8, KeptNext
    <2>2. /\ kept[n + 1] = IF fields[n + 1].tag \in tags THEN Append(kept[n], fields[n + 1])
                           ELSE kept[n]
          /\ sigs[n + 1] = IF fields[n + 1].tag \in only THEN Append(sigs[n], fields[n + 1])
                           ELSE sigs[n]
      <3> HIDE DEF tags, only
      <3>1. kept[n + 1] = IF fields[n + 1].tag \in tags THEN Append(kept[n], fields[n + 1])
                          ELSE kept[n]
        BY <1>8, KeptNext
      <3>2. sigs[n + 1] = IF fields[n + 1].tag \in only THEN Append(sigs[n], fields[n + 1])
                          ELSE sigs[n]
        BY <1>8, KeptNext
      <3> QED
        BY <3>1, <3>2
    <2>3. fields[n + 1].tag \in TagsOf(fields)
      BY <2>1 DEF TagsOf
    <2>4. run[n + 1] = MetadataStep(run[n], fields[n + 1])
      <3>1. n + 1 # 0 /\ (n + 1) - 1 = n
        BY <1>1
      <3> HIDE DEF run, last
      <3> QED
        BY <1>2, <2>1, <3>1 DEF IsMetadataRun
    <2> QED
      BY <2>1, <2>2, <2>3, <2>4
  <1>9. run[0] = MetadataContext
    <2> HIDE DEF run, last
    <2> QED
      BY <1>1, <1>2 DEF IsMetadataRun
  <1>10. signed \in Seq(SignedFields(metadata)) /\ DistinctTags(signed)
    BY MetadataFieldsAre, SignedTags
  <1>11. MandatoryTags \subseteq TagsOf(signed)
    BY SignedTags
  <1>12. kept[last] = signed /\ sigs[last] = final
    BY <1>1, <1>3, KeptIs
  <1>13. Len(final) = 1 /\ final[1].value = signature
    OBVIOUS
  <1>14. signature = [over |-> signed] /\ signature # OutOfRange
    <2>1. signature \in IssuedSignatures
      BY DEF IssuedSignatures
    <2> QED
      BY <2>1, DecodedAssumption DEF Host!SignatureOf
  <1>15. "SIGNATURE" \notin tags /\ \A tag : tag \in only <=> tag = "SIGNATURE"
    OBVIOUS
  <1>16. \A tag \in TagsOf(fields) : tag \in tags <=> tag # "SIGNATURE"
    OBVIOUS
  <1> HIDE DEF last, run, signed, signature, tags, only, kept, sigs, final
  <1>17. 0 \in S
    <2>1. TagsOf(<<>>) = {}
      BY DEF TagsOf
    <2>2. MetadataContext.ok /\ MetadataContext.hashed = <<>> /\ MetadataContext.received = {}
      BY DEF MetadataContext
    <2> QED
      BY <1>1, <1>7, <1>9, <2>1, <2>2
  <1>18. ASSUME NEW n \in 0..last, n \in S, n # last PROVE n + 1 \in S
    <2> DEFINE field == fields[n + 1]
               tag == field.tag
               out == run[n]
    <2>1. /\ n + 1 \in 0..last /\ field \in F /\ tag \in TagsOf(fields)
          /\ kept[n + 1] = IF tag \in tags THEN Append(kept[n], field) ELSE kept[n]
          /\ sigs[n + 1] = IF tag \in only THEN Append(sigs[n], field) ELSE sigs[n]
          /\ run[n + 1] = MetadataStep(out, field)
      BY <1>8, <1>18
    <2>2. Goes(n) /\ IsMetadataContext(out)
      BY <1>4, <1>18
    <2>3. kept[n] \in Seq(F) /\ sigs[n] \in Seq(F)
      BY <1>5, <1>6
    <2> HIDE DEF field
    <2>4. CASE tag = "SIGNATURE"
      <3>1. kept[n + 1] = kept[n] /\ sigs[n + 1] = Append(sigs[n], field)
        BY <1>15, <2>1, <2>4
      <3>2. Begins(sigs[n + 1], final)
        BY <1>6, <2>1
      <3>3. sigs[n] = <<>>
        <4>1. Len(sigs[n]) \in Nat /\ Len(sigs[n + 1]) = Len(sigs[n]) + 1 /\ Len(sigs[n + 1]) <= 1
          BY <1>13, <2>3, <3>1, <3>2 DEF Begins
        <4>2. Len(sigs[n]) = 0
          BY <4>1
        <4> QED
          BY <2>3, <4>2
      <3>4. sigs[n + 1] = <<field>>
        BY <3>1, <3>3
      <3>5. field = final[1]
        <4>1. Len(<<field>>) = 1 /\ (<<field>>)[1] = field /\ 1 \in 1..1
          OBVIOUS
        <4> QED
          BY <3>2, <3>4, <4>1 DEF Begins
      <3>6. field.value = signature
        BY <1>13, <3>5
      <3>7. tag \notin out.received
        <4>1. TagsOf(<<>>) = {}
          BY DEF TagsOf
        <4>2. out.received = TagsOf(kept[n])
          BY <2>2, <3>3, <4>1
        <4> QED
          BY <1>5, <1>15, <2>4, <4>2
      <3>8. MetadataTag(HandleCommon(out, field), field).ok
        <4> DEFINE common == HandleCommon(out, field)
        <4>1. IsMetadataContext(common) /\ common.ok = out.ok
          BY <2>2, HandleCommonIs
        <4> HIDE DEF common
        <4>2. MetadataTag(common, field) = [common EXCEPT !.signature = field.value]
          BY <1>14, <2>4, <3>6 DEF MetadataTag
        <4>3. [common EXCEPT !.signature = field.value].ok = common.ok
          BY <4>1 DEF IsMetadataContext, ContextParts
        <4> QED
          BY <2>2, <4>1, <4>2, <4>3 DEF common
      <3>9. /\ run[n + 1].ok
            /\ run[n + 1].received = out.received \cup {tag}
            /\ run[n + 1].hashed = out.hashed
            /\ run[n + 1].signature = field.value
        BY <2>1, <2>2, <2>4, <3>7, <3>8, StepAccepts
      <3>10. TagsOf(sigs[n + 1]) = TagsOf(sigs[n]) \cup {tag}
        BY <2>3, <3>1, TagsOfAppend
      <3> QED
        BY <2>1, <2>2, <3>1, <3>6, <3>9, <3>10
    <2>5. CASE tag # "SIGNATURE"
      <3>1. kept[n + 1] = Append(kept[n], field) /\ sigs[n + 1] = sigs[n]
        BY <1>15, <1>16, <2>1, <2>5
      <3> DEFINE k == Len(kept[n])
      <3>2. /\ k \in Nat /\ DOMAIN kept[n] = 1..k
            /\ Len(kept[n + 1]) = k + 1 /\ kept[n + 1][k + 1] = field
            /\ \A i \in 1..k : kept[n + 1][i] = kept[n][i]
        BY <2>3, <3>1
      <3> HIDE DEF k
      <3>3. /\ k + 1 <= Len(signed)
            /\ \A i \in 1..(k + 1) : kept[n + 1][i] = signed[i]
        BY <1>5, <2>1, <3>2 DEF Begins
      <3>4. Len(signed) \in Nat /\ DOMAIN signed = 1..Len(signed)
        BY <1>10
      <3>5. k + 1 \in DOMAIN signed /\ signed[k + 1] = field
        BY <3>2, <3>3, <3>4
      <3>6. field \in SignedFields(metadata)
        BY <1>10, <3>5
      <3>7. ASSUME NEW i \in DOMAIN kept[n], kept[n][i].tag = tag PROVE FALSE
        <4>1. i \in 1..k /\ i \in 1..(k + 1) /\ i \in DOMAIN signed /\ i # k + 1
          BY <3>2, <3>3, <3>4
        <4>2. signed[i] = kept[n][i]
          BY <3>2, <3>3, <4>1
        <4> QED
          BY <1>10, <3>5, <3>7, <4>1, <4>2 DEF DistinctTags
      <3>8. tag \notin TagsOf(kept[n])
        BY <3>7 DEF TagsOf
      <3>9. \A other \in TagsOf(sigs[n]) : other = "SIGNATURE"
        BY <1>6, <1>15
      <3>10. tag \notin out.received
        BY <2>2, <2>5, <3>8, <3>9
      <3>11. MetadataTag(HandleCommon(out, field), field).ok
        <4>1. IsMetadataContext(HandleCommon(out, field)) /\ HandleCommon(out, field).ok
          BY <2>2, HandleCommonIs
        <4> QED
          BY <3>6, <4>1, SignedHandled
      <3>12. /\ run[n + 1].ok
             /\ run[n + 1].received = out.received \cup {tag}
             /\ run[n + 1].hashed = Append(out.hashed, field)
             /\ run[n + 1].signature = out.signature
        <4>1. IsMetadataContext(out) /\ out.ok
          BY <2>2
        <4> HIDE DEF out
        <4>2. /\ MetadataStep(out, field).ok
              /\ MetadataStep(out, field).received = out.received \cup {tag}
              /\ MetadataStep(out, field).hashed = Append(out.hashed, field)
              /\ MetadataStep(out, field).signature = out.signature
          BY <2>5, <3>10, <3>11, <4>1, StepAccepts
        <4> QED
          BY <2>1, <4>2
      <3>13. TagsOf(kept[n + 1]) = TagsOf(kept[n]) \cup {tag}
        BY <2>3, <3>1, TagsOfAppend
      <3>14. run[n + 1].hashed = kept[n + 1]
        BY <2>2, <3>1, <3>12
      <3>15. run[n + 1].received = TagsOf(kept[n + 1]) \cup TagsOf(sigs[n + 1])
        BY <2>2, <3>1, <3>12, <3>13
      <3>16. sigs[n + 1] # <<>> => run[n + 1].signature = signature
        BY <2>2, <3>1, <3>12
      <3> QED
        BY <2>1, <3>12, <3>14, <3>15, <3>16
    <2> QED
      BY <2>4, <2>5
  <1>19. \A n \in 0..last : n \in S
    <2> HIDE DEF S
    <2> QED
      BY <1>1, <1>17, <1>18, CountingUp
  <1>20. Goes(last)
    BY <1>1, <1>19
  <1> DEFINE out == run[last]
  <1>21. IsMetadataContext(out) /\ ContextInv(F, out)
    BY <1>1, <1>4
  <1>22. /\ out.ok /\ out.hashed = signed
         /\ out.received = TagsOf(signed) \cup TagsOf(final)
         /\ out.signature = [over |-> out.hashed]
    <2>1. final # <<>>
      BY <1>13
    <2> QED
      BY <1>12, <1>14, <1>20, <2>1
  <1>23. "SIGNATURE" \in TagsOf(final)
    <2>1. final \in Seq(F) /\ \A tag \in TagsOf(final) : tag = "SIGNATURE"
      BY <1>1, <1>6, <1>12, <1>15
    <2>2. 1 \in DOMAIN final
      BY <1>13, <2>1
    <2>3. final[1].tag \in TagsOf(final)
      BY <2>2 DEF TagsOf
    <2> QED
      BY <2>1, <2>3
  <1> HIDE DEF out
  <1>24. {"STRUCT_TYPE", "STRUCT_VERSION", "OPERATION_TYPE", "ASSET_ID", "ASSET_TICKER",
          "NETWORK", "SIGNATURE"} \subseteq out.received
    BY <1>11, <1>22, <1>23 DEF MandatoryTags
  <1>25. VerifyActionMetadata(out).ok /\ VerifyActionMetadata(out).value = out.value
    BY <1>21, <1>22, <1>24, VerifiedIs
  <1>26. Says(signed, out.value) /\ IsMetadata(out.value)
    BY <1>21, <1>22 DEF ContextInv, SaysSoFar, IsMetadataContext
  <1>27. out.value = metadata
    BY <1>26, SignedSays DEF signed
  <1> QED
    BY <1>2, <1>25, <1>27 DEF out

LEMMA SelectedOfEncoded ==
  ASSUME NEW metadata \in Issued
  PROVE  LET encoded == Host!EncodeMetadata(metadata)
             signed  == Host!MetadataFields(metadata)
         IN  /\ HashedFields(encoded) = signed
             /\ OnlyTags(encoded, {"SIGNATURE"}) = <<Host!Field("SIGNATURE", Host!SignatureOf(signed))>>
             /\ "SIGNATURE" \in TagsOf(encoded)
  <1> DEFINE signed == Host!MetadataFields(metadata)
             signature == Host!Field("SIGNATURE", Host!SignatureOf(signed))
             encoded == Append(signed, signature)
             G == SignedFields(metadata) \cup {signature}
             only == {"SIGNATURE"}
  <1>1. Host!EncodeMetadata(metadata) = encoded
    BY DEF Host!EncodeMetadata, Host!Signed
  <1>2. signed \in Seq(SignedFields(metadata))
    BY MetadataFieldsAre
  <1>3. signature.tag = "SIGNATURE"
    BY DEF Host!Field
  <1>4. ASSUME NEW field \in SignedFields(metadata) PROVE field.tag # "SIGNATURE"
    BY <1>4 DEF SignedFields, Host!Field
  <1> HIDE DEF signed, signature
  <1>5. signed \in Seq(G) /\ signature \in G
    BY <1>2
  <1>6. \A i \in DOMAIN signed : signed[i] \in SignedFields(metadata)
    BY <1>2
  <1>7. \A i \in DOMAIN signed : signed[i].tag # "SIGNATURE" /\ signed[i].tag \in TagsOf(signed)
    BY <1>4, <1>6 DEF TagsOf
  <1> HIDE DEF G
  <1>8. TagsOf(encoded) = TagsOf(signed) \cup {"SIGNATURE"}
    BY <1>3, <1>5, TagsOfAppend
  <1>9. OnlyTags(encoded, TagsOf(encoded) \ {"SIGNATURE"}) = signed
    <2> DEFINE tags == TagsOf(encoded) \ {"SIGNATURE"}
    <2>1. (\A i \in DOMAIN signed : signed[i].tag \in tags) /\ signature.tag \notin tags
      BY <1>3, <1>7, <1>8
    <2> HIDE DEF tags
    <2>2. OnlyTags(encoded, tags) = signed
      BY <1>5, <2>1, OnlyBeforeLast
    <2> QED
      BY <2>2 DEF tags
  <1>10. OnlyTags(encoded, only) = <<signature>>
    <2>1. (\A i \in DOMAIN signed : signed[i].tag \notin only) /\ signature.tag \in only
      BY <1>3, <1>7
    <2> HIDE DEF only
    <2> QED
      BY <1>5, <2>1, OnlyLast
  <1> HIDE DEF encoded
  <1> QED
    BY <1>1, <1>8, <1>9, <1>10 DEF HashedFields, signed, signature

LEMMA FlatUnderstood == FlatInv => IssuedIsUnderstood
  <1> SUFFICES ASSUME FlatInv, command = "PROVIDE_ACTION_METADATA", meant.op_type \in OpTypes,
                      HashedFields(payload) = HashedFields(Host!EncodeMetadata(meant)),
                      SameFields(payload, Host!EncodeMetadata(meant))
               PROVE  /\ ParseActionMetadata(payload).ok
                      /\ ParseActionMetadata(payload).value = meant
    BY DEF IssuedIsUnderstood
  <1> DEFINE encoded == Host!EncodeMetadata(meant)
             signed == Host!MetadataFields(meant)
             F == Elements(payload)
             only == {"SIGNATURE"}
             mine == OnlyTags(payload, only)
             its == OnlyTags(encoded, only)
  <1>1. meant \in Issued /\ IsFlatList(payload) /\ IsFlatList(encoded)
    BY EncodedIsFlat DEF FlatInv
  <1>2. payload \in Seq(F)
    BY <1>1 DEF IsFlatList
  <1>3. /\ HashedFields(encoded) = signed
        /\ its = <<Host!Field("SIGNATURE", Host!SignatureOf(signed))>>
        /\ "SIGNATURE" \in TagsOf(encoded)
    BY <1>1, SelectedOfEncoded
  <1>4. its[1].value = Host!SignatureOf(signed) /\ DOMAIN its = {1}
    BY <1>3 DEF Host!Field
  <1> DEFINE Values(list) ==
                 [tag \in TagsOf(list) |->
                    [i \in DOMAIN OnlyTags(list, {tag}) |-> OnlyTags(list, {tag})[i].value]]
  <1>5. Values(payload) = Values(encoded)
    <2>1. ValuesByTag(payload) = Values(payload)
      BY <1>1, FlatValues
    <2>2. ValuesByTag(encoded) = Values(encoded)
      BY <1>1, FlatValues
    <2> HIDE DEF Values
    <2> QED
      BY <2>1, <2>2 DEF SameFields
  <1>6. "SIGNATURE" \in TagsOf(payload)
    <2>1. DOMAIN Values(payload) = TagsOf(payload) /\ DOMAIN Values(encoded) = TagsOf(encoded)
      OBVIOUS
    <2> HIDE DEF Values
    <2> QED
      BY <1>3, <1>5, <2>1
  <1>7. [i \in DOMAIN mine |-> mine[i].value] = [i \in DOMAIN its |-> its[i].value]
    <2>1. Values(payload)["SIGNATURE"] = [i \in DOMAIN mine |-> mine[i].value]
      BY <1>6
    <2>2. Values(encoded)["SIGNATURE"] = [i \in DOMAIN its |-> its[i].value]
      BY <1>3
    <2> HIDE DEF Values, mine, its
    <2> QED
      BY <1>5, <2>1, <2>2
  <1>8. mine \in Seq(F)
    <2>1. Len(payload) \in 0..Len(payload) /\ Len(payload) \in Nat
      BY <1>2
    <2>2. Kept(payload, only)[Len(payload)] \in Seq(F)
      <3> HIDE DEF only
      <3> QED
        BY <1>2, <2>1, KeptGrows
    <2>3. mine = Kept(payload, only)[Len(payload)]
      <3> HIDE DEF only
      <3> QED
        BY <2>1, KeptIs
    <2> QED
      BY <2>2, <2>3
  <1>9. Len(mine) = 1 /\ mine[1].value = Host!SignatureOf(signed)
    <2> HIDE DEF mine, its
    <2>1. DOMAIN mine = DOMAIN its /\ \A i \in DOMAIN its : mine[i].value = its[i].value
      BY <1>7
    <2>2. DOMAIN mine = {1} /\ mine[1].value = Host!SignatureOf(signed)
      BY <1>4, <2>1
    <2>3. Len(mine) \in Nat /\ DOMAIN mine = 1..Len(mine)
      BY <1>8
    <2>4. Len(mine) = 1
      BY <2>2, <2>3
    <2> QED
      BY <2>2, <2>4
  <1>10. HashedFields(payload) = signed
    BY <1>3
  <1> QED
    BY <1>1, <1>2, <1>9, <1>10, SignedIsUnderstood

(* Metadata issued for an operation the device knows is accepted with its  *)
(* own signature wherever that stands in the payload, and is understood as *)
(* it was issued (action_metadata.c:164-193).                              *)
THEOREM IssuedMetadataIsUnderstood == Spec => []IssuedIsUnderstood
  <1>1. Init => FlatInv
    BY InitFlat
  <1>2. FlatInv /\ [Next]_vars => FlatInv'
    BY NextFlat
  <1>3. FlatInv => IssuedIsUnderstood
    BY FlatUnderstood
  <1> QED
    BY <1>1, <1>2, <1>3, PTL DEF Spec

-----------------------------------------------------------------------------
(* The amount of a margin update *)

(* A word survives the trip through the unsigned words.                    *)
LEMMA WordsRoundTrip ==
  ASSUME NEW n \in SignedWords
  PROVE  ToUnsigned(n) \in UnsignedWords /\ HandleNtli(ToUnsigned(n)) = n
  BY SignBitAssumption DEF SignedWords, UnsignedWords, ToUnsigned, ToSigned, HandleNtli

(* The magnitude is the absolute value and never leaves the unsigned words,*)
(* that of the most negative amount included.                              *)
LEMMA MagnitudeIsAbsolute ==
  ASSUME NEW n \in SignedWords
  PROVE  /\ Magnitude(n) \in UnsignedWords
         /\ Magnitude(n) = IF n < 0 THEN -n ELSE n
  BY SignBitAssumption DEF SignedWords, UnsignedWords, Magnitude, ToUnsigned, NegateUnsigned

(* The user reads the amount the host packed, for words of every width and *)
(* with it for the 64-bit words of the code (update_isolated_margin.c:     *)
(* 15-23, op_update_margin.c:19-23 and 46-60).                             *)
THEOREM AmountsAreShownFaithfully ==
  ASSUME NEW amount \in SignedWords, NEW page,
         page = ShowMarginUpdate(HandleNtli(ToUnsigned(amount)))
  PROVE  /\ AmountRead(page) = amount
         /\ page.removing <=> amount < 0
         /\ page.magnitude \in UnsignedWords
  <1>1. amount \in Int
    BY SignBitAssumption DEF SignedWords
  <1>2. (page.removing <=> amount < 0) /\ page.magnitude = Magnitude(amount)
    BY WordsRoundTrip DEF ShowMarginUpdate
  <1>3. /\ Magnitude(amount) \in UnsignedWords
        /\ Magnitude(amount) = IF amount < 0 THEN -amount ELSE amount
    BY MagnitudeIsAbsolute
  <1>4. AmountRead(page) = IF amount < 0 THEN -Magnitude(amount) ELSE Magnitude(amount)
    BY <1>2, Zenon DEF AmountRead
  <1>5. AmountRead(page) = amount
    BY <1>1, <1>3, <1>4
  <1> QED
    BY <1>2, <1>3, <1>5
=============================================================================
