---------------------------- MODULE PayloadEdits ----------------------------
(***************************************************************************)
(* Ways in which a payload, a sequence of fields [tag, value] nested in    *)
(* one another, can differ from the one a host meant to send, and what it  *)
(* takes for two payloads to hold the same fields.  Not part of the        *)
(* program: the inputs of the parsers.                                     *)
(***************************************************************************)
EXTENDS Naturals, SequencesExt

(* The tags whose value is again a sequence of fields *)
NestedTags == {"ACTION", "ORDER", "BUILDER", "MODIFY_REQUEST", "CANCEL_REQUEST"}

-----------------------------------------------------------------------------
(* A list of fields inside a payload is named by the path that leads to it *)
(* from the outermost one.  The deepest is the body of the order of a      *)
(* modification, four lists below the outermost.                           *)

ListAt(payload, path) ==
    LET list[n \in 0..Len(path)] == IF n = 0 THEN payload ELSE list[n - 1][path[n]].value
    IN  list[Len(path)]

Below(payload, paths) ==
    UNION {LET list == ListAt(payload, path)
           IN  {Append(path, i) : i \in {j \in DOMAIN list : list[j].tag \in NestedTags}} :
               path \in paths}

Paths(payload) ==
    LET one   == Below(payload, {<<>>})
        two   == Below(payload, one)
        three == Below(payload, two)
        four  == Below(payload, three)
    IN  {<<>>} \cup one \cup two \cup three \cup four

WithListAt(payload, path, list) ==
    LET new[n \in 0..Len(path)] ==
            IF n = Len(path) THEN list
            ELSE [ListAt(payload, SubSeq(path, 1, n)) EXCEPT ![path[n + 1]].value = new[n + 1]]
    IN  new[0]

-----------------------------------------------------------------------------
(* The lists one edit of a kind can make of a list *)

Moves(list) ==
    UNION {{<<list[i]>> \o RemoveAt(list, i), Append(RemoveAt(list, i), list[i])} :
              i \in DOMAIN list}

Losses(list) == {RemoveAt(list, i) : i \in DOMAIN list}

Repetitions(list) == {InsertAt(list, i, list[i]) : i \in DOMAIN list}

Replacements(list, Values(_)) ==
    UNION {{[list EXCEPT ![i].value = value] : value \in Values(list[i].tag)} :
              i \in DOMAIN list}

Retaggings(list, TagsLike(_)) ==
    UNION {{[list EXCEPT ![i].tag = tag] : tag \in TagsLike(list[i].tag)} : i \in DOMAIN list}

-----------------------------------------------------------------------------
(* The values a payload gives each tag, in their order: two payloads with  *)
(* the same differ only in the order of fields of different tags.          *)

TagsOf(fields) == {fields[i].tag : i \in DOMAIN fields}

(* The fields of these tags, in their order *)
OnlyTags(fields, tags) ==
    LET kept[n \in 0..Len(fields)] ==
            IF n = 0 THEN <<>>
            ELSE IF fields[n].tag \in tags THEN Append(kept[n - 1], fields[n])
            ELSE kept[n - 1]
    IN  kept[Len(fields)]

ValuesByTag(payload) ==
    LET values[fields \in {ListAt(payload, path) : path \in Paths(payload)}] ==
            [tag \in TagsOf(fields) |->
                LET same == OnlyTags(fields, {tag})
                IN  [i \in DOMAIN same |-> IF tag \in NestedTags THEN values[same[i].value]
                                                                 ELSE same[i].value]]
    IN  values[payload]

SameFields(payload1, payload2) == ValuesByTag(payload1) = ValuesByTag(payload2)

Precedes(list, tag1, tag2) ==
    \A i, j \in DOMAIN list : list[i].tag = tag1 /\ list[j].tag = tag2 => i < j
=============================================================================
