------------------------------- MODULE RuleQuery ------------------------------
(***************************************************************************)
(* crates/rule-engine/src/{query,engine}.rs: which query definitions are   *)
(* accepted, and which articles an accepted one matches.                   *)
(*                                                                         *)
(* A JSON value is a record with one field, named for its type.  Parsing   *)
(* drops what it reports, and reports all it drops, so an accepted value   *)
(* stands for the definition that is made of it.                           *)
(***************************************************************************)
EXTENDS Integers, Sequences, SequencesExt

CONSTANTS
  Inside,      \* <<a, b>>: the text a contains b, upper and lower case alike
  Across,      \* <<texts, tags, b>>: these, joined by spaces, contain b where
               \* none of them does alone
  Instants,    \* Instants[s]: the instant the RFC 3339 date-time s names
  None,        \* a value that is not there
  MaxNesting   \* how deep JSON may be nested (128 where serde_json reads it)

ASSUME NestingAssumption == MaxNesting \in Nat

Is(json, type)      == json # None /\ type \in DOMAIN json
Get(object, key)    == IF key \in DOMAIN object THEN object[key] ELSE None
Read(object, key)   == IF Is(Get(object, key), "string") THEN object[key].string ELSE None

ReadStates  == {"unread", "reading", "read"}
Importances == {"low", "normal", "high"}
Exact       == {"eq", "neq", "in", "notIn"}
Within      == {"contains", "notContains"}
Ordered     == {"eq", "neq", "gt", "gte", "lt", "lte"}

TextFields == {"anyText", "feedId", "title", "author", "summary", "content",
               "feedTitle", "tag", "language"}
DateFields == {"publishedAt", "fetchedAt"}
FlagFields == {"starred", "liked", "readLater", "hasAttachment"}
EnumFields == {"readState", "importance"}
SortFields  == {"publishedAt", "fetchedAt", "title", "feedTitle", "importance"}
QueryFields == TextFields \cup DateFields \cup FlagFields \cup EnumFields

(* QueryField::schema                                                      *)
Kind(field) ==
  CASE field \in FlagFields -> "boolean" [] field \in DateFields -> "datetime"
    [] field \in EnumFields -> "enum"    [] field \in TextFields -> "text"

Operators(field) ==
  CASE field = "anyText" -> Within
    [] field \in {"title", "author", "summary", "feedTitle"} -> Within \cup Exact
    [] field = "content" -> Within \cup {"eq", "neq"}
    [] field \in {"feedId", "tag", "language"} \cup EnumFields -> Exact
    [] field \in DateFields -> Ordered
    [] field \in FlagFields -> {"eq", "neq"}

(* schema.values, when the field has any                                   *)
IsMember(field, string) ==
  CASE field = "readState"  -> string \in ReadStates
    [] field = "importance" -> string \in Importances
    [] OTHER -> TRUE

(* validate_predicate_value: a list is for in and notIn, which also take a *)
(* single string.                                                          *)
ValidValue(field, operator, value) ==
  IF Is(value, "list")
    THEN /\ value.list # <<>>
         /\ operator \in {"in", "notIn"}
         /\ \A i \in DOMAIN value.list : /\ Is(value.list[i], "string")
                                         /\ IsMember(field, value.list[i].string)
    ELSE IF Kind(field) = "boolean" THEN Is(value, "bool")
    ELSE Is(value, "string") /\ IsMember(field, value.string)

AcceptsPredicate(node) ==
  /\ Read(node, "field") \in QueryFields
  /\ Read(node, "operator") \in Operators(Read(node, "field"))
  /\ ValidValue(Read(node, "field"), Read(node, "operator"), Get(node, "value"))

(* The values read_node goes on with from a node.                          *)
ChildrenOf(json) ==
  IF ~Is(json, "object") THEN {}
  ELSE LET node == json.object
       IN  CASE Read(node, "kind") = "group" /\ Is(Get(node, "children"), "list") ->
                  Range(node.children.list)
             [] Read(node, "kind") = "not" -> {Get(node, "child")}
             [] OTHER -> {}

(* A node and all below it.                                                *)
NodesOf(json) ==
  LET nodes[depth \in 0 .. MaxNesting] ==
        IF depth = 0 THEN {json} ELSE UNION {{n} \cup ChildrenOf(n) : n \in nodes[depth - 1]}
  IN  nodes[MaxNesting]

(* read_node                                                               *)
AcceptsNode(json) ==
  LET accepts[n \in NodesOf(json)] ==
        /\ Is(n, "object")
        /\ LET node == n.object
           IN  CASE Read(node, "kind") = "group" ->
                      /\ Read(node, "match") \in {"all", "any"}
                      /\ Is(Get(node, "children"), "list")
                      /\ node.children.list # <<>>
                      /\ \A i \in DOMAIN node.children.list : accepts[node.children.list[i]]
                 [] Read(node, "kind") = "not" -> accepts[Get(node, "child")]
                 [] Read(node, "kind") = "predicate" -> AcceptsPredicate(node)
                 [] OTHER -> FALSE
  IN  accepts[json]

(* read_sort                                                               *)
AcceptsSort(json) ==
  /\ Is(json, "object")
  /\ Read(json.object, "field") \in SortFields
  /\ Read(json.object, "direction") \in {"asc", "desc"}
  /\ Read(json.object, "nulls") \in {"first", "last"}

(* parse_query_definition                                                  *)
ParseQueryDefinition(json) ==
  /\ Is(json, "object")
  /\ Get(json.object, "version") = [number |-> 1]
  /\ AcceptsNode(Get(json.object, "root"))
  /\ Is(Get(json.object, "sort"), "list")
  /\ \A i \in DOMAIN json.object.sort.list : AcceptsSort(json.object.sort.list[i])

-------------------------------------------------------------------------------
(* RuleMatchContext: an article with what belongs to it.  A text that is   *)
(* not there is None, and so is the feed or the user state.                *)
DefaultState == [read_state |-> "unread", starred |-> FALSE, liked |-> FALSE,
                 read_later |-> FALSE, importance |-> "normal"]
StateOf(context) == IF context.state = None THEN DefaultState ELSE context.state

FeedTitle(context) ==
  IF context.feed = None THEN None
  ELSE IF context.feed.custom_name # None THEN context.feed.custom_name
  ELSE context.feed.title

ContentText(context) ==
  IF context.content_extracted # None THEN context.content_extracted ELSE context.content_raw

(* The texts of an article, in the order they are joined in.               *)
TextsOf(context) ==
  <<context.title, FeedTitle(context), context.author, context.summary,
    context.content_extracted, context.content_raw>>

(* Slip: the raw text is left out when there is an extracted one.          *)
AnyTextShown(context) ==
  LET texts == TextsOf(context)
      left  == IF texts[5] = None THEN {} ELSE {6}
  IN  [i \in {j \in DOMAIN texts \ left : texts[j] # None} |-> texts[i]]

(* any_text joins those that are there; they keep their places here.       *)
AnyText(context) ==
  LET texts == TextsOf(context)
  IN  [i \in {j \in DOMAIN texts : texts[j] # None} |-> texts[i]]

FlagOf(context, field) ==
  CASE field = "starred"       -> StateOf(context).starred
    [] field = "liked"         -> StateOf(context).liked
    [] field = "readLater"     -> StateOf(context).read_later
    [] field = "hasAttachment" -> context.attachments # <<>>

TextOf(context, field) ==
  CASE field = "feedId"     -> context.feed_id
    [] field = "title"      -> context.title
    [] field = "author"     -> context.author
    [] field = "summary"    -> context.summary
    [] field = "content"    -> ContentText(context)
    [] field = "feedTitle"  -> FeedTitle(context)
    [] field = "language"   -> context.language
    [] field = "readState"  -> StateOf(context).read_state
    [] field = "importance" -> StateOf(context).importance

DateOf(context, field) ==
  IF field = "publishedAt" THEN context.published_at ELSE context.fetched_at

MatchMissingScalar(operator) == operator \in {"neq", "notContains"}

ContainsIgnoreCase(actual, expected) == <<actual, expected>> \in Inside

(* The order of texts is left out: no field that is a text allows it.      *)
MatchString(actual, operator, value) ==
  IF Is(value, "list")
    THEN CASE operator = "in"    -> [string |-> actual] \in Range(value.list)
           [] operator = "notIn" -> [string |-> actual] \notin Range(value.list)
    ELSE CASE operator = "eq"          -> actual = value.string
           [] operator = "neq"         -> actual # value.string
           [] operator = "contains"    -> ContainsIgnoreCase(actual, value.string)
           [] operator = "notContains" -> ~ContainsIgnoreCase(actual, value.string)
           [] OTHER                    -> FALSE

MatchOptionalString(actual, operator, value) ==
  IF actual = None THEN MatchMissingScalar(operator) ELSE MatchString(actual, operator, value)

(* The texts and then the tags, joined by spaces, contain the value.       *)
JoinContains(texts, tags, value) ==
  \/ \E i \in DOMAIN texts : ContainsIgnoreCase(texts[i], value)
  \/ \E tag \in tags : ContainsIgnoreCase(tag, value)
  \/ <<texts, tags, value>> \in Across

(* match_string of the joined texts                                        *)
MatchAnyText(context, operator, value) ==
  LET found == JoinContains(AnyText(context), {}, value.string)
  IN  IF operator = "contains" THEN found ELSE ~found

(* Slip: some value that is not the expected one is enough for neq.        *)
MatchSomeOther(values, operator, value) ==
  LET expected == IF Is(value, "list") THEN {v.string : v \in Range(value.list)}
                                       ELSE {value.string}
  IN  IF operator \in {"eq", "in"} THEN values \cap expected # {} ELSE values \ expected # {}

MatchStringList(values, operator, value) ==
  LET expected == IF Is(value, "list") THEN {v.string : v \in Range(value.list)}
                                       ELSE {value.string}
  IN  IF operator \in {"eq", "in"} THEN values \cap expected # {} ELSE values \cap expected = {}

MatchBool(actual, operator, value) ==
  IF operator = "eq" THEN actual = value.bool ELSE actual # value.bool

Compare(actual, operator, expected) ==
  CASE operator = "eq" -> actual = expected [] operator = "neq" -> actual # expected
    [] operator = "gt" -> actual > expected [] operator = "gte" -> actual >= expected
    [] operator = "lt" -> actual < expected [] operator = "lte" -> actual <= expected

MatchDateTime(actual, operator, value) ==
  IF actual = None \/ actual \notin DOMAIN Instants THEN MatchMissingScalar(operator)
  ELSE IF value.string \notin DOMAIN Instants THEN FALSE
  ELSE Compare(Instants[actual], operator, Instants[value.string])

MatchPredicate(node, context) ==
  LET field    == node.field.string
      operator == node.operator.string
  IN  CASE field = "anyText" -> MatchAnyText(context, operator, node.value)
        [] field = "tag" -> MatchStringList(context.tags, operator, node.value)
        [] field \in DateFields -> MatchDateTime(DateOf(context, field), operator, node.value)
        [] field \in FlagFields -> MatchBool(FlagOf(context, field), operator, node.value)
        [] OTHER -> MatchOptionalString(TextOf(context, field), operator, node.value)

(* match_node                                                              *)
MatchNode(json, context) ==
  LET matches[n \in NodesOf(json)] ==
        LET node == n.object
        IN  CASE node.kind.string = "group" ->
                   IF node.match.string = "all"
                     THEN \A child \in Range(node.children.list) : matches[child]
                     ELSE \E child \in Range(node.children.list) : matches[child]
              [] node.kind.string = "not" -> ~matches[node.child]
              [] node.kind.string = "predicate" -> MatchPredicate(node, context)
  IN  matches[json]

(* match_query_definition                                                  *)
MatchQueryDefinition(json, context) == MatchNode(json.object.root, context)

(* The predicates of an accepted definition.                               *)
Predicates(json) == {n.object : n \in {x \in NodesOf(json) : x.object.kind.string = "predicate"}}
===============================================================================
