------------------------------ MODULE ReaderQuery ------------------------------
(***************************************************************************)
(* The same query definitions in the desktop reader: article-query.ts      *)
(* matches them in the browser, after shared-query's normalize.ts has      *)
(* rewritten them; rules and saved views keep the rewritten definition.    *)
(* A user builds one up, predicate by predicate.                           *)
(***************************************************************************)
EXTENDS RuleQuery

CONSTANTS
  ReaderInstants,  \* the strings Date.parse reads, and the instants they name
  Values,          \* the values a predicate may be given
  Samples,         \* the articles it is tried on
  MaxDepth         \* bound: how deep a definition is nested

ASSUME DepthAssumption == MaxDepth \in Nat /\ MaxDepth <= MaxNesting
(* Date.parse reads what RFC 3339 knows as RFC 3339 does: the date-times   *)
(* are told apart by whole milliseconds, and none is a leap second.        *)
ASSUME InstantAssumption ==
  \A s \in DOMAIN Instants : s \in DOMAIN ReaderInstants /\ ReaderInstants[s] = Instants[s]
(* A JSON value is of one type.                                            *)
ASSUME ValueAssumption ==
  \A v \in Values :
    /\ Is(v, "string") => v = [string |-> v.string]
    /\ Is(v, "list") => \A x \in Range(v.list) : Is(x, "string") => x = [string |-> x.string]

VARIABLES
  root,    \* the root node of the definition being built
  depth    \* how deep it is nested

queryVars == <<root, depth>>

Str(s)             == [string |-> s]
Predicate(f, o, v) == [object |-> [kind |-> Str("predicate"), field |-> Str(f),
                                   operator |-> Str(o), value |-> v]]
Not(child)         == [object |-> [kind |-> Str("not"), child |-> child]]
Group(match, children) ==
  [object |-> [kind |-> Str("group"), match |-> Str(match), children |-> [list |-> children]]]
Definition(node) ==
  [object |-> [version |-> [number |-> 1], root |-> node, sort |-> [list |-> <<>>]]]

QueryOperators == Within \cup Exact \cup Ordered

(* What a definition may be joined with.                                   *)
Others == {Predicate("readState", "eq", Str("unread"))}

-------------------------------------------------------------------------------
(* getAnyTextValue, but for the tags, which are joined after these: a text *)
(* that is not there is joined as an empty one.                            *)
ReaderAnyText(context) ==
  LET texts == TextsOf(context)
  IN  [i \in DOMAIN texts |-> IF texts[i] = None THEN "" ELSE texts[i]]

(* matchScalarPredicate of a text                                          *)
ReaderMatchText(actual, operator, value) ==
  IF Is(value, "list")
    THEN LET found == [string |-> actual] \in Range(value.list)
         IN  IF operator = "notIn" THEN ~found ELSE found
    ELSE CASE operator = "eq" -> actual = value.string
           [] operator = "neq" -> actual # value.string
           [] operator = "contains" -> ContainsIgnoreCase(actual, value.string)
           [] operator = "notContains" -> ~ContainsIgnoreCase(actual, value.string)
           [] operator \in {"in", "notIn"} -> FALSE

(* matchArrayPredicate                                                     *)
ReaderMatchArray(values, operator, value) ==
  LET expected == IF Is(value, "list") THEN Range(value.list) ELSE {value}
      found    == \E v \in values : [string |-> v] \in expected
  IN  IF operator \in {"neq", "notIn", "notContains"} THEN ~found ELSE found

ReaderMatchDate(actual, operator, value) ==
  /\ actual \in DOMAIN ReaderInstants
  /\ value.string \in DOMAIN ReaderInstants
  /\ Compare(ReaderInstants[actual], operator, ReaderInstants[value.string])

(* matchesPredicate                                                        *)
ReaderMatchPredicate(node, context) ==
  LET field    == node.field.string
      operator == node.operator.string
      scalar   == IF field \in DateFields THEN DateOf(context, field) ELSE TextOf(context, field)
  IN  CASE field = "anyText" ->
             LET found == JoinContains(ReaderAnyText(context), context.tags, node.value.string)
             IN  IF operator = "contains" THEN found ELSE ~found
        [] field = "tag" -> ReaderMatchArray(context.tags, operator, node.value)
        [] field \in FlagFields ->
             (operator = "eq") = (FlagOf(context, field) = node.value.bool)
        [] OTHER ->
             IF scalar = None THEN operator \in {"neq", "notContains"}
             ELSE IF field \in DateFields THEN ReaderMatchDate(scalar, operator, node.value)
             ELSE ReaderMatchText(scalar, operator, node.value)

(* matchesNode                                                             *)
ReaderMatchNode(json, context) ==
  LET matches[n \in NodesOf(json)] ==
        LET node == n.object
        IN  CASE node.kind.string = "group" /\ node.match.string = "all" ->
                   \A child \in Range(node.children.list) : matches[child]
              [] node.kind.string = "group" /\ node.match.string # "all" ->
                   \E child \in Range(node.children.list) : matches[child]
              [] node.kind.string = "not" -> ~matches[node.child]
              [] node.kind.string = "predicate" -> ReaderMatchPredicate(node, context)
  IN  matches[json]

Dissolves(match, child) ==
  Read(child.object, "kind") = "group" /\ child.object.match.string = match

(* normalizeGroup, of normalized children                                  *)
NormalizeGroup(match, children) ==
  LET parts == [i \in DOMAIN children |->
                  IF Dissolves(match, children[i]) THEN children[i].object.children.list
                                                   ELSE <<children[i]>>]
      flat  == FlattenSeq(parts)
  IN  IF Len(flat) = 1 THEN flat[1] ELSE Group(match, flat)

(* normalizeQueryNode, where normal is what it makes of the nodes below,   *)
(* and again of the node that a double negation of these is of.            *)
NormalizeNode(n, normal, again) ==
  LET node == n.object
  IN  CASE node.kind.string = "group" ->
             NormalizeGroup(node.match.string,
               [i \in DOMAIN node.children.list |-> normal[node.children.list[i]]])
        [] node.kind.string = "not" ->
             IF normal[node.child].object.kind.string = "not" THEN again
                                                              ELSE Not(normal[node.child])
        [] node.kind.string = "predicate" -> n

(* A normalized node has no double negation.                               *)
NormalizeAgain(json) ==
  LET normal[n \in NodesOf(json)] == NormalizeNode(n, normal, None) IN normal[json]

NormalizeQueryNode(json) ==
  LET normal[n \in NodesOf(json)] ==
        NormalizeNode(n, normal, NormalizeAgain(normal[n.object.child].object.child))
  IN  normal[json]

-------------------------------------------------------------------------------
QueryInit ==
  /\ root \in {Predicate(f, o, v) : f \in QueryFields, o \in QueryOperators, v \in Values}
              \cup {Group("all", <<>>)}
  /\ depth = 0

Deeper(node) == depth < MaxDepth /\ root' = node /\ depth' = depth + 1

Negate == Deeper(Not(root))

Join(match) == \E other \in Others : Deeper(Group(match, <<root, other>>))

QueryNext == Negate \/ \E match \in {"all", "any"} : Join(match)

(* When nothing else of the application is at work.                        *)
QuerySpec == QueryInit /\ [][QueryNext]_queryVars

QueryTypeOK == "object" \in DOMAIN root /\ depth \in 0 .. MaxDepth

-------------------------------------------------------------------------------
(* What is asked of any text is asked of two joined texts: only the reader *)
(* joins the tags, and what is not there it joins with a space of its own. *)
(* They agree of an article without tags that has all of its texts, and of *)
(* the others on what no tag contains and what is found in either join     *)
(* only within one of its parts.                                           *)
AnyTextAlike(context, value) ==
  \/ context.tags = {} /\ \A i \in DOMAIN TextsOf(context) : TextsOf(context)[i] # None
  \/ /\ \A tag \in context.tags \cup {""} : ~ContainsIgnoreCase(tag, value)
     /\ <<AnyText(context), {}, value>> \notin Across
     /\ <<ReaderAnyText(context), context.tags, value>> \notin Across

(* Where the two are not known to differ: they do in any text, as above,   *)
(* and in the dates only Date.parse reads.                                 *)
SeenAlike(json, context) ==
  \A node \in Predicates(json) :
    /\ node.field.string = "anyText" => AnyTextAlike(context, node.value.string)
    /\ node.field.string \in DateFields =>
         /\ node.value.string \in DOMAIN ReaderInstants => node.value.string \in DOMAIN Instants
         /\ DateOf(context, node.field.string) \in DOMAIN Instants \cup {None}

(* Every definition the rule engine accepts has the same answer in the     *)
(* reader that shows what a rule will do, for each article, unless it asks *)
(* for what the two are known to see differently; and rewriting it changes *)
(* neither that it is accepted nor its answer.                             *)
ReaderAgreesWithRules ==
  ParseQueryDefinition(Definition(root)) =>
    LET normal == NormalizeQueryNode(root)
    IN  /\ ParseQueryDefinition(Definition(normal))
        /\ \A context \in Samples :
             /\ MatchNode(normal, context) = MatchNode(root, context)
             /\ SeenAlike(root, context) =>
                  ReaderMatchNode(normal, context) = MatchQueryDefinition(Definition(root), context)
===============================================================================
