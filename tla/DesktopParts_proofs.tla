-------------------------- MODULE DesktopParts_proofs --------------------------
(***************************************************************************)
(* Proofs about RuleRun, ReaderQuery, ReaderCache and LocalApi, and about  *)
(* the desktop application made of all its parts.                          *)
(***************************************************************************)
EXTENDS DesktopParts, Desktop_proofs, WellFoundedInduction

-------------------------------------------------------------------------------
(* RuleRun.                                                                *)

(* A definition's answer depends on the answers of its predicates only.    *)
LEMMA MatchOfPredicates ==
  ASSUME NEW json, NEW c, NEW d,
         \A node \in Predicates(json) : MatchPredicate(node, c) = MatchPredicate(node, d)
  PROVE  MatchNode(json, c) = MatchNode(json, d)
<1> DEFINE D == NodesOf(json)
           Step(matches, n, context) ==
             LET node == n.object
             IN  CASE node.kind.string = "group" ->
                        IF node.match.string = "all"
                          THEN \A child \in Range(node.children.list) : matches[child]
                          ELSE \E child \in Range(node.children.list) : matches[child]
                   [] node.kind.string = "not" -> ~matches[node.child]
                   [] node.kind.string = "predicate" -> MatchPredicate(node, context)
<1>1. \A n \in D : n.object.kind.string = "predicate"
                     => MatchPredicate(n.object, c) = MatchPredicate(n.object, d)
  BY DEF Predicates
<1>2. \A matches, n : n.object.kind.string # "predicate" => Step(matches, n, c) = Step(matches, n, d)
  OBVIOUS
<1>3. \A matches, n : n.object.kind.string = "predicate" =>
         Step(matches, n, c) = MatchPredicate(n.object, c) /\ Step(matches, n, d) = MatchPredicate(n.object, d)
  OBVIOUS
<1>4. \A matches : \A n \in D : Step(matches, n, c) = Step(matches, n, d)
  BY <1>1, <1>2, <1>3
<1> HIDE DEF Step
<1>5. (CHOOSE f : f = [n \in D |-> Step(f, n, c)]) = (CHOOSE f : f = [n \in D |-> Step(f, n, d)])
  <2>1. \A f : f = [n \in D |-> Step(f, n, c)] <=> f = [n \in D |-> Step(f, n, d)]
    BY <1>4
  <2> QED
    BY <2>1
<1>6. \A context : MatchNode(json, context) = (CHOOSE f : f = [n \in D |-> Step(f, n, context)])[json]
  BY DEF MatchNode, Step
<1> QED
  BY <1>5, <1>6

-------------------------------------------------------------------------------
(* An article as a rule sees it, and as the audit has it.                  *)

LEMMA StateIsKnown ==
  ASSUME NEW c, IsContext(c)
  PROVE  StateOf(c) \in UserState /\ StateOf(c) # None
<1>1. DefaultState \in UserState
  BY DEF DefaultState, UserState, ReadStates, Importances
<1> QED
  BY <1>1, RuleAssumption DEF StateOf, IsContext

(* What the audit has is the article again, but for its longer texts.      *)
LEMMA SeenIsSubject ==
  ASSUME NEW c, IsContext(c),
         NEW s, s = SeenIn(InputSnapshotJson(SnapshotFromContext(c)))
  PROVE  /\ StateOf(s) = StateOf(c)
         /\ s.feed = None <=> c.feed = None
         /\ FolderOf(s) = FolderOf(c) /\ FeedTitle(s) = FeedTitle(c)
         /\ s.tags = c.tags /\ s.attachments = c.attachments
         /\ s.title = c.title /\ s.author = c.author /\ s.language = c.language
         /\ s.published_at = c.published_at /\ s.fetched_at = c.fetched_at
         /\ s.feed_id = c.feed_id
<1> DEFINE given == SnapshotFromContext(c)
           json == InputSnapshotJson(given)
           Fields == {"title", "author", "summary", "content_extracted", "content_raw", "language",
                      "published_at", "fetched_at", "feed_id", "feed", "state", "tags", "attachments"}
           Told == {"title", "author", "language", "published_at", "fetched_at", "feed_id",
                    "tags", "attachments"}
<1>1. DOMAIN c = Fields
  BY DEF IsContext
<1>2. /\ DOMAIN given = Fields /\ \A f \in Told : given[f] = c[f]
      /\ given.state = StateOf(c)
      /\ c.feed = None => given.feed = None
      /\ c.feed # None => given.feed = [title |-> FeedTitle(c), custom_name |-> None,
                                        folder |-> c.feed.folder]
  BY <1>1 DEF SnapshotFromContext
<1>3. /\ DOMAIN json = Fields /\ \A f \in Told : json[f] = given[f]
      /\ json.state = given.state
      /\ given.feed = None => json.feed = [title |-> None, folder |-> None]
      /\ given.feed # None => json.feed = [title |-> given.feed.title,
                                           folder |-> FolderJson(given.feed.folder)]
  BY <1>2 DEF InputSnapshotJson
<1>4. /\ \A f \in Told : s[f] = json[f]
      /\ s.state = json.state
      /\ json.feed.title = None => s.feed = None
      /\ json.feed.title # None =>
           s.feed = [title |-> json.feed.title, custom_name |-> None,
                     folder |-> IF json.feed.folder = None THEN Root ELSE json.feed.folder]
  BY <1>3 DEF SeenIn
<1> HIDE DEF given, json
<1>5. StateOf(s) = StateOf(c)
  <2>1. s.state = StateOf(c)
    BY <1>2, <1>3, <1>4
  <2> QED
    BY <2>1, StateIsKnown DEF StateOf
<1>6. /\ s.feed = None <=> c.feed = None
      /\ FolderOf(s) = FolderOf(c) /\ FeedTitle(s) = FeedTitle(c)
  <2>1. CASE c.feed = None
    <3>1. s.feed = None
      BY <2>1, <1>2, <1>3, <1>4
    <3> QED
      BY <3>1, <2>1 DEF FolderOf, FeedTitle
  <2>2. CASE c.feed # None
    <3>1. FeedTitle(c) \in STRING /\ FeedTitle(c) # None /\ c.feed.folder \in STRING /\ c.feed.folder # None
      BY <2>2, RuleAssumption DEF FeedTitle, IsContext, FeedState
    <3>2. given.feed # None
      <4>1. given.feed \in FeedState
        BY <3>1, <2>2, <1>2 DEF FeedState
      <4> QED
        BY <4>1, RuleAssumption
    <3>3. /\ json.feed.title = FeedTitle(c)
          /\ json.feed.folder = FolderJson(c.feed.folder)
      BY <3>2, <2>2, <1>2, <1>3
    <3>4. s.feed = [title |-> FeedTitle(c), custom_name |-> None, folder |-> c.feed.folder]
      BY <3>1, <3>3, <1>4 DEF FolderJson
    <3>5. s.feed # None
      <4>1. s.feed \in FeedState
        BY <3>1, <3>4 DEF FeedState
      <4> QED
        BY <4>1, RuleAssumption
    <3> QED
      BY <3>4, <3>5, <2>2 DEF FolderOf, FeedTitle
  <2> QED
    BY <2>1, <2>2
<1> QED
  BY <1>1, <1>2, <1>3, <1>4, <1>5, <1>6

(* So the audit gives the same answer to what it explains, ...             *)
LEMMA SeenMatches ==
  ASSUME NEW c, IsContext(c),
         NEW node, node.field.string \in QueryFields \ {"anyText", "summary", "content"}
  PROVE  MatchPredicate(node, SeenIn(InputSnapshotJson(SnapshotFromContext(c))))
           = MatchPredicate(node, c)
<1> DEFINE seen == SeenIn(InputSnapshotJson(SnapshotFromContext(c)))
           field == node.field.string
<1>1. /\ StateOf(seen) = StateOf(c) /\ FeedTitle(seen) = FeedTitle(c)
      /\ seen.tags = c.tags /\ seen.attachments = c.attachments
      /\ seen.title = c.title /\ seen.author = c.author /\ seen.language = c.language
      /\ seen.published_at = c.published_at /\ seen.fetched_at = c.fetched_at
      /\ seen.feed_id = c.feed_id
  BY SeenIsSubject
<1> HIDE DEF seen
<1> SUFFICES MatchPredicate(node, seen) = MatchPredicate(node, c)
  BY DEF seen
<1>2. CASE field = "tag"
  <2>1. \A x : MatchPredicate(node, x) = MatchStringList(x.tags, node.operator.string, node.value)
    BY <1>2 DEF MatchPredicate, DateFields, FlagFields
  <2> QED
    BY <2>1, <1>1
<1>3. CASE field \in DateFields
  <2>1. \A x : MatchPredicate(node, x)
                 = MatchDateTime(DateOf(x, field), node.operator.string, node.value)
    BY <1>3 DEF MatchPredicate, DateFields, FlagFields
  <2>2. DateOf(seen, field) = DateOf(c, field)
    BY <1>1 DEF DateOf
  <2> QED
    BY <2>1, <2>2
<1>4. CASE field \in FlagFields
  <2>1. \A x : MatchPredicate(node, x)
                 = MatchBool(FlagOf(x, field), node.operator.string, node.value)
    BY <1>4 DEF MatchPredicate, FlagFields, DateFields
  <2>2. FlagOf(seen, field) = FlagOf(c, field)
    BY <1>1, <1>4 DEF FlagOf, FlagFields
  <2> QED
    BY <2>1, <2>2
<1>5. CASE field \in EnumFields \cup {"feedId", "title", "author", "feedTitle", "language"}
  <2>1. \A x : MatchPredicate(node, x)
                 = MatchOptionalString(TextOf(x, field), node.operator.string, node.value)
    BY <1>5 DEF MatchPredicate, EnumFields, FlagFields, DateFields
  <2>2. TextOf(seen, field) = TextOf(c, field)
    BY <1>1, <1>5 DEF TextOf, EnumFields
  <2> QED
    BY <2>1, <2>2
<1> QED
  BY <1>2, <1>3, <1>4, <1>5 DEF QueryFields, TextFields, EnumFields

LEMMA ExplainedMatches ==
  ASSUME NEW conditions, IsExplained(conditions), NEW c, IsContext(c)
  PROVE  MatchQueryDefinition(conditions, SeenIn(InputSnapshotJson(SnapshotFromContext(c))))
           = MatchQueryDefinition(conditions, c)
<1>1. \A node \in Predicates(conditions.object.root) :
        MatchPredicate(node, SeenIn(InputSnapshotJson(SnapshotFromContext(c))))
          = MatchPredicate(node, c)
  BY SeenMatches DEF IsExplained
<1> QED
  BY <1>1, MatchOfPredicates DEF MatchQueryDefinition

(* ... and the same plan to every definition.                              *)
LEMMA SeenPlans ==
  ASSUME NEW c, IsContext(c), NEW definition
  PROVE  ActionPlan(definition, SeenIn(InputSnapshotJson(SnapshotFromContext(c))))
           = ActionPlan(definition, c)
<1> DEFINE seen == SeenIn(InputSnapshotJson(SnapshotFromContext(c)))
<1>1. /\ StateOf(seen) = StateOf(c) /\ (seen.feed = None <=> c.feed = None)
      /\ FolderOf(seen) = FolderOf(c)
      /\ seen.tags = c.tags /\ seen.attachments = c.attachments
  BY SeenIsSubject
<1> HIDE DEF seen
<1>2. /\ StateChanges(definition, seen) = StateChanges(definition, c)
      /\ NewTags(definition, seen) = NewTags(definition, c)
      /\ CachedAttachments(seen) = CachedAttachments(c)
  BY <1>1 DEF StateChanges, NewTags, CachedAttachments
<1> QED
  BY <1>1, <1>2 DEF ActionPlan, seen

-------------------------------------------------------------------------------
(* A plan, command by command.                                             *)
When(condition, command) == IF condition THEN <<command>> ELSE <<>>
UpdateCommand(changes) == [type |-> "updateUserState", changes |-> changes]
TagsCommand(tags)      == [type |-> "addArticleTags", tag_names |-> tags]
MoveCommand(from, to)  == [type |-> "moveFeedToFolder", from |-> from, to |-> to]
ClearCommand(cached)   == [type |-> "clearAttachmentCaches", attachments |-> cached]
Moves(definition, c) ==
  /\ definition.move_to_folder # None
  /\ c.feed = None \/ FolderOf(c) # definition.move_to_folder
Clears(definition, c) == definition.clear /\ CachedAttachments(c) # {}

UpdatePlan(definition, c) ==
  When(DOMAIN StateChanges(definition, c) # {}, UpdateCommand(StateChanges(definition, c)))
TagsPlan(definition, c) ==
  When(NewTags(definition, c) # {}, TagsCommand(NewTags(definition, c)))
MovePlan(definition, c) ==
  When(Moves(definition, c), MoveCommand(FolderOf(c), definition.move_to_folder))
ClearPlan(definition, c) ==
  When(Clears(definition, c), ClearCommand(CachedAttachments(c)))

LEMMA PlanIsParts ==
  ASSUME NEW definition, NEW c
  PROVE  ActionPlan(definition, c) =
           UpdatePlan(definition, c) \o TagsPlan(definition, c)
             \o MovePlan(definition, c) \o ClearPlan(definition, c)
BY DEF ActionPlan, UpdatePlan, TagsPlan, MovePlan, ClearPlan, When, Moves, Clears,
       UpdateCommand, TagsCommand, MoveCommand, ClearCommand

(* The first of four sequences of at most one command that is not empty.   *)
LEMMA FirstOfFour ==
  ASSUME NEW S, NEW x \in S, NEW b \in Seq(S), NEW c \in Seq(S), NEW d \in Seq(S),
         NEW plan, plan = <<x>> \o b \o c \o d
  PROVE  Head(plan) = x /\ Tail(plan) = <<>> \o b \o c \o d
<1>1. \A t \in Seq(S) : <<>> \o t = t /\ t \o <<>> = t
  OBVIOUS
<1>2. \A t \in Seq(S) : Head(<<x>> \o t) = x /\ Tail(<<x>> \o t) = t
  OBVIOUS
<1>3. \A t, u, v \in Seq(S) : t \o u \in Seq(S) /\ t \o u \o v = t \o (u \o v)
  OBVIOUS
<1>4. <<>> \in Seq(S) /\ <<x>> \in Seq(S)
  OBVIOUS
<1>5. b \o c \in Seq(S) /\ b \o c \o d \in Seq(S)
  BY <1>3
<1>6. plan = <<x>> \o (b \o c \o d)
  <2>1. <<x>> \o b \o c = <<x>> \o (b \o c)
    BY <1>3, <1>4
  <2>2. <<x>> \o (b \o c) \o d = <<x>> \o (b \o c \o d)
    BY <1>3, <1>4, <1>5
  <2> QED
    BY <2>1, <2>2
<1>7. <<>> \o b \o c \o d = b \o c \o d
  BY <1>1
<1> QED
  BY <1>2, <1>5, <1>6, <1>7

LEMMA OneBeforeTwo ==
  ASSUME NEW S, NEW x \in S, NEW c \in Seq(S), NEW d \in Seq(S)
  PROVE  c \o d \in Seq(S) /\ <<x>> \o c \o d = <<x>> \o (c \o d)
OBVIOUS

LEMMA SecondOfFour ==
  ASSUME NEW S, NEW x \in S, NEW c \in Seq(S), NEW d \in Seq(S),
         NEW plan, plan = <<>> \o <<x>> \o c \o d
  PROVE  Head(plan) = x /\ Tail(plan) = <<>> \o <<>> \o c \o d
<1>1. \A t \in Seq(S) : <<>> \o t = t /\ t \o <<>> = t
  OBVIOUS
<1>2. \A t \in Seq(S) : Head(<<x>> \o t) = x /\ Tail(<<x>> \o t) = t
  OBVIOUS
<1>3. c \o d \in Seq(S) /\ <<x>> \o c \o d = <<x>> \o (c \o d)
  BY OneBeforeTwo
<1>4. <<>> \in Seq(S) /\ <<x>> \in Seq(S)
  OBVIOUS
<1>5. c \o d \in Seq(S)
  BY <1>3
<1>6. plan = <<x>> \o (c \o d)
  BY <1>1, <1>3, <1>4
<1>7. <<>> \o <<>> \o c \o d = c \o d
  BY <1>1, <1>4
<1> QED
  BY <1>2, <1>5, <1>6, <1>7

LEMMA ThirdOfFour ==
  ASSUME NEW S, NEW x \in S, NEW d \in Seq(S), NEW plan, plan = <<>> \o <<>> \o <<x>> \o d
  PROVE  Head(plan) = x /\ Tail(plan) = <<>> \o <<>> \o <<>> \o d
<1>1. plan = <<x>> \o d /\ <<>> \o <<>> \o <<>> \o d = d
  OBVIOUS
<1> QED
  BY <1>1

LEMMA LastOfFour ==
  ASSUME NEW x, NEW plan, plan = <<>> \o <<>> \o <<>> \o <<x>>
  PROVE  Head(plan) = x /\ Tail(plan) = <<>> \o <<>> \o <<>> \o <<>>
OBVIOUS

(* What each part of a plan goes by.                                       *)
LEMMA PartsGoBy ==
  ASSUME NEW definition, NEW c, NEW d
  PROVE  /\ StateOf(c) = StateOf(d) => UpdatePlan(definition, c) = UpdatePlan(definition, d)
         /\ c.tags = d.tags => TagsPlan(definition, c) = TagsPlan(definition, d)
         /\ c.feed = d.feed => MovePlan(definition, c) = MovePlan(definition, d)
         /\ c.attachments = d.attachments => ClearPlan(definition, c) = ClearPlan(definition, d)
<1>1. StateOf(c) = StateOf(d) => StateChanges(definition, c) = StateChanges(definition, d)
  BY DEF StateChanges
<1>2. c.tags = d.tags => NewTags(definition, c) = NewTags(definition, d)
  BY DEF NewTags
<1>3. c.feed = d.feed => /\ FolderOf(c) = FolderOf(d)
                         /\ Moves(definition, c) = Moves(definition, d)
  BY DEF FolderOf, Moves
<1>4. c.attachments = d.attachments => /\ CachedAttachments(c) = CachedAttachments(d)
                                       /\ Clears(definition, c) = Clears(definition, d)
  BY DEF CachedAttachments, Clears
<1> QED
  BY <1>1, <1>2, <1>3, <1>4 DEF UpdatePlan, TagsPlan, MovePlan, ClearPlan

UserCommands ==
  [type : {"updateUserState"},
   changes : {x \in UNION {[F -> BOOLEAN \cup ReadStates \cup Importances] :
                             F \in SUBSET {"read_state", "starred", "read_later", "importance"}} :
                \A f \in DOMAIN x : x[f] \in CASE f = "read_state" -> ReadStates
                                               [] f = "importance" -> Importances
                                               [] OTHER -> BOOLEAN}]

(* A command that may be applied to an article.                            *)
PlannedOK(command) ==
  \/ command \in UserCommands
  \/ command.type = "addArticleTags"
  \/ command.type = "moveFeedToFolder" /\ command.to \in STRING
  \/ command.type = "clearAttachmentCaches"

PlanOK(plan) ==
  /\ plan \in Seq(Range(plan))
  /\ \A i \in DOMAIN plan : PlannedOK(plan[i])

LEMMA PlanOfCommands ==
  ASSUME NEW S, \A command \in S : PlannedOK(command), NEW plan \in Seq(S)
  PROVE  PlanOK(plan)
<1>1. \A i \in DOMAIN plan : plan[i] \in S
  OBVIOUS
<1>2. plan = [i \in 1 .. Len(plan) |-> plan[i]]
  OBVIOUS
<1>3. \A i \in 1 .. Len(plan) : plan[i] \in Range(plan)
  BY DEF Range
<1>4. plan \in Seq(Range(plan))
  BY <1>2, <1>3, SeqDef
<1> QED
  BY <1>1, <1>4 DEF PlanOK

LEMMA PlanGoesOn ==
  ASSUME NEW plan, PlanOK(plan), plan # <<>>
  PROVE  PlannedOK(Head(plan)) /\ PlanOK(Tail(plan))
<1>1. Tail(plan) \in Seq(Range(plan)) /\ Head(plan) \in Range(plan)
  BY DEF PlanOK
<1>2. \A command \in Range(plan) : PlannedOK(command)
  BY DEF PlanOK, Range
<1> QED
  BY <1>1, <1>2, PlanOfCommands

(* Actions that were accepted make a definition of known values.           *)
LEMMA DefinitionIsKnown ==
  ASSUME NEW r, IsRule(r), ParseRuleActions(r.actions),
         NEW definition, definition = ActionDefinition(r.actions.object)
  PROVE  /\ definition.read_state \in ReadStates \cup {None}
         /\ definition.importance \in Importances \cup {None}
         /\ definition.starred \in BOOLEAN \cup {None}
         /\ definition.read_later \in BOOLEAN \cup {None}
         /\ definition.move_to_folder \in STRING \cup {None}
         /\ definition.clear \in BOOLEAN
<1> DEFINE object == r.actions.object
<1>1. \A key : Is(Get(object, key), "bool") => object[key].bool \in BOOLEAN
  BY DEF IsRule, ParseRuleActions, Get, Is
<1>2. \A key : Is(Get(object, key), "string") => object[key].string \in STRING
  BY DEF IsRule, ParseRuleActions, Get, Is
<1>3. \A key : ReadFlag(object, key) \in BOOLEAN \cup {None}
  BY <1>1 DEF ReadFlag
<1>4. Get(object, "readState") = None => Read(object, "readState") = None
  BY DEF Read, Is
<1>5. Get(object, "importance") = None => Read(object, "importance") = None
  BY DEF Read, Is
<1>6. IsNoop(object) => Get(object, "readState") = None /\ Get(object, "importance") = None
                        /\ Get(object, "moveToFolderId") = None
  BY DEF IsNoop, Get
<1>7. Read(object, "readState") \in ReadStates \cup {None}
  BY <1>4, <1>6 DEF ParseRuleActions
<1>8. Read(object, "importance") \in Importances \cup {None}
  BY <1>5, <1>6 DEF ParseRuleActions
<1>9. FolderTarget(Get(object, "moveToFolderId")) \in STRING \cup {None}
  <2> DEFINE folder == Get(object, "moveToFolderId")
  <2>1. CASE folder = None
    BY <2>1 DEF FolderTarget, Is
  <2>2. CASE folder # None /\ Is(folder, "null")
    BY <2>2, RuleAssumption DEF FolderTarget
  <2>3. CASE folder # None /\ ~Is(folder, "null")
    <3>1. Is(folder, "string")
      BY <2>3, <1>6 DEF ParseRuleActions, Read
    <3> QED
      BY <2>3, <3>1, <1>2 DEF FolderTarget, Get
  <2> QED
    BY <2>1, <2>2, <2>3
<1> QED
  BY <1>3, <1>7, <1>8, <1>9 DEF ActionDefinition

LEMMA ChangedState ==
  ASSUME NEW c, IsContext(c), NEW command \in UserCommands
  PROVE  [f \in DOMAIN DefaultState |-> IF f \in DOMAIN command.changes THEN command.changes[f]
                                        ELSE StateOf(c)[f]] \in UserState
<1>1. StateOf(c) \in UserState
  BY StateIsKnown
<1>2. /\ "read_state" \in DOMAIN command.changes => command.changes["read_state"] \in ReadStates
      /\ "importance" \in DOMAIN command.changes => command.changes["importance"] \in Importances
      /\ \A f \in {"starred", "liked", "read_later"} :
           f \in DOMAIN command.changes => command.changes[f] \in BOOLEAN
  BY DEF UserCommands
<1>3. DOMAIN DefaultState = {"read_state", "starred", "liked", "read_later", "importance"}
  BY DEF DefaultState
<1> QED
  BY <1>1, <1>2, <1>3 DEF UserState

LEMMA AppliedIsContext ==
  ASSUME NEW c, IsContext(c), NEW command, PlannedOK(command)
  PROVE  /\ IsContext(Applied(command, c))
         /\ Applied(command, c).feed = None <=> c.feed = None
<1> DEFINE next == Applied(command, c)
<1>1. DOMAIN c = {"title", "author", "summary", "content_extracted", "content_raw", "language",
                  "published_at", "fetched_at", "feed_id", "feed", "state", "tags", "attachments"}
  BY DEF IsContext
<1>2. CASE command \in UserCommands
  <2>1. next = [c EXCEPT !.state =
                 [f \in DOMAIN DefaultState |-> IF f \in DOMAIN command.changes
                                                THEN command.changes[f] ELSE StateOf(c)[f]]]
    BY <1>2 DEF Applied, UserCommands
  <2>2. next.state \in UserState
    BY <2>1, <1>1, <1>2, ChangedState
  <2> QED
    BY <2>1, <2>2, <1>1 DEF IsContext
<1>3. CASE command.type = "addArticleTags"
  <2>1. next = [c EXCEPT !.tags = @ \cup command.tag_names]
    BY <1>3 DEF Applied
  <2> QED
    BY <2>1, <1>1 DEF IsContext
<1>4. CASE command.type = "moveFeedToFolder" /\ command.to \in STRING
  <2>1. next = IF c.feed = None THEN c ELSE [c EXCEPT !.feed.folder = command.to]
    BY <1>4 DEF Applied
  <2>2. CASE c.feed = None
    BY <2>1, <2>2
  <2>3. CASE c.feed # None
    <3>1. next.feed \in FeedState
      BY <2>1, <2>3, <1>1, <1>4 DEF IsContext, FeedState
    <3>2. next.feed # None
      BY <3>1, RuleAssumption
    <3> QED
      BY <2>1, <2>3, <3>1, <3>2, <1>1 DEF IsContext
  <2> QED
    BY <2>2, <2>3
<1>5. CASE command.type = "clearAttachmentCaches"
  <2>1. next = [c EXCEPT !.attachments =
                 [i \in DOMAIN @ |-> IF @[i] \in command.attachments
                                     THEN [@[i] EXCEPT !.path = None] ELSE @[i]]]
    BY <1>5 DEF Applied
  <2>2. \A i \in DOMAIN next.attachments : "path" \in DOMAIN next.attachments[i]
    BY <2>1, <1>1 DEF IsContext
  <2> QED
    BY <2>1, <2>2, <1>1 DEF IsContext
<1> QED
  BY <1>2, <1>3, <1>4, <1>5 DEF PlannedOK

LEMMA UpdateIsOK ==
  ASSUME NEW definition, NEW c,
         definition.read_state \in ReadStates \cup {None},
         definition.importance \in Importances \cup {None},
         definition.starred \in BOOLEAN \cup {None},
         definition.read_later \in BOOLEAN \cup {None}
  PROVE  UpdateCommand(StateChanges(definition, c)) \in UserCommands
<1> DEFINE changes == StateChanges(definition, c)
<1>1. changes = [f \in DOMAIN changes |-> definition[f]]
  BY DEF StateChanges
<1>2. /\ DOMAIN changes \subseteq {"read_state", "starred", "read_later", "importance"}
      /\ \A f \in DOMAIN changes : definition[f] # None
  BY DEF StateChanges
<1> HIDE DEF changes
<1>3. \A f \in DOMAIN changes : definition[f] \in CASE f = "read_state" -> ReadStates
                                                    [] f = "importance" -> Importances
                                                    [] OTHER -> BOOLEAN
  BY <1>2
<1>4. \A f \in DOMAIN changes : definition[f] \in BOOLEAN \cup ReadStates \cup Importances
  BY <1>2
<1>5. changes \in [DOMAIN changes -> BOOLEAN \cup ReadStates \cup Importances]
  BY <1>1, <1>4
<1>6. \A f \in DOMAIN changes : changes[f] = definition[f]
  BY <1>1
<1> QED
  BY <1>2, <1>3, <1>5, <1>6 DEF UpdateCommand, UserCommands, changes

(* What build_rule_action_plan gives may be applied, in its order; and     *)
(* when the article's feed is known, the first command taken, the rest is  *)
(* the plan for what is left to do.                                        *)
LEMMA PlanIsApplied ==
  ASSUME NEW r, IsRule(r), ParseRuleActions(r.actions), NEW c, IsContext(c)
  PROVE  LET definition == ActionDefinition(r.actions.object)
             plan       == ActionPlan(definition, c)
         IN  /\ PlanOK(plan)
             /\ plan # <<>> /\ c.feed # None =>
                  ActionPlan(definition, Applied(Head(plan), c)) = Tail(plan)
<1> DEFINE definition == ActionDefinition(r.actions.object)
           plan == ActionPlan(definition, c)
           update == UpdateCommand(StateChanges(definition, c))
           addTags == TagsCommand(NewTags(definition, c))
           move == MoveCommand(FolderOf(c), definition.move_to_folder)
           clear == ClearCommand(CachedAttachments(c))
           S == {command \in {update, addTags, move, clear} : PlannedOK(command)}
<1>1. /\ definition.read_state \in ReadStates \cup {None}
      /\ definition.importance \in Importances \cup {None}
      /\ definition.starred \in BOOLEAN \cup {None}
      /\ definition.read_later \in BOOLEAN \cup {None}
      /\ definition.move_to_folder \in STRING \cup {None}
      /\ definition.clear \in BOOLEAN
  BY DefinitionIsKnown
<1>2. definition = [read_state |-> definition.read_state, starred |-> definition.starred,
                    read_later |-> definition.read_later, importance |-> definition.importance,
                    tag_names |-> definition.tag_names,
                    move_to_folder |-> definition.move_to_folder, clear |-> definition.clear]
  BY DEF ActionDefinition
<1> HIDE DEF definition
<1>3. PlannedOK(update) /\ PlannedOK(addTags) /\ PlannedOK(clear)
  BY <1>1, UpdateIsOK DEF PlannedOK, TagsCommand, ClearCommand
<1>4. Moves(definition, c) => PlannedOK(move)
  BY <1>1 DEF Moves, MoveCommand, PlannedOK
<1>5. /\ UpdatePlan(definition, c) \in {<<>>, <<update>>}
      /\ TagsPlan(definition, c) \in {<<>>, <<addTags>>}
      /\ MovePlan(definition, c) \in {<<>>} \cup (IF Moves(definition, c) THEN {<<move>>} ELSE {})
      /\ ClearPlan(definition, c) \in {<<>>, <<clear>>}
  BY DEF UpdatePlan, TagsPlan, MovePlan, ClearPlan, When
<1>6. /\ UpdatePlan(definition, c) \in Seq(S) /\ TagsPlan(definition, c) \in Seq(S)
      /\ MovePlan(definition, c) \in Seq(S) /\ ClearPlan(definition, c) \in Seq(S)
  <2>1. update \in S /\ addTags \in S /\ clear \in S /\ (Moves(definition, c) => move \in S)
    BY <1>3, <1>4
  <2> HIDE DEF S, update, addTags, move, clear
  <2>2. <<>> \in Seq(S) /\ \A x \in S : <<x>> \in Seq(S)
    OBVIOUS
  <2>3. MovePlan(definition, c) \in Seq(S)
    <3>1. CASE Moves(definition, c)
      BY <3>1, <2>1, <2>2, <1>5
    <3>2. CASE ~Moves(definition, c)
      BY <3>2, <2>2, <1>5
    <3> QED
      BY <3>1, <3>2
  <2> QED
    BY <2>1, <2>2, <2>3, <1>5
<1>7. PlanOK(plan)
  <2>1. \A s, t, u, v \in Seq(S) : s \o t \o u \o v \in Seq(S)
    <3> HIDE DEF S
    <3> QED
      OBVIOUS
  <2>2. plan \in Seq(S)
    <3> HIDE DEF S, plan
    <3> QED
      BY <1>6, <2>1, PlanIsParts DEF plan
  <2>3. \A command \in S : PlannedOK(command)
    OBVIOUS
  <2> HIDE DEF S, plan
  <2> QED
    BY <2>2, <2>3, PlanOfCommands
<1>8. ASSUME plan # <<>>, c.feed # None
      PROVE  ActionPlan(definition, Applied(Head(plan), c)) = Tail(plan)
  <2> DEFINE next == Applied(Head(plan), c)
             U(x) == UpdatePlan(definition, x)
             T(x) == TagsPlan(definition, x)
             M(x) == MovePlan(definition, x)
             C(x) == ClearPlan(definition, x)
  <2>1. \A x : ActionPlan(definition, x) = U(x) \o T(x) \o M(x) \o C(x)
    BY PlanIsParts
  <2>2. U(c) \in Seq(S) /\ T(c) \in Seq(S) /\ M(c) \in Seq(S) /\ C(c) \in Seq(S)
    BY <1>6
  <2>3. /\ update \in S /\ addTags \in S /\ clear \in S
        /\ Moves(definition, c) => move \in S
    BY <1>3, <1>4
  <2>4. DOMAIN c = {"title", "author", "summary", "content_extracted", "content_raw", "language",
                    "published_at", "fetched_at", "feed_id", "feed", "state", "tags", "attachments"}
    BY DEF IsContext
  <2>5. CASE DOMAIN StateChanges(definition, c) # {}
    <3>1. U(c) = <<update>>
      BY <2>5 DEF UpdatePlan, When
    <3>2. plan = <<update>> \o T(c) \o M(c) \o C(c)
      BY <3>1, <2>1
    <3>3. Head(plan) = update /\ Tail(plan) = <<>> \o T(c) \o M(c) \o C(c)
      <4>1. update \in S /\ T(c) \in Seq(S) /\ M(c) \in Seq(S) /\ C(c) \in Seq(S)
        BY <2>2, <2>3
      <4> HIDE DEF U, T, M, C, update, S, plan
      <4> QED
        BY <3>2, <4>1, FirstOfFour
    <3>4. update.type = "updateUserState" /\ update.changes = StateChanges(definition, c)
      BY DEF UpdateCommand
    <3>5. next.state = [f \in DOMAIN DefaultState |->
                          IF f \in DOMAIN StateChanges(definition, c)
                          THEN StateChanges(definition, c)[f] ELSE StateOf(c)[f]]
      BY <3>3, <3>4, <2>4 DEF Applied
    <3>6. next.tags = c.tags /\ next.feed = c.feed /\ next.attachments = c.attachments
      BY <3>3, <3>4, <2>4 DEF Applied
    <3>7. next.state \in UserState
      <4>1. update \in UserCommands
        BY <1>1, UpdateIsOK
      <4> QED
        BY <4>1, <3>4, <3>5, ChangedState
    <3>8. U(next) = <<>>
      <4>1. StateOf(next) = next.state
        BY <3>7, RuleAssumption DEF StateOf
      <4>2. ASSUME NEW f \in {"read_state", "starred", "read_later", "importance"},
                   definition[f] # None
            PROVE  definition[f] = next.state[f]
        <5>1. f \in DOMAIN DefaultState
          BY DEF DefaultState
        <5>2. CASE f \in DOMAIN StateChanges(definition, c)
          BY <5>1, <5>2, <3>5 DEF StateChanges
        <5>3. CASE f \notin DOMAIN StateChanges(definition, c)
          <6>1. definition[f] = StateOf(c)[f]
            BY <5>3, <4>2 DEF StateChanges
          <6> QED
            BY <6>1, <5>1, <5>3, <3>5
        <5> QED
          BY <5>2, <5>3
      <4>3. DOMAIN StateChanges(definition, next) = {}
        BY <4>1, <4>2 DEF StateChanges
      <4> QED
        BY <4>3 DEF UpdatePlan, When
    <3>9. T(next) = T(c) /\ M(next) = M(c) /\ C(next) = C(c)
      BY <3>6, PartsGoBy
    <3> HIDE DEF U, T, M, C, next
    <3> QED
      BY <2>1, <3>3, <3>8, <3>9 DEF next
  <2>6. CASE DOMAIN StateChanges(definition, c) = {} /\ NewTags(definition, c) # {}
    <3>1. U(c) = <<>> /\ T(c) = <<addTags>>
      BY <2>6 DEF UpdatePlan, TagsPlan, When
    <3>2. plan = <<>> \o <<addTags>> \o M(c) \o C(c)
      BY <3>1, <2>1
    <3>3. Head(plan) = addTags /\ Tail(plan) = <<>> \o <<>> \o M(c) \o C(c)
      <4> HIDE DEF U, T, M, C, addTags, S, plan
      <4> QED
        BY <3>2, <2>2, <2>3, SecondOfFour
    <3>4. addTags.type = "addArticleTags" /\ addTags.tag_names = NewTags(definition, c)
      BY DEF TagsCommand
    <3>5. next = [c EXCEPT !.tags = @ \cup addTags.tag_names]
      BY <3>3, <3>4 DEF Applied
    <3>6. /\ next.tags = c.tags \cup NewTags(definition, c)
          /\ next.state = c.state /\ next.feed = c.feed /\ next.attachments = c.attachments
      BY <3>4, <3>5, <2>4
    <3>7. T(next) = <<>>
      BY <3>6 DEF TagsPlan, NewTags, When
    <3>8. StateOf(next) = StateOf(c)
      BY <3>6 DEF StateOf
    <3>9. U(next) = U(c) /\ M(next) = M(c) /\ C(next) = C(c)
      BY <3>6, <3>8, PartsGoBy
    <3> HIDE DEF U, T, M, C, next
    <3> QED
      BY <2>1, <3>1, <3>3, <3>7, <3>9 DEF next
  <2>7. CASE /\ DOMAIN StateChanges(definition, c) = {} /\ NewTags(definition, c) = {}
             /\ Moves(definition, c)
    <3>1. U(c) = <<>> /\ T(c) = <<>> /\ M(c) = <<move>>
      BY <2>7 DEF UpdatePlan, TagsPlan, MovePlan, When
    <3>2. plan = <<>> \o <<>> \o <<move>> \o C(c)
      BY <3>1, <2>1
    <3>3. Head(plan) = move /\ Tail(plan) = <<>> \o <<>> \o <<>> \o C(c)
      <4> HIDE DEF U, T, M, C, move, S, plan
      <4> QED
        BY <3>2, <2>2, <2>3, <2>7, ThirdOfFour
    <3>4. move.type = "moveFeedToFolder" /\ move.to = definition.move_to_folder
      BY DEF MoveCommand
    <3>5. next = [c EXCEPT !.feed.folder = move.to]
      BY <1>8, <3>3, <3>4 DEF Applied
    <3>6. /\ next.state = c.state /\ next.tags = c.tags /\ next.attachments = c.attachments
          /\ next.feed = [c.feed EXCEPT !.folder = definition.move_to_folder]
      BY <3>4, <3>5, <2>4
    <3>7. c.feed \in FeedState /\ definition.move_to_folder \in STRING
      BY <1>1, <1>8, <2>7 DEF IsContext, Moves
    <3>8. M(next) = <<>>
      <4>1. next.feed \in FeedState /\ next.feed.folder = definition.move_to_folder
        BY <3>6, <3>7 DEF FeedState
      <4>2. next.feed # None
        BY <4>1, RuleAssumption
      <4> QED
        BY <4>1, <4>2 DEF MovePlan, Moves, FolderOf, When
    <3>9. StateOf(next) = StateOf(c)
      BY <3>6 DEF StateOf
    <3>10. U(next) = U(c) /\ T(next) = T(c) /\ C(next) = C(c)
      BY <3>6, <3>9, PartsGoBy
    <3> HIDE DEF U, T, M, C, next
    <3> QED
      BY <2>1, <3>1, <3>3, <3>8, <3>10 DEF next
  <2>8. CASE /\ DOMAIN StateChanges(definition, c) = {} /\ NewTags(definition, c) = {}
             /\ ~Moves(definition, c) /\ Clears(definition, c)
    <3>1. U(c) = <<>> /\ T(c) = <<>> /\ M(c) = <<>> /\ C(c) = <<clear>>
      BY <2>8 DEF UpdatePlan, TagsPlan, MovePlan, ClearPlan, When
    <3>2. plan = <<>> \o <<>> \o <<>> \o <<clear>>
      BY <3>1, <2>1
    <3>3. Head(plan) = clear /\ Tail(plan) = <<>> \o <<>> \o <<>> \o <<>>
      <4> HIDE DEF U, T, M, C, clear, S, plan
      <4> QED
        BY <3>2, <2>2, <2>3, LastOfFour
    <3>4. clear.type = "clearAttachmentCaches" /\ clear.attachments = CachedAttachments(c)
      BY DEF ClearCommand
    <3>5. next = [c EXCEPT !.attachments =
                   [i \in DOMAIN @ |-> IF @[i] \in clear.attachments
                                       THEN [@[i] EXCEPT !.path = None] ELSE @[i]]]
      BY <3>3, <3>4 DEF Applied
    <3>6. /\ next.state = c.state /\ next.feed = c.feed /\ next.tags = c.tags
          /\ next.attachments =
               [i \in DOMAIN c.attachments |->
                  IF c.attachments[i] \in CachedAttachments(c)
                  THEN [c.attachments[i] EXCEPT !.path = None] ELSE c.attachments[i]]
      BY <3>4, <3>5, <2>4
    <3>7. \A i \in DOMAIN next.attachments : next.attachments[i].path = None
      <4> TAKE i \in DOMAIN next.attachments
      <4>1. i \in DOMAIN c.attachments /\ "path" \in DOMAIN c.attachments[i]
        BY <3>6 DEF IsContext
      <4>2. CASE c.attachments[i].path = None
        BY <3>6, <4>1, <4>2
      <4>3. CASE c.attachments[i].path # None
        <5>1. c.attachments[i] \in CachedAttachments(c)
          BY <4>1, <4>3 DEF CachedAttachments
        <5> QED
          BY <3>6, <4>1, <5>1
      <4> QED
        BY <4>2, <4>3
    <3>8. C(next) = <<>>
      <4>1. CachedAttachments(next) = {}
        BY <3>7 DEF CachedAttachments
      <4> QED
        BY <4>1 DEF ClearPlan, Clears, When
    <3>9. StateOf(next) = StateOf(c)
      BY <3>6 DEF StateOf
    <3>10. U(next) = U(c) /\ T(next) = T(c) /\ M(next) = M(c)
      BY <3>6, <3>9, PartsGoBy
    <3> HIDE DEF U, T, M, C, next
    <3> QED
      BY <2>1, <3>1, <3>3, <3>8, <3>10 DEF next
  <2>9. CASE /\ DOMAIN StateChanges(definition, c) = {} /\ NewTags(definition, c) = {}
             /\ ~Moves(definition, c) /\ ~Clears(definition, c)
    <3>1. U(c) = <<>> /\ T(c) = <<>> /\ M(c) = <<>> /\ C(c) = <<>>
      BY <2>9 DEF UpdatePlan, TagsPlan, MovePlan, ClearPlan, When
    <3> HIDE DEF U, T, M, C
    <3> QED
      BY <3>1, <2>1, <1>8
  <2> QED
    BY <2>5, <2>6, <2>7, <2>8, <2>9
<1> QED
  BY <1>7, <1>8 DEF definition

-------------------------------------------------------------------------------
(* Rules: every audit, and what the host works on.                         *)

(* An audit tells what the rule r saw, planned and came to.                *)
AuditOK(a, r) ==
  LET seen    == SeenIn(a.input_snapshot)
      matched == a.match_result = "matched"
      plan    == ActionPlan(ActionDefinition(r.actions.object), seen)
  IN  /\ a.planned_commands = IF matched THEN PlannedCommandsJson(plan) ELSE <<>>
      /\ IsExplained(r.conditions) =>
           (matched <=> MatchQueryDefinition(r.conditions, seen))
      /\ a.applied_effects # {} => matched

AuditFields == {"match_result", "input_snapshot", "planned_commands", "applied_effects", "created_at"}

(* What is left of a plan may be applied, whoever changed the article or   *)
(* the rule in between; if nobody changed the article, it is what the rule *)
(* that ran would plan for the article as it is now.                       *)
HostOK ==
  /\ host = [step |-> host.step, id |-> host.id, left |-> host.left, alone |-> host.alone]
  /\ host.step # "idle" => host.id \in DOMAIN audits
  /\ host.step # "idle" => audits[host.id].match_result = "matched"
  /\ host.step = "applying" => ParseRuleActions(ran[host.id].actions)
  /\ host.step = "applying" => PlanOK(host.left)
  /\ host.step = "done" => host.left = <<>>
  /\ host.step # "idle" /\ host.alone /\ subject.feed # None =>
       ActionPlan(ActionDefinition(ran[host.id].actions.object), subject) = host.left

RuleInv ==
  /\ RuleTypeOK
  /\ \A id \in DOMAIN audits : DOMAIN audits[id] = AuditFields /\ AuditOK(audits[id], ran[id])
  /\ HostOK

LEMMA RuleInitial == RuleInit => RuleInv
<1> SUFFICES ASSUME RuleInit PROVE RuleInv
  OBVIOUS
<1>1. IsContext(subject) /\ IsRule(rule)
  BY RuleAssumption DEF RuleInit
<1>2. DOMAIN audits = {} /\ DOMAIN ran = {} /\ host = NoRun
  BY DEF RuleInit
<1>3. RuleTypeOK
  BY <1>1, <1>2, RuleAssumption DEF RuleTypeOK, RuleInit, NoRun
<1>4. HostOK
  BY <1>2 DEF HostOK, NoRun
<1> QED
  BY <1>2, <1>3, <1>4 DEF RuleInv

(* The audit of an evaluation.                                             *)
LEMMA EvaluationOK ==
  ASSUME IsRule(rule), IsContext(subject), NEW created_at
  PROVE  LET a == IntoRuleAudit(created_at, Evaluation(subject))
         IN  /\ DOMAIN a = AuditFields /\ AuditOK(a, rule)
             /\ a.match_result = Evaluation(subject).match_result
             /\ a.created_at = created_at
<1> DEFINE given == Evaluation(subject)
           a == IntoRuleAudit(created_at, given)
           seen == SeenIn(InputSnapshotJson(SnapshotFromContext(subject)))
           definition == ActionDefinition(rule.actions.object)
<1>1. /\ given.match_result =
           IF MatchQueryDefinition(rule.conditions, subject) THEN "matched" ELSE "not_matched"
      /\ given.input_snapshot = SnapshotFromContext(subject)
      /\ given.planned_commands = IF MatchQueryDefinition(rule.conditions, subject)
                                  THEN ActionPlan(definition, subject) ELSE <<>>
  BY DEF Evaluation
<1>2. /\ DOMAIN a = AuditFields /\ a.created_at = created_at
      /\ a.match_result = given.match_result
      /\ a.input_snapshot = InputSnapshotJson(given.input_snapshot)
      /\ a.planned_commands = PlannedCommandsJson(given.planned_commands)
      /\ a.applied_effects = {}
  BY DEF IntoRuleAudit, AuditFields
<1> HIDE DEF given, a
<1>3. SeenIn(a.input_snapshot) = seen
  BY <1>1, <1>2
<1>4. ActionPlan(definition, seen) = ActionPlan(definition, subject)
  BY SeenPlans
<1>5. IsExplained(rule.conditions) =>
        MatchQueryDefinition(rule.conditions, seen) = MatchQueryDefinition(rule.conditions, subject)
  BY ExplainedMatches
<1>6. PlannedCommandsJson(<<>>) = <<>>
  BY DEF PlannedCommandsJson
<1> HIDE DEF seen, definition
<1>7. a.planned_commands = IF a.match_result = "matched"
                           THEN PlannedCommandsJson(ActionPlan(definition, seen)) ELSE <<>>
  BY <1>1, <1>2, <1>4, <1>6
<1>8. (a.match_result = "matched") <=> MatchQueryDefinition(rule.conditions, subject)
  BY <1>1, <1>2
<1>9. IsExplained(rule.conditions) =>
        ((a.match_result = "matched") <=> MatchQueryDefinition(rule.conditions, seen))
  BY <1>5, <1>8
<1>10. AuditOK(a, rule)
  BY <1>2, <1>3, <1>7, <1>9 DEF AuditOK, definition
<1> QED
  BY <1>2, <1>10 DEF a, given

(* A list that is not cut short has every audit.                           *)
LEMMA EveryAuditIsListed ==
  ASSUME RuleTypeOK, NEW id \in DOMAIN audits
  PROVE  id \in ListRuleAudits(MaxAudits)
<1> DEFINE earlier == {other \in DOMAIN audits : ListedBefore(other, id)}
<1>1. MaxAudits \in Nat /\ id \in 1 .. MaxAudits
  BY RuleAssumption DEF RuleTypeOK
<1>2. ~ListedBefore(id, id)
  <2>1. audits[id].created_at \in Nat
    BY RuleAssumption DEF RuleTypeOK
  <2> DEFINE created_at == audits[id].created_at
  <2>2. ~(created_at > created_at) /\ ~(id > id)
    BY <1>1, <2>1
  <2> QED
    BY <2>2 DEF ListedBefore
<1>3. earlier \subseteq (1 .. MaxAudits) \ {id}
  BY <1>2 DEF RuleTypeOK
<1>4. IsFiniteSet(1 .. MaxAudits) /\ Cardinality(1 .. MaxAudits) = MaxAudits
  BY <1>1, FS_Interval
<1>5. /\ IsFiniteSet((1 .. MaxAudits) \ {id})
      /\ Cardinality((1 .. MaxAudits) \ {id}) = MaxAudits - 1
  BY <1>1, <1>4, FS_RemoveElement
<1>6. Cardinality(earlier) <= MaxAudits - 1 /\ Cardinality(earlier) \in Nat
  BY <1>3, <1>5, FS_Subset, FS_CardinalityType
<1> QED
  BY <1>1, <1>6 DEF ListRuleAudits

LEMMA RulesGoOn == RuleInv /\ [RuleNext]_ruleVars => RuleInv'
<1> SUFFICES ASSUME RuleInv, [RuleNext]_ruleVars PROVE RuleInv'
  OBVIOUS
<1> USE RuleAssumption
<1>1. CASE RecordRuleAudit
  <2> DEFINE given == Evaluation(subject)
  <2>1. PICK id \in 1 .. MaxAudits \ DOMAIN audits, created_at \in AuditTimes :
          /\ audits' = [x \in DOMAIN audits \cup {id} |->
               IF x = id THEN IntoRuleAudit(created_at, given) ELSE audits[x]]
          /\ ran' = [x \in DOMAIN ran \cup {id} |-> IF x = id THEN rule ELSE ran[x]]
          /\ host' = IF given.match_result = "matched"
                     THEN [step |-> "applying", id |-> id, left |-> given.planned_commands,
                           alone |-> TRUE]
                     ELSE NoRun
    BY <1>1 DEF RecordRuleAudit
  <2> DEFINE a == IntoRuleAudit(created_at, given)
  <2>2. IsRule(rule) /\ IsContext(subject) /\ UNCHANGED <<rule, subject, edits>>
    BY <1>1 DEF RuleInv, RuleTypeOK, RecordRuleAudit
  <2>3. /\ DOMAIN a = AuditFields /\ AuditOK(a, rule)
        /\ a.match_result = given.match_result /\ a.created_at = created_at
    BY <2>2, EvaluationOK
  <2>4. /\ DOMAIN audits' = DOMAIN audits \cup {id} /\ DOMAIN ran' = DOMAIN audits'
        /\ audits'[id] = a /\ ran'[id] = rule
        /\ \A x \in DOMAIN audits : audits'[x] = audits[x] /\ ran'[x] = ran[x]
    BY <2>1 DEF RuleInv, RuleTypeOK
  <2> HIDE DEF a, given
  <2>5. \A x \in DOMAIN audits' : /\ DOMAIN audits'[x] = AuditFields
                                  /\ AuditOK(audits'[x], ran'[x])
                                  /\ IsRule(ran'[x]) /\ audits'[x].created_at \in AuditTimes
    <3> TAKE x \in DOMAIN audits'
    <3>1. CASE x = id
      BY <3>1, <2>1, <2>2, <2>3, <2>4
    <3>2. CASE x \in DOMAIN audits
      BY <3>2, <2>4 DEF RuleInv, RuleTypeOK
    <3> QED
      BY <3>1, <3>2, <2>4
  <2>6. HostOK'
    <3>1. CASE given.match_result = "matched"
      <4>1. given.planned_commands = ActionPlan(ActionDefinition(rule.actions.object), subject)
        BY <3>1 DEF given, Evaluation
      <4>2. ParseRuleActions(rule.actions)
        BY <1>1 DEF RecordRuleAudit, Evaluates
      <4>3. PlanOK(given.planned_commands)
        BY <4>1, <4>2, <2>2, PlanIsApplied
      <4>4. host' = [step |-> "applying", id |-> id, left |-> given.planned_commands,
                     alone |-> TRUE]
        BY <3>1, <2>1
      <4> QED
        BY <4>1, <4>2, <4>3, <4>4, <3>1, <2>2, <2>3, <2>4 DEF HostOK
    <3>2. CASE given.match_result # "matched"
      BY <3>2, <2>1 DEF HostOK, NoRun
    <3> QED
      BY <3>1, <3>2
  <2>7. RuleTypeOK'
    <3>1. host'.step \in {"idle", "applying", "done"} /\ host'.alone \in BOOLEAN
      BY <2>1 DEF NoRun
    <3> QED
      BY <3>1, <2>1, <2>2, <2>4, <2>5 DEF RuleInv, RuleTypeOK
  <2> QED
    BY <2>5, <2>6, <2>7 DEF RuleInv
<1>2. CASE ApplyCommand
  <2>1. /\ host.step = "applying" /\ host.left # <<>>
        /\ subject' = Applied(Head(host.left), subject)
        /\ host' = [host EXCEPT !.left = Tail(@)]
        /\ UNCHANGED <<rule, audits, ran, edits>>
    BY <1>2 DEF ApplyCommand
  <2> DEFINE actions == ran[host.id].actions
  <2>2. /\ IsRule(ran[host.id]) /\ IsContext(subject) /\ PlanOK(host.left)
        /\ ParseRuleActions(actions)
    BY <2>1 DEF RuleInv, RuleTypeOK, HostOK
  <2>3. PlannedOK(Head(host.left)) /\ PlanOK(Tail(host.left))
    BY <2>1, <2>2, PlanGoesOn
  <2>4. IsContext(subject') /\ (subject'.feed = None <=> subject.feed = None)
    BY <2>1, <2>2, <2>3, AppliedIsContext
  <2>5. host' = [step |-> host.step, id |-> host.id, left |-> Tail(host.left), alone |-> host.alone]
    BY <2>1 DEF RuleInv, HostOK
  <2>6. host.alone /\ subject'.feed # None =>
          ActionPlan(ActionDefinition(actions.object), subject') = Tail(host.left)
    <3> SUFFICES ASSUME host.alone, subject'.feed # None
                 PROVE  ActionPlan(ActionDefinition(actions.object), subject') = Tail(host.left)
      OBVIOUS
    <3>1. ActionPlan(ActionDefinition(actions.object), subject) = host.left
      BY <2>1, <2>4 DEF RuleInv, HostOK
    <3> QED
      BY <3>1, <2>1, <2>2, <2>4, PlanIsApplied
  <2>7. HostOK'
    BY <2>1, <2>3, <2>5, <2>6 DEF RuleInv, HostOK
  <2>8. RuleTypeOK'
    BY <2>1, <2>4, <2>5 DEF RuleInv, RuleTypeOK
  <2> QED
    BY <2>1, <2>7, <2>8 DEF RuleInv
<1>3. CASE SetAppliedEffects
  <2>1. /\ host.step = "applying" /\ host.left = <<>>
        /\ audits' = [x \in DOMAIN audits |->
             IF x = host.id THEN [audits[x] EXCEPT !.applied_effects = {"applied"}]
                            ELSE audits[x]]
        /\ host' = [host EXCEPT !.step = "done"]
        /\ UNCHANGED <<rule, subject, ran, edits>>
    BY <1>3 DEF SetAppliedEffects
  <2>2. host.id \in DOMAIN audits /\ audits[host.id].match_result = "matched"
    BY <2>1 DEF RuleInv, HostOK
  <2>3. \A x \in DOMAIN audits :
          /\ DOMAIN audits'[x] = AuditFields /\ AuditOK(audits'[x], ran[x])
          /\ audits'[x].created_at = audits[x].created_at
          /\ audits'[x].match_result = audits[x].match_result
    <3> TAKE x \in DOMAIN audits
    <3>1. DOMAIN audits[x] = AuditFields /\ AuditOK(audits[x], ran[x])
      BY DEF RuleInv
    <3>2. CASE x = host.id
      <4>1. audits'[x] = [audits[x] EXCEPT !.applied_effects = {"applied"}]
        BY <2>1, <3>2
      <4>2. /\ DOMAIN audits'[x] = AuditFields
            /\ audits'[x].created_at = audits[x].created_at
            /\ audits'[x].match_result = audits[x].match_result
            /\ audits'[x].input_snapshot = audits[x].input_snapshot
            /\ audits'[x].planned_commands = audits[x].planned_commands
        BY <4>1, <3>1 DEF AuditFields
      <4> QED
        BY <4>2, <3>1, <3>2, <2>2 DEF AuditOK
    <3>3. CASE x # host.id
      BY <3>1, <3>3, <2>1
    <3> QED
      BY <3>2, <3>3
  <2>4. DOMAIN audits' = DOMAIN audits
    BY <2>1
  <2>5. host' = [step |-> "done", id |-> host.id, left |-> <<>>, alone |-> host.alone]
    BY <2>1 DEF RuleInv, HostOK
  <2>6. HostOK'
    BY <2>1, <2>2, <2>3, <2>4, <2>5 DEF RuleInv, HostOK
  <2>7. RuleTypeOK'
    BY <2>1, <2>3, <2>4, <2>5 DEF RuleInv, RuleTypeOK
  <2> QED
    BY <2>1, <2>3, <2>4, <2>6, <2>7 DEF RuleInv
<1>4. CASE HostStops
  <2>1. host' = NoRun /\ UNCHANGED <<rule, subject, audits, ran, edits>>
    BY <1>4 DEF HostStops
  <2>2. HostOK'
    BY <2>1 DEF HostOK, NoRun
  <2>3. RuleTypeOK'
    BY <2>1 DEF RuleInv, RuleTypeOK, NoRun
  <2> QED
    BY <2>1, <2>2, <2>3 DEF RuleInv
<1>5. CASE UserChange
  <2>1. /\ edits < MaxEdits /\ edits' = edits + 1 /\ UNCHANGED <<audits, ran>>
        /\ \/ subject' \in Edited /\ rule' = rule /\ host' = [host EXCEPT !.alone = FALSE]
           \/ /\ rule' \in Rules \cup {[rule EXCEPT !.enabled = ~@]}
              /\ UNCHANGED <<subject, host>>
    BY <1>5 DEF UserChange
  <2>2. IsRule(rule) /\ IsContext(subject) /\ edits \in 0 .. MaxEdits
    BY DEF RuleInv, RuleTypeOK
  <2>3. IsRule(rule')
    <3>1. CASE rule' = [rule EXCEPT !.enabled = ~@]
      <4>1. /\ DOMAIN rule' = DOMAIN rule /\ rule'.actions = rule.actions
            /\ rule'.enabled = ~rule.enabled
        BY <3>1, <2>2 DEF IsRule
      <4> QED
        BY <4>1, <2>2 DEF IsRule
    <3> QED
      BY <3>1, <2>1, <2>2
  <2>4. IsContext(subject')
    <3>1. DOMAIN subject = {"title", "author", "summary", "content_extracted", "content_raw",
                            "language", "published_at", "fetched_at", "feed_id", "feed", "state",
                            "tags", "attachments"}
      BY <2>2 DEF IsContext
    <3>2. StateOf(subject) \in UserState
      BY <2>2, StateIsKnown
    <3>3. CASE subject' = [subject EXCEPT !.state = [StateOf(subject) EXCEPT !.read_state = "read"]]
      <4>1. [StateOf(subject) EXCEPT !.read_state = "read"] \in UserState
        BY <3>2 DEF UserState, ReadStates
      <4> QED
        BY <4>1, <3>1, <3>3, <2>2 DEF IsContext
    <3>4. CASE subject' = [subject EXCEPT !.state = [StateOf(subject) EXCEPT !.starred = ~@]]
      <4>1. [StateOf(subject) EXCEPT !.starred = ~@] \in UserState
        BY <3>2 DEF UserState
      <4> QED
        BY <4>1, <3>1, <3>4, <2>2 DEF IsContext
    <3>5. CASE subject' = [subject EXCEPT !.tags = {}]
      BY <3>1, <3>5, <2>2 DEF IsContext
    <3>6. CASE subject' = [subject EXCEPT !.attachments =
                             [i \in DOMAIN @ |-> [@[i] EXCEPT !.path = "cached"]]]
      <4>1. \A i \in DOMAIN subject'.attachments : "path" \in DOMAIN subject'.attachments[i]
        BY <3>1, <3>6, <2>2 DEF IsContext
      <4> QED
        BY <4>1, <3>1, <3>6, <2>2 DEF IsContext
    <3>7. CASE subject' = subject
      BY <3>7, <2>2
    <3> QED
      BY <3>3, <3>4, <3>5, <3>6, <3>7, <2>1 DEF Edited
  <2>5. CASE UNCHANGED <<subject, host>>
    <3>1. HostOK'
      BY <2>1, <2>5 DEF RuleInv, HostOK
    <3>2. RuleTypeOK'
      BY <2>1, <2>2, <2>3, <2>4, <2>5 DEF RuleInv, RuleTypeOK
    <3> QED
      BY <2>1, <3>1, <3>2 DEF RuleInv
  <2>6. CASE host' = [host EXCEPT !.alone = FALSE]
    <3>1. host' = [step |-> host.step, id |-> host.id, left |-> host.left, alone |-> FALSE]
      BY <2>6 DEF RuleInv, HostOK
    <3>2. HostOK'
      BY <2>1, <3>1 DEF RuleInv, HostOK
    <3>3. RuleTypeOK'
      BY <2>1, <2>2, <2>3, <2>4, <3>1 DEF RuleInv, RuleTypeOK
    <3> QED
      BY <2>1, <3>2, <3>3 DEF RuleInv
  <2> QED
    BY <2>1, <2>5, <2>6
<1>6. CASE UNCHANGED ruleVars
  BY <1>6 DEF ruleVars, RuleInv, RuleTypeOK, HostOK
<1> QED
  BY <1>1, <1>2, <1>3, <1>4, <1>5, <1>6 DEF RuleNext

LEMMA ExplainedRuns == RuleInv => AuditExplainsRun
<1> SUFFICES ASSUME RuleInv PROVE AuditExplainsRun
  OBVIOUS
<1>1. \A id \in ListRuleAudits(MaxAudits) : AuditOK(audits[id], ran[id])
  BY DEF RuleInv, ListRuleAudits
<1>2. host.step # "idle" => /\ host.id \in ListRuleAudits(MaxAudits)
                            /\ audits[host.id].match_result = "matched"
  BY EveryAuditIsListed DEF RuleInv, HostOK
<1>3. host.step = "done" /\ host.alone /\ subject.feed # None =>
        ActionPlan(ActionDefinition(ran[host.id].actions.object), subject) = <<>>
  BY DEF RuleInv, HostOK
<1> QED
  BY <1>1, <1>2, <1>3 DEF AuditExplainsRun, AuditOK

(* Whatever the user made of the rule and the article while a rule ran,    *)
(* each audit explains, by the rule that ran, what was decided on what it  *)
(* says was seen; nothing was applied by a rule that did not match; and a  *)
(* run of an article nobody else changed leaves nothing to do              *)
(* (engine.rs, actions.rs, audit.rs, rule_audit_store.rs).                 *)
THEOREM RunsAreExplained == RuleSpec => [](RuleTypeOK /\ AuditExplainsRun)
<1>1. RuleInit => RuleInv
  BY RuleInitial
<1>2. RuleInv /\ [RuleNext]_ruleVars => RuleInv'
  BY RulesGoOn
<1>3. RuleInv => RuleTypeOK /\ AuditExplainsRun
  BY ExplainedRuns DEF RuleInv
<1> QED
  BY <1>1, <1>2, <1>3, PTL DEF RuleSpec

-------------------------------------------------------------------------------
(* ReaderCache.                                                            *)

Entries == Range(Inventory)

LEMMA InventoryIsFinite ==
  /\ IsFiniteSet(Entries)
  /\ \A e \in Entries : e.bytes \in Int /\ e.lastAccessedAt \in {NoDate} \cup Int
<1>1. DOMAIN Inventory = 1 .. Len(Inventory) /\ Len(Inventory) \in Nat
  BY CacheAssumption
<1>2. Inventory \in Surjection(1 .. Len(Inventory), Entries)
  BY <1>1, CacheAssumption DEF Surjection, Entries, Range
<1>3. IsFiniteSet(1 .. Len(Inventory))
  BY <1>1, FS_Interval
<1> QED
  BY <1>2, <1>3, FS_Surjection, CacheAssumption DEF Entries

(* The bytes of entries add up.                                            *)
LEMMA BytesAreFinite ==
  ASSUME NEW S \in SUBSET Entries
  PROVE  IsFiniteSet(BytesOf(S)) /\ TotalBytes(S) \in Nat
<1> DEFINE f == [e \in S |-> {e} \X (1 .. NormalizeBytes(e.bytes))]
           all == {{e} \X (1 .. NormalizeBytes(e.bytes)) : e \in S}
<1>1. IsFiniteSet(S)
  BY InventoryIsFinite, FS_Subset
<1>2. f \in Surjection(S, all)
  BY DEF Surjection
<1>3. IsFiniteSet(all)
  BY <1>1, <1>2, FS_Surjection
<1>4. ASSUME NEW e \in S
      PROVE  IsFiniteSet({e} \X (1 .. NormalizeBytes(e.bytes)))
  <2>1. NormalizeBytes(e.bytes) \in Int
    BY InventoryIsFinite DEF NormalizeBytes
  <2> DEFINE bytes == 1 .. NormalizeBytes(e.bytes)
  <2>2. IsFiniteSet({e}) /\ IsFiniteSet(bytes)
    <3> HIDE DEF f, all
    <3>1. 1 \in Int
      OBVIOUS
    <3> QED
      BY <2>1, <3>1, FS_Singleton, FS_Interval
  <2> HIDE DEF bytes
  <2>3. IsFiniteSet({e} \X bytes)
    BY <2>2, FS_Product
  <2> QED
    BY <2>3 DEF bytes
<1>5. \A T \in all : IsFiniteSet(T)
  BY <1>4
<1>6. IsFiniteSet(UNION all)
  BY <1>3, <1>5, FS_UNION
<1> QED
  BY <1>6, FS_CardinalityType DEF BytesOf, TotalBytes

LEMMA BytesAddUp ==
  ASSUME NEW S \in SUBSET Entries, NEW T \in SUBSET Entries, S \cap T = {}
  PROVE  TotalBytes(S \cup T) = TotalBytes(S) + TotalBytes(T)
<1>1. BytesOf(S \cup T) = BytesOf(S) \cup BytesOf(T)
  BY DEF BytesOf
<1>2. BytesOf(S) \cap BytesOf(T) = {}
  <2>1. \A x \in BytesOf(S) : x[1] \in S
    BY DEF BytesOf
  <2>2. \A x \in BytesOf(T) : x[1] \in T
    BY DEF BytesOf
  <2> QED
    BY <2>1, <2>2
<1>3. IsFiniteSet(BytesOf(S)) /\ IsFiniteSet(BytesOf(T))
  BY BytesAreFinite
<1>4. Cardinality(BytesOf(S) \cap BytesOf(T)) = 0
  BY <1>2, FS_EmptySet
<1>5. TotalBytes(S) \in Nat /\ TotalBytes(T) \in Nat
  BY BytesAreFinite
<1> DEFINE A == BytesOf(S)
           B == BytesOf(T)
<1>6. Cardinality(A) \in Nat /\ Cardinality(B) \in Nat
  BY <1>5 DEF TotalBytes
<1>7. Cardinality(A \cup B) = Cardinality(A) + Cardinality(B) - Cardinality(A \cap B)
  <2> HIDE DEF A, B
  <2> QED
    BY <1>3, FS_Union DEF A, B
<1>8. Cardinality(A \cup B) = Cardinality(A) + Cardinality(B)
  <2> HIDE DEF A, B
  <2> QED
    BY <1>4, <1>6, <1>7 DEF A, B
<1> QED
  BY <1>1, <1>8 DEF TotalBytes

LEMMA FewerBytes ==
  ASSUME NEW S \in SUBSET Entries, NEW T \in SUBSET S
  PROVE  TotalBytes(T) <= TotalBytes(S) /\ TotalBytes(S \ T) = TotalBytes(S) - TotalBytes(T)
<1>1. (S \ T) \cup T = S /\ (S \ T) \cap T = {}
  OBVIOUS
<1>2. TotalBytes(S) = TotalBytes(S \ T) + TotalBytes(T)
  <2>1. S \ T \in SUBSET Entries /\ T \in SUBSET Entries
    OBVIOUS
  <2>2. TotalBytes((S \ T) \cup T) = TotalBytes(S \ T) + TotalBytes(T)
    BY <1>1, <2>1, BytesAddUp
  <2> QED
    BY <1>1, <2>2
<1>3. TotalBytes(S \ T) \in Nat /\ TotalBytes(T) \in Nat
  BY BytesAreFinite
<1> QED
  BY <1>2, <1>3

LEMMA BytesOfOne ==
  ASSUME NEW e \in Entries
  PROVE  TotalBytes({e}) = NormalizeBytes(e.bytes) /\ NormalizeBytes(e.bytes) \in Nat
<1>1. NormalizeBytes(e.bytes) \in Nat
  BY InventoryIsFinite DEF NormalizeBytes
<1>2. BytesOf({e}) = {e} \X (1 .. NormalizeBytes(e.bytes))
  BY DEF BytesOf
<1>3. IsFiniteSet({e}) /\ Cardinality({e}) = 1
  BY FS_Singleton
<1>4. /\ IsFiniteSet(1 .. NormalizeBytes(e.bytes))
      /\ Cardinality(1 .. NormalizeBytes(e.bytes)) = NormalizeBytes(e.bytes)
  BY <1>1, FS_Interval
<1> DEFINE bytes == 1 .. NormalizeBytes(e.bytes)
<1>5. IsFiniteSet(bytes) /\ Cardinality(bytes) = NormalizeBytes(e.bytes)
  BY <1>4
<1> HIDE DEF bytes
<1>6. Cardinality({e} \X bytes) = Cardinality({e}) * Cardinality(bytes)
  BY <1>3, <1>5, FS_Product
<1>7. Cardinality({e}) * Cardinality(bytes) = NormalizeBytes(e.bytes)
  <2>1. \A n \in Nat : 1 * n = n
    OBVIOUS
  <2> QED
    BY <2>1, <1>1, <1>3, <1>5
<1> QED
  BY <1>1, <1>2, <1>6, <1>7 DEF TotalBytes, bytes

-------------------------------------------------------------------------------
(* The entries that may be evicted are in one order.                       *)
Pressable(S) == {e \in S : ~PolicyMismatch(e) /\ ~ProtectedFromLru(e)}

LEMMA PlacesDiffer ==
  ASSUME NEW e \in Entries, NEW o \in Entries
  PROVE  /\ Place(e) \in Int /\ Place(o) \in Int
         /\ Place(e) = Place(o) => e = o
<1>1. \A x \in Entries : Place(x) \in DOMAIN Inventory /\ Inventory[Place(x)] = x
  BY DEF Entries, Range, Place
<1>2. DOMAIN Inventory \subseteq Int
  BY CacheAssumption
<1> QED
  BY <1>1, <1>2

LEMMA OneOrder ==
  ASSUME NEW S \in SUBSET Entries
  PROVE  \A e, o \in Pressable(S) :
           /\ PlannedBefore(e, o) <=>
                \/ LastAccess(e) < LastAccess(o)
                \/ LastAccess(e) = LastAccess(o) /\ Place(e) < Place(o)
           /\ LastAccess(e) \in Int /\ LastAccess(o) \in Int
           /\ Place(e) \in Int /\ Place(o) \in Int
           /\ Place(e) = Place(o) => e = o
<1> SUFFICES ASSUME NEW e \in Pressable(S), NEW o \in Pressable(S)
             PROVE  /\ PlannedBefore(e, o) <=>
                         \/ LastAccess(e) < LastAccess(o)
                         \/ LastAccess(e) = LastAccess(o) /\ Place(e) < Place(o)
                    /\ LastAccess(e) \in Int /\ LastAccess(o) \in Int
                    /\ Place(e) \in Int /\ Place(o) \in Int
                    /\ Place(e) = Place(o) => e = o
  OBVIOUS
<1>1. e \in Entries /\ o \in Entries
  BY DEF Pressable
<1>2. LastAccess(e) \in Int /\ LastAccess(o) \in Int
  BY <1>1, InventoryIsFinite DEF LastAccess
<1>3. /\ PolicyMismatch(e) = FALSE /\ PolicyMismatch(o) = FALSE
      /\ ProtectedFromLru(e) = FALSE /\ ProtectedFromLru(o) = FALSE
  BY DEF Pressable, PolicyMismatch, ProtectedFromLru
<1>4. /\ SortedBefore(e, o) <=> LastAccess(e) < LastAccess(o)
      /\ SortedBefore(o, e) <=> LastAccess(o) < LastAccess(e)
  BY <1>3 DEF SortedBefore
<1> QED
  BY <1>1, <1>2, <1>4, PlacesDiffer DEF PlannedBefore

LEMMA LeastNumber ==
  ASSUME NEW N, N \subseteq Nat, N # {}
  PROVE  \E m \in N : \A n \in N : m <= n
<1>1. PICK m \in N : \A n \in N : <<n, m>> \notin OpToRel(<, Nat)
  BY WFMin, NatLessThanWellFounded
<1>2. \A n \in N : <<n, m>> \in Nat \X Nat
  OBVIOUS
<1>3. \A n \in N : ~(n < m)
  BY <1>1, <1>2 DEF OpToRel
<1> QED
  BY <1>3

Earlier(S, e) == {o \in Pressable(S) : PlannedBefore(o, e)}

LEMMA EarlierAreFewer ==
  ASSUME NEW S \in SUBSET Entries, NEW e \in Pressable(S), NEW o \in Pressable(S),
         PlannedBefore(e, o)
  PROVE  /\ Earlier(S, e) \subseteq Earlier(S, o) /\ e \in Earlier(S, o)
         /\ e \notin Earlier(S, e)
         /\ Cardinality(Earlier(S, e)) \in Nat /\ Cardinality(Earlier(S, o)) \in Nat
         /\ Cardinality(Earlier(S, e)) < Cardinality(Earlier(S, o))
<1>1. \A x \in Earlier(S, e) : x \in Earlier(S, o)
  BY OneOrder DEF Earlier
<1>2. e \in Earlier(S, o) /\ e \notin Earlier(S, e)
  BY OneOrder DEF Earlier
<1>3. IsFiniteSet(Earlier(S, o))
  BY InventoryIsFinite, FS_Subset DEF Earlier, Pressable
<1>4. /\ IsFiniteSet(Earlier(S, e))
      /\ Cardinality(Earlier(S, e)) <= Cardinality(Earlier(S, o))
      /\ Cardinality(Earlier(S, o)) = Cardinality(Earlier(S, e)) => Earlier(S, o) = Earlier(S, e)
  BY <1>1, <1>3, FS_Subset
<1>5. Cardinality(Earlier(S, e)) \in Nat /\ Cardinality(Earlier(S, o)) \in Nat
  BY <1>3, <1>4, FS_CardinalityType
<1> QED
  BY <1>1, <1>2, <1>4, <1>5

LEMMA EarlierAreCounted ==
  ASSUME NEW S \in SUBSET Entries, NEW e
  PROVE  /\ Cardinality(Earlier(S, e)) \in Nat
         /\ Cardinality(Earlier(S, e)) <= Cardinality(Entries) /\ Cardinality(Entries) \in Nat
<1>1. Earlier(S, e) \in SUBSET Entries
  BY DEF Earlier, Pressable
<1>2. IsFiniteSet(Earlier(S, e)) /\ Cardinality(Earlier(S, e)) <= Cardinality(Entries)
  BY <1>1, InventoryIsFinite, FS_Subset
<1> QED
  BY <1>2, InventoryIsFinite, FS_CardinalityType

LEMMA FirstOfSome ==
  ASSUME NEW S \in SUBSET Entries, NEW T \in SUBSET Pressable(S), T # {}
  PROVE  \E m \in T : \A e \in T : ~PlannedBefore(e, m)
<1> DEFINE N == {Cardinality(Earlier(S, e)) : e \in T}
<1>1. N \subseteq Nat /\ N # {}
  BY EarlierAreCounted
<1>2. PICK n \in N : \A k \in N : n <= k
  <2> HIDE DEF N
  <2> QED
    BY <1>1, LeastNumber
<1>3. PICK m \in T : n = Cardinality(Earlier(S, m))
  OBVIOUS
<1>4. ASSUME NEW e \in T, PlannedBefore(e, m)
      PROVE  FALSE
  <2>1. /\ Cardinality(Earlier(S, e)) < Cardinality(Earlier(S, m))
        /\ Cardinality(Earlier(S, e)) \in Nat /\ Cardinality(Earlier(S, m)) \in Nat
    BY <1>4, EarlierAreFewer
  <2>2. n <= Cardinality(Earlier(S, e))
    BY <1>2
  <2> QED
    BY <2>1, <2>2, <1>3
<1> QED
  BY <1>4

LEMMA LastOfSome ==
  ASSUME NEW S \in SUBSET Entries, NEW T \in SUBSET Pressable(S), T # {}
  PROVE  \E m \in T : \A e \in T : ~PlannedBefore(m, e)
<1> DEFINE all == Cardinality(Entries)
           N == {all - Cardinality(Earlier(S, e)) : e \in T}
<1>1. N \subseteq Nat /\ N # {}
  BY EarlierAreCounted
<1>2. PICK n \in N : \A k \in N : n <= k
  <2> HIDE DEF N
  <2> QED
    BY <1>1, LeastNumber
<1>3. PICK m \in T : n = all - Cardinality(Earlier(S, m))
  OBVIOUS
<1>4. ASSUME NEW e \in T, PlannedBefore(m, e)
      PROVE  FALSE
  <2>1. /\ Cardinality(Earlier(S, m)) < Cardinality(Earlier(S, e))
        /\ Cardinality(Earlier(S, e)) \in Nat /\ Cardinality(Earlier(S, m)) \in Nat
    BY <1>4, EarlierAreFewer
  <2>2. n <= all - Cardinality(Earlier(S, e))
    BY <1>2
  <2>3. all \in Nat
    BY EarlierAreCounted
  <2> HIDE DEF all
  <2> QED
    BY <2>1, <2>2, <2>3, <1>3
<1> QED
  BY <1>4

-------------------------------------------------------------------------------
(* What a clean-up takes of the entries S.                                 *)
Forbidden(S)   == {e \in S : PolicyMismatch(e)}
Limit          == NormalizeBytes(maxBytes)
Pressed(S) ==
  {e \in Pressable(S) : TotalBytes(S) - TotalBytes(Forbidden(S)) - TotalBytes(Earlier(S, e)) > Limit}

LEMMA EvictedAre ==
  ASSUME NEW S
  PROVE  /\ EvictedEntries(S) = Forbidden(S) \cup Pressed(S)
         /\ CandidateEntries(S) = Forbidden(S) \cup Pressable(S)
         /\ Forbidden(S) \cap Pressable(S) = {}
         /\ Pressed(S) \subseteq Pressable(S)
<1>1. CandidateEntries(S) = Forbidden(S) \cup Pressable(S)
  BY DEF CandidateEntries, Forbidden, Pressable, ProtectedFromLru
<1>2. Forbidden(S) \cap Pressable(S) = {}
  BY DEF Forbidden, Pressable
<1>3. /\ {e \in CandidateEntries(S) : PolicyMismatch(e)} = Forbidden(S)
      /\ CandidateEntries(S) \ Forbidden(S) = Pressable(S)
  BY <1>1, <1>2 DEF Forbidden, Pressable
<1>4. EvictedEntries(S) = Forbidden(S) \cup Pressed(S)
  BY <1>3 DEF EvictedEntries, Pressed, Earlier, Limit
<1> QED
  BY <1>1, <1>2, <1>4 DEF Pressed

(* What is taken for want of room is the first of what may be taken.       *)
LEMMA PressedAreFirst ==
  ASSUME NEW S \in SUBSET Entries, maxBytes \in Int,
         NEW e \in Pressable(S), NEW o \in Pressed(S), ~PlannedBefore(o, e)
  PROVE  e \in Pressed(S)
<1>1. o \in Pressable(S)
  BY DEF Pressed
<1>2. e = o \/ PlannedBefore(e, o)
  BY <1>1, OneOrder
<1>3. CASE PlannedBefore(e, o)
  <2>1. Earlier(S, e) \subseteq Earlier(S, o)
    BY <1>1, <1>3, EarlierAreFewer
  <2>2. Earlier(S, o) \in SUBSET Entries
    BY DEF Earlier, Pressable
  <2>3. TotalBytes(Earlier(S, e)) <= TotalBytes(Earlier(S, o))
    BY <2>1, <2>2, FewerBytes
  <2>4. /\ TotalBytes(Earlier(S, e)) \in Nat /\ TotalBytes(Earlier(S, o)) \in Nat
        /\ TotalBytes(S) \in Nat /\ TotalBytes(Forbidden(S)) \in Nat
    <3>1. Forbidden(S) \in SUBSET Entries /\ Earlier(S, e) \in SUBSET Entries
      BY <2>1, <2>2 DEF Forbidden
    <3> QED
      BY <2>2, <3>1, BytesAreFinite
  <2>5. TotalBytes(S) - TotalBytes(Forbidden(S)) - TotalBytes(Earlier(S, o)) > Limit
    BY DEF Pressed
  <2>6. Limit \in Int
    BY DEF Limit, NormalizeBytes
  <2>7. TotalBytes(S) - TotalBytes(Forbidden(S)) - TotalBytes(Earlier(S, e)) > Limit
    BY <2>3, <2>4, <2>5, <2>6
  <2> QED
    BY <2>7 DEF Pressed
<1> QED
  BY <1>2, <1>3

(* A clean-up makes the rest fit unless it takes all it may, and would not *)
(* without the last entry it takes.                                        *)
LEMMA EvictionFits ==
  ASSUME NEW S \in SUBSET Entries, maxBytes \in Int
  PROVE  LET rest == TotalBytes(S \ EvictedEntries(S))
         IN  /\ rest \in Nat /\ Limit \in Nat
             /\ Pressed(S) # Pressable(S) => rest <= Limit
             /\ Pressed(S) # {} => \E e \in Pressed(S) : rest + NormalizeBytes(e.bytes) > Limit
<1> DEFINE rest == TotalBytes(S \ EvictedEntries(S))
           allowed == S \ Forbidden(S)
<1>1. /\ Forbidden(S) \in SUBSET S /\ Pressable(S) \in SUBSET S /\ Pressed(S) \in SUBSET allowed
      /\ allowed \in SUBSET Entries
  BY EvictedAre DEF Forbidden, Pressable
<1>2. /\ rest = TotalBytes(allowed) - TotalBytes(Pressed(S))
      /\ TotalBytes(allowed) = TotalBytes(S) - TotalBytes(Forbidden(S))
  <2>1. S \ EvictedEntries(S) = allowed \ Pressed(S)
    BY EvictedAre
  <2>2. TotalBytes(allowed \ Pressed(S)) = TotalBytes(allowed) - TotalBytes(Pressed(S))
    <3> HIDE DEF allowed
    <3> QED
      BY <1>1, FewerBytes
  <2>3. TotalBytes(allowed) = TotalBytes(S) - TotalBytes(Forbidden(S))
    BY <1>1, FewerBytes
  <2> QED
    BY <2>1, <2>2, <2>3
<1>3. Limit \in Nat
  BY DEF Limit, NormalizeBytes
<1>4. rest \in Nat /\ TotalBytes(allowed) \in Nat /\ TotalBytes(Pressed(S)) \in Nat
  <2>1. Pressed(S) \in SUBSET Entries /\ S \ EvictedEntries(S) \in SUBSET Entries
    BY <1>1
  <2> HIDE DEF allowed
  <2> QED
    BY <1>1, <2>1, BytesAreFinite
<1>5. \A e \in Pressable(S) :
        e \in Pressed(S) <=> TotalBytes(allowed) - TotalBytes(Earlier(S, e)) > Limit
  BY <1>2 DEF Pressed
<1> HIDE DEF rest, allowed
<1>6. ASSUME Pressed(S) # Pressable(S)
      PROVE  rest <= Limit
  <2> DEFINE T == Pressable(S) \ Pressed(S)
  <2>1. T # {} /\ T \in SUBSET Pressable(S)
    BY <1>6, EvictedAre
  <2>2. PICK m \in T : \A e \in T : ~PlannedBefore(e, m)
    <3> HIDE DEF T
    <3> QED
      BY <2>1, FirstOfSome
  <2>3. Earlier(S, m) = Pressed(S)
    <3>1. \A e \in Earlier(S, m) : e \in Pressed(S)
      BY <2>2 DEF Earlier
    <3>2. \A e \in Pressed(S) : e \in Earlier(S, m)
      BY <2>2, PressedAreFirst, EvictedAre DEF Earlier
    <3> QED
      BY <3>1, <3>2
  <2>4. ~(TotalBytes(allowed) - TotalBytes(Pressed(S)) > Limit)
    BY <2>2, <2>3, <1>5
  <2> QED
    BY <2>4, <1>2, <1>3, <1>4
<1>7. ASSUME Pressed(S) # {}
      PROVE  \E e \in Pressed(S) : rest + NormalizeBytes(e.bytes) > Limit
  <2>1. PICK m \in Pressed(S) : \A e \in Pressed(S) : ~PlannedBefore(m, e)
    BY <1>7, EvictedAre, LastOfSome
  <2>2. m \in Pressable(S) /\ m \in Entries
    BY EvictedAre DEF Pressable
  <2>3. Earlier(S, m) = Pressed(S) \ {m}
    <3>1. ASSUME NEW e \in Earlier(S, m)
          PROVE  e \in Pressed(S) \ {m}
      <4>1. e \in Pressable(S) /\ PlannedBefore(e, m)
        BY DEF Earlier
      <4>2. ~PlannedBefore(m, e) /\ e # m
        BY <4>1, <2>2, OneOrder
      <4> QED
        BY <4>1, <4>2, PressedAreFirst
    <3>2. ASSUME NEW e \in Pressed(S) \ {m}
          PROVE  e \in Earlier(S, m)
      <4>1. e \in Pressable(S) /\ ~PlannedBefore(m, e)
        BY <2>1, EvictedAre
      <4>2. PlannedBefore(e, m)
        BY <4>1, <2>2, OneOrder
      <4> QED
        BY <4>1, <4>2 DEF Earlier
    <3> QED
      BY <3>1, <3>2
  <2>4. TotalBytes(allowed) - TotalBytes(Earlier(S, m)) > Limit
    BY <2>2, <1>5
  <2>5. TotalBytes(Pressed(S) \ {m}) = TotalBytes(Pressed(S)) - TotalBytes({m})
    <3>1. Pressed(S) \in SUBSET Entries
      BY EvictedAre DEF Pressable
    <3> QED
      BY <3>1, FewerBytes
  <2>6. TotalBytes({m}) = NormalizeBytes(m.bytes) /\ NormalizeBytes(m.bytes) \in Nat
    BY <2>2, BytesOfOne
  <2>7. rest + NormalizeBytes(m.bytes) > Limit
    BY <2>3, <2>4, <2>5, <2>6, <1>2, <1>3, <1>4
  <2> QED
    BY <2>7
<1> QED
  BY <1>3, <1>4, <1>6, <1>7 DEF rest

-------------------------------------------------------------------------------
(* What the shell has of an article is the same in its list, its details   *)
(* and its cache; and a note has text.                                     *)
CacheInv ==
  /\ CacheTypeOK
  /\ DetailsAreOfInventory
  /\ \A a \in ShellArticles : \A annotation \in shellDetails[a].annotations :
       annotation.type = "note" => annotation.note

(* What protects an entry is what the user did to its article.             *)
IsForUser(e) ==
  \E a \in ShellArticles :
    /\ a = e.articleId
    /\ \/ shellDetails[a].state.starred \/ shellDetails[a].state.readLater
       \/ \E annotation \in shellDetails[a].annotations : annotation.note

LEMMA ProtectedIsForUser ==
  ASSUME CacheInv, NEW e, ~PolicyMismatch(e)
  PROVE  ProtectedFromLru(e) <=> IsForUser(e)
<1>1. e.articleId \in ShellArticles =>
        shellDetails[e.articleId].state = shellList[e.articleId].state
  BY DEF CacheInv, DetailsAreOfInventory
<1>2. e.articleId \in ShellArticles =>
        (HasAnnotationNote(shellDetails[e.articleId])
           <=> \E annotation \in shellDetails[e.articleId].annotations : annotation.note)
  BY DEF CacheInv, HasAnnotationNote
<1> QED
  BY <1>1, <1>2 DEF ProtectedFromLru, HasReason, IsForUser

LEMMA LeanCleanup == CacheInv => CleanupIsLean
<1> SUFFICES ASSUME CacheInv PROVE CleanupIsLean
  OBVIOUS
<1> DEFINE S == cacheEntries
           evicted == EvictedEntries(S)
           saved == S \ evicted
           pressed == {e \in evicted : ~PolicyMismatch(e)}
<1>1. S \in SUBSET Entries /\ maxBytes \in Int
  BY CacheAssumption DEF CacheInv, CacheTypeOK, Entries
<1>2. /\ evicted = Forbidden(S) \cup Pressed(S)
      /\ CandidateEntries(S) = Forbidden(S) \cup Pressable(S)
      /\ Forbidden(S) \cap Pressable(S) = {}
      /\ Pressed(S) \subseteq Pressable(S)
  BY EvictedAre
<1>3. pressed = Pressed(S)
  BY <1>2 DEF Forbidden, Pressable
<1>4. \A e \in saved : e \in S /\ ~PolicyMismatch(e)
  BY <1>2 DEF Forbidden
<1>5. \A e \in saved : IsForUser(e) \/ e \in Pressable(S) \ Pressed(S)
  BY <1>2, <1>4, ProtectedIsForUser DEF Pressable
<1>6. /\ TotalBytes(saved) \in Nat /\ Limit \in Nat
      /\ Pressed(S) # Pressable(S) => TotalBytes(saved) <= Limit
      /\ Pressed(S) # {} =>
           \E e \in Pressed(S) : TotalBytes(saved) + NormalizeBytes(e.bytes) > Limit
  BY <1>1, EvictionFits
<1>7. \A e \in pressed : ~IsForUser(e)
  <2>1. \A e \in Pressed(S) : ~PolicyMismatch(e) /\ ~ProtectedFromLru(e)
    BY <1>2 DEF Pressable
  <2> QED
    BY <2>1, <1>3, ProtectedIsForUser
<1>8. TotalBytes(saved) <= Limit \/ \A e \in saved : IsForUser(e)
  BY <1>5, <1>6
<1>9. \A e \in pressed, o \in saved : IsForUser(o) \/ LastAccess(e) <= LastAccess(o)
  <2> SUFFICES ASSUME NEW e \in pressed, NEW o \in saved, ~IsForUser(o)
               PROVE  LastAccess(e) <= LastAccess(o)
    OBVIOUS
  <2>1. e \in Pressed(S) /\ e \in Pressable(S) /\ o \in Pressable(S) \ Pressed(S)
    BY <1>2, <1>3, <1>5
  <2>2. PlannedBefore(e, o)
    BY <1>1, <2>1, PressedAreFirst
  <2> HIDE DEF S
  <2> QED
    BY <1>1, <2>1, <2>2, OneOrder
<1>10. evicted \subseteq CandidateEntries(S)
  BY <1>2
<1>11. TotalBytes(evicted) <= TotalBytes(CandidateEntries(S))
  <2>1. CandidateEntries(S) \in SUBSET Entries
    BY <1>1 DEF CandidateEntries
  <2> HIDE DEF evicted
  <2> QED
    BY <1>10, <2>1, FewerBytes
<1>12. TotalBytes({e \in S : ProtectedFromLru(e)}) + TotalBytes(CandidateEntries(S)) = TotalBytes(S)
  <2> DEFINE P == {e \in S : ProtectedFromLru(e)}
             C == CandidateEntries(S)
  <2>1. P \cup C = S /\ P \cap C = {}
    BY DEF CandidateEntries, ProtectedFromLru
  <2>2. P \in SUBSET Entries /\ C \in SUBSET Entries
    BY <1>1, <2>1
  <2>3. TotalBytes(P \cup C) = TotalBytes(P) + TotalBytes(C)
    <3> HIDE DEF P, C
    <3> QED
      BY <2>1, <2>2, BytesAddUp
  <2> QED
    BY <2>1, <2>3
<1>13. EvictedEntries(saved) = {}
  <2>1. saved \in SUBSET Entries
    BY <1>1
  <2>2. Forbidden(saved) = {}
    BY <1>4 DEF Forbidden
  <2>3. \A e \in Pressable(saved) : e \in Pressable(S) \ Pressed(S)
    BY <1>2 DEF Pressable
  <2>4. ASSUME NEW e \in Pressed(saved)
        PROVE  FALSE
    <3>1. e \in Pressable(S) \ Pressed(S)
      BY <2>3, EvictedAre
    <3>2. TotalBytes(saved) <= Limit
      BY <3>1, <1>6
    <3>3. Earlier(saved, e) \in SUBSET Entries
      BY <2>1 DEF Earlier, Pressable
    <3>4. TotalBytes(Forbidden(saved)) \in Nat /\ TotalBytes(Earlier(saved, e)) \in Nat
      <4>1. Forbidden(saved) \in SUBSET Entries
        BY <2>2
      <4> HIDE DEF saved
      <4> QED
        BY <3>3, <4>1, BytesAreFinite
    <3>5. TotalBytes(saved) - TotalBytes(Forbidden(saved)) - TotalBytes(Earlier(saved, e)) > Limit
      BY DEF Pressed
    <3> HIDE DEF saved
    <3> QED
      BY <3>2, <3>4, <3>5, <1>6
  <2> QED
    BY <2>2, <2>4, EvictedAre
<1> HIDE DEF S, evicted, saved, pressed
<1>14. CacheSummary(S) =
         [candidates          |-> CandidateEntries(S),
          evictableBytes      |-> TotalBytes(CandidateEntries(S)),
          policyMismatchBytes |-> TotalBytes({e \in S : PolicyMismatch(e)}),
          protectedBytes      |-> TotalBytes({e \in S : ProtectedFromLru(e)}),
          totalBytes          |-> TotalBytes(S)]
  BY DEF CacheSummary
<1>15. /\ CacheSummary(S).candidates = CandidateEntries(S)
       /\ CacheSummary(S).evictableBytes = TotalBytes(CandidateEntries(S))
       /\ CacheSummary(S).protectedBytes = TotalBytes({e \in S : ProtectedFromLru(e)})
       /\ CacheSummary(S).totalBytes = TotalBytes(S)
  BY <1>14
<1>16. pressed # {} => \E e \in pressed : TotalBytes(saved) + NormalizeBytes(e.bytes) > Limit
  BY <1>3, <1>6
<1> QED
  BY <1>4, <1>7, <1>8, <1>9, <1>10, <1>11, <1>12, <1>13, <1>15, <1>16
  DEF CleanupIsLean, IsForUser, Limit, S, evicted, saved, pressed

-------------------------------------------------------------------------------
LEMMA CacheInitial == CacheInit => CacheInv
<1> SUFFICES ASSUME CacheInit PROVE CacheInv
  OBVIOUS
<1>1. FirstState \in ShellStates /\ FirstState.readState = ReadStateFromProgress(0)
      /\ FirstState.readingProgress = 0
  BY DEF FirstState, ShellStates, ShownAs, ReadStateFromProgress
<1>2. \A a : AttachmentsOf(Range(Inventory), a)
               \in SUBSET {e.attachmentId : e \in Range(Inventory)}
  BY DEF AttachmentsOf
<1>3. CacheTypeOK
  BY <1>1, <1>2 DEF CacheInit, CacheTypeOK, Policies
<1>4. DetailsAreOfInventory
  BY <1>1 DEF CacheInit, DetailsAreOfInventory
<1> QED
  BY <1>3, <1>4 DEF CacheInit, CacheInv

(* The state updateMockArticleState makes of another.                      *)
LEMMA NormalizedState ==
  ASSUME NEW current \in ShellStates, NEW input, IsStateInput(input),
         current.readState = ReadStateFromProgress(current.readingProgress)
  PROVE  LET next == NormalizeArticleState(current, input)
         IN  /\ next \in ShellStates
             /\ next.readState = ReadStateFromProgress(next.readingProgress)
<1> DEFINE given == [f \in DOMAIN current |-> IF f \in DOMAIN input THEN input[f] ELSE current[f]]
           progress ==
             IF "readingProgress" \in DOMAIN input THEN ClampReadingProgress(input.readingProgress)
             ELSE IF "readState" \notin DOMAIN input THEN current.readingProgress
             ELSE IF input.readState = "read" THEN 100
             ELSE IF input.readState = "unread" THEN 0
             ELSE IF current.readingProgress \in 1 .. 99 THEN current.readingProgress ELSE 25
           next == NormalizeArticleState(current, input)
<1>1. /\ given.starred \in BOOLEAN /\ given.readLater \in BOOLEAN /\ given.readState \in ShownAs
      /\ DOMAIN given = {"readState", "starred", "readLater", "readingProgress"}
      /\ "readState" \in DOMAIN input => given.readState = input.readState
      /\ "readState" \notin DOMAIN input => given.readState = current.readState
  BY DEF IsStateInput, ShellStates
<1>2. next = [given EXCEPT
                !.readingProgress = progress,
                !.readState = IF "readingProgress" \in DOMAIN input
                                THEN ReadStateFromProgress(progress) ELSE @]
  BY DEF NormalizeArticleState
<1> HIDE DEF given, next
<1>3. CASE "readingProgress" \in DOMAIN input
  <2>1. progress = ClampReadingProgress(input.readingProgress)
    BY <1>3
  <2>2. progress \in 0 .. 100
    BY <1>3, <2>1 DEF ClampReadingProgress, IsStateInput
  <2>3. ReadStateFromProgress(progress) \in ShownAs
    <3> HIDE DEF progress
    <3> QED
      BY <2>2 DEF ReadStateFromProgress, ShownAs
  <2> HIDE DEF progress
  <2>4. /\ next = [given EXCEPT !.readingProgress = progress,
                                !.readState = ReadStateFromProgress(progress)]
    BY <1>2, <1>3
  <2>5. next.readState = ReadStateFromProgress(progress) /\ next.readingProgress = progress
    BY <2>4, <1>1
  <2>6. next \in ShellStates
    BY <1>1, <2>2, <2>3, <2>4 DEF ShellStates, given
  <2> QED
    BY <2>5, <2>6 DEF next
<1>4. CASE "readingProgress" \notin DOMAIN input
  <2>1. /\ progress \in 0 .. 100 /\ given.readState = ReadStateFromProgress(progress)
    <3>1. CASE "readState" \notin DOMAIN input
      <4>1. progress = current.readingProgress
        BY <1>4, <3>1
      <4> QED
        BY <4>1, <3>1, <1>1 DEF ShellStates
    <3>2. CASE "readState" \in DOMAIN input /\ input.readState = "read"
      <4>1. progress = 100
        BY <1>4, <3>2
      <4> QED
        BY <4>1, <3>2, <1>1 DEF ReadStateFromProgress
    <3>3. CASE "readState" \in DOMAIN input /\ input.readState = "unread"
      <4>1. progress = 0
        BY <1>4, <3>3
      <4> QED
        BY <4>1, <3>3, <1>1 DEF ReadStateFromProgress
    <3>4. CASE "readState" \in DOMAIN input /\ input.readState = "reading"
      <4>1. progress = IF current.readingProgress \in 1 .. 99
                         THEN current.readingProgress ELSE 25
        BY <1>4, <3>4
      <4>2. progress \in 1 .. 99
        BY <4>1
      <4> QED
        BY <4>2, <3>4, <1>1 DEF ReadStateFromProgress
    <3> QED
      BY <3>1, <3>2, <3>3, <3>4 DEF IsStateInput, ShownAs
  <2> HIDE DEF progress
  <2>2. next = [given EXCEPT !.readingProgress = progress]
    BY <1>1, <1>2, <1>4 DEF given
  <2>3. next.readState = given.readState /\ next.readingProgress = progress
    BY <2>2, <1>1
  <2>4. next \in ShellStates
    BY <1>1, <2>1, <2>2 DEF ShellStates, given
  <2> QED
    BY <2>1, <2>3, <2>4 DEF next
<1> QED
  BY <1>3, <1>4

(* Known states, shown in the list and in the details.                     *)
LEMMA StatesReplaced ==
  ASSUME CacheInv, NEW next, ReplaceStates(next),
         \A a \in ShellArticles \cap DOMAIN next :
           /\ next[a] \in ShellStates
           /\ next[a].readState = ReadStateFromProgress(next[a].readingProgress)
  PROVE  CacheInv'
<1>1. /\ shellList' = [a \in ShellArticles |->
            [shellList[a] EXCEPT !.state = IF a \in DOMAIN next THEN next[a] ELSE @]]
      /\ shellDetails' = [a \in ShellArticles |->
            [shellDetails[a] EXCEPT !.state = IF a \in DOMAIN next THEN next[a] ELSE @]]
      /\ UNCHANGED <<cacheEntries, policies, maxBytes>>
  BY DEF ReplaceStates
<1>2. \A a \in ShellArticles :
        /\ shellList[a] \in [state : ShellStates, tagIds : SUBSET ShellTags]
        /\ shellDetails[a] \in
             [state : ShellStates, tags : SUBSET ShellTags,
              annotations : SUBSET {note[2] : note \in Notes},
              cached : SUBSET {e.attachmentId : e \in Range(Inventory)}]
  BY DEF CacheInv, CacheTypeOK
<1>3. \A a \in ShellArticles :
        /\ shellList'[a].state = IF a \in DOMAIN next THEN next[a] ELSE shellList[a].state
        /\ shellDetails'[a].state = IF a \in DOMAIN next THEN next[a] ELSE shellDetails[a].state
        /\ shellList'[a].tagIds = shellList[a].tagIds
        /\ shellDetails'[a].tags = shellDetails[a].tags
        /\ shellDetails'[a].annotations = shellDetails[a].annotations
        /\ shellDetails'[a].cached = shellDetails[a].cached
  BY <1>1, <1>2
<1>4. CacheTypeOK'
  <2>1. \A a \in ShellArticles :
          /\ shellList'[a] \in [state : ShellStates, tagIds : SUBSET ShellTags]
          /\ shellDetails'[a] \in
               [state : ShellStates, tags : SUBSET ShellTags,
                annotations : SUBSET {note[2] : note \in Notes},
                cached : SUBSET {e.attachmentId : e \in Range(Inventory)}]
    BY <1>1, <1>2
  <2> QED
    BY <1>1, <2>1 DEF CacheInv, CacheTypeOK
<1>5. DetailsAreOfInventory'
  <2>1. \A a \in ShellArticles :
          /\ shellDetails[a].state = shellList[a].state
          /\ shellDetails[a].tags = shellList[a].tagIds
          /\ shellDetails[a].cached = AttachmentsOf(cacheEntries, a)
          /\ shellList[a].state.readState = ReadStateFromProgress(shellList[a].state.readingProgress)
    BY DEF CacheInv, DetailsAreOfInventory
  <2>2. \A a : AttachmentsOf(cacheEntries, a)' = AttachmentsOf(cacheEntries, a)
    BY <1>1 DEF AttachmentsOf
  <2>3. \A a \in ShellArticles :
          shellList'[a].state.readState
            = ReadStateFromProgress(shellList'[a].state.readingProgress)
    <3> TAKE a \in ShellArticles
    <3>1. CASE a \in DOMAIN next
      BY <3>1, <1>3
    <3>2. CASE a \notin DOMAIN next
      BY <3>2, <1>3, <2>1
    <3> QED
      BY <3>1, <3>2
  <2> QED
    BY <1>1, <1>3, <2>1, <2>3 DEF DetailsAreOfInventory
<1> QED
  BY <1>3, <1>4, <1>5 DEF CacheInv

(* Entries that go, with what the details show of them.                    *)
LEMMA EntriesGone ==
  ASSUME CacheInv,
         cacheEntries' \subseteq cacheEntries,
         DOMAIN shellDetails' = ShellArticles,
         NEW gone,
         \A a \in ShellArticles :
           /\ shellDetails'[a] = [shellDetails[a] EXCEPT !.cached = @ \ gone[a]]
           /\ \A e \in cacheEntries : e.articleId = a /\ e.attachmentId # NoAttachment =>
                (e.attachmentId \in gone[a] <=> e \notin cacheEntries'),
         shellDetails' = [a \in ShellArticles |-> shellDetails'[a]],
         UNCHANGED <<shellList, policies, maxBytes>>
  PROVE  CacheInv'
<1>1. \A a \in ShellArticles :
        shellDetails[a] \in
          [state : ShellStates, tags : SUBSET ShellTags,
           annotations : SUBSET {note[2] : note \in Notes},
           cached : SUBSET {e.attachmentId : e \in Range(Inventory)}]
  BY DEF CacheInv, CacheTypeOK
<1>2. \A a \in ShellArticles :
        /\ shellDetails'[a].state = shellDetails[a].state
        /\ shellDetails'[a].tags = shellDetails[a].tags
        /\ shellDetails'[a].annotations = shellDetails[a].annotations
        /\ shellDetails'[a].cached = shellDetails[a].cached \ gone[a]
        /\ shellDetails'[a] \in
             [state : ShellStates, tags : SUBSET ShellTags,
              annotations : SUBSET {note[2] : note \in Notes},
              cached : SUBSET {e.attachmentId : e \in Range(Inventory)}]
  BY <1>1
<1>3. CacheTypeOK'
  BY <1>2 DEF CacheInv, CacheTypeOK
<1>4. \A a \in ShellArticles : shellDetails'[a].cached = AttachmentsOf(cacheEntries', a)
  <2> TAKE a \in ShellArticles
  <2>1. shellDetails[a].cached = AttachmentsOf(cacheEntries, a)
    BY DEF CacheInv, DetailsAreOfInventory
  <2>2. \A e \in cacheEntries : e.articleId = a /\ e.attachmentId # NoAttachment =>
          (e.attachmentId \in gone[a] <=> e \notin cacheEntries')
    OBVIOUS
  <2>3. AttachmentsOf(cacheEntries, a) \ gone[a] = AttachmentsOf(cacheEntries', a)
    BY <2>2 DEF AttachmentsOf
  <2> QED
    BY <2>1, <2>3, <1>2
<1>5. DetailsAreOfInventory'
  BY <1>2, <1>4 DEF CacheInv, DetailsAreOfInventory
<1> QED
  BY <1>2, <1>3, <1>5 DEF CacheInv

LEMMA CacheGoesOn == CacheInv /\ [CacheNext]_cacheVars => CacheInv'
<1> SUFFICES ASSUME CacheInv, [CacheNext]_cacheVars PROVE CacheInv'
  OBVIOUS
<1>1. CASE RunCacheCleanup
  <2> DEFINE evicted == EvictedEntries(cacheEntries)
             ids == {e.attachmentId : e \in evicted}
  <2>1. /\ cacheEntries' = cacheEntries \ evicted
        /\ shellDetails' = [a \in ShellArticles |-> [shellDetails[a] EXCEPT !.cached = @ \ ids]]
        /\ UNCHANGED <<shellList, policies, maxBytes>>
    BY <1>1 DEF RunCacheCleanup
  <2>2. evicted \subseteq cacheEntries /\ cacheEntries \subseteq Entries
    BY EvictedAre DEF CacheInv, CacheTypeOK, Entries, Forbidden, Pressable
  <2>3. \A e, o \in Entries : e.attachmentId = o.attachmentId /\ e.attachmentId # NoAttachment
                                => e = o
    BY CacheAssumption DEF Entries, Range
  <2> HIDE DEF evicted
  <2>4. \A e \in cacheEntries : e.attachmentId # NoAttachment =>
          (e.attachmentId \in ids <=> e \notin cacheEntries')
    BY <2>1, <2>2, <2>3
  <2> DEFINE gone == [a \in ShellArticles |-> ids]
  <2>5. \A a \in ShellArticles : gone[a] = ids
    OBVIOUS
  <2> HIDE DEF gone, ids
  <2> QED
    BY <2>1, <2>4, <2>5, EntriesGone
<1>2. ASSUME NEW edit \in PolicyEdits, UpdateFeed(edit[1], edit[2])
      PROVE  CacheInv'
  <2>1. /\ policies' = [policies EXCEPT ![edit[1]] = edit[2]]
        /\ UNCHANGED <<cacheEntries, shellList, shellDetails, maxBytes>>
    BY <1>2 DEF UpdateFeed
  <2>2. edit[1] \in ShellFeeds /\ edit[2] \in Policies
    BY CacheAssumption
  <2>3. policies' \in [ShellFeeds -> Policies]
    BY <2>1, <2>2 DEF CacheInv, CacheTypeOK
  <2> QED
    BY <2>1, <2>3 DEF CacheInv, CacheTypeOK, DetailsAreOfInventory
<1>3. ASSUME NEW bytes \in CacheBudgets, UpdateCacheSettings(bytes)
      PROVE  CacheInv'
  BY <1>3 DEF UpdateCacheSettings, CacheInv, CacheTypeOK, DetailsAreOfInventory
<1>4. ASSUME NEW edit \in StateEdits, UpdateArticleState(edit[1], edit[2])
      PROVE  CacheInv'
  <2> DEFINE next == [b \in {edit[1]} |-> NormalizeArticleState(shellList[b].state, edit[2])]
  <2>1. edit[1] \in ShellArticles /\ IsStateInput(edit[2])
    BY CacheAssumption
  <2>2. /\ shellList[edit[1]].state \in ShellStates
        /\ shellList[edit[1]].state.readState
             = ReadStateFromProgress(shellList[edit[1]].state.readingProgress)
    BY <2>1 DEF CacheInv, CacheTypeOK, DetailsAreOfInventory
  <2>3. \A a \in ShellArticles \cap DOMAIN next :
          /\ next[a] \in ShellStates
          /\ next[a].readState = ReadStateFromProgress(next[a].readingProgress)
    BY <2>1, <2>2, NormalizedState
  <2>4. ReplaceStates(next)
    BY <1>4 DEF UpdateArticleState
  <2> HIDE DEF next
  <2> QED
    BY <2>3, <2>4, StatesReplaced
<1>5. ASSUME NEW note \in Notes, CreateAnnotation(note[1], note[2])
      PROVE  CacheInv'
  <2>1. /\ note[2].type = "note" => note[2].note
        /\ shellDetails' = [shellDetails EXCEPT ![note[1]].annotations = @ \cup {note[2]}]
        /\ UNCHANGED <<cacheEntries, shellList, policies, maxBytes>>
    BY <1>5 DEF CreateAnnotation
  <2>2. note[1] \in ShellArticles
    BY CacheAssumption
  <2>3. \A a \in ShellArticles :
          /\ shellDetails[a] \in
               [state : ShellStates, tags : SUBSET ShellTags,
                annotations : SUBSET {n[2] : n \in Notes},
                cached : SUBSET {e.attachmentId : e \in Range(Inventory)}]
          /\ shellDetails'[a] = IF a = note[1]
               THEN [shellDetails[a] EXCEPT !.annotations = @ \cup {note[2]}] ELSE shellDetails[a]
    BY <2>1, <2>2 DEF CacheInv, CacheTypeOK
  <2>4. \A a \in ShellArticles :
          /\ shellDetails'[a].state = shellDetails[a].state
          /\ shellDetails'[a].tags = shellDetails[a].tags
          /\ shellDetails'[a].cached = shellDetails[a].cached
          /\ shellDetails'[a].annotations \subseteq shellDetails[a].annotations \cup {note[2]}
          /\ shellDetails'[a] \in
               [state : ShellStates, tags : SUBSET ShellTags,
                annotations : SUBSET {n[2] : n \in Notes},
                cached : SUBSET {e.attachmentId : e \in Range(Inventory)}]
    <3> TAKE a \in ShellArticles
    <3>1. note[2] \in {n[2] : n \in Notes}
      OBVIOUS
    <3>2. CASE a = note[1]
      <4>1. shellDetails'[a] = [shellDetails[a] EXCEPT !.annotations = @ \cup {note[2]}]
        BY <3>2, <2>3
      <4> HIDE <2>3
      <4>2. shellDetails[a] \in
               [state : ShellStates, tags : SUBSET ShellTags,
                annotations : SUBSET {n[2] : n \in Notes},
                cached : SUBSET {e.attachmentId : e \in Range(Inventory)}]
        BY <2>3
      <4>3. shellDetails[a].annotations \cup {note[2]} \in SUBSET {n[2] : n \in Notes}
        BY <3>1, <4>2
      <4> QED
        BY <4>1, <4>2, <4>3
    <3>3. CASE a # note[1]
      <4>1. shellDetails'[a] = shellDetails[a]
        BY <3>3, <2>3
      <4> QED
        BY <4>1, <2>3
    <3> QED
      BY <3>2, <3>3
  <2>5. CacheTypeOK'
    <3>1. shellDetails' = [a \in ShellArticles |-> shellDetails'[a]]
      BY <2>1 DEF CacheInv, CacheTypeOK
    <3> QED
      BY <3>1, <2>1, <2>4 DEF CacheInv, CacheTypeOK
  <2>6. DetailsAreOfInventory'
    BY <2>1, <2>4 DEF CacheInv, DetailsAreOfInventory
  <2>7. \A a \in ShellArticles : \A annotation \in shellDetails'[a].annotations :
          annotation.type = "note" => annotation.note
    BY <2>1, <2>4 DEF CacheInv
  <2> QED
    BY <2>5, <2>6, <2>7 DEF CacheInv
<1>6. ASSUME NEW input \in BatchInputs, MarkRead(input)
      PROVE  CacheInv'
  <2> DEFINE next == [a \in input.articleIds |->
                        [shellList[a].state EXCEPT !.readState = "read", !.readingProgress = 100]]
  <2>1. input.articleIds \subseteq ShellArticles /\ ReplaceStates(next)
    BY <1>6 DEF MarkRead, Selectable
  <2>2. \A a \in ShellArticles : shellList[a].state \in ShellStates
    BY DEF CacheInv, CacheTypeOK
  <2>3. \A a \in ShellArticles \cap DOMAIN next :
          /\ next[a] \in ShellStates
          /\ next[a].readState = "read" /\ next[a].readingProgress = 100
    <3> TAKE a \in ShellArticles \cap DOMAIN next
    <3>1. shellList[a].state \in ShellStates
      BY <2>2
    <3>2. next[a] = [shellList[a].state EXCEPT !.readState = "read", !.readingProgress = 100]
      OBVIOUS
    <3> HIDE DEF next
    <3>3. "read" \in ShownAs /\ 100 \in 0 .. 100
      BY DEF ShownAs
    <3> DEFINE known == shellList[a].state
               opened == [known EXCEPT !.readState = "read"]
    <3>4. known \in [readState : ShownAs, starred : BOOLEAN, readLater : BOOLEAN,
                      readingProgress : 0 .. 100]
      BY <3>1 DEF ShellStates
    <3>5. next[a] = [opened EXCEPT !.readingProgress = 100]
      BY <3>2
    <3> HIDE DEF known
    <3>6. /\ opened \in [readState : ShownAs, starred : BOOLEAN, readLater : BOOLEAN,
                         readingProgress : 0 .. 100]
          /\ opened.readState = "read"
      BY <3>3, <3>4
    <3> HIDE DEF opened
    <3>7. /\ next[a] \in [readState : ShownAs, starred : BOOLEAN, readLater : BOOLEAN,
                          readingProgress : 0 .. 100]
          /\ next[a].readState = "read" /\ next[a].readingProgress = 100
      BY <3>3, <3>5, <3>6
    <3> QED
      BY <3>7 DEF ShellStates
  <2>4. ReadStateFromProgress(100) = "read"
    BY DEF ReadStateFromProgress
  <2> HIDE DEF next
  <2> QED
    BY <2>1, <2>3, <2>4, StatesReplaced
<1>7. ASSUME NEW input \in BatchInputs, AddReadLater(input)
      PROVE  CacheInv'
  <2> DEFINE next == [a \in input.articleIds |-> [shellList[a].state EXCEPT !.readLater = TRUE]]
  <2>1. input.articleIds \subseteq ShellArticles /\ ReplaceStates(next)
    BY <1>7 DEF AddReadLater, Selectable
  <2>2. \A a \in ShellArticles :
          /\ shellList[a].state \in ShellStates
          /\ shellList[a].state.readState
               = ReadStateFromProgress(shellList[a].state.readingProgress)
    BY DEF CacheInv, CacheTypeOK, DetailsAreOfInventory
  <2>3. \A a \in ShellArticles \cap DOMAIN next :
          /\ next[a] \in ShellStates
          /\ next[a].readState = shellList[a].state.readState
          /\ next[a].readingProgress = shellList[a].state.readingProgress
    BY <2>2 DEF ShellStates
  <2> HIDE DEF next
  <2> QED
    BY <2>1, <2>2, <2>3, StatesReplaced
<1>8. ASSUME NEW input \in BatchInputs, AddTag(input)
      PROVE  CacheInv'
  <2>1. /\ input.tagId \in ShellTags
        /\ shellList' = [a \in ShellArticles |->
             IF a \in input.articleIds THEN [shellList[a] EXCEPT !.tagIds = @ \cup {input.tagId}]
             ELSE shellList[a]]
        /\ shellDetails' = [a \in ShellArticles |->
             IF a \in input.articleIds THEN [shellDetails[a] EXCEPT !.tags = @ \cup {input.tagId}]
             ELSE shellDetails[a]]
        /\ UNCHANGED <<cacheEntries, policies, maxBytes>>
    BY <1>8 DEF AddTag
  <2>2. \A a \in ShellArticles :
          /\ shellList[a] \in [state : ShellStates, tagIds : SUBSET ShellTags]
          /\ shellDetails[a] \in
               [state : ShellStates, tags : SUBSET ShellTags,
                annotations : SUBSET {note[2] : note \in Notes},
                cached : SUBSET {e.attachmentId : e \in Range(Inventory)}]
    BY DEF CacheInv, CacheTypeOK
  <2>3. \A a \in ShellArticles :
          /\ shellList'[a] \in [state : ShellStates, tagIds : SUBSET ShellTags]
          /\ shellDetails'[a] \in
               [state : ShellStates, tags : SUBSET ShellTags,
                annotations : SUBSET {note[2] : note \in Notes},
                cached : SUBSET {e.attachmentId : e \in Range(Inventory)}]
          /\ shellList'[a].state = shellList[a].state
          /\ shellDetails'[a].state = shellDetails[a].state
          /\ shellDetails'[a].annotations = shellDetails[a].annotations
          /\ shellDetails'[a].cached = shellDetails[a].cached
          /\ shellDetails[a].tags = shellList[a].tagIds
               => shellDetails'[a].tags = shellList'[a].tagIds
    <3> TAKE a \in ShellArticles
    <3>1. CASE a \in input.articleIds
      BY <3>1, <2>1, <2>2
    <3>2. CASE a \notin input.articleIds
      BY <3>2, <2>1, <2>2
    <3> QED
      BY <3>1, <3>2
  <2>4. CacheTypeOK'
    BY <2>1, <2>3 DEF CacheInv, CacheTypeOK
  <2>5. DetailsAreOfInventory'
    BY <2>1, <2>3 DEF CacheInv, DetailsAreOfInventory
  <2> QED
    BY <2>3, <2>4, <2>5 DEF CacheInv
<1>9. ASSUME NEW input \in BatchInputs, DeleteCache(input)
      PROVE  CacheInv'
  <2> DEFINE evicted == {e \in cacheEntries : e.articleId \in input.articleIds}
             ids == {e.attachmentId : e \in evicted}
             gone == [a \in ShellArticles |-> IF a \in input.articleIds THEN ids ELSE {}]
  <2>1. /\ cacheEntries' = cacheEntries \ evicted
        /\ shellDetails' = [a \in ShellArticles |->
             IF a \in input.articleIds THEN [shellDetails[a] EXCEPT !.cached = @ \ ids]
             ELSE shellDetails[a]]
        /\ UNCHANGED <<shellList, policies, maxBytes>>
    BY <1>9 DEF DeleteCache
  <2>2. \A a \in ShellArticles : shellDetails[a] = [shellDetails[a] EXCEPT !.cached = @ \ {}]
    <3>1. \A a \in ShellArticles : shellDetails[a] \in
             [state : ShellStates, tags : SUBSET ShellTags,
              annotations : SUBSET {note[2] : note \in Notes},
              cached : SUBSET {e.attachmentId : e \in Range(Inventory)}]
      BY DEF CacheInv, CacheTypeOK
    <3> QED
      BY <3>1
  <2>3. \A a \in ShellArticles :
          /\ shellDetails'[a] = [shellDetails[a] EXCEPT !.cached = @ \ gone[a]]
          /\ \A e \in cacheEntries : e.articleId = a /\ e.attachmentId # NoAttachment =>
               (e.attachmentId \in gone[a] <=> e \notin cacheEntries')
    <3> TAKE a \in ShellArticles
    <3>1. CASE a \in input.articleIds
      <4>1. gone[a] = ids
        BY <3>1
      <4>2. \A e \in cacheEntries : e.articleId = a => e \in evicted /\ e.attachmentId \in ids
        BY <3>1
      <4> HIDE DEF gone, ids, evicted
      <4> QED
        BY <4>1, <4>2, <3>1, <2>1
    <3>2. CASE a \notin input.articleIds
      <4>1. gone[a] = {}
        BY <3>2
      <4>2. \A e \in cacheEntries : e.articleId = a => e \notin evicted
        BY <3>2
      <4> HIDE DEF gone, ids, evicted
      <4> QED
        BY <4>1, <4>2, <3>2, <2>1, <2>2
    <3> QED
      BY <3>1, <3>2
  <2> HIDE DEF gone, ids, evicted
  <2> QED
    BY <2>1, <2>3, EntriesGone
<1>10. CASE UNCHANGED cacheVars
  BY <1>10 DEF cacheVars, CacheInv, CacheTypeOK, DetailsAreOfInventory
<1> QED
  BY <1>1, <1>2, <1>3, <1>4, <1>5, <1>6, <1>7, <1>8, <1>9, <1>10 DEF CacheNext

(* Whatever was opened, starred, noted and cleaned up in whatever order:   *)
(* the shell's lists, details and cache agree on every article, and the    *)
(* cleanup due removes what a policy forbids and no more than it must of   *)
(* the rest, never what the user keeps (cache-maintenance.ts).             *)
THEOREM CacheIsKept == CacheSpec => [](CacheTypeOK /\ CacheIsSound)
<1>1. CacheInit => CacheInv
  BY CacheInitial
<1>2. CacheInv /\ [CacheNext]_cacheVars => CacheInv'
  BY CacheGoesOn
<1>3. CacheInv => CacheTypeOK /\ CacheIsSound
  BY LeanCleanup DEF CacheInv, CacheIsSound
<1> QED
  BY <1>1, <1>2, <1>3, PTL DEF CacheSpec

-------------------------------------------------------------------------------
(* LocalApi.                                                               *)

Steps  == {"checking", "accepting", "reading", "answering", "ended"}
Stages == {"new", "waiting", "answered"}
Owners == {"running", "waking", "joining", "dropped"}

(* What one connection and the thread are made of.                         *)
ConnectionOK(k) == DOMAIN k = DOMAIN Silent /\ k.stage \in Stages
ThreadOK(t) == DOMAIN t = {"step", "with", "read"} /\ t.step \in Steps /\ t.with \in Connections

ApiInv ==
  /\ ThreadOK(thread) /\ shutdown \in BOOLEAN /\ owner \in Owners
  /\ backlog \in Seq(Connections)
  /\ DOMAIN client = Connections /\ \A c \in Connections : ConnectionOK(client[c])

LEMMA SilentIsOK == ConnectionOK(Silent) /\ \A step \in Steps : ThreadOK(Loop(step))
  BY DEF ConnectionOK, ThreadOK, Silent, Loop, Stages, Connections

(* One connection changes, and stays one.                                  *)
LEMMA ConnectionChanges ==
  ASSUME ApiInv, NEW c \in Connections, NEW k, ConnectionOK(k), client' = [client EXCEPT ![c] = k]
  PROVE  DOMAIN client' = Connections /\ \A d \in Connections : ConnectionOK(client'[d])
  BY DEF ApiInv

LEMMA ApiGoesOn ==
  ASSUME ApiInv, [ApiNext]_apiVars
  PROVE  ApiInv'
<1>1. /\ backlog # <<>> => Head(backlog) \in Connections /\ Tail(backlog) \in Seq(Connections)
      /\ \A c \in Connections : Append(backlog, c) \in Seq(Connections)
  BY DEF ApiInv
<1>2. Wake \in Connections /\ Clients \subseteq Connections
  BY DEF Connections
<1>3. ASSUME NEW c \in Clients, NEW script \in Requests, Connect(c, script)
      PROVE  ApiInv'
  <2>1. client' = [client EXCEPT ![c] = [client[c] EXCEPT !.stage = "waiting", !.script = script]]
    BY <1>2, <1>3 DEF Connect, ApiInv
  <2>2. ConnectionOK([client[c] EXCEPT !.stage = "waiting", !.script = script])
    BY <1>2 DEF ApiInv, ConnectionOK, Silent, Stages
  <2> QED
    BY <1>1, <1>2, <1>3, <2>1, <2>2, ConnectionChanges DEF Connect, ApiInv
<1>4. ASSUME NEW c \in Clients, Send(c)
      PROVE  ApiInv'
  <2> DEFINE k == [client[c] EXCEPT !.script = Tail(@),
                                    !.inbox = Append(@, Head(client[c].script))]
  <2>1. client' = [client EXCEPT ![c] = k]
    BY <1>2, <1>4 DEF Send, ApiInv
  <2>2. ConnectionOK(k)
    BY <1>2 DEF ApiInv, ConnectionOK, Silent, Stages
  <2> HIDE DEF k
  <2> QED
    BY <1>2, <1>4, <2>1, <2>2, ConnectionChanges DEF Send, ApiInv
<1>5. ASSUME NEW c \in Clients, Hang(c)
      PROVE  ApiInv'
  <2>1. client' = [client EXCEPT ![c] = [client[c] EXCEPT !.closed = TRUE]]
    BY <1>2, <1>5 DEF Hang, ApiInv
  <2>2. ConnectionOK([client[c] EXCEPT !.closed = TRUE])
    BY <1>2 DEF ApiInv, ConnectionOK, Silent, Stages
  <2> QED
    BY <1>2, <1>5, <2>1, <2>2, ConnectionChanges DEF Hang, ApiInv
<1>6. CASE CheckShutdown \/ WouldBlock \/ AcceptFails
  <2>1. \E step \in Steps : thread' = Loop(step)
    BY <1>6 DEF CheckShutdown, WouldBlock, AcceptFails, Steps
  <2>2. UNCHANGED <<shutdown, owner, backlog, client>>
    BY <1>6 DEF CheckShutdown, WouldBlock, AcceptFails
  <2> QED
    BY <2>1, <2>2, SilentIsOK DEF ApiInv
<1>7. CASE Accept
  <2>1. ThreadOK([step |-> "reading", with |-> Head(backlog), read |-> <<>>])
    BY <1>1, <1>7 DEF Accept, ThreadOK, Steps
  <2> QED
    BY <1>1, <1>7, <2>1 DEF Accept, ApiInv
<1>8. CASE ReadLine
  <2> DEFINE c == thread.with
             line == IF client[c].inbox # <<>> THEN Head(client[c].inbox) ELSE [kind |-> "end"]
             k == [client[c] EXCEPT !.inbox = IF @ = <<>> THEN @ ELSE Tail(@)]
             t == [thread EXCEPT !.step = IF line.kind = "end" THEN "answering" ELSE @,
                                 !.read = IF line.kind = "end" THEN @ ELSE Append(@, line)]
  <2>1. c \in Connections
    BY DEF ApiInv, ThreadOK
  <2>2. client' = [client EXCEPT ![c] = k] /\ thread' = t
    BY <1>8, <2>1 DEF ReadLine, ApiInv
  <2>3. ConnectionOK(k)
    BY <2>1 DEF ApiInv, ConnectionOK, Silent, Stages
  <2>4. ThreadOK(t)
    BY DEF ApiInv, ThreadOK, Steps
  <2>5. UNCHANGED <<shutdown, owner, backlog>>
    BY <1>8 DEF ReadLine
  <2> HIDE DEF k, t
  <2>6. DOMAIN client' = Connections /\ \A d \in Connections : ConnectionOK(client'[d])
    BY <2>1, <2>2, <2>3, ConnectionChanges
  <2> QED
    BY <2>2, <2>4, <2>5, <2>6 DEF ApiInv
<1>9. CASE ReadTimeout
  <2>1. ThreadOK([thread EXCEPT !.step = "answering", !.read = <<>>])
    BY DEF ApiInv, ThreadOK, Steps
  <2> QED
    BY <1>9, <2>1 DEF ReadTimeout, ApiInv
<1>10. CASE Answer
  <2> DEFINE c == thread.with
  <2>1. c \in Connections
    BY DEF ApiInv, ThreadOK
  <2>2. PICK status \in RouteRequest(thread.read) :
          client' = [client EXCEPT ![c] =
            [Silent EXCEPT !.stage = "answered", !.closed = TRUE,
                           !.status = IF client[c].closed THEN 0 ELSE status]]
    BY <1>10 DEF Answer
  <2>3. ConnectionOK([Silent EXCEPT !.stage = "answered", !.closed = TRUE,
                                    !.status = IF client[c].closed THEN 0 ELSE status])
    BY DEF ConnectionOK, Silent, Stages
  <2>4. thread' = Loop("checking") /\ UNCHANGED <<shutdown, owner, backlog>>
    BY <1>10 DEF Answer
  <2>5. DOMAIN client' = Connections /\ \A d \in Connections : ConnectionOK(client'[d])
    BY <2>1, <2>2, <2>3, ConnectionChanges
  <2> QED
    BY <2>4, <2>5, SilentIsOK DEF ApiInv, Steps
<1>11. CASE StoreShutdown \/ JoinThread
  BY <1>11 DEF StoreShutdown, JoinThread, ApiInv, Owners
<1>12. CASE WakeUp
  <2>1. UNCHANGED <<thread, shutdown>> /\ owner' = "joining"
    BY <1>12 DEF WakeUp
  <2>2. CASE UNCHANGED <<backlog, client>>
    BY <2>1, <2>2 DEF ApiInv, Owners
  <2>3. CASE /\ backlog' = Append(backlog, Wake)
             /\ client' = [client EXCEPT ![Wake].stage = "waiting", ![Wake].closed = TRUE]
    <3>1. client' = [client EXCEPT ![Wake] =
                       [client[Wake] EXCEPT !.stage = "waiting", !.closed = TRUE]]
      BY <1>2, <2>3 DEF ApiInv
    <3>2. ConnectionOK([client[Wake] EXCEPT !.stage = "waiting", !.closed = TRUE])
      BY <1>2 DEF ApiInv, ConnectionOK, Silent, Stages
    <3>3. DOMAIN client' = Connections /\ \A d \in Connections : ConnectionOK(client'[d])
      BY <1>2, <3>1, <3>2, ConnectionChanges
    <3> QED
      BY <1>1, <1>2, <2>1, <2>3, <3>3 DEF ApiInv, Owners
  <2> QED
    BY <1>12, <2>2, <2>3 DEF WakeUp
<1>13. CASE UNCHANGED apiVars
  BY <1>13 DEF apiVars, ApiInv
<1> QED
  BY <1>3, <1>4, <1>5, <1>6, <1>7, <1>8, <1>9, <1>10, <1>11, <1>12, <1>13
  DEF ApiNext, ServerStep

(* The thread serves a connection there is, and every connection stays one.*)
THEOREM ConnectionsStay == ApiSpec => []ApiTypeOK
<1>1. ApiInit => ApiInv
  <2> SUFFICES ASSUME ApiInit PROVE ApiInv
    OBVIOUS
  <2>1. /\ thread = Loop("checking") /\ owner = "running" /\ shutdown = FALSE
        /\ backlog = <<>> /\ client = [c \in Connections |-> Silent]
    BY DEF ApiInit
  <2> QED
    BY <2>1, SilentIsOK, EmptySeq DEF ApiInv, Steps, Owners
<1>2. ApiInv /\ [ApiNext]_apiVars => ApiInv'
  BY ApiGoesOn
<1>3. ApiInv => ApiTypeOK
  <2> SUFFICES ASSUME ApiInv PROVE ApiTypeOK
    OBVIOUS
  <2>1. Range(backlog) \subseteq Connections
    BY DEF Range, ApiInv
  <2> QED
    BY <2>1 DEF ApiInv, ApiTypeOK, ThreadOK, ConnectionOK, Steps, Stages, Owners
<1> QED
  BY <1>1, <1>2, <1>3, PTL DEF ApiSpec

-------------------------------------------------------------------------------
(* ReaderQuery and RuleQuery: trees, which are what a definition can be    *)
(* built up to, by how deep they are nested.                               *)
Leaves ==
  {Predicate(f, o, v) : f \in QueryFields, o \in QueryOperators, v \in Values \cup {Str("unread")}}
  \cup {Group("all", <<>>)}

Grown(S) ==
  S \cup {Not(c) : c \in S} \cup {Group(m, s) : m \in {"all", "any"}, s \in Seq(S)}

WithChildren(S) == UNION {{n} \cup ChildrenOf(n) : n \in S}

(* One turn of a loop: over the levels of a definition, over the levels of *)
(* trees, and over the parts of a sequence that is flattened.              *)
Turn(loop, x, piece) ==
  CASE loop = "children" -> WithChildren(x)
    [] loop = "trees"    -> Grown(x)
    [] loop = "parts"    -> x \o piece

IsLoop(f, loop, first, parts, low, k) ==
  f = [d \in low .. k |-> IF d = low THEN first ELSE Turn(loop, f[d - 1], parts[d])]

(* A loop over numbers has a result: the first number that has none would  *)
(* have one by that of the number before.                                  *)
LEMMA LoopsEnd ==
  ASSUME NEW loop, NEW first, NEW parts, NEW low \in Nat, NEW k \in Nat
  PROVE  \E f : IsLoop(f, loop, first, parts, low, k)
<1> DEFINE Has(h) == \E f : IsLoop(f, loop, first, parts, low, h)
           bad == {h \in Nat : ~Has(h)}
<1>1. SUFFICES ASSUME bad # {} PROVE FALSE
  <2>1. bad = {} => Has(k)
    OBVIOUS
  <2> HIDE DEF bad
  <2> QED
    BY <2>1
<1>2. PICK h \in bad : \A i \in bad : h <= i
  BY <1>1, LeastOf
<1>3. CASE h <= low
  <2> DEFINE f == [d \in low .. h |-> first]
  <2>1. \A d \in low .. h : d = low
    BY <1>3
  <2>2. IsLoop(f, loop, first, parts, low, h)
    BY <2>1 DEF IsLoop
  <2> HIDE DEF f
  <2> QED
    BY <1>2, <2>2
<1>4. CASE low < h
  <2>0. h \in Nat /\ h - 1 \in Nat
    BY <1>4
  <2>1. h - 1 \notin bad
    <3>1. ~(h <= h - 1)
      BY <2>0
    <3> HIDE DEF bad
    <3> QED
      BY <1>2, <3>1
  <2>2. PICK f : IsLoop(f, loop, first, parts, low, h - 1)
    <3>1. Has(h - 1)
      BY <2>0, <2>1
    <3> QED
      BY <3>1
  <2> DEFINE g == [d \in low .. h |-> IF d = h THEN Turn(loop, f[h - 1], parts[h]) ELSE f[d]]
  <2>3. ASSUME NEW d \in low .. h
        PROVE  g[d] = IF d = low THEN first ELSE Turn(loop, g[d - 1], parts[d])
    <3>1. CASE d = h
      <4>1. d - 1 \in low .. h /\ d - 1 # h
        BY <1>4, <2>0, <3>1
      <4> QED
        BY <1>4, <3>1, <4>1
    <3>2. CASE d # h
      <4>1. d \in low .. h - 1 /\ g[d] = f[d] /\ (d # low => d - 1 \in low .. h /\ g[d - 1] = f[d - 1])
        BY <3>2
      <4>2. f[d] = IF d = low THEN first ELSE Turn(loop, f[d - 1], parts[d])
        BY <2>2, <4>1 DEF IsLoop
      <4> QED
        BY <4>1, <4>2
    <3> QED
      BY <3>1, <3>2
  <2>4. g = [d \in low .. h |-> g[d]]
    OBVIOUS
  <2> HIDE DEF g
  <2>5. IsLoop(g, loop, first, parts, low, h)
    BY <2>3, <2>4 DEF IsLoop
  <2> QED
    BY <1>2, <2>5
<1> QED
  BY <1>2, <1>3, <1>4

(* The levels of a definition.                                             *)
Levels(json) ==
  CHOOSE f : f = [d \in 0 .. MaxNesting |-> IF d = 0 THEN {json} ELSE WithChildren(f[d - 1])]

LEMMA LevelsAre ==
  ASSUME NEW json
  PROVE  /\ NodesOf(json) = Levels(json)[MaxNesting]
         /\ Levels(json)[0] = {json}
         /\ \A d \in 1 .. MaxNesting : Levels(json)[d] = WithChildren(Levels(json)[d - 1])
<1> DEFINE f == Levels(json)
<1>1. NodesOf(json) = f[MaxNesting]
  BY DEF NodesOf, Levels, WithChildren
<1>2. f = [d \in 0 .. MaxNesting |-> IF d = 0 THEN {json} ELSE WithChildren(f[d - 1])]
  <2>1. PICK g : IsLoop(g, "children", {json}, <<>>, 0, MaxNesting)
    BY LoopsEnd, NestingAssumption
  <2>2. g = [d \in 0 .. MaxNesting |-> IF d = 0 THEN {json} ELSE WithChildren(g[d - 1])]
    BY <2>1 DEF IsLoop, Turn
  <2> QED
    BY <2>2 DEF Levels
<1> HIDE DEF f
<1>3. f[0] = {json}
  BY <1>2, NestingAssumption
<1>4. ASSUME NEW d \in 1 .. MaxNesting PROVE f[d] = WithChildren(f[d - 1])
  <2>1. d \in 0 .. MaxNesting /\ d # 0
    OBVIOUS
  <2> QED
    BY <1>2, <2>1
<1> QED
  BY <1>1, <1>3, <1>4 DEF f

(* The levels of trees.                                                    *)
TreeLevels ==
  CHOOSE f : f = [d \in 0 .. MaxNesting |-> IF d = 0 THEN Leaves ELSE Grown(f[d - 1])]
Trees(d) == TreeLevels[d]
AllTrees == Trees(MaxNesting)

LEMMA TreesAre ==
  /\ Trees(0) = Leaves
  /\ \A d \in 1 .. MaxNesting : Trees(d) = Grown(Trees(d - 1))
<1> DEFINE f == TreeLevels
<1>1. f = [d \in 0 .. MaxNesting |-> IF d = 0 THEN Leaves ELSE Grown(f[d - 1])]
  <2>1. PICK g : IsLoop(g, "trees", Leaves, <<>>, 0, MaxNesting)
    BY LoopsEnd, NestingAssumption
  <2>2. g = [d \in 0 .. MaxNesting |-> IF d = 0 THEN Leaves ELSE Grown(g[d - 1])]
    BY <2>1 DEF IsLoop, Turn
  <2> QED
    BY <2>2 DEF TreeLevels
<1> HIDE DEF f
<1>2. f[0] = Leaves /\ \A d \in 1 .. MaxNesting : f[d] = Grown(f[d - 1])
  BY <1>1, NestingAssumption
<1> QED
  BY <1>2 DEF f, Trees

(* Flattening a sequence.                                                  *)
LEMMA FlatteningIs ==
  ASSUME NEW parts, NEW k \in Nat \ {0}, Len(parts) = k
  PROVE  \E f : /\ FlattenSeq(parts) = f[k]
                /\ f[1] = parts[1]
                /\ \A i \in 2 .. k : f[i] = f[i - 1] \o parts[i]
<1> DEFINE f == CHOOSE flatten : flatten = [i \in 1 .. Len(parts) |->
                                   IF i = 1 THEN parts[i] ELSE flatten[i - 1] \o parts[i]]
<1>1. FlattenSeq(parts) = f[k]
  BY DEF FlattenSeq
<1>2. f = [i \in 1 .. Len(parts) |-> IF i = 1 THEN parts[i] ELSE f[i - 1] \o parts[i]]
  <2>1. PICK g : IsLoop(g, "parts", parts[1], parts, 1, k)
    BY LoopsEnd
  <2>2. g = [i \in 1 .. Len(parts) |-> IF i = 1 THEN parts[i] ELSE g[i - 1] \o parts[i]]
    BY <2>1 DEF IsLoop, Turn
  <2> QED
    BY <2>2
<1> HIDE DEF f
<1>3. f[1] = parts[1]
  BY <1>2
<1>4. ASSUME NEW i \in 2 .. k PROVE f[i] = f[i - 1] \o parts[i]
  <2>1. i \in 1 .. Len(parts) /\ i # 1
    OBVIOUS
  <2> QED
    BY <1>2, <2>1
<1> QED
  BY <1>1, <1>3, <1>4

-------------------------------------------------------------------------------
(* What marks an absent value is no JSON value.                            *)
NoneIsNoJson ==
  \A x : /\ None # [object |-> x] /\ None # [string |-> x] /\ None # [list |-> x]
         /\ None # [bool |-> x]

LEMMA ObjectsAre ==
  ASSUME NoneIsNoJson
  PROVE  /\ \A x : Is([object |-> x], "object") /\ Is([string |-> x], "string")
                  /\ Is([list |-> x], "list")
         /\ \A x : [object |-> x].object = x /\ [string |-> x].string = x /\ [list |-> x].list = x
  BY DEF NoneIsNoJson, Is

LEMMA PredicateIs ==
  ASSUME NoneIsNoJson, NEW f, NEW o, NEW v, NEW json, json = Predicate(f, o, v)
  PROVE  LET node == json.object
         IN  /\ Is(json, "object")
             /\ Read(node, "kind") = "predicate" /\ node.kind.string = "predicate"
             /\ Read(node, "field") = f /\ node.field.string = f
             /\ Read(node, "operator") = o /\ node.operator.string = o
             /\ Get(node, "value") = v /\ node.value = v
             /\ ChildrenOf(json) = {}
  BY ObjectsAre DEF Predicate, Str, Get, Read, ChildrenOf

LEMMA NotIs ==
  ASSUME NoneIsNoJson, NEW c, NEW json, json = Not(c)
  PROVE  LET node == json.object
         IN  /\ Is(json, "object")
             /\ Read(node, "kind") = "not" /\ node.kind.string = "not"
             /\ Get(node, "child") = c /\ node.child = c
             /\ ChildrenOf(json) = {c}
  BY ObjectsAre DEF Not, Str, Get, Read, ChildrenOf

LEMMA GroupIs ==
  ASSUME NoneIsNoJson, NEW m, NEW s, NEW json, json = Group(m, s)
  PROVE  LET node == json.object
         IN  /\ Is(json, "object")
             /\ Read(node, "kind") = "group" /\ node.kind.string = "group"
             /\ Read(node, "match") = m /\ node.match.string = m
             /\ Is(Get(node, "children"), "list") /\ node.children.list = s
             /\ ChildrenOf(json) = Range(s)
<1> DEFINE node == json.object
<1>1. /\ Is(json, "object") /\ Read(node, "kind") = "group" /\ node.kind.string = "group"
      /\ Read(node, "match") = m /\ node.match.string = m
      /\ Is(Get(node, "children"), "list") /\ node.children.list = s
  BY ObjectsAre DEF Group, Str, Get, Read
<1>2. ChildrenOf(json) = Range(s)
  BY <1>1 DEF ChildrenOf
<1> QED
  BY <1>1, <1>2

LEMMA LessNestedIn ==
  ASSUME NEW d \in 0 .. MaxNesting, NEW e \in d .. MaxNesting
  PROVE  Trees(d) \subseteq Trees(e)
<1> DEFINE bad == {h \in d .. MaxNesting : ~(Trees(d) \subseteq Trees(h))}
<1>1. SUFFICES ASSUME bad # {} PROVE FALSE
  OBVIOUS
<1>2. PICK h \in bad : \A i \in bad : h <= i
  <2>1. bad \in SUBSET Nat
    BY NestingAssumption
  <2> HIDE DEF bad
  <2> QED
    BY <1>1, <2>1, LeastOf
<1>3. h \in Nat /\ h # d /\ h \in 1 .. MaxNesting /\ h - 1 \in d .. MaxNesting
  BY <1>2, NestingAssumption
<1>4. Trees(d) \subseteq Trees(h - 1)
  BY <1>2, <1>3
<1>5. Trees(h - 1) \subseteq Trees(h)
  BY <1>3, TreesAre DEF Grown
<1> QED
  BY <1>2, <1>4, <1>5

(* How deep a tree is nested at least.                                     *)
Height(n) == CHOOSE d \in 0 .. MaxNesting : n \in Trees(d) /\ \A e \in 0 .. MaxNesting :
                                              n \in Trees(e) => d <= e

LEMMA HeightIs ==
  ASSUME NEW n \in AllTrees
  PROVE  /\ Height(n) \in 0 .. MaxNesting /\ n \in Trees(Height(n))
         /\ \A d \in 0 .. MaxNesting : n \in Trees(d) => Height(n) <= d
<1> DEFINE among == {d \in 0 .. MaxNesting : n \in Trees(d)}
<1>1. MaxNesting \in among
  BY NestingAssumption DEF AllTrees
<1>2. PICK d \in among : \A e \in among : d <= e
  <2>1. among \in SUBSET Nat
    BY NestingAssumption
  <2> HIDE DEF among
  <2> QED
    BY <1>1, <2>1, LeastOf
<1> QED
  BY <1>2 DEF Height

(* Whatever is not so of all trees is not so of one that is made of trees  *)
(* of which it is.                                                         *)
LEMMA LeastTree ==
  ASSUME NEW bad \in SUBSET AllTrees, bad # {}
  PROVE  \E n \in bad : \A c \in AllTrees : Height(c) < Height(n) => c \notin bad
<1> DEFINE heights == {Height(n) : n \in bad}
<1>1. heights \in SUBSET Nat /\ heights # {}
  BY HeightIs
<1>2. PICK h \in heights : \A i \in heights : h <= i
  <2> HIDE DEF heights
  <2> QED
    BY <1>1, LeastOf
<1>3. PICK n \in bad : h = Height(n)
  BY <1>2
<1>4. ASSUME NEW c \in bad, Height(c) < Height(n) PROVE FALSE
  <2>1. h <= Height(c) /\ h \in Nat /\ Height(c) \in Nat
    BY <1>1, <1>2
  <2> QED
    BY <1>3, <1>4, <2>1
<1> QED
  BY <1>3, <1>4

(* What a tree is made of is less nested.                                  *)
LEMMA TreeIs ==
  ASSUME NEW n \in AllTrees
  PROVE  \/ n \in Leaves
         \/ \E c \in AllTrees : n = Not(c) /\ Height(c) < Height(n)
         \/ \E m \in {"all", "any"}, s \in Seq(AllTrees) :
              n = Group(m, s) /\ \A i \in DOMAIN s : Height(s[i]) < Height(n)
<1>1. /\ Height(n) \in 0 .. MaxNesting /\ n \in Trees(Height(n))
      /\ \A d \in 0 .. MaxNesting : n \in Trees(d) => Height(n) <= d
  BY HeightIs
<1>2. CASE Height(n) = 0
  BY <1>1, <1>2, TreesAre
<1>3. CASE Height(n) # 0
  <2> DEFINE h == Height(n)
             below == Trees(h - 1)
  <2>1. h \in 1 .. MaxNesting /\ h - 1 \in 0 .. MaxNesting /\ ~(h <= h - 1)
    BY <1>1, <1>3, NestingAssumption
  <2>2. n \in Grown(below) /\ n \notin below
    BY <1>1, <2>1, TreesAre
  <2>3. ASSUME NEW c \in below PROVE c \in AllTrees /\ Height(c) < h
    <3>1. c \in AllTrees
      BY <2>1, LessNestedIn, NestingAssumption DEF AllTrees
    <3>2. Height(c) <= h - 1 /\ Height(c) \in 0 .. MaxNesting
      BY <2>1, <3>1, HeightIs
    <3> QED
      BY <2>1, <3>1, <3>2
  <2> HIDE DEF below, h
  <2>4. CASE \E c \in below : n = Not(c)
    BY <2>3, <2>4 DEF h
  <2>5. CASE \E m \in {"all", "any"}, s \in Seq(below) : n = Group(m, s)
    <3>1. PICK m \in {"all", "any"}, s \in Seq(below) : n = Group(m, s)
      BY <2>5
    <3>2. \A i \in DOMAIN s : s[i] \in below
      OBVIOUS
    <3>3. s \in Seq(AllTrees)
      BY <2>3
    <3> QED
      BY <2>3, <3>1, <3>2, <3>3 DEF h
  <2> QED
    BY <2>2, <2>4, <2>5 DEF Grown
<1> QED
  BY <1>2, <1>3

(* Leaves are predicates, or the group of none.                            *)
LEMMA TreeShape ==
  ASSUME NEW n \in AllTrees
  PROVE  \/ \E f \in QueryFields, o \in QueryOperators, v \in Values \cup {Str("unread")} :
              n = Predicate(f, o, v)
         \/ \E c \in AllTrees : n = Not(c) /\ Height(c) < Height(n)
         \/ \E m \in {"all", "any"}, s \in Seq(AllTrees) :
              n = Group(m, s) /\ \A i \in DOMAIN s : Height(s[i]) < Height(n)
<1>1. <<>> \in Seq(AllTrees) /\ DOMAIN <<>> = {}
  OBVIOUS
<1>2. CASE n = Group("all", <<>>)
  BY <1>1, <1>2
<1>3. CASE n \in Leaves /\ n # Group("all", <<>>)
  BY <1>3 DEF Leaves
<1> QED
  BY <1>2, <1>3, TreeIs

LEMMA ChildrenOfTree ==
  ASSUME NoneIsNoJson, NEW n \in AllTrees, NEW c \in ChildrenOf(n)
  PROVE  c \in AllTrees /\ Height(c) < Height(n)
<1>1. CASE \E f \in QueryFields, o \in QueryOperators, v \in Values \cup {Str("unread")} :
             n = Predicate(f, o, v)
  BY <1>1, PredicateIs
<1>2. CASE \E d \in AllTrees : n = Not(d) /\ Height(d) < Height(n)
  BY <1>2, NotIs
<1>3. CASE \E m \in {"all", "any"}, s \in Seq(AllTrees) :
             n = Group(m, s) /\ \A i \in DOMAIN s : Height(s[i]) < Height(n)
  <2>1. PICK m \in {"all", "any"}, s \in Seq(AllTrees) :
               n = Group(m, s) /\ \A i \in DOMAIN s : Height(s[i]) < Height(n)
    BY <1>3
  <2>2. c \in Range(s)
    BY <2>1, GroupIs
  <2>3. PICK i \in DOMAIN s : c = s[i]
    BY <2>2 DEF Range
  <2> QED
    BY <2>1, <2>3
<1> QED
  BY <1>1, <1>2, <1>3, TreeShape

(* A set with the children of all in it has all nodes of each in it.       *)
LEMMA NodesStayIn ==
  ASSUME NEW S, NEW json \in S, \A n \in S : ChildrenOf(n) \subseteq S
  PROVE  NodesOf(json) \subseteq S
<1> DEFINE L == Levels(json)
           bad == {d \in 0 .. MaxNesting : ~(L[d] \subseteq S)}
<1>0. L[0] = {json} /\ \A d \in 1 .. MaxNesting : L[d] = WithChildren(L[d - 1])
  BY LevelsAre
<1>1. SUFFICES ASSUME bad # {} PROVE FALSE
  <2>1. bad = {} => L[MaxNesting] \subseteq S
    BY NestingAssumption
  <2> HIDE DEF bad
  <2> QED
    BY <2>1, LevelsAre
<1> HIDE DEF L
<1>2. PICK d \in bad : \A i \in bad : d <= i
  <2>1. bad \in SUBSET Nat
    BY NestingAssumption
  <2> HIDE DEF bad
  <2> QED
    BY <1>1, <2>1, LeastOf
<1>3. d # 0
  BY <1>0, <1>2
<1>4. d \in 1 .. MaxNesting /\ d - 1 \in 0 .. MaxNesting /\ ~(d <= d - 1)
  BY <1>2, <1>3, NestingAssumption
<1>5. L[d - 1] \subseteq S /\ ~(L[d] \subseteq S)
  BY <1>2, <1>4
<1> QED
  BY <1>0, <1>4, <1>5 DEF WithChildren

(* A tree has no more levels than JSON may have.                           *)
LEMMA NodesOfTree ==
  ASSUME NoneIsNoJson, NEW json \in AllTrees
  PROVE  /\ json \in NodesOf(json) /\ NodesOf(json) \subseteq AllTrees
         /\ \A n \in NodesOf(json) : ChildrenOf(n) \subseteq NodesOf(json)
<1> DEFINE L == Levels(json)
           h == Height(json)
           Good(d) == /\ json \in L[d]
                      /\ \A n \in L[d] : ChildrenOf(n) \subseteq L[d] \/ Height(n) <= h - d
           bad == {d \in 0 .. MaxNesting : ~Good(d)}
<1>0. L[0] = {json} /\ \A d \in 1 .. MaxNesting : L[d] = WithChildren(L[d - 1])
  BY LevelsAre
<1>t. NodesOf(json) \subseteq AllTrees
  <2>1. \A n \in AllTrees : ChildrenOf(n) \subseteq AllTrees
    BY ChildrenOfTree
  <2> QED
    BY <2>1, NodesStayIn
<1>h. h \in 0 .. MaxNesting /\ MaxNesting \in Nat
  BY HeightIs, NestingAssumption
<1> HIDE DEF L
<1>l. \A d \in 0 .. MaxNesting : L[d] \subseteq AllTrees
  <2> DEFINE out == {d \in 0 .. MaxNesting : ~(L[d] \subseteq AllTrees)}
  <2>1. SUFFICES ASSUME out # {} PROVE FALSE
    OBVIOUS
  <2>2. PICK d \in out : \A i \in out : d <= i
    <3>1. out \in SUBSET Nat
      BY <1>h
    <3> HIDE DEF out
    <3> QED
      BY <2>1, <3>1, LeastOf
  <2>3. d # 0
    BY <1>0, <2>2
  <2>4. d \in 1 .. MaxNesting /\ d - 1 \in 0 .. MaxNesting /\ ~(d <= d - 1)
    BY <1>h, <2>2, <2>3
  <2>5. L[d - 1] \subseteq AllTrees /\ ~(L[d] \subseteq AllTrees)
    BY <2>2, <2>4
  <2> QED
    BY <1>0, <2>4, <2>5, ChildrenOfTree DEF WithChildren
<1>1. ASSUME bad # {} PROVE FALSE
  <2>2. PICK d \in bad : \A i \in bad : d <= i
    <3>1. bad \in SUBSET Nat
      BY <1>h
    <3> HIDE DEF bad
    <3> QED
      BY <1>1, <3>1, LeastOf
  <2>3. d # 0
    <3>1. Good(0)
      BY <1>0, <1>h
    <3> QED
      BY <2>2, <3>1
  <2>4. d \in 1 .. MaxNesting /\ d - 1 \in 0 .. MaxNesting /\ ~(d <= d - 1)
    BY <1>h, <2>2, <2>3
  <2>5. Good(d - 1)
    <3> HIDE DEF Good
    <3> QED
      BY <2>2, <2>4
  <2>6. L[d] = WithChildren(L[d - 1])
    BY <1>0, <2>4
  <2>7. L[d - 1] \subseteq L[d] /\ json \in L[d]
    BY <2>5, <2>6 DEF WithChildren
  <2>8. ASSUME NEW n \in L[d] PROVE ChildrenOf(n) \subseteq L[d] \/ Height(n) <= h - d
    <3>1. CASE n \in L[d - 1]
      BY <2>6, <3>1 DEF WithChildren
    <3>2. CASE n \notin L[d - 1]
      <4>1. PICK m \in L[d - 1] : n \in ChildrenOf(m)
        BY <2>6, <2>8, <3>2 DEF WithChildren
      <4>2. ~(ChildrenOf(m) \subseteq L[d - 1])
        BY <3>2, <4>1
      <4>3. Height(m) <= h - (d - 1)
        BY <2>5, <4>1, <4>2
      <4>4. m \in AllTrees /\ n \in AllTrees
        BY <1>l, <2>4, <4>1, ChildrenOfTree
      <4>5. Height(n) < Height(m) /\ Height(n) \in Nat /\ Height(m) \in Nat
        BY <4>1, <4>4, ChildrenOfTree, HeightIs
      <4>6. Height(n) <= h - d
        BY <1>h, <2>4, <4>3, <4>5
      <4> QED
        BY <4>6
    <3> QED
      BY <3>1, <3>2
  <2>9. Good(d)
    BY <2>7, <2>8
  <2> QED
    BY <2>2, <2>9
<1>2. Good(MaxNesting)
  <2>1. bad = {}
    <3> HIDE DEF bad
    <3> QED
      BY <1>1
  <2> HIDE DEF Good
  <2> QED
    BY <1>h, <2>1
<1>3. NodesOf(json) = L[MaxNesting]
  BY LevelsAre DEF L
<1>4. ASSUME NEW n \in NodesOf(json) PROVE ChildrenOf(n) \subseteq NodesOf(json)
  <2>1. CASE Height(n) <= h - MaxNesting
    <3>1. ASSUME NEW c \in ChildrenOf(n) PROVE FALSE
      <4>1. n \in AllTrees /\ c \in AllTrees /\ Height(c) < Height(n)
        BY <1>t, <1>4, <3>1, ChildrenOfTree
      <4>2. Height(n) \in Nat /\ Height(c) \in Nat
        BY <4>1, HeightIs
      <4> QED
        BY <1>h, <2>1, <4>1, <4>2
    <3> QED
      BY <3>1
  <2> QED
    BY <1>2, <1>3, <1>4, <2>1
<1> QED
  BY <1>2, <1>3, <1>4, <1>t

-------------------------------------------------------------------------------
(* What the functions that go through a definition do at one node, when f  *)
(* is what they do at those below.                                         *)
AcceptsAt(n, f) ==
  /\ Is(n, "object")
  /\ LET node == n.object
     IN  CASE Read(node, "kind") = "group" ->
                /\ Read(node, "match") \in {"all", "any"}
                /\ Is(Get(node, "children"), "list")
                /\ node.children.list # <<>>
                /\ \A i \in DOMAIN node.children.list : f[node.children.list[i]]
           [] Read(node, "kind") = "not" -> f[Get(node, "child")]
           [] Read(node, "kind") = "predicate" -> AcceptsPredicate(node)
           [] OTHER -> FALSE

MatchAt(n, f, context) ==
  LET node == n.object
  IN  CASE node.kind.string = "group" ->
             IF node.match.string = "all"
               THEN \A child \in Range(node.children.list) : f[child]
               ELSE \E child \in Range(node.children.list) : f[child]
        [] node.kind.string = "not" -> ~f[node.child]
        [] node.kind.string = "predicate" -> MatchPredicate(node, context)

ReaderMatchAt(n, f, context) ==
  LET node == n.object
  IN  CASE node.kind.string = "group" /\ node.match.string = "all" ->
             \A child \in Range(node.children.list) : f[child]
        [] node.kind.string = "group" /\ node.match.string # "all" ->
             \E child \in Range(node.children.list) : f[child]
        [] node.kind.string = "not" -> ~f[node.child]
        [] node.kind.string = "predicate" -> ReaderMatchPredicate(node, context)

Walks == {"accepts", "matches", "shows", "again", "normal"}

At(walk, context, n, f) ==
  CASE walk = "accepts"        -> AcceptsAt(n, f)
    [] walk = "matches"        -> MatchAt(n, f, context)
    [] walk = "shows" -> ReaderMatchAt(n, f, context)
    [] walk = "again"          -> NormalizeNode(n, f, None)
    [] walk = "normal"         ->
         NormalizeNode(n, f, NormalizeAgain(f[n.object.child].object.child))

(* What is done at a node depends on the nodes below only.                 *)
LEMMA AtDepends ==
  ASSUME NoneIsNoJson, NEW walk \in Walks, NEW context, NEW n \in AllTrees, NEW f, NEW g,
         \A c \in ChildrenOf(n) : f[c] = g[c]
  PROVE  At(walk, context, n, f) = At(walk, context, n, g)
<1> DEFINE node == n.object
<1>1. CASE \E field \in QueryFields, o \in QueryOperators, v \in Values \cup {Str("unread")} :
             n = Predicate(field, o, v)
  <2>1. /\ Is(n, "object") /\ Read(node, "kind") = "predicate" /\ node.kind.string = "predicate"
    BY <1>1, PredicateIs
  <2>2. AcceptsAt(n, f) = AcceptsAt(n, g)
    BY <2>1 DEF AcceptsAt
  <2>3. MatchAt(n, f, context) = MatchAt(n, g, context)
    BY <2>1 DEF MatchAt
  <2>4. ReaderMatchAt(n, f, context) = ReaderMatchAt(n, g, context)
    BY <2>1 DEF ReaderMatchAt
  <2>5. \A a, b : NormalizeNode(n, f, a) = NormalizeNode(n, g, b)
    BY <2>1 DEF NormalizeNode
  <2> QED
    BY <2>2, <2>3, <2>4, <2>5 DEF At, Walks
<1>2. CASE \E c \in AllTrees : n = Not(c) /\ Height(c) < Height(n)
  <2>1. PICK c \in AllTrees : n = Not(c)
    BY <1>2
  <2>2. /\ Is(n, "object") /\ Read(node, "kind") = "not" /\ node.kind.string = "not"
        /\ Get(node, "child") = c /\ node.child = c /\ ChildrenOf(n) = {c}
    BY <2>1, NotIs
  <2>3. f[c] = g[c]
    BY <2>2
  <2>4. AcceptsAt(n, f) = AcceptsAt(n, g)
    BY <2>2, <2>3 DEF AcceptsAt
  <2>5. MatchAt(n, f, context) = MatchAt(n, g, context)
    BY <2>2, <2>3 DEF MatchAt
  <2>6. ReaderMatchAt(n, f, context) = ReaderMatchAt(n, g, context)
    BY <2>2, <2>3 DEF ReaderMatchAt
  <2>7. \A a : NormalizeNode(n, f, a) = NormalizeNode(n, g, a)
    BY <2>2, <2>3 DEF NormalizeNode
  <2> QED
    BY <2>2, <2>3, <2>4, <2>5, <2>6, <2>7 DEF At, Walks
<1>3. CASE \E m \in {"all", "any"}, s \in Seq(AllTrees) :
             n = Group(m, s) /\ \A i \in DOMAIN s : Height(s[i]) < Height(n)
  <2>1. PICK m \in {"all", "any"}, s \in Seq(AllTrees) : n = Group(m, s)
    BY <1>3
  <2>2. /\ Is(n, "object") /\ Read(node, "kind") = "group" /\ node.kind.string = "group"
        /\ Read(node, "match") = m /\ node.match.string = m
        /\ Is(Get(node, "children"), "list") /\ node.children.list = s
        /\ ChildrenOf(n) = Range(s)
    BY <2>1, GroupIs
  <2>3. (\A c \in Range(s) : f[c] = g[c]) /\ \A i \in DOMAIN s : f[s[i]] = g[s[i]]
    BY <2>2 DEF Range
  <2>4. AcceptsAt(n, f) = AcceptsAt(n, g)
    BY <2>2, <2>3 DEF AcceptsAt
  <2>5. MatchAt(n, f, context) = MatchAt(n, g, context)
    BY <2>2, <2>3 DEF MatchAt
  <2>6. ReaderMatchAt(n, f, context) = ReaderMatchAt(n, g, context)
    BY <2>2, <2>3 DEF ReaderMatchAt
  <2>7. \A a, b : NormalizeNode(n, f, a) = NormalizeNode(n, g, b)
    <3>1. [i \in DOMAIN s |-> f[s[i]]] = [i \in DOMAIN s |-> g[s[i]]]
      BY <2>3
    <3> QED
      BY <2>2, <3>1 DEF NormalizeNode
  <2> QED
    BY <2>4, <2>5, <2>6, <2>7 DEF At, Walks
<1> QED
  BY <1>1, <1>2, <1>3, TreeShape

(* A walk over trees has a result: one over the less nested ones gives one *)
(* over those that are nested one deeper.                                  *)
Less(k) == {n \in AllTrees : Height(n) < k}
IsWalk(f, walk, context, S) == f = [n \in S |-> At(walk, context, n, f)]

LEMMA WalksEnd ==
  ASSUME NoneIsNoJson, NEW walk \in Walks, NEW context
  PROVE  \E f : IsWalk(f, walk, context, AllTrees)
<1> DEFINE Has(k) == \E f : IsWalk(f, walk, context, Less(k))
           bad == {k \in Nat : ~Has(k)}
<1>1. SUFFICES ASSUME bad # {} PROVE FALSE
  <2>1. Less(MaxNesting + 1) = AllTrees
    <3>1. ASSUME NEW n \in AllTrees PROVE Height(n) < MaxNesting + 1
      BY HeightIs, NestingAssumption
    <3> QED
      BY <3>1 DEF Less
  <2>2. MaxNesting + 1 \in Nat
    BY NestingAssumption
  <2>3. bad = {} => Has(MaxNesting + 1)
    BY <2>2
  <2> HIDE DEF bad
  <2> QED
    BY <2>1, <2>3
<1>2. PICK k \in bad : \A i \in bad : k <= i
  <2> HIDE DEF Has
  <2>1. bad \in SUBSET Nat
    OBVIOUS
  <2> HIDE DEF bad
  <2> QED
    BY <1>1, <2>1, LeastOf
<1>3. CASE k = 0
  <2>1. Less(0) = {}
    BY HeightIs DEF Less
  <2> DEFINE f == [n \in Less(0) |-> 0]
  <2>2. f = [n \in Less(0) |-> At(walk, context, n, f)]
    BY <2>1
  <2> HIDE DEF f
  <2>3. Has(0)
    BY <2>2 DEF IsWalk
  <2> QED
    BY <1>2, <1>3, <2>3
<1>4. CASE k # 0
  <2>0. k \in Nat /\ k - 1 \in Nat /\ ~(k <= k - 1)
    BY <1>2, <1>4
  <2>1. Has(k - 1)
    <3> HIDE DEF Has
    <3> QED
      BY <1>2, <2>0
  <2>2. PICK f : IsWalk(f, walk, context, Less(k - 1))
    BY <2>1
  <2> DEFINE g == [n \in Less(k) |-> IF n \in Less(k - 1) THEN f[n] ELSE At(walk, context, n, f)]
  <2>3. ASSUME NEW n \in Less(k) PROVE g[n] = At(walk, context, n, g)
    <3>1. n \in AllTrees /\ Height(n) \in Nat /\ Height(n) < k
      BY HeightIs DEF Less
    <3>2. ASSUME NEW c \in ChildrenOf(n) PROVE f[c] = g[c]
      <4>1. c \in AllTrees /\ Height(c) < Height(n) /\ Height(c) \in Nat
        BY <3>1, <3>2, ChildrenOfTree, HeightIs
      <4>2. Height(c) < k - 1 /\ Height(c) < k
        BY <2>0, <3>1, <4>1
      <4> QED
        BY <4>1, <4>2 DEF Less
    <3>3. At(walk, context, n, f) = At(walk, context, n, g)
      BY <3>1, <3>2, AtDepends
    <3>4. n \in Less(k - 1) => f[n] = At(walk, context, n, f)
      BY <2>2 DEF IsWalk
    <3> QED
      BY <3>3, <3>4
  <2>4. g = [n \in Less(k) |-> g[n]]
    OBVIOUS
  <2> HIDE DEF g
  <2>5. Has(k)
    BY <2>3, <2>4 DEF IsWalk
  <2> QED
    BY <1>2, <2>5
<1> QED
  BY <1>3, <1>4

(* There is one result only.                                               *)
LEMMA WalksAgree ==
  ASSUME NoneIsNoJson, NEW walk \in Walks, NEW context, NEW S \in SUBSET AllTrees,
         \A n \in S : ChildrenOf(n) \subseteq S,
         NEW f, IsWalk(f, walk, context, S), NEW g, IsWalk(g, walk, context, AllTrees)
  PROVE  \A n \in S : f[n] = g[n]
<1> DEFINE bad == {n \in S : f[n] # g[n]}
<1>1. SUFFICES ASSUME bad # {} PROVE FALSE
  OBVIOUS
<1>2. PICK n \in bad : \A c \in AllTrees : Height(c) < Height(n) => c \notin bad
  <2>1. bad \in SUBSET AllTrees
    OBVIOUS
  <2> HIDE DEF bad
  <2> QED
    BY <1>1, <2>1, LeastTree
<1>3. \A c \in ChildrenOf(n) : f[c] = g[c]
  BY <1>2, ChildrenOfTree
<1>4. At(walk, context, n, f) = At(walk, context, n, g)
  BY <1>2, <1>3, AtDepends
<1>5. f[n] = At(walk, context, n, f) /\ g[n] = At(walk, context, n, g)
  BY <1>2 DEF IsWalk
<1> QED
  BY <1>2, <1>4, <1>5

(* The result over a tree, and over its nodes only.                        *)
LEMMA WalkOfNodes ==
  ASSUME NoneIsNoJson, NEW walk \in Walks, NEW context, NEW json \in AllTrees,
         NEW g, IsWalk(g, walk, context, AllTrees)
  PROVE  \E f : IsWalk(f, walk, context, NodesOf(json))
<1> DEFINE S == NodesOf(json)
<1>1. S \in SUBSET AllTrees /\ json \in S /\ \A n \in S : ChildrenOf(n) \subseteq S
  BY NodesOfTree
<1> HIDE DEF S
<1> DEFINE f == [n \in S |-> g[n]]
<1>2. ASSUME NEW n \in S PROVE f[n] = At(walk, context, n, f)
  <2>1. \A c \in ChildrenOf(n) : f[c] = g[c]
    BY <1>1
  <2>2. At(walk, context, n, f) = At(walk, context, n, g)
    <3> HIDE DEF f
    <3> QED
      BY <1>1, <2>1, AtDepends
  <2> QED
    BY <1>1, <2>2 DEF IsWalk
<1>3. f = [n \in S |-> f[n]]
  OBVIOUS
<1> HIDE DEF f
<1>4. IsWalk(f, walk, context, S)
  BY <1>2, <1>3 DEF IsWalk
<1> QED
  BY <1>4 DEF S

LEMMA WalkOfNodesIs ==
  ASSUME NoneIsNoJson, NEW walk \in Walks, NEW context, NEW json \in AllTrees,
         NEW g, IsWalk(g, walk, context, AllTrees),
         NEW f, IsWalk(f, walk, context, NodesOf(json))
  PROVE  f[json] = g[json]
<1>1. NodesOf(json) \in SUBSET AllTrees
  BY NodesOfTree
<1>2. json \in NodesOf(json) /\ \A n \in NodesOf(json) : ChildrenOf(n) \subseteq NodesOf(json)
  BY NodesOfTree
<1>3. \A n \in NodesOf(json) : f[n] = g[n]
  BY <1>1, <1>2, WalksAgree
<1> QED
  BY <1>2, <1>3

(* The functions of RuleQuery and ReaderQuery are these walks.             *)
Result(walk, context, n) ==
  CASE walk = "accepts"        -> AcceptsNode(n)
    [] walk = "matches"        -> MatchNode(n, context)
    [] walk = "shows" -> ReaderMatchNode(n, context)
    [] walk = "again"          -> NormalizeAgain(n)
    [] walk = "normal"         -> NormalizeQueryNode(n)

Results(walk, context) == [n \in AllTrees |-> Result(walk, context, n)]

LEMMA AcceptsIsWalk ==
  ASSUME NoneIsNoJson, NEW context, NEW g, IsWalk(g, "accepts", context, AllTrees),
         NEW n \in AllTrees
  PROVE  AcceptsNode(n) = g[n]
<1> DEFINE f == CHOOSE h : h = [x \in NodesOf(n) |-> AcceptsAt(x, h)]
<1>1. AcceptsNode(n) = f[n]
  BY DEF AcceptsNode, AcceptsAt
<1>2. PICK k : IsWalk(k, "accepts", context, NodesOf(n))
  BY WalkOfNodes DEF Walks
<1>3. k = [x \in NodesOf(n) |-> AcceptsAt(x, k)]
  BY <1>2 DEF IsWalk, At
<1>4. f = [x \in NodesOf(n) |-> AcceptsAt(x, f)]
  BY <1>3
<1> HIDE DEF f
<1>5. IsWalk(f, "accepts", context, NodesOf(n))
  BY <1>4 DEF IsWalk, At
<1>6. "accepts" \in Walks
  BY DEF Walks
<1>7. f[n] = g[n]
  BY <1>5, <1>6, WalkOfNodesIs
<1> QED
  BY <1>1, <1>7

LEMMA MatchIsWalk ==
  ASSUME NoneIsNoJson, NEW context, NEW g, IsWalk(g, "matches", context, AllTrees),
         NEW n \in AllTrees
  PROVE  MatchNode(n, context) = g[n]
<1> DEFINE f == CHOOSE h : h = [x \in NodesOf(n) |-> MatchAt(x, h, context)]
<1>1. MatchNode(n, context) = f[n]
  BY DEF MatchNode, MatchAt
<1>2. PICK k : IsWalk(k, "matches", context, NodesOf(n))
  BY WalkOfNodes DEF Walks
<1>3. k = [x \in NodesOf(n) |-> MatchAt(x, k, context)]
  BY <1>2 DEF IsWalk, At
<1>4. f = [x \in NodesOf(n) |-> MatchAt(x, f, context)]
  BY <1>3
<1> HIDE DEF f
<1>5. IsWalk(f, "matches", context, NodesOf(n))
  BY <1>4 DEF IsWalk, At
<1>6. "matches" \in Walks
  BY DEF Walks
<1>7. f[n] = g[n]
  BY <1>5, <1>6, WalkOfNodesIs
<1> QED
  BY <1>1, <1>7

LEMMA ReaderMatchIsWalk ==
  ASSUME NoneIsNoJson, NEW context, NEW g, IsWalk(g, "shows", context, AllTrees),
         NEW n \in AllTrees
  PROVE  ReaderMatchNode(n, context) = g[n]
<1> DEFINE f == CHOOSE h : h = [x \in NodesOf(n) |-> ReaderMatchAt(x, h, context)]
<1>1. ReaderMatchNode(n, context) = f[n]
  BY DEF ReaderMatchNode, ReaderMatchAt
<1>2. PICK k : IsWalk(k, "shows", context, NodesOf(n))
  BY WalkOfNodes DEF Walks
<1>3. k = [x \in NodesOf(n) |-> ReaderMatchAt(x, k, context)]
  BY <1>2 DEF IsWalk, At
<1>4. f = [x \in NodesOf(n) |-> ReaderMatchAt(x, f, context)]
  BY <1>3
<1> HIDE DEF f
<1>5. IsWalk(f, "shows", context, NodesOf(n))
  BY <1>4 DEF IsWalk, At
<1>6. "shows" \in Walks
  BY DEF Walks
<1>7. f[n] = g[n]
  BY <1>5, <1>6, WalkOfNodesIs
<1> QED
  BY <1>1, <1>7

LEMMA AgainIsWalk ==
  ASSUME NoneIsNoJson, NEW context, NEW g, IsWalk(g, "again", context, AllTrees),
         NEW n \in AllTrees
  PROVE  NormalizeAgain(n) = g[n]
<1> DEFINE f == CHOOSE h : h = [x \in NodesOf(n) |-> NormalizeNode(x, h, None)]
<1>1. NormalizeAgain(n) = f[n]
  BY DEF NormalizeAgain
<1>2. PICK k : IsWalk(k, "again", context, NodesOf(n))
  BY WalkOfNodes DEF Walks
<1>3. k = [x \in NodesOf(n) |-> NormalizeNode(x, k, None)]
  BY <1>2 DEF IsWalk, At
<1>4. f = [x \in NodesOf(n) |-> NormalizeNode(x, f, None)]
  BY <1>3
<1> HIDE DEF f
<1>5. IsWalk(f, "again", context, NodesOf(n))
  BY <1>4 DEF IsWalk, At
<1>6. "again" \in Walks
  BY DEF Walks
<1>7. f[n] = g[n]
  BY <1>5, <1>6, WalkOfNodesIs
<1> QED
  BY <1>1, <1>7

LEMMA NormalizeIsWalk ==
  ASSUME NoneIsNoJson, NEW context, NEW g, IsWalk(g, "normal", context, AllTrees),
         NEW n \in AllTrees
  PROVE  NormalizeQueryNode(n) = g[n]
<1> DEFINE f == CHOOSE h : h = [x \in NodesOf(n) |->
                     NormalizeNode(x, h, NormalizeAgain(h[x.object.child].object.child))]
<1>1. NormalizeQueryNode(n) = f[n]
  BY DEF NormalizeQueryNode
<1>2. PICK k : IsWalk(k, "normal", context, NodesOf(n))
  BY WalkOfNodes DEF Walks
<1>3. k = [x \in NodesOf(n) |->
             NormalizeNode(x, k, NormalizeAgain(k[x.object.child].object.child))]
  BY <1>2 DEF IsWalk, At
<1>4. f = [x \in NodesOf(n) |->
             NormalizeNode(x, f, NormalizeAgain(f[x.object.child].object.child))]
  BY <1>3
<1> HIDE DEF f
<1>5. IsWalk(f, "normal", context, NodesOf(n))
  BY <1>4 DEF IsWalk, At
<1>6. "normal" \in Walks
  BY DEF Walks
<1>7. f[n] = g[n]
  BY <1>5, <1>6, WalkOfNodesIs
<1> QED
  BY <1>1, <1>7

LEMMA ResultIs ==
  ASSUME NoneIsNoJson, NEW walk \in Walks, NEW context, NEW n \in AllTrees
  PROVE  Result(walk, context, n) = At(walk, context, n, Results(walk, context))
<1>1. PICK g : IsWalk(g, walk, context, AllTrees)
  BY WalksEnd
<1>2. ASSUME NEW x \in AllTrees PROVE g[x] = Result(walk, context, x)
  <2>1. CASE walk = "accepts"
    BY <1>1, <2>1, AcceptsIsWalk DEF Result
  <2>2. CASE walk = "matches"
    BY <1>1, <2>2, MatchIsWalk DEF Result
  <2>3. CASE walk = "shows"
    BY <1>1, <2>3, ReaderMatchIsWalk DEF Result
  <2>4. CASE walk = "again"
    BY <1>1, <2>4, AgainIsWalk DEF Result
  <2>5. CASE walk = "normal"
    BY <1>1, <2>5, NormalizeIsWalk DEF Result
  <2> QED
    BY <2>1, <2>2, <2>3, <2>4, <2>5 DEF Walks
<1>3. \A c \in ChildrenOf(n) : g[c] = Results(walk, context)[c]
  BY <1>2, ChildrenOfTree DEF Results
<1>4. At(walk, context, n, g) = At(walk, context, n, Results(walk, context))
  BY <1>3, AtDepends
<1>5. g[n] = At(walk, context, n, g)
  BY <1>1 DEF IsWalk
<1> QED
  BY <1>2, <1>4, <1>5

(* What they say of a predicate, of a negation and of a group, by what     *)
(* they say of what it is made of.                                         *)
LEMMA OfPredicate ==
  ASSUME NoneIsNoJson, NEW n \in AllTrees, NEW f, NEW o, NEW v, n = Predicate(f, o, v)
  PROVE  /\ AcceptsNode(n) <=> AcceptsPredicate(n.object)
         /\ \A context : MatchNode(n, context) = MatchPredicate(n.object, context)
         /\ \A context : ReaderMatchNode(n, context) = ReaderMatchPredicate(n.object, context)
         /\ NormalizeAgain(n) = n /\ NormalizeQueryNode(n) = n
<1> DEFINE node == n.object
<1>1. /\ Is(n, "object") /\ Read(node, "kind") = "predicate" /\ node.kind.string = "predicate"
  BY PredicateIs
<1>2. AcceptsNode(n) <=> AcceptsPredicate(node)
  <2>1. Result("accepts", None, n) = At("accepts", None, n, Results("accepts", None))
    BY ResultIs DEF Walks
  <2>2. AcceptsNode(n) = AcceptsAt(n, Results("accepts", None))
    BY <2>1 DEF Result, At
  <2> QED
    BY <1>1, <2>2 DEF AcceptsAt
<1>3. ASSUME NEW context PROVE MatchNode(n, context) = MatchPredicate(node, context)
  <2>1. Result("matches", context, n) = At("matches", context, n, Results("matches", context))
    BY ResultIs DEF Walks
  <2>2. MatchNode(n, context) = MatchAt(n, Results("matches", context), context)
    BY <2>1 DEF Result, At
  <2> QED
    BY <1>1, <2>2 DEF MatchAt
<1>4. ASSUME NEW context PROVE ReaderMatchNode(n, context) = ReaderMatchPredicate(node, context)
  <2>1. Result("shows", context, n) = At("shows", context, n, Results("shows", context))
    BY ResultIs DEF Walks
  <2>2. ReaderMatchNode(n, context) = ReaderMatchAt(n, Results("shows", context), context)
    BY <2>1 DEF Result, At
  <2> QED
    BY <1>1, <2>2 DEF ReaderMatchAt
<1>5. NormalizeAgain(n) = n
  <2>1. Result("again", None, n) = At("again", None, n, Results("again", None))
    BY ResultIs DEF Walks
  <2>2. NormalizeAgain(n) = NormalizeNode(n, Results("again", None), None)
    BY <2>1 DEF Result, At
  <2> QED
    BY <1>1, <2>2 DEF NormalizeNode
<1>6. NormalizeQueryNode(n) = n
  <2> DEFINE R == Results("normal", None)
  <2>1. Result("normal", None, n) = At("normal", None, n, R)
    BY ResultIs DEF Walks
  <2>2. NormalizeQueryNode(n) = NormalizeNode(n, R, NormalizeAgain(R[n.object.child].object.child))
    BY <2>1 DEF Result, At
  <2> QED
    BY <1>1, <2>2 DEF NormalizeNode
<1> QED
  BY <1>2, <1>3, <1>4, <1>5, <1>6

LEMMA OfNot ==
  ASSUME NoneIsNoJson, NEW n \in AllTrees, NEW c, n = Not(c)
  PROVE  /\ c \in AllTrees /\ Height(c) < Height(n)
         /\ AcceptsNode(n) <=> AcceptsNode(c)
         /\ \A context : MatchNode(n, context) <=> ~MatchNode(c, context)
         /\ \A context : ReaderMatchNode(n, context) <=> ~ReaderMatchNode(c, context)
         /\ NormalizeAgain(c).object.kind.string # "not" =>
              NormalizeAgain(n) = Not(NormalizeAgain(c))
         /\ NormalizeQueryNode(n) =
              IF NormalizeQueryNode(c).object.kind.string = "not"
                THEN NormalizeAgain(NormalizeQueryNode(c).object.child)
                ELSE Not(NormalizeQueryNode(c))
<1> DEFINE node == n.object
<1>1. /\ Is(n, "object") /\ Read(node, "kind") = "not" /\ node.kind.string = "not"
      /\ Get(node, "child") = c /\ node.child = c /\ ChildrenOf(n) = {c}
  BY NotIs
<1>c. c \in AllTrees /\ Height(c) < Height(n)
  BY <1>1, ChildrenOfTree
<1>2. AcceptsNode(n) <=> AcceptsNode(c)
  <2> DEFINE R == Results("accepts", None)
  <2>1. Result("accepts", None, n) = At("accepts", None, n, R)
    BY ResultIs DEF Walks
  <2>2. AcceptsNode(n) = AcceptsAt(n, R)
    BY <2>1 DEF Result, At
  <2>3. R[c] = AcceptsNode(c)
    BY <1>c DEF Results, Result
  <2> HIDE DEF R
  <2> QED
    BY <1>1, <2>2, <2>3 DEF AcceptsAt
<1>3. ASSUME NEW context PROVE MatchNode(n, context) <=> ~MatchNode(c, context)
  <2> DEFINE R == Results("matches", context)
  <2>1. Result("matches", context, n) = At("matches", context, n, R)
    BY ResultIs DEF Walks
  <2>2. MatchNode(n, context) = MatchAt(n, R, context)
    BY <2>1 DEF Result, At
  <2>3. R[c] = MatchNode(c, context)
    BY <1>c DEF Results, Result
  <2> HIDE DEF R
  <2> QED
    BY <1>1, <2>2, <2>3 DEF MatchAt
<1>4. ASSUME NEW context PROVE ReaderMatchNode(n, context) <=> ~ReaderMatchNode(c, context)
  <2> DEFINE R == Results("shows", context)
  <2>1. Result("shows", context, n) = At("shows", context, n, R)
    BY ResultIs DEF Walks
  <2>2. ReaderMatchNode(n, context) = ReaderMatchAt(n, R, context)
    BY <2>1 DEF Result, At
  <2>3. R[c] = ReaderMatchNode(c, context)
    BY <1>c DEF Results, Result
  <2> HIDE DEF R
  <2> QED
    BY <1>1, <2>2, <2>3 DEF ReaderMatchAt
<1>5. ASSUME NormalizeAgain(c).object.kind.string # "not"
      PROVE  NormalizeAgain(n) = Not(NormalizeAgain(c))
  <2> DEFINE R == Results("again", None)
  <2>1. Result("again", None, n) = At("again", None, n, R)
    BY ResultIs DEF Walks
  <2>2. NormalizeAgain(n) = NormalizeNode(n, R, None)
    BY <2>1 DEF Result, At
  <2>3. R[c] = NormalizeAgain(c)
    BY <1>c DEF Results, Result
  <2> HIDE DEF R
  <2> QED
    BY <1>1, <1>5, <2>2, <2>3 DEF NormalizeNode
<1>6. NormalizeQueryNode(n) = IF NormalizeQueryNode(c).object.kind.string = "not"
                                THEN NormalizeAgain(NormalizeQueryNode(c).object.child)
                                ELSE Not(NormalizeQueryNode(c))
  <2> DEFINE R == Results("normal", None)
  <2>1. Result("normal", None, n) = At("normal", None, n, R)
    BY ResultIs DEF Walks
  <2>2. NormalizeQueryNode(n) = NormalizeNode(n, R, NormalizeAgain(R[n.object.child].object.child))
    BY <2>1 DEF Result, At
  <2>3. R[c] = NormalizeQueryNode(c)
    BY <1>c DEF Results, Result
  <2> HIDE DEF R
  <2> QED
    BY <1>1, <2>2, <2>3 DEF NormalizeNode
<1> QED
  BY <1>c, <1>2, <1>3, <1>4, <1>5, <1>6

(* A group is made of trees.                                               *)
LEMMA GroupOfTrees ==
  ASSUME NoneIsNoJson, NEW n \in AllTrees, NEW m, NEW s, n = Group(m, s)
  PROVE  /\ m \in {"all", "any"} /\ s \in Seq(AllTrees)
         /\ \A i \in DOMAIN s : Height(s[i]) < Height(n)
<1>1. /\ n.object.kind.string = "group" /\ n.object.match.string = m
      /\ n.object.children.list = s
  BY GroupIs
<1>2. ASSUME NEW f, NEW o, NEW v, n = Predicate(f, o, v) PROVE FALSE
  BY <1>1, <1>2, PredicateIs
<1>3. ASSUME NEW c, n = Not(c) PROVE FALSE
  BY <1>1, <1>3, NotIs
<1>4. PICK k \in {"all", "any"}, t \in Seq(AllTrees) :
             n = Group(k, t) /\ \A i \in DOMAIN t : Height(t[i]) < Height(n)
  BY <1>2, <1>3, TreeShape
<1>5. k = m /\ t = s
  BY <1>1, <1>4, GroupIs
<1> QED
  BY <1>4, <1>5

LEMMA OfGroup ==
  ASSUME NoneIsNoJson, NEW n \in AllTrees, NEW m, NEW s, n = Group(m, s)
  PROVE  /\ AcceptsNode(n) <=> s # <<>> /\ \A i \in DOMAIN s : AcceptsNode(s[i])
         /\ \A context : MatchNode(n, context) <=>
              IF m = "all" THEN \A i \in DOMAIN s : MatchNode(s[i], context)
                           ELSE \E i \in DOMAIN s : MatchNode(s[i], context)
         /\ \A context : ReaderMatchNode(n, context) <=>
              IF m = "all" THEN \A i \in DOMAIN s : ReaderMatchNode(s[i], context)
                           ELSE \E i \in DOMAIN s : ReaderMatchNode(s[i], context)
         /\ NormalizeAgain(n) = NormalizeGroup(m, [i \in DOMAIN s |-> NormalizeAgain(s[i])])
         /\ NormalizeQueryNode(n) = NormalizeGroup(m, [i \in DOMAIN s |-> NormalizeQueryNode(s[i])])
<1> DEFINE node == n.object
<1>1. /\ Is(n, "object") /\ Read(node, "kind") = "group" /\ node.kind.string = "group"
      /\ Read(node, "match") = m /\ node.match.string = m
      /\ Is(Get(node, "children"), "list") /\ node.children.list = s
  BY GroupIs
<1>c. m \in {"all", "any"} /\ \A i \in DOMAIN s : s[i] \in AllTrees
  BY GroupOfTrees
<1>2. AcceptsNode(n) <=> s # <<>> /\ \A i \in DOMAIN s : AcceptsNode(s[i])
  <2> DEFINE R == Results("accepts", None)
  <2>1. Result("accepts", None, n) = At("accepts", None, n, R)
    BY ResultIs DEF Walks
  <2>2. AcceptsNode(n) = AcceptsAt(n, R)
    BY <2>1 DEF Result, At
  <2>3. \A i \in DOMAIN s : R[s[i]] = AcceptsNode(s[i])
    BY <1>c DEF Results, Result
  <2> HIDE DEF R
  <2> QED
    BY <1>1, <1>c, <2>2, <2>3 DEF AcceptsAt
<1>3. ASSUME NEW context
      PROVE  MatchNode(n, context) <=>
               IF m = "all" THEN \A i \in DOMAIN s : MatchNode(s[i], context)
                            ELSE \E i \in DOMAIN s : MatchNode(s[i], context)
  <2> DEFINE R == Results("matches", context)
  <2>1. Result("matches", context, n) = At("matches", context, n, R)
    BY ResultIs DEF Walks
  <2>2. MatchNode(n, context) = MatchAt(n, R, context)
    BY <2>1 DEF Result, At
  <2>3. \A i \in DOMAIN s : R[s[i]] = MatchNode(s[i], context)
    BY <1>c DEF Results, Result
  <2> HIDE DEF R
  <2> QED
    BY <1>1, <2>2, <2>3 DEF MatchAt, Range
<1>4. ASSUME NEW context
      PROVE  ReaderMatchNode(n, context) <=>
               IF m = "all" THEN \A i \in DOMAIN s : ReaderMatchNode(s[i], context)
                            ELSE \E i \in DOMAIN s : ReaderMatchNode(s[i], context)
  <2> DEFINE R == Results("shows", context)
  <2>1. Result("shows", context, n) = At("shows", context, n, R)
    BY ResultIs DEF Walks
  <2>2. ReaderMatchNode(n, context) = ReaderMatchAt(n, R, context)
    BY <2>1 DEF Result, At
  <2>3. \A i \in DOMAIN s : R[s[i]] = ReaderMatchNode(s[i], context)
    BY <1>c DEF Results, Result
  <2> HIDE DEF R
  <2> QED
    BY <1>1, <2>2, <2>3 DEF ReaderMatchAt, Range
<1>5. NormalizeAgain(n) = NormalizeGroup(m, [i \in DOMAIN s |-> NormalizeAgain(s[i])])
  <2> DEFINE R == Results("again", None)
  <2>1. Result("again", None, n) = At("again", None, n, R)
    BY ResultIs DEF Walks
  <2>2. NormalizeAgain(n) = NormalizeNode(n, R, None)
    BY <2>1 DEF Result, At
  <2>3. \A i \in DOMAIN s : R[s[i]] = NormalizeAgain(s[i])
    BY <1>c DEF Results, Result
  <2> HIDE DEF R
  <2>4. [i \in DOMAIN s |-> R[s[i]]] = [i \in DOMAIN s |-> NormalizeAgain(s[i])]
    BY <2>3
  <2> QED
    BY <1>1, <2>2, <2>4 DEF NormalizeNode
<1>6. NormalizeQueryNode(n) = NormalizeGroup(m, [i \in DOMAIN s |-> NormalizeQueryNode(s[i])])
  <2> DEFINE R == Results("normal", None)
  <2>1. Result("normal", None, n) = At("normal", None, n, R)
    BY ResultIs DEF Walks
  <2>2. NormalizeQueryNode(n) = NormalizeNode(n, R, NormalizeAgain(R[n.object.child].object.child))
    BY <2>1 DEF Result, At
  <2>3. \A i \in DOMAIN s : R[s[i]] = NormalizeQueryNode(s[i])
    BY <1>c DEF Results, Result
  <2> HIDE DEF R
  <2>4. [i \in DOMAIN s |-> R[s[i]]] = [i \in DOMAIN s |-> NormalizeQueryNode(s[i])]
    BY <2>3
  <2> QED
    BY <1>1, <2>2, <2>4 DEF NormalizeNode
<1> QED
  BY <1>2, <1>3, <1>4, <1>5, <1>6

-------------------------------------------------------------------------------
(* A sequence of sequences with something in each, flattened.              *)
LEMMA FlattenedIs ==
  ASSUME NEW S, NEW k \in Nat \ {0}, NEW parts, parts = [i \in 1 .. k |-> parts[i]],
         \A i \in 1 .. k : parts[i] \in Seq(S) /\ parts[i] # <<>>
  PROVE  /\ FlattenSeq(parts) \in Seq(S) /\ FlattenSeq(parts) # <<>>
         /\ \A x : x \in Range(FlattenSeq(parts)) <=> \E i \in 1 .. k : x \in Range(parts[i])
<1>1. Len(parts) = k
  OBVIOUS
<1>2. PICK f : /\ FlattenSeq(parts) = f[k]
               /\ f[1] = parts[1]
               /\ \A i \in 2 .. k : f[i] = f[i - 1] \o parts[i]
  BY <1>1, FlatteningIs
<1> DEFINE Good(j) == /\ f[j] \in Seq(S) /\ f[j] # <<>>
                      /\ \A x : x \in Range(f[j]) <=> \E i \in 1 .. j : x \in Range(parts[i])
           bad == {j \in 1 .. k : ~Good(j)}
<1>3. ASSUME bad # {} PROVE FALSE
  <2>1. PICK j \in bad : \A i \in bad : j <= i
    <3>1. bad \in SUBSET Nat
      OBVIOUS
    <3> HIDE DEF bad
    <3> QED
      BY <1>3, <3>1, LeastOf
  <2>2. j # 1
    <3>1. Good(1)
      BY <1>2
    <3> QED
      BY <2>1, <3>1
  <2>3. j \in 2 .. k /\ j - 1 \in 1 .. k /\ ~(j <= j - 1) /\ j \in 1 .. k
    BY <2>1, <2>2
  <2>4. Good(j - 1)
    <3> HIDE DEF Good
    <3> QED
      BY <2>1, <2>3
  <2> DEFINE a == f[j - 1]
             b == parts[j]
  <2>5. f[j] = a \o b /\ a \in Seq(S) /\ b \in Seq(S) /\ a # <<>>
    BY <1>2, <2>3, <2>4
  <2>6. \A x : x \in Range(a) <=> \E i \in 1 .. j - 1 : x \in Range(parts[i])
    BY <2>4
  <2> HIDE DEF a, b
  <2>7. f[j] \in Seq(S) /\ f[j] # <<>>
    BY <2>5
  <2>8. \A x : x \in Range(a \o b) <=> x \in Range(a) \/ x \in Range(b)
    <3>1. /\ DOMAIN a = 1 .. Len(a) /\ DOMAIN b = 1 .. Len(b) /\ Len(a) \in Nat /\ Len(b) \in Nat
          /\ DOMAIN (a \o b) = 1 .. Len(a) + Len(b)
          /\ \A i \in 1 .. Len(a) + Len(b) :
               (a \o b)[i] = IF i <= Len(a) THEN a[i] ELSE b[i - Len(a)]
      BY <2>5
    <3>2. ASSUME NEW i \in 1 .. Len(a) PROVE a[i] \in Range(a \o b)
      <4>1. i \in 1 .. Len(a) + Len(b) /\ (a \o b)[i] = a[i]
        BY <3>1
      <4> QED
        BY <3>1, <4>1 DEF Range
    <3>3. ASSUME NEW i \in 1 .. Len(b) PROVE b[i] \in Range(a \o b)
      <4>1. Len(a) + i \in 1 .. Len(a) + Len(b) /\ ~(Len(a) + i <= Len(a))
            /\ (Len(a) + i) - Len(a) = i
        BY <3>1
      <4>2. (a \o b)[Len(a) + i] = b[i]
        BY <3>1, <4>1
      <4> QED
        BY <3>1, <4>1, <4>2 DEF Range
    <3>4. ASSUME NEW i \in 1 .. Len(a) + Len(b)
          PROVE  (a \o b)[i] \in Range(a) \/ (a \o b)[i] \in Range(b)
      <4>1. CASE i <= Len(a)
        BY <3>1, <4>1 DEF Range
      <4>2. CASE ~(i <= Len(a))
        <5>1. i - Len(a) \in 1 .. Len(b)
          BY <3>1, <4>2
        <5> QED
          BY <3>1, <4>2, <5>1 DEF Range
      <4> QED
        BY <4>1, <4>2
    <3>5. ASSUME NEW x PROVE x \in Range(a) => x \in Range(a \o b)
      BY <3>1, <3>2 DEF Range
    <3>6. ASSUME NEW x PROVE x \in Range(b) => x \in Range(a \o b)
      BY <3>1, <3>3 DEF Range
    <3>7. ASSUME NEW x, x \in Range(a \o b) PROVE x \in Range(a) \/ x \in Range(b)
      <4>1. PICK i \in 1 .. Len(a) + Len(b) : x = (a \o b)[i]
        BY <3>1, <3>7 DEF Range
      <4> QED
        BY <3>4, <4>1
    <3> QED
      BY <3>5, <3>6, <3>7
  <2>9. ASSUME NEW x PROVE x \in Range(f[j]) <=> \E i \in 1 .. j : x \in Range(parts[i])
    <3>1. \A i : i \in 1 .. j <=> i \in 1 .. j - 1 \/ i = j
      BY <2>3
    <3> QED
      BY <2>5, <2>6, <2>8, <3>1 DEF b
  <2>10. Good(j)
    BY <2>7, <2>9
  <2> QED
    BY <2>1, <2>10
<1>4. Good(k)
  <2>1. bad = {}
    BY <1>3
  <2> HIDE DEF Good
  <2> QED
    BY <2>1
<1> QED
  BY <1>2, <1>4

LEMMA FlattenedOnes ==
  ASSUME NEW S, NEW s \in Seq(S), s # <<>>
  PROVE  FlattenSeq([i \in DOMAIN s |-> <<s[i]>>]) = s
<1> DEFINE parts == [i \in DOMAIN s |-> <<s[i]>>]
           k == Len(s)
<1>1. k \in Nat \ {0} /\ DOMAIN s = 1 .. k
  OBVIOUS
<1>2. Len(parts) = k /\ \A i \in 1 .. k : parts[i] = <<s[i]>>
  BY <1>1
<1> HIDE DEF parts, k
<1>3. PICK f : /\ FlattenSeq(parts) = f[k]
               /\ f[1] = parts[1]
               /\ \A i \in 2 .. k : f[i] = f[i - 1] \o parts[i]
  BY <1>1, <1>2, FlatteningIs
<1> DEFINE Good(j) == f[j] \in Seq(S) /\ Len(f[j]) = j /\ \A i \in 1 .. j : f[j][i] = s[i]
           bad == {j \in 1 .. k : ~Good(j)}
<1>4. ASSUME bad # {} PROVE FALSE
  <2>1. PICK j \in bad : \A i \in bad : j <= i
    <3>1. bad \in SUBSET Nat
      BY <1>1
    <3> HIDE DEF bad
    <3> QED
      BY <1>4, <3>1, LeastOf
  <2>2. j # 1
    <3>1. f[1] = <<s[1]>> /\ s[1] \in S
      BY <1>1, <1>2, <1>3
    <3>2. Good(1)
      BY <3>1
    <3> QED
      BY <2>1, <3>2
  <2>3. j \in 2 .. k /\ j - 1 \in 1 .. k /\ ~(j <= j - 1) /\ j \in 1 .. k
    BY <1>1, <2>1, <2>2
  <2>4. Good(j - 1)
    <3> HIDE DEF Good
    <3> QED
      BY <2>1, <2>3
  <2>5. f[j] = f[j - 1] \o <<s[j]>> /\ s[j] \in S
    <3>1. f[j] = f[j - 1] \o parts[j]
      BY <1>3, <2>3
    <3>2. parts[j] = <<s[j]>>
      BY <1>2, <2>3
    <3>3. s[j] \in S
      BY <1>1, <2>3
    <3> QED
      BY <3>1, <3>2, <3>3
  <2>6. f[j] = Append(f[j - 1], s[j])
    BY <2>4, <2>5
  <2>7. Good(j)
    BY <2>3, <2>4, <2>5, <2>6
  <2> QED
    BY <2>1, <2>7
<1>5. Good(k)
  <2>1. bad = {}
    BY <1>4
  <2> HIDE DEF Good
  <2> QED
    BY <1>1, <2>1
<1>6. FlattenSeq(parts) = s
  BY <1>1, <1>3, <1>5 DEF k
<1> QED
  BY <1>6 DEF parts

-------------------------------------------------------------------------------
(* Normal forms: no double negation, no group of one, none in its like.    *)
Proper(n) ==
  LET node == n.object
  IN  /\ node.kind.string = "not" => node.child.object.kind.string # "not"
      /\ node.kind.string = "group" =>
           /\ Len(node.children.list) # 1
           /\ \A i \in DOMAIN node.children.list :
                ~Dissolves(node.match.string, node.children.list[i])

Normal(n) == \A x \in NodesOf(n) : Proper(x)

(* The nodes of a tree are the tree and those of its children.             *)
LEMMA NodesBelow ==
  ASSUME NoneIsNoJson, NEW n \in AllTrees
  PROVE  /\ \A c \in ChildrenOf(n) : NodesOf(c) \subseteq NodesOf(n)
         /\ \A x \in NodesOf(n) : x = n \/ \E c \in ChildrenOf(n) : x \in NodesOf(c)
<1>1. /\ n \in NodesOf(n)
      /\ \A x \in NodesOf(n) : ChildrenOf(x) \subseteq NodesOf(n)
  BY NodesOfTree
<1>2. ASSUME NEW c \in ChildrenOf(n) PROVE NodesOf(c) \subseteq NodesOf(n)
  <2>1. c \in NodesOf(n)
    BY <1>1
  <2> QED
    BY <1>1, <2>1, NodesStayIn
<1> DEFINE S == {n} \cup UNION {NodesOf(c) : c \in ChildrenOf(n)}
<1>3. ASSUME NEW x \in S PROVE ChildrenOf(x) \subseteq S
  <2>1. CASE x = n
    <3>1. \A c \in ChildrenOf(n) : c \in NodesOf(c)
      BY ChildrenOfTree, NodesOfTree
    <3> QED
      BY <2>1, <3>1
  <2>2. CASE x # n
    <3>1. PICK c \in ChildrenOf(n) : x \in NodesOf(c)
      BY <2>2
    <3>2. c \in AllTrees
      BY ChildrenOfTree
    <3>3. ChildrenOf(x) \subseteq NodesOf(c)
      BY <3>1, <3>2, NodesOfTree
    <3> QED
      BY <3>3
  <2> QED
    BY <2>1, <2>2
<1>4. NodesOf(n) \subseteq S
  <2>1. n \in S
    OBVIOUS
  <2> HIDE DEF S
  <2> QED
    BY <1>3, <2>1, NodesStayIn
<1> QED
  BY <1>2, <1>4

LEMMA NormalIs ==
  ASSUME NoneIsNoJson, NEW n \in AllTrees
  PROVE  Normal(n) <=> Proper(n) /\ \A c \in ChildrenOf(n) : Normal(c)
<1>1. n \in NodesOf(n)
  BY NodesOfTree
<1> QED
  BY <1>1, NodesBelow DEF Normal

(* What is told from the kind of a tree.                                   *)
LEMMA KindIs ==
  ASSUME NoneIsNoJson, NEW n \in AllTrees
  PROVE  /\ n.object.kind.string = "not" => n = Not(n.object.child)
         /\ n.object.kind.string \in {"predicate", "group", "not"}
         /\ Read(n.object, "kind") = "group" =>
              n = Group(n.object.match.string, n.object.children.list)
<1>1. ASSUME NEW f, NEW o, NEW v, n = Predicate(f, o, v)
      PROVE  n.object.kind.string = "predicate" /\ Read(n.object, "kind") = "predicate"
  BY <1>1, PredicateIs
<1>2. ASSUME NEW c, n = Not(c)
      PROVE  /\ n.object.kind.string = "not" /\ Read(n.object, "kind") = "not"
             /\ n = Not(n.object.child)
  BY <1>2, NotIs
<1>3. ASSUME NEW m, NEW s, n = Group(m, s)
      PROVE  /\ n.object.kind.string = "group"
             /\ n = Group(n.object.match.string, n.object.children.list)
  BY <1>3, GroupIs
<1> QED
  BY <1>1, <1>2, <1>3, TreeShape

(* A normal form is left as it is.                                         *)
LEMMA NormalStays ==
  ASSUME NoneIsNoJson
  PROVE  \A n \in AllTrees : Normal(n) /\ AcceptsNode(n) => NormalizeAgain(n) = n
<1> DEFINE bad == {n \in AllTrees : Normal(n) /\ AcceptsNode(n) /\ NormalizeAgain(n) # n}
<1>1. SUFFICES ASSUME bad # {} PROVE FALSE
  OBVIOUS
<1>2. PICK n \in bad : \A c \in AllTrees : Height(c) < Height(n) => c \notin bad
  <2>1. bad \in SUBSET AllTrees
    OBVIOUS
  <2> HIDE DEF bad
  <2> QED
    BY <1>1, <2>1, LeastTree
<1>3. n \in AllTrees /\ Normal(n) /\ AcceptsNode(n) /\ NormalizeAgain(n) # n
  BY <1>2
<1>4. \A c \in AllTrees : Height(c) < Height(n) /\ Normal(c) /\ AcceptsNode(c) =>
                            NormalizeAgain(c) = c
  BY <1>2
<1> HIDE DEF bad
<1>5. Proper(n) /\ \A c \in ChildrenOf(n) : Normal(c)
  BY <1>3, NormalIs
<1>6. ASSUME NEW f, NEW o, NEW v, n = Predicate(f, o, v) PROVE FALSE
  BY <1>3, <1>6, OfPredicate
<1>7. ASSUME NEW c, n = Not(c) PROVE FALSE
  <2>1. n.object.kind.string = "not" /\ n.object.child = c /\ ChildrenOf(n) = {c}
    BY <1>7, NotIs
  <2>2. c \in AllTrees /\ Height(c) < Height(n) /\ AcceptsNode(c)
    BY <1>3, <1>7, OfNot
  <2>3. NormalizeAgain(c) = c
    BY <1>4, <1>5, <2>1, <2>2
  <2>4. c.object.kind.string # "not"
    BY <1>5, <2>1 DEF Proper
  <2>5. NormalizeAgain(n) = Not(c)
    BY <1>3, <1>7, <2>3, <2>4, OfNot
  <2> QED
    BY <1>3, <1>7, <2>5
<1>8. ASSUME NEW m, NEW s, n = Group(m, s) PROVE FALSE
  <2>1. /\ n.object.kind.string = "group" /\ n.object.match.string = m
        /\ n.object.children.list = s /\ ChildrenOf(n) = Range(s)
    BY <1>8, GroupIs
  <2>2. s \in Seq(AllTrees) /\ \A i \in DOMAIN s : Height(s[i]) < Height(n)
    BY <1>3, <1>8, GroupOfTrees
  <2>3. s # <<>> /\ \A i \in DOMAIN s : AcceptsNode(s[i])
    BY <1>3, <1>8, OfGroup
  <2>4. \A i \in DOMAIN s : s[i] \in AllTrees /\ s[i] \in ChildrenOf(n)
    BY <2>1, <2>2 DEF Range
  <2>5. \A i \in DOMAIN s : NormalizeAgain(s[i]) = s[i]
    BY <1>4, <1>5, <2>2, <2>3, <2>4
  <2>6. Len(s) # 1 /\ \A i \in DOMAIN s : ~Dissolves(m, s[i])
    BY <1>5, <2>1 DEF Proper
  <2> DEFINE again == [i \in DOMAIN s |-> NormalizeAgain(s[i])]
  <2>7. NormalizeAgain(n) = NormalizeGroup(m, again)
    BY <1>3, <1>8, OfGroup
  <2>8. again = s
    BY <2>2, <2>5
  <2> HIDE DEF again
  <2>9. NormalizeGroup(m, s) = Group(m, s)
    <3>1. [i \in DOMAIN s |-> IF Dissolves(m, s[i]) THEN s[i].object.children.list ELSE <<s[i]>>]
            = [i \in DOMAIN s |-> <<s[i]>>]
      BY <2>6
    <3>2. FlattenSeq([i \in DOMAIN s |-> <<s[i]>>]) = s
      BY <2>2, <2>3, FlattenedOnes
    <3> QED
      BY <2>6, <3>1, <3>2 DEF NormalizeGroup
  <2> QED
    BY <1>3, <1>8, <2>7, <2>8, <2>9
<1> QED
  BY <1>3, <1>6, <1>7, <1>8, TreeShape

-------------------------------------------------------------------------------
(* What is less nested, and what is made of what is less nested.           *)
LEMMA NestedIn ==
  ASSUME NEW d \in 0 .. MaxNesting, NEW n
  PROVE  n \in Trees(d) <=> n \in AllTrees /\ Height(n) <= d
<1>1. ASSUME n \in Trees(d) PROVE n \in AllTrees /\ Height(n) <= d
  <2>1. n \in AllTrees
    BY <1>1, LessNestedIn, NestingAssumption DEF AllTrees
  <2> QED
    BY <1>1, <2>1, HeightIs
<1>2. ASSUME n \in AllTrees, Height(n) <= d PROVE n \in Trees(d)
  <2>1. Height(n) \in 0 .. MaxNesting /\ n \in Trees(Height(n)) /\ d \in Height(n) .. MaxNesting
    BY <1>2, HeightIs, NestingAssumption
  <2> QED
    BY <2>1, LessNestedIn
<1> QED
  BY <1>1, <1>2

LEMMA OneDeeper ==
  ASSUME NEW d \in 1 .. MaxNesting
  PROVE  /\ Trees(d - 1) \subseteq Trees(d) /\ Trees(d) \subseteq AllTrees
         /\ \A c \in Trees(d - 1) : Not(c) \in Trees(d)
         /\ \A m \in {"all", "any"}, s \in Seq(Trees(d - 1)) : Group(m, s) \in Trees(d)
<1>1. Trees(d) = Grown(Trees(d - 1))
  BY TreesAre
<1>2. Trees(d) \subseteq AllTrees
  BY LessNestedIn, NestingAssumption DEF AllTrees
<1> QED
  BY <1>1, <1>2 DEF Grown

(* What the rule engine, and what the reader says of a node.               *)
Speaks(who, n, context) ==
  IF who = "engine" THEN MatchNode(n, context) ELSE ReaderMatchNode(n, context)

LEMMA SpeaksOfNot ==
  ASSUME NoneIsNoJson, NEW n \in AllTrees, NEW c, n = Not(c), NEW who, NEW context
  PROVE  Speaks(who, n, context) <=> ~Speaks(who, c, context)
<1>1. MatchNode(n, context) <=> ~MatchNode(c, context)
  BY OfNot
<1>2. ReaderMatchNode(n, context) <=> ~ReaderMatchNode(c, context)
  BY OfNot
<1> QED
  BY <1>1, <1>2 DEF Speaks

LEMMA SpeaksOfGroup ==
  ASSUME NoneIsNoJson, NEW n \in AllTrees, NEW m, NEW s, n = Group(m, s), NEW who, NEW context
  PROVE  Speaks(who, n, context) <=>
           IF m = "all" THEN \A c \in Range(s) : Speaks(who, c, context)
                        ELSE \E c \in Range(s) : Speaks(who, c, context)
<1>1. MatchNode(n, context) <=> IF m = "all" THEN \A i \in DOMAIN s : MatchNode(s[i], context)
                                             ELSE \E i \in DOMAIN s : MatchNode(s[i], context)
  BY OfGroup
<1>2. ReaderMatchNode(n, context) <=>
        IF m = "all" THEN \A i \in DOMAIN s : ReaderMatchNode(s[i], context)
                     ELSE \E i \in DOMAIN s : ReaderMatchNode(s[i], context)
  BY OfGroup
<1>3. CASE who = "engine"
  BY <1>1, <1>3 DEF Speaks, Range
<1>4. CASE who # "engine"
  BY <1>2, <1>4 DEF Speaks, Range
<1> QED
  BY <1>3, <1>4

(* An accepted normal form, nested up to d deep.                           *)
Settled(d) == {x \in Trees(d) : AcceptsNode(x) /\ Normal(x)}

(* A part of what a group is flattened to: it is of settled trees that the *)
(* group would not take in, and says what the child said that it is of.    *)
Flat(m, child) ==
  IF Dissolves(m, child) THEN child.object.children.list ELSE <<child>>

LEMMA FlatIs ==
  ASSUME NoneIsNoJson, NEW d \in 0 .. MaxNesting, NEW m, NEW child \in Settled(d)
  PROVE  /\ Flat(m, child) \in Seq({x \in Settled(d) : ~Dissolves(m, x)})
         /\ Flat(m, child) # <<>>
         /\ \A who, context : Speaks(who, child, context) <=>
              IF m = "all" THEN \A c \in Range(Flat(m, child)) : Speaks(who, c, context)
                           ELSE \E c \in Range(Flat(m, child)) : Speaks(who, c, context)
<1> DEFINE S == {x \in Settled(d) : ~Dissolves(m, x)}
<1>1. child \in AllTrees /\ Height(child) <= d /\ AcceptsNode(child) /\ Normal(child)
  BY NestedIn DEF Settled
<1>2. CASE ~Dissolves(m, child)
  <2>1. Flat(m, child) = <<child>> /\ child \in S
    BY <1>2 DEF Flat
  <2>2. Range(<<child>>) = {child}
    BY DEF Range
  <2> QED
    BY <2>1, <2>2
<1>3. CASE Dissolves(m, child)
  <2> DEFINE s == child.object.children.list
  <2>1. child = Group(m, s)
    BY <1>1, <1>3, KindIs DEF Dissolves
  <2>2. Flat(m, child) = s
    BY <1>3 DEF Flat
  <2>3. /\ child.object.kind.string = "group" /\ child.object.match.string = m
        /\ ChildrenOf(child) = Range(s)
    BY <2>1, GroupIs
  <2> HIDE DEF s
  <2>4. s \in Seq(AllTrees) /\ \A i \in DOMAIN s : Height(s[i]) < Height(child)
    BY <1>1, <2>1, GroupOfTrees
  <2>5. s # <<>> /\ \A i \in DOMAIN s : AcceptsNode(s[i])
    BY <1>1, <2>1, OfGroup
  <2>6. ASSUME NEW i \in DOMAIN s PROVE s[i] \in S
    <3>1. s[i] \in AllTrees /\ s[i] \in ChildrenOf(child) /\ AcceptsNode(s[i])
      BY <2>3, <2>4, <2>5 DEF Range
    <3>2. Proper(child) /\ Normal(s[i])
      BY <1>1, <3>1, NormalIs
    <3>3. ~Dissolves(m, s[i])
      BY <2>3, <3>2 DEF Proper, s
    <3>4. Height(s[i]) <= d
      <4>1. Height(s[i]) < Height(child) /\ Height(s[i]) \in Nat /\ Height(child) \in Nat
        BY <1>1, <2>4, <3>1, HeightIs
      <4> QED
        BY <1>1, <4>1
    <3> QED
      BY <3>1, <3>2, <3>3, <3>4, NestedIn DEF Settled
  <2>7. s \in Seq(S)
    BY <2>4, <2>6
  <2>8. \A who, context : Speaks(who, child, context) <=>
          IF m = "all" THEN \A c \in Range(s) : Speaks(who, c, context)
                       ELSE \E c \in Range(s) : Speaks(who, c, context)
    BY <1>1, <2>1, SpeaksOfGroup
  <2> QED
    BY <2>2, <2>5, <2>7, <2>8
<1> QED
  BY <1>2, <1>3

(* A group of settled trees settles, and says what it said.                *)
LEMMA GroupSettles ==
  ASSUME NoneIsNoJson, NEW d \in 1 .. MaxNesting, NEW m \in {"all", "any"},
         NEW children \in Seq(Settled(d - 1)), children # <<>>
  PROVE  /\ NormalizeGroup(m, children) \in Settled(d)
         /\ \A who, context : Speaks(who, NormalizeGroup(m, children), context) <=>
              IF m = "all" THEN \A i \in DOMAIN children : Speaks(who, children[i], context)
                           ELSE \E i \in DOMAIN children : Speaks(who, children[i], context)
<1> DEFINE S == {x \in Settled(d - 1) : ~Dissolves(m, x)}
           k == Len(children)
           parts == [i \in DOMAIN children |-> Flat(m, children[i])]
           flat == FlattenSeq(parts)
           N == IF Len(flat) = 1 THEN flat[1] ELSE Group(m, flat)
<1>0. d - 1 \in 0 .. MaxNesting
  BY NestingAssumption
<1>1. k \in Nat \ {0} /\ DOMAIN children = 1 .. k /\ \A i \in 1 .. k : children[i] \in Settled(d - 1)
  OBVIOUS
<1>2. NormalizeGroup(m, children) = N
  BY DEF NormalizeGroup, Flat
<1>3. \A i \in 1 .. k : parts[i] = Flat(m, children[i]) /\ parts[i] \in Seq(S) /\ parts[i] # <<>>
  BY <1>0, <1>1, FlatIs
<1>4. parts = [i \in 1 .. k |-> parts[i]]
  BY <1>1
<1> HIDE DEF parts, k, S
<1>5. /\ flat \in Seq(S) /\ flat # <<>>
      /\ \A x : x \in Range(flat) <=> \E i \in 1 .. k : x \in Range(parts[i])
  BY <1>1, <1>3, <1>4, FlattenedIs
<1> HIDE DEF flat
<1>6. ASSUME NEW who, NEW context
      PROVE  (IF m = "all" THEN \A x \in Range(flat) : Speaks(who, x, context)
                           ELSE \E x \in Range(flat) : Speaks(who, x, context)) <=>
             (IF m = "all" THEN \A i \in DOMAIN children : Speaks(who, children[i], context)
                           ELSE \E i \in DOMAIN children : Speaks(who, children[i], context))
  <2>1. ASSUME NEW i \in 1 .. k
        PROVE  Speaks(who, children[i], context) <=>
                 IF m = "all" THEN \A c \in Range(parts[i]) : Speaks(who, c, context)
                              ELSE \E c \in Range(parts[i]) : Speaks(who, c, context)
    <3> DEFINE child == children[i]
    <3>1. child \in Settled(d - 1) /\ parts[i] = Flat(m, child)
      BY <1>1, <1>3
    <3> HIDE DEF child
    <3>2. Speaks(who, child, context) <=>
            IF m = "all" THEN \A c \in Range(Flat(m, child)) : Speaks(who, c, context)
                         ELSE \E c \in Range(Flat(m, child)) : Speaks(who, c, context)
      BY <1>0, <3>1, FlatIs
    <3> QED
      BY <3>1, <3>2 DEF child
  <2> QED
    BY <1>1, <1>5, <2>1
<1>7. Trees(d - 1) \subseteq Trees(d) /\ Trees(d) \subseteq AllTrees
  BY OneDeeper
<1>s. /\ S \subseteq Settled(d - 1) /\ S \subseteq Settled(d) /\ S \subseteq Trees(d - 1)
      /\ \A x \in S : x \in AllTrees /\ AcceptsNode(x) /\ Normal(x) /\ ~Dissolves(m, x)
  BY <1>7 DEF S, Settled
<1>f. DOMAIN flat = 1 .. Len(flat) /\ Len(flat) \in Nat \ {0} /\ \A i \in DOMAIN flat : flat[i] \in S
  BY <1>5
<1>8. CASE Len(flat) = 1
  <2>1. Range(flat) = {flat[1]} /\ flat[1] \in S
    BY <1>f, <1>8 DEF Range
  <2>2. N = flat[1]
    BY <1>8
  <2> QED
    BY <1>2, <1>6, <1>s, <2>1, <2>2
<1>9. CASE Len(flat) # 1
  <2>1. N = Group(m, flat)
    BY <1>9
  <2> HIDE DEF N
  <2>2. N \in Trees(d) /\ N \in AllTrees
    <3>1. flat \in Seq(Trees(d - 1))
      BY <1>5, <1>s
    <3> QED
      BY <1>7, <2>1, <3>1, OneDeeper
  <2>3. AcceptsNode(N)
    BY <1>5, <1>f, <1>s, <2>1, <2>2, OfGroup
  <2>4. /\ N.object.kind.string = "group" /\ N.object.match.string = m
        /\ N.object.children.list = flat /\ ChildrenOf(N) = Range(flat)
    BY <2>1, GroupIs
  <2>5. Proper(N)
    BY <1>9, <1>f, <1>s, <2>4 DEF Proper
  <2>6. \A c \in ChildrenOf(N) : Normal(c)
    BY <1>f, <1>s, <2>4 DEF Range
  <2>7. Normal(N)
    BY <2>2, <2>5, <2>6, NormalIs
  <2>8. ASSUME NEW who, NEW context
        PROVE  Speaks(who, N, context) <=>
                 IF m = "all" THEN \A x \in Range(flat) : Speaks(who, x, context)
                              ELSE \E x \in Range(flat) : Speaks(who, x, context)
    BY <2>1, <2>2, SpeaksOfGroup
  <2> QED
    BY <1>2, <1>6, <2>2, <2>3, <2>7, <2>8 DEF Settled
<1> QED
  BY <1>8, <1>9

(* An accepted definition settles, and says what it said.                  *)
LEMMA DefinitionSettles ==
  ASSUME NoneIsNoJson
  PROVE  \A n \in AllTrees : AcceptsNode(n) =>
           /\ NormalizeQueryNode(n) \in Settled(Height(n))
           /\ \A who, context : Speaks(who, NormalizeQueryNode(n), context) <=> Speaks(who, n, context)
<1> DEFINE Good(n) ==
             /\ NormalizeQueryNode(n) \in Settled(Height(n))
             /\ \A who, context : Speaks(who, NormalizeQueryNode(n), context) <=> Speaks(who, n, context)
           bad == {n \in AllTrees : AcceptsNode(n) /\ ~Good(n)}
<1>1. SUFFICES ASSUME bad # {} PROVE FALSE
  OBVIOUS
<1>2. PICK n \in bad : \A c \in AllTrees : Height(c) < Height(n) => c \notin bad
  <2>1. bad \in SUBSET AllTrees
    OBVIOUS
  <2> HIDE DEF bad
  <2> QED
    BY <1>1, <2>1, LeastTree
<1>3. n \in AllTrees /\ AcceptsNode(n) /\ ~Good(n)
  BY <1>2
<1>4. \A c \in AllTrees : Height(c) < Height(n) /\ AcceptsNode(c) => Good(c)
  BY <1>2
<1> HIDE DEF bad
<1>5. Height(n) \in 0 .. MaxNesting /\ n \in Trees(Height(n))
  BY <1>3, HeightIs
<1>6. ASSUME NEW f, NEW o, NEW v, n = Predicate(f, o, v) PROVE FALSE
  <2>1. NormalizeQueryNode(n) = n
    BY <1>3, <1>6, OfPredicate
  <2>2. n.object.kind.string = "predicate" /\ ChildrenOf(n) = {}
    BY <1>6, PredicateIs
  <2>3. Normal(n)
    BY <1>3, <2>2, NormalIs DEF Proper
  <2> QED
    BY <1>3, <1>5, <2>1, <2>3 DEF Settled
<1>7. ASSUME NEW c, n = Not(c) PROVE FALSE
  <2> DEFINE C == NormalizeQueryNode(c)
             h == Height(n)
  <2>1. c \in AllTrees /\ Height(c) < h /\ AcceptsNode(c)
    BY <1>3, <1>7, OfNot
  <2>2. Good(c)
    BY <1>4, <2>1
  <2>3. /\ Height(c) \in 0 .. MaxNesting /\ h \in 1 .. MaxNesting /\ h - 1 \in 0 .. MaxNesting
        /\ Height(c) <= h - 1
    BY <1>5, <2>1, HeightIs, NestingAssumption
  <2>4. C \in AllTrees /\ Height(C) <= Height(c) /\ AcceptsNode(C) /\ Normal(C)
    BY <2>2, <2>3, NestedIn DEF Settled
  <2>5. Height(C) \in Nat /\ Height(C) <= h - 1
    BY <2>3, <2>4, HeightIs
  <2>6. NormalizeQueryNode(n) = IF C.object.kind.string = "not" THEN NormalizeAgain(C.object.child)
                                                                ELSE Not(C)
    BY <1>3, <1>7, OfNot
  <2>7. \A who, context : Speaks(who, n, context) <=> ~Speaks(who, c, context)
    BY <1>3, <1>7, SpeaksOfNot
  <2>8. \A who, context : Speaks(who, C, context) <=> Speaks(who, c, context)
    BY <2>2
  <2> HIDE DEF C, h
  <2>9. CASE C.object.kind.string = "not"
    <3> DEFINE x == C.object.child
    <3>1. C = Not(x) /\ ChildrenOf(C) = {x}
      BY <2>4, <2>9, KindIs, NotIs
    <3> HIDE DEF x
    <3>2. x \in AllTrees /\ Height(x) < Height(C) /\ AcceptsNode(x)
      BY <2>4, <3>1, OfNot
    <3>3. Normal(x)
      BY <2>4, <3>1, NormalIs
    <3>4. NormalizeQueryNode(n) = x
      BY <2>6, <2>9, <3>2, <3>3, NormalStays DEF x
    <3>5. Height(x) <= h
      <4>1. Height(x) \in Nat
        BY <3>2, HeightIs
      <4> QED
        BY <2>3, <2>5, <3>2, <4>1
    <3>6. x \in Settled(h)
      BY <1>5, <3>2, <3>3, <3>5, NestedIn DEF Settled, h
    <3>7. \A who, context : Speaks(who, C, context) <=> ~Speaks(who, x, context)
      BY <2>4, <3>1, SpeaksOfNot
    <3>8. \A who, context : Speaks(who, x, context) <=> Speaks(who, n, context)
      BY <2>7, <2>8, <3>7
    <3> QED
      BY <1>3, <3>4, <3>6, <3>8 DEF h
  <2>10. CASE C.object.kind.string # "not"
    <3> DEFINE N == Not(C)
    <3>1. NormalizeQueryNode(n) = N
      BY <2>6, <2>10
    <3>2. C \in Trees(h - 1)
      BY <2>3, <2>4, <2>5, NestedIn
    <3>3. N \in Trees(h) /\ N \in AllTrees
      BY <2>3, <3>2, OneDeeper
    <3>4. AcceptsNode(N)
      BY <2>4, <3>3, OfNot
    <3>5. N.object.kind.string = "not" /\ N.object.child = C /\ ChildrenOf(N) = {C}
      BY NotIs
    <3>6. Normal(N)
      BY <2>4, <2>10, <3>3, <3>5, NormalIs DEF Proper
    <3>7. \A who, context : Speaks(who, N, context) <=> ~Speaks(who, C, context)
      BY <3>3, SpeaksOfNot
    <3> HIDE DEF N
    <3>8. \A who, context : Speaks(who, N, context) <=> Speaks(who, n, context)
      BY <2>7, <2>8, <3>7
    <3> QED
      BY <1>3, <3>1, <3>3, <3>4, <3>6, <3>8 DEF Settled, h
  <2> QED
    BY <2>9, <2>10
<1>8. ASSUME NEW m, NEW s, n = Group(m, s) PROVE FALSE
  <2> DEFINE children == [i \in DOMAIN s |-> NormalizeQueryNode(s[i])]
             h == Height(n)
             N == NormalizeGroup(m, children)
  <2>1. /\ m \in {"all", "any"} /\ s \in Seq(AllTrees)
        /\ \A i \in DOMAIN s : Height(s[i]) < h
    BY <1>3, <1>8, GroupOfTrees
  <2>2. s # <<>> /\ \A i \in DOMAIN s : AcceptsNode(s[i])
    BY <1>3, <1>8, OfGroup
  <2>3. NormalizeQueryNode(n) = N
    BY <1>3, <1>8, OfGroup
  <2>4. \A i \in DOMAIN s : s[i] \in AllTrees /\ Good(s[i])
    BY <1>4, <2>1, <2>2
  <2>5. h \in 1 .. MaxNesting /\ h - 1 \in 0 .. MaxNesting
    <3>1. 1 \in DOMAIN s
      BY <2>1, <2>2
    <3>2. Height(s[1]) < h /\ Height(s[1]) \in Nat
      BY <2>1, <2>4, <3>1, HeightIs
    <3> QED
      BY <1>5, <3>2, NestingAssumption
  <2>6. ASSUME NEW i \in DOMAIN s PROVE children[i] \in Settled(h - 1)
    <3>1. Height(s[i]) \in 0 .. MaxNesting /\ Height(s[i]) <= h - 1 /\ h - 1 \in Height(s[i]) .. MaxNesting
      BY <2>1, <2>4, <2>5, HeightIs, NestingAssumption
    <3>2. NormalizeQueryNode(s[i]) \in Settled(Height(s[i]))
      BY <2>4
    <3>3. Trees(Height(s[i])) \subseteq Trees(h - 1)
      BY <3>1, LessNestedIn
    <3> QED
      BY <3>2, <3>3 DEF Settled
  <2>7. children \in Seq(Settled(h - 1)) /\ children # <<>> /\ DOMAIN children = DOMAIN s
    <3>1. DOMAIN s = 1 .. Len(s) /\ Len(s) \in Nat \ {0}
      BY <2>1, <2>2
    <3>2. DOMAIN children = 1 .. Len(s) /\ children = [i \in 1 .. Len(s) |-> children[i]]
      BY <3>1
    <3>3. \A i \in 1 .. Len(s) : children[i] \in Settled(h - 1)
      BY <2>6, <3>1
    <3> HIDE DEF children, h
    <3>4. children \in Seq(Settled(h - 1)) /\ Len(children) = Len(s)
      BY <3>1, <3>2, <3>3
    <3>5. children # <<>>
      BY <3>1, <3>4
    <3> QED
      BY <3>1, <3>2, <3>4, <3>5
  <2>8. \A i \in DOMAIN s : \A who, context :
          Speaks(who, children[i], context) <=> Speaks(who, s[i], context)
    BY <2>4
  <2> HIDE DEF children, h
  <2>9. N \in Settled(h)
    BY <2>1, <2>5, <2>7, GroupSettles
  <2>10. ASSUME NEW who, NEW context PROVE Speaks(who, N, context) <=> Speaks(who, n, context)
    <3>1. Speaks(who, N, context) <=>
            IF m = "all" THEN \A i \in DOMAIN s : Speaks(who, children[i], context)
                         ELSE \E i \in DOMAIN s : Speaks(who, children[i], context)
      BY <2>1, <2>5, <2>7, GroupSettles
    <3>2. Speaks(who, n, context) <=>
            IF m = "all" THEN \A c \in Range(s) : Speaks(who, c, context)
                         ELSE \E c \in Range(s) : Speaks(who, c, context)
      BY <1>3, <1>8, SpeaksOfGroup
    <3>3. Range(s) = {s[i] : i \in DOMAIN s}
      BY DEF Range
    <3> QED
      BY <2>8, <3>1, <3>2, <3>3
  <2> QED
    BY <1>3, <2>3, <2>9, <2>10 DEF h
<1> QED
  BY <1>3, <1>6, <1>7, <1>8, TreeShape

-------------------------------------------------------------------------------
(* What an accepted predicate is.                                          *)
LEMMA AcceptedIs ==
  ASSUME NoneIsNoJson, NEW f \in QueryFields, NEW o, NEW v, NEW n, n = Predicate(f, o, v),
         AcceptsPredicate(n.object)
  PROVE  /\ o \in Operators(f)
         /\ Is(v, "list") => /\ v.list # <<>> /\ o \in {"in", "notIn"}
                             /\ \A i \in DOMAIN v.list : Is(v.list[i], "string")
         /\ ~Is(v, "list") => IF f \in FlagFields THEN Is(v, "bool") ELSE Is(v, "string")
<1> DEFINE node == n.object
<1>1. Read(node, "field") = f /\ Read(node, "operator") = o /\ Get(node, "value") = v
  BY PredicateIs
<1>2. o \in Operators(f) /\ ValidValue(f, o, v)
  BY <1>1 DEF AcceptsPredicate
<1>3. Kind(f) = "boolean" <=> f \in FlagFields
  <2>1. CASE f \in FlagFields
    BY <2>1 DEF Kind, TextFields, DateFields, EnumFields, FlagFields
  <2>2. CASE f \in DateFields
    BY <2>2 DEF Kind, TextFields, DateFields, EnumFields, FlagFields
  <2>3. CASE f \in EnumFields
    BY <2>3 DEF Kind, TextFields, DateFields, EnumFields, FlagFields
  <2>4. CASE f \in TextFields
    BY <2>4 DEF Kind, TextFields, DateFields, EnumFields, FlagFields
  <2> QED
    BY <2>1, <2>2, <2>3, <2>4 DEF QueryFields
<1>4. CASE Is(v, "list")
  BY <1>2, <1>4 DEF ValidValue
<1>5. CASE ~Is(v, "list")
  BY <1>2, <1>3, <1>5 DEF ValidValue
<1> QED
  BY <1>2, <1>4, <1>5

LEMMA OperatorsAre ==
  ASSUME NEW f \in QueryFields, NEW o \in Operators(f)
  PROVE  /\ f = "anyText" => o \in {"contains", "notContains"}
         /\ f = "tag" => o \in {"eq", "neq", "in", "notIn"}
         /\ f \in DateFields => o \in Ordered
         /\ f \in FlagFields => o \in {"eq", "neq"}
         /\ f \notin {"anyText", "tag"} \cup DateFields \cup FlagFields =>
              o \in {"eq", "neq", "in", "notIn", "contains", "notContains"}
<1>1. f = "anyText" => o \in {"contains", "notContains"}
  <2>1. f = "anyText" => Operators(f) = Within
    BY DEF Operators, EnumFields, DateFields, FlagFields
  <2> QED
    BY <2>1 DEF Within
<1>2. f = "tag" => o \in {"eq", "neq", "in", "notIn"}
  <2>1. f = "tag" => Operators(f) = Exact
    BY DEF Operators, EnumFields, DateFields, FlagFields
  <2> QED
    BY <2>1 DEF Exact
<1>3. f \in DateFields => o \in Ordered
  BY DEF Operators, DateFields, EnumFields, Ordered
<1>4. f \in FlagFields => o \in {"eq", "neq"}
  BY DEF Operators, DateFields, EnumFields, FlagFields
<1>5. f \notin {"anyText", "tag"} \cup DateFields \cup FlagFields =>
        o \in {"eq", "neq", "in", "notIn", "contains", "notContains"}
  BY DEF Operators, DateFields, EnumFields, FlagFields, TextFields, QueryFields, Within, Exact
<1> QED
  BY <1>1, <1>2, <1>3, <1>4, <1>5

LEMMA ComparesAre ==
  ASSUME NEW o \in Ordered, NEW a, NEW b PROVE Compare(a, o, b) \in BOOLEAN
<1>1. CASE o = "eq"
  BY <1>1 DEF Compare
<1>2. CASE o = "neq"
  BY <1>2 DEF Compare
<1>3. CASE o = "gt"
  BY <1>3 DEF Compare
<1>4. CASE o = "gte"
  BY <1>4 DEF Compare
<1>5. CASE o = "lt"
  BY <1>5 DEF Compare
<1>6. CASE o = "lte"
  BY <1>6 DEF Compare
<1> QED
  BY <1>1, <1>2, <1>3, <1>4, <1>5, <1>6 DEF Ordered

(* Of a text, the engine and the reader say the same.                      *)
LEMMA TextsAgree ==
  ASSUME NEW t, NEW v, NEW o \in {"eq", "neq", "in", "notIn", "contains", "notContains"},
         Is(v, "list") => o \in {"in", "notIn"}
  PROVE  /\ MatchString(t, o, v) \in BOOLEAN /\ ReaderMatchText(t, o, v) \in BOOLEAN
         /\ ReaderMatchText(t, o, v) <=> MatchString(t, o, v)
<1>1. CASE Is(v, "list") /\ o = "in"
  BY <1>1 DEF MatchString, ReaderMatchText
<1>2. CASE Is(v, "list") /\ o = "notIn"
  BY <1>2 DEF MatchString, ReaderMatchText
<1>3. CASE ~Is(v, "list") /\ o = "eq"
  BY <1>3 DEF MatchString, ReaderMatchText
<1>4. CASE ~Is(v, "list") /\ o = "neq"
  BY <1>4 DEF MatchString, ReaderMatchText
<1>5. CASE ~Is(v, "list") /\ o = "contains"
  BY <1>5 DEF MatchString, ReaderMatchText, ContainsIgnoreCase
<1>6. CASE ~Is(v, "list") /\ o = "notContains"
  BY <1>6 DEF MatchString, ReaderMatchText, ContainsIgnoreCase
<1>7. CASE ~Is(v, "list") /\ o \in {"in", "notIn"}
  BY <1>7 DEF MatchString, ReaderMatchText
<1> QED
  BY <1>1, <1>2, <1>3, <1>4, <1>5, <1>6, <1>7

(* Values are JSON, and so is the one that definitions are joined with.    *)
LEMMA ValuesAre ==
  ASSUME NoneIsNoJson, NEW v \in Values \cup {Str("unread")}
  PROVE  /\ Is(v, "string") => v = [string |-> v.string]
         /\ Is(v, "list") => \A x \in Range(v.list) : Is(x, "string") => x = [string |-> x.string]
<1>1. CASE v \in Values
  BY <1>1, ValueAssumption
<1>2. CASE v = Str("unread")
  <2>1. DOMAIN v = {"string"} /\ v = [string |-> v.string]
    BY <1>2 DEF Str
  <2>2. ~Is(v, "list")
    BY <2>1 DEF Is
  <2> QED
    BY <2>1, <2>2
<1> QED
  BY <1>1, <1>2

(* Where the two are not known to differ.                                  *)
SameSight(f, v, context) ==
  /\ f = "anyText" => AnyTextAlike(context, v.string)
  /\ f \in DateFields =>
       /\ v.string \in DOMAIN ReaderInstants => v.string \in DOMAIN Instants
       /\ DateOf(context, f) \in DOMAIN Instants \cup {None}

(* An empty text adds nothing to what is found in one of the parts.        *)
LEMMA JoinsAgree ==
  ASSUME NEW context, NEW value, AnyTextAlike(context, value)
  PROVE  JoinContains(AnyText(context), {}, value)
           <=> JoinContains(ReaderAnyText(context), context.tags, value)
<1> DEFINE texts == TextsOf(context)
           Finds(t) == ContainsIgnoreCase(t, value)
<1>1. CASE context.tags = {} /\ \A i \in DOMAIN texts : texts[i] # None
  <2>1. AnyText(context) = [i \in DOMAIN texts |-> texts[i]]
    <3>1. {j \in DOMAIN texts : texts[j] # None} = DOMAIN texts
      BY <1>1
    <3> HIDE DEF texts
    <3> QED
      BY <3>1 DEF AnyText, texts
  <2>2. ReaderAnyText(context) = [i \in DOMAIN texts |-> texts[i]]
    BY <1>1 DEF ReaderAnyText
  <2> QED
    BY <1>1, <2>1, <2>2
<1>2. CASE /\ \A t \in context.tags \cup {""} : ~Finds(t)
           /\ <<AnyText(context), {}, value>> \notin Across
           /\ <<ReaderAnyText(context), context.tags, value>> \notin Across
  <2>1. JoinContains(AnyText(context), {}, value)
          <=> \E i \in DOMAIN AnyText(context) : Finds(AnyText(context)[i])
    BY <1>2 DEF JoinContains
  <2>2. JoinContains(ReaderAnyText(context), context.tags, value)
          <=> \E i \in DOMAIN ReaderAnyText(context) : Finds(ReaderAnyText(context)[i])
    BY <1>2 DEF JoinContains
  <2>3. /\ DOMAIN AnyText(context) = {j \in DOMAIN texts : texts[j] # None}
        /\ \A i \in DOMAIN AnyText(context) : AnyText(context)[i] = texts[i]
    BY DEF AnyText
  <2>4. /\ DOMAIN ReaderAnyText(context) = DOMAIN texts
        /\ \A i \in DOMAIN texts :
             ReaderAnyText(context)[i] = IF texts[i] = None THEN "" ELSE texts[i]
    BY DEF ReaderAnyText
  <2>5. ~Finds("")
    BY <1>2
  <2> HIDE DEF texts, Finds
  <2> QED
    BY <2>1, <2>2, <2>3, <2>4, <2>5
<1> QED
  BY <1>1, <1>2 DEF AnyTextAlike

(* Each says yes or no of an accepted predicate, and there both the same.  *)
LEMMA PredicateAgrees ==
  ASSUME NoneIsNoJson, NEW f \in QueryFields, NEW o, NEW v \in Values \cup {Str("unread")},
         NEW n, n = Predicate(f, o, v), AcceptsPredicate(n.object), NEW context
  PROVE  /\ MatchPredicate(n.object, context) \in BOOLEAN
         /\ ReaderMatchPredicate(n.object, context) \in BOOLEAN
         /\ SameSight(f, v, context) =>
              (ReaderMatchPredicate(n.object, context) <=> MatchPredicate(n.object, context))
<1> DEFINE node == n.object
           engine == MatchPredicate(node, context)
           reader == ReaderMatchPredicate(node, context)
<1>1. node.field.string = f /\ node.operator.string = o /\ node.value = v
  BY PredicateIs
<1> HIDE DEF node
<1>2. /\ o \in Operators(f)
      /\ Is(v, "list") => /\ v.list # <<>> /\ o \in {"in", "notIn"}
                          /\ \A i \in DOMAIN v.list : Is(v.list[i], "string")
      /\ ~Is(v, "list") => IF f \in FlagFields THEN Is(v, "bool") ELSE Is(v, "string")
  BY AcceptedIs
<1>3. /\ Is(v, "string") => v = [string |-> v.string]
      /\ Is(v, "list") => \A x \in Range(v.list) : Is(x, "string") => x = [string |-> x.string]
  BY ValuesAre
<1>4. CASE f = "anyText"
  <2>1. o \in {"contains", "notContains"}
    BY <1>2, <1>4, OperatorsAre
  <2> DEFINE ruleFinds == JoinContains(AnyText(context), {}, v.string)
             readerFinds == JoinContains(ReaderAnyText(context), context.tags, v.string)
  <2>2. engine <=> IF o = "contains" THEN ruleFinds ELSE ~ruleFinds
    BY <1>1, <1>4 DEF MatchPredicate, MatchAnyText, DateFields, FlagFields
  <2>3. reader <=> IF o = "contains" THEN readerFinds ELSE ~readerFinds
    BY <1>1, <1>4 DEF ReaderMatchPredicate, DateFields, FlagFields
  <2>4. SameSight(f, v, context) => (ruleFinds <=> readerFinds)
    BY <1>4, JoinsAgree DEF SameSight
  <2>5. engine \in BOOLEAN
    BY <1>1, <1>4 DEF MatchPredicate, MatchAnyText, JoinContains, DateFields, FlagFields
  <2>6. reader \in BOOLEAN
    BY <1>1, <1>4 DEF ReaderMatchPredicate, JoinContains, DateFields, FlagFields
  <2> QED
    BY <2>2, <2>3, <2>4, <2>5, <2>6 DEF node
<1>5. CASE f = "tag"
  <2>1. o \in {"eq", "neq", "in", "notIn"}
    BY <1>2, <1>5, OperatorsAre
  <2>2. f # "anyText" /\ f \notin FlagFields
    BY <1>5 DEF FlagFields
  <2>3. engine = MatchStringList(context.tags, o, v)
    BY <1>1, <1>5 DEF MatchPredicate, DateFields, FlagFields
  <2>4. reader = ReaderMatchArray(context.tags, o, v)
    BY <1>1, <1>5 DEF ReaderMatchPredicate, DateFields, FlagFields
  <2> DEFINE strings == IF Is(v, "list") THEN {x.string : x \in Range(v.list)} ELSE {v.string}
             values == IF Is(v, "list") THEN Range(v.list) ELSE {v}
             found == \E t \in context.tags : [string |-> t] \in values
  <2>5. \A t : [string |-> t] \in values <=> t \in strings
    <3>1. \A t, u : [string |-> t] = [string |-> u] => t = u
      <4>1. ASSUME NEW t, NEW u, [string |-> t] = [string |-> u] PROVE t = u
        <5>1. [string |-> t].string = t /\ [string |-> u].string = u
          OBVIOUS
        <5> QED
          BY <4>1, <5>1
      <4> QED
        BY <4>1
    <3>2. CASE Is(v, "list")
      <4>1. \A x \in Range(v.list) : x = [string |-> x.string]
        BY <1>2, <1>3, <3>2 DEF Range
      <4> QED
        BY <3>1, <3>2, <4>1
    <3>3. CASE ~Is(v, "list")
      BY <1>2, <1>3, <2>2, <3>1, <3>3
    <3> QED
      BY <3>2, <3>3
  <2>6. found <=> context.tags \cap strings # {}
    BY <2>5
  <2>7. engine <=> IF o \in {"eq", "in"} THEN found ELSE ~found
    <3> HIDE DEF found, strings
    <3>1. engine <=> IF o \in {"eq", "in"} THEN context.tags \cap strings # {}
                                           ELSE context.tags \cap strings = {}
      BY <2>3 DEF MatchStringList, strings
    <3> QED
      BY <2>6, <3>1
  <2>8. reader <=> IF o \in {"eq", "in"} THEN found ELSE ~found
    BY <2>1, <2>4 DEF ReaderMatchArray
  <2>9. engine \in BOOLEAN /\ reader \in BOOLEAN
    BY <2>3, <2>4 DEF MatchStringList, ReaderMatchArray
  <2> QED
    BY <2>7, <2>8, <2>9 DEF node
<1>6. CASE f \in DateFields
  <2>1. o \in Ordered
    BY <1>2, <1>6, OperatorsAre
  <2>2. f \notin {"anyText", "tag"} /\ f \notin FlagFields
    BY <1>6 DEF DateFields, FlagFields
  <2> DEFINE date == DateOf(context, f)
  <2>3. engine = MatchDateTime(date, o, v)
    BY <1>1, <1>6 DEF MatchPredicate, DateFields, FlagFields
  <2>4. reader = IF date = None THEN o \in {"neq", "notContains"} ELSE ReaderMatchDate(date, o, v)
    BY <1>1, <1>6 DEF ReaderMatchPredicate, DateFields, FlagFields
  <2> HIDE DEF date
  <2>5. \A a, b : Compare(a, o, b) \in BOOLEAN
    BY <2>1, ComparesAre
  <2> HIDE DEF engine, reader
  <2>6. engine \in BOOLEAN
    <3>1. CASE date = None \/ date \notin DOMAIN Instants
      <4>1. engine = MatchMissingScalar(o)
        BY <2>3, <3>1 DEF MatchDateTime
      <4> QED
        BY <4>1 DEF MatchMissingScalar
    <3>2. CASE ~(date = None \/ date \notin DOMAIN Instants) /\ v.string \notin DOMAIN Instants
      BY <2>3, <3>2 DEF MatchDateTime
    <3>3. CASE ~(date = None \/ date \notin DOMAIN Instants) /\ v.string \in DOMAIN Instants
      <4>1. engine = Compare(Instants[date], o, Instants[v.string])
        BY <2>3, <3>3 DEF MatchDateTime
      <4> QED
        BY <2>5, <4>1
    <3> QED
      BY <3>1, <3>2, <3>3
  <2>7. reader \in BOOLEAN
    <3>1. CASE date = None
      BY <2>4, <3>1
    <3>2. CASE date # None
      BY <2>4, <2>5, <3>2 DEF ReaderMatchDate
    <3> QED
      BY <3>1, <3>2
  <2>8. ASSUME SameSight(f, v, context) PROVE reader <=> engine
    <3>1. /\ v.string \in DOMAIN ReaderInstants => v.string \in DOMAIN Instants
          /\ date \in DOMAIN Instants \cup {None}
      BY <1>6, <2>8 DEF SameSight, date
    <3>2. CASE date = None
      BY <2>3, <2>4, <3>2 DEF MatchDateTime, MatchMissingScalar
    <3>3. CASE date # None
      <4>1. date \in DOMAIN ReaderInstants /\ ReaderInstants[date] = Instants[date]
        BY <3>1, <3>3, InstantAssumption
      <4>2. CASE v.string \in DOMAIN Instants
        <5>1. v.string \in DOMAIN ReaderInstants /\ ReaderInstants[v.string] = Instants[v.string]
          BY <4>2, InstantAssumption
        <5> QED
          BY <2>3, <2>4, <3>1, <3>3, <4>1, <4>2, <5>1 DEF MatchDateTime, ReaderMatchDate
      <4>3. CASE v.string \notin DOMAIN Instants
        BY <2>3, <2>4, <3>1, <3>3, <4>3 DEF MatchDateTime, ReaderMatchDate
      <4> QED
        BY <4>2, <4>3
    <3> QED
      BY <3>2, <3>3
  <2> QED
    BY <2>6, <2>7, <2>8 DEF node, engine, reader
<1>7. CASE f \in FlagFields
  <2>1. o \in {"eq", "neq"}
    BY <1>2, <1>7, OperatorsAre
  <2>2. f \notin {"anyText", "tag"} /\ f \notin DateFields
    BY <1>7 DEF DateFields, FlagFields
  <2>3. engine = MatchBool(FlagOf(context, f), o, v)
    BY <1>1, <1>7 DEF MatchPredicate, DateFields, FlagFields
  <2>4. reader = ((o = "eq") = (FlagOf(context, f) = v.bool))
    BY <1>1, <1>7 DEF ReaderMatchPredicate, DateFields, FlagFields
  <2> QED
    BY <2>1, <2>3, <2>4 DEF MatchBool, node
<1>8. CASE f \notin {"anyText", "tag"} \cup DateFields \cup FlagFields
  <2>1. o \in {"eq", "neq", "in", "notIn", "contains", "notContains"}
    BY <1>2, <1>8, OperatorsAre
  <2> DEFINE text == TextOf(context, f)
  <2>2. engine = MatchOptionalString(text, o, v)
    BY <1>1, <1>8 DEF MatchPredicate, DateFields, FlagFields
  <2>3. reader = IF text = None THEN o \in {"neq", "notContains"} ELSE ReaderMatchText(text, o, v)
    BY <1>1, <1>8 DEF ReaderMatchPredicate, DateFields, FlagFields
  <2> HIDE DEF text
  <2>4. Is(v, "list") => o \in {"in", "notIn"}
    BY <1>2
  <2>5. \A t, s : ContainsIgnoreCase(t, s) \in BOOLEAN
    BY DEF ContainsIgnoreCase
  <2>6. CASE text = None
    BY <2>2, <2>3, <2>6 DEF MatchOptionalString, MatchMissingScalar, node
  <2>7. CASE text # None
    <3>1. engine = MatchString(text, o, v) /\ reader = ReaderMatchText(text, o, v)
      BY <2>2, <2>3, <2>7 DEF MatchOptionalString
    <3>2. /\ MatchString(text, o, v) \in BOOLEAN /\ ReaderMatchText(text, o, v) \in BOOLEAN
          /\ ReaderMatchText(text, o, v) <=> MatchString(text, o, v)
      BY <2>1, <2>4, TextsAgree
    <3> QED
      BY <3>1, <3>2 DEF node
  <2> QED
    BY <2>6, <2>7
<1> QED
  BY <1>4, <1>5, <1>6, <1>7, <1>8

(* Of a node that is not a predicate each says yes or no.                  *)
LEMMA CompoundsAnswer ==
  ASSUME NoneIsNoJson, NEW n \in AllTrees, n.object.kind.string \in {"group", "not"}, NEW context
  PROVE  MatchNode(n, context) \in BOOLEAN /\ ReaderMatchNode(n, context) \in BOOLEAN
<1>1. MatchNode(n, context) \in BOOLEAN
  <2> DEFINE R == Results("matches", context)
  <2>1. Result("matches", context, n) = At("matches", context, n, R)
    BY ResultIs DEF Walks
  <2>2. MatchNode(n, context) = MatchAt(n, R, context)
    BY <2>1 DEF Result, At
  <2> HIDE DEF R
  <2>3. MatchAt(n, R, context) \in BOOLEAN
    BY DEF MatchAt
  <2> QED
    BY <2>2, <2>3
<1>2. ReaderMatchNode(n, context) \in BOOLEAN
  <2> DEFINE R == Results("shows", context)
  <2>1. Result("shows", context, n) = At("shows", context, n, R)
    BY ResultIs DEF Walks
  <2>2. ReaderMatchNode(n, context) = ReaderMatchAt(n, R, context)
    BY <2>1 DEF Result, At
  <2> HIDE DEF R
  <2>3. ReaderMatchAt(n, R, context) \in BOOLEAN
    BY DEF ReaderMatchAt
  <2> QED
    BY <2>2, <2>3
<1> QED
  BY <1>1, <1>2

(* A definition's predicates are those of the nodes below, and its own.    *)
LEMMA SeenAlikeBelow ==
  ASSUME NoneIsNoJson, NEW n \in AllTrees, NEW context, SeenAlike(n, context),
         NEW c \in ChildrenOf(n)
  PROVE  SeenAlike(c, context)
<1>1. NodesOf(c) \subseteq NodesOf(n)
  BY NodesBelow
<1>2. Predicates(c) \subseteq Predicates(n)
  BY <1>1 DEF Predicates
<1> QED
  BY <1>2 DEF SeenAlike

LEMMA SeenAlikeHere ==
  ASSUME NoneIsNoJson, NEW n \in AllTrees, NEW context, SeenAlike(n, context),
         NEW f, NEW o, NEW v, n = Predicate(f, o, v)
  PROVE  SameSight(f, v, context)
<1> DEFINE node == n.object
<1>1. /\ node.kind.string = "predicate" /\ node.field.string = f /\ node.value = v
  BY PredicateIs
<1>2. n \in NodesOf(n)
  BY NodesOfTree
<1>3. node \in Predicates(n)
  BY <1>1, <1>2 DEF Predicates
<1> HIDE DEF node
<1> QED
  BY <1>1, <1>3 DEF SeenAlike, SameSight

(* Of an accepted definition the engine and the reader each say yes or no, *)
(* and the same where they are not known to differ.                        *)
LEMMA DefinitionsAgree ==
  ASSUME NoneIsNoJson, NEW context
  PROVE  \A n \in AllTrees : AcceptsNode(n) =>
           /\ MatchNode(n, context) \in BOOLEAN /\ ReaderMatchNode(n, context) \in BOOLEAN
           /\ SeenAlike(n, context) => (ReaderMatchNode(n, context) <=> MatchNode(n, context))
<1> DEFINE Good(n) ==
             /\ MatchNode(n, context) \in BOOLEAN /\ ReaderMatchNode(n, context) \in BOOLEAN
             /\ SeenAlike(n, context) => (ReaderMatchNode(n, context) <=> MatchNode(n, context))
           bad == {n \in AllTrees : AcceptsNode(n) /\ ~Good(n)}
<1>1. SUFFICES ASSUME bad # {} PROVE FALSE
  OBVIOUS
<1>2. PICK n \in bad : \A c \in AllTrees : Height(c) < Height(n) => c \notin bad
  <2>1. bad \in SUBSET AllTrees
    OBVIOUS
  <2> HIDE DEF bad
  <2> QED
    BY <1>1, <2>1, LeastTree
<1>3. n \in AllTrees /\ AcceptsNode(n) /\ ~Good(n)
  BY <1>2
<1>4. \A c \in AllTrees : Height(c) < Height(n) /\ AcceptsNode(c) => Good(c)
  BY <1>2
<1> HIDE DEF bad
<1>5. ASSUME NEW f \in QueryFields, NEW o, NEW v \in Values \cup {Str("unread")},
             n = Predicate(f, o, v)
      PROVE  FALSE
  <2>1. /\ AcceptsPredicate(n.object)
        /\ MatchNode(n, context) = MatchPredicate(n.object, context)
        /\ ReaderMatchNode(n, context) = ReaderMatchPredicate(n.object, context)
    BY <1>3, <1>5, OfPredicate
  <2>2. /\ MatchPredicate(n.object, context) \in BOOLEAN
        /\ ReaderMatchPredicate(n.object, context) \in BOOLEAN
        /\ SameSight(f, v, context) =>
             (ReaderMatchPredicate(n.object, context) <=> MatchPredicate(n.object, context))
    BY <1>5, <2>1, PredicateAgrees
  <2>3. SeenAlike(n, context) => SameSight(f, v, context)
    BY <1>3, <1>5, SeenAlikeHere
  <2> QED
    BY <1>3, <2>1, <2>2, <2>3
<1>6. ASSUME NEW c, n = Not(c) PROVE FALSE
  <2>1. c \in AllTrees /\ Height(c) < Height(n) /\ AcceptsNode(c)
    BY <1>3, <1>6, OfNot
  <2>2. /\ MatchNode(n, context) <=> ~MatchNode(c, context)
        /\ ReaderMatchNode(n, context) <=> ~ReaderMatchNode(c, context)
    BY <1>3, <1>6, OfNot
  <2>3. n.object.kind.string = "not" /\ ChildrenOf(n) = {c}
    BY <1>6, NotIs
  <2>4. SeenAlike(n, context) => SeenAlike(c, context)
    BY <1>3, <2>3, SeenAlikeBelow
  <2>5. MatchNode(n, context) \in BOOLEAN /\ ReaderMatchNode(n, context) \in BOOLEAN
    BY <1>3, <2>3, CompoundsAnswer
  <2>6. Good(c)
    BY <1>4, <2>1
  <2> QED
    BY <1>3, <2>2, <2>4, <2>5, <2>6
<1>7. ASSUME NEW m, NEW s, n = Group(m, s) PROVE FALSE
  <2>1. \A i \in DOMAIN s : s[i] \in AllTrees /\ Height(s[i]) < Height(n) /\ AcceptsNode(s[i])
    <3>1. s \in Seq(AllTrees) /\ \A i \in DOMAIN s : Height(s[i]) < Height(n)
      BY <1>3, <1>7, GroupOfTrees
    <3>2. \A i \in DOMAIN s : AcceptsNode(s[i])
      BY <1>3, <1>7, OfGroup
    <3> QED
      BY <3>1, <3>2
  <2>2. MatchNode(n, context) <=> IF m = "all" THEN \A i \in DOMAIN s : MatchNode(s[i], context)
                                               ELSE \E i \in DOMAIN s : MatchNode(s[i], context)
    BY <1>3, <1>7, OfGroup
  <2>3. ReaderMatchNode(n, context) <=>
          IF m = "all" THEN \A i \in DOMAIN s : ReaderMatchNode(s[i], context)
                       ELSE \E i \in DOMAIN s : ReaderMatchNode(s[i], context)
    BY <1>3, <1>7, OfGroup
  <2>4. n.object.kind.string = "group" /\ ChildrenOf(n) = Range(s)
    BY <1>7, GroupIs
  <2>5. \A i \in DOMAIN s : s[i] \in ChildrenOf(n)
    BY <2>4 DEF Range
  <2>6. SeenAlike(n, context) => \A i \in DOMAIN s : SeenAlike(s[i], context)
    BY <1>3, <2>5, SeenAlikeBelow
  <2>7. MatchNode(n, context) \in BOOLEAN /\ ReaderMatchNode(n, context) \in BOOLEAN
    BY <1>3, <2>4, CompoundsAnswer
  <2>8. \A i \in DOMAIN s : Good(s[i])
    BY <1>4, <2>1
  <2>9. SeenAlike(n, context) =>
          \A i \in DOMAIN s : ReaderMatchNode(s[i], context) <=> MatchNode(s[i], context)
    BY <2>6, <2>8
  <2> QED
    BY <1>3, <2>2, <2>3, <2>7, <2>9
<1> QED
  BY <1>3, <1>5, <1>6, <1>7, TreeShape

-------------------------------------------------------------------------------
LEMMA DefinitionIs ==
  ASSUME NoneIsNoJson, NEW x
  PROVE  /\ ParseQueryDefinition(Definition(x)) <=> AcceptsNode(x)
         /\ \A context : MatchQueryDefinition(Definition(x), context) = MatchNode(x, context)
<1> DEFINE fields == [version |-> [number |-> 1], root |-> x, sort |-> [list |-> <<>>]]
<1>1. Definition(x) = [object |-> fields]
  BY DEF Definition
<1>2. /\ DOMAIN fields = {"version", "root", "sort"}
      /\ fields.version = [number |-> 1] /\ fields.root = x /\ fields.sort = [list |-> <<>>]
  OBVIOUS
<1> HIDE DEF fields
<1>3. Is(Definition(x), "object") /\ Definition(x).object = fields
  BY <1>1, ObjectsAre
<1>4. /\ Get(fields, "version") = [number |-> 1] /\ Get(fields, "root") = x
      /\ Is(Get(fields, "sort"), "list") /\ fields.sort.list = <<>>
  BY <1>2, ObjectsAre DEF Get
<1>5. ParseQueryDefinition(Definition(x)) <=> AcceptsNode(x)
  BY <1>3, <1>4 DEF ParseQueryDefinition
<1> QED
  BY <1>2, <1>3, <1>5 DEF MatchQueryDefinition

(* What is built up is a tree, nested no deeper than it was built.         *)
QueryInv ==
  /\ depth \in 0 .. MaxDepth
  /\ root \in Trees(depth)

LEMMA QueryInvHolds == QuerySpec => []QueryInv
<1> USE DepthAssumption, NestingAssumption
<1>1. QueryInit => QueryInv
  <2> SUFFICES ASSUME QueryInit PROVE QueryInv
    OBVIOUS
  <2>1. root \in Leaves /\ depth = 0
    BY DEF QueryInit, Leaves
  <2> QED
    BY <2>1, TreesAre DEF QueryInv
<1>2. QueryInv /\ [QueryNext]_queryVars => QueryInv'
  <2> SUFFICES ASSUME QueryInv, [QueryNext]_queryVars PROVE QueryInv'
    OBVIOUS
  <2>1. depth \in 0 .. MaxDepth /\ root \in Trees(depth)
    BY DEF QueryInv
  <2>2. ASSUME NEW node, Deeper(node), node \in Trees(depth + 1) PROVE QueryInv'
    BY <2>1, <2>2 DEF Deeper, QueryInv
  <2>3. ASSUME depth < MaxDepth
        PROVE  /\ depth + 1 \in 1 .. MaxNesting /\ depth \in 0 .. MaxNesting
               /\ (depth + 1) - 1 = depth
    BY <2>1, <2>3
  <2>4. CASE Negate
    <3>1. depth < MaxDepth
      BY <2>4 DEF Negate, Deeper
    <3>2. Not(root) \in Trees(depth + 1)
      BY <2>1, <2>3, <3>1, OneDeeper
    <3> QED
      BY <2>2, <2>4, <3>2 DEF Negate
  <2>5. ASSUME NEW match \in {"all", "any"}, Join(match) PROVE QueryInv'
    <3>1. PICK other \in Others : Deeper(Group(match, <<root, other>>))
      BY <2>5 DEF Join
    <3>2. depth < MaxDepth
      BY <3>1 DEF Deeper
    <3>3. other \in Trees(depth)
      <4>1. other \in Leaves
        <5>1. "readState" \in QueryFields /\ "eq" \in QueryOperators
          BY DEF QueryFields, EnumFields, QueryOperators, Exact
        <5>2. other = Predicate("readState", "eq", Str("unread"))
          BY DEF Others
        <5> QED
          BY <5>1, <5>2 DEF Leaves
      <4>2. 0 \in 0 .. MaxNesting /\ depth \in 0 .. MaxNesting
        BY <2>3, <3>2
      <4> QED
        BY <4>1, <4>2, TreesAre, LessNestedIn
    <3>4. <<root, other>> \in Seq(Trees(depth))
      BY <2>1, <3>3
    <3>5. Group(match, <<root, other>>) \in Trees(depth + 1)
      BY <2>3, <2>5, <3>2, <3>4, OneDeeper
    <3> QED
      BY <2>2, <3>1, <3>5
  <2>6. CASE UNCHANGED queryVars
    BY <2>1, <2>6 DEF queryVars, QueryInv
  <2> QED
    BY <2>4, <2>5, <2>6 DEF QueryNext
<1> QED
  BY <1>1, <1>2, PTL DEF QuerySpec

LEMMA QueryInvAgrees == NoneIsNoJson /\ QueryInv => ReaderAgreesWithRules
<1> SUFFICES ASSUME NoneIsNoJson, QueryInv, ParseQueryDefinition(Definition(root))
             PROVE  LET normal == NormalizeQueryNode(root)
                    IN  /\ ParseQueryDefinition(Definition(normal))
                        /\ \A context \in Samples :
                             /\ MatchNode(normal, context) = MatchNode(root, context)
                             /\ SeenAlike(root, context) =>
                                  ReaderMatchNode(normal, context)
                                    = MatchQueryDefinition(Definition(root), context)
  BY DEF ReaderAgreesWithRules
<1> DEFINE normal == NormalizeQueryNode(root)
<1>1. root \in AllTrees
  BY LessNestedIn, DepthAssumption, NestingAssumption DEF QueryInv, AllTrees
<1>2. AcceptsNode(root)
  BY DefinitionIs
<1>3. /\ normal \in Settled(Height(root))
      /\ \A who, context : Speaks(who, normal, context) <=> Speaks(who, root, context)
  BY <1>1, <1>2, DefinitionSettles
<1> HIDE DEF normal
<1>4. normal \in AllTrees /\ AcceptsNode(normal)
  BY <1>1, <1>3, NestedIn, HeightIs DEF Settled
<1>5. ParseQueryDefinition(Definition(normal))
  BY <1>4, DefinitionIs
<1>6. ASSUME NEW context
      PROVE  /\ MatchNode(normal, context) = MatchNode(root, context)
             /\ SeenAlike(root, context) =>
                  ReaderMatchNode(normal, context) = MatchQueryDefinition(Definition(root), context)
  <2>1. /\ MatchNode(normal, context) <=> MatchNode(root, context)
        /\ ReaderMatchNode(normal, context) <=> ReaderMatchNode(root, context)
    <3>1. Speaks("engine", normal, context) <=> Speaks("engine", root, context)
      BY <1>3
    <3>2. Speaks("reader", normal, context) <=> Speaks("reader", root, context)
      BY <1>3
    <3> QED
      BY <3>1, <3>2 DEF Speaks
  <2>2. /\ MatchNode(normal, context) \in BOOLEAN /\ ReaderMatchNode(normal, context) \in BOOLEAN
        /\ MatchNode(root, context) \in BOOLEAN
    BY <1>1, <1>2, <1>4, DefinitionsAgree
  <2>3. SeenAlike(root, context) => (ReaderMatchNode(root, context) <=> MatchNode(root, context))
    BY <1>1, <1>2, DefinitionsAgree
  <2>4. MatchQueryDefinition(Definition(root), context) = MatchNode(root, context)
    BY DefinitionIs
  <2> QED
    BY <2>1, <2>2, <2>3, <2>4
<1> QED
  BY <1>5, <1>6 DEF normal

(* The reader tells what a rule will do, and what the reader keeps of the  *)
(* definition is accepted and means the same, for every definition and     *)
(* every article: article-query.ts and engine.rs on both sides of          *)
(* normalize.ts.                                                           *)
THEOREM ReaderTellsWhatRulesDo ==
  ASSUME NoneIsNoJson
  PROVE  QuerySpec => []ReaderAgreesWithRules
<1>1. QueryInv => ReaderAgreesWithRules
  BY QueryInvAgrees
<1> QED
  BY <1>1, QueryInvHolds, PTL

-------------------------------------------------------------------------------
(* ReaderQuery.                                                            *)

LEMMA QueryTypes == QuerySpec => []QueryTypeOK
<1>1. QueryInit => QueryTypeOK
  BY DepthAssumption DEF QueryInit, QueryTypeOK, Predicate, Group
<1>2. QueryTypeOK /\ [QueryNext]_queryVars => QueryTypeOK'
  BY DepthAssumption DEF QueryNext, Negate, Join, Deeper, Not, Group, queryVars, QueryTypeOK
<1> QED
  BY <1>1, <1>2, PTL DEF QuerySpec

-------------------------------------------------------------------------------
(* DesktopParts.                                                           *)

(* What one part does is a step of that part and of no other.              *)
LEMMA EachPartGoesOn ==
  ASSUME [DesktopNext]_desktopVars
  PROVE  /\ [MigrationsNext]_migrationVars /\ [ListsNext]_listVars /\ [AiNext]_aiVars
         /\ [RuleNext]_ruleVars /\ [QueryNext]_queryVars /\ [CacheNext]_cacheVars
         /\ [PipeNext]_pipeVars /\ [ApiNext]_apiVars
         /\ UNCHANGED part
<1>1. CASE Database
  BY <1>1 DEF Database
<1>2. CASE Search
  BY <1>2 DEF Search
<1>3. CASE Ai
  BY <1>3 DEF Ai
<1>4. CASE RuleStep
  BY <1>4 DEF RuleStep
<1>5. CASE QueryStep
  BY <1>5 DEF QueryStep
<1>6. CASE CacheStep
  BY <1>6 DEF CacheStep
<1>7. CASE FetchStep
  BY <1>7 DEF FetchStep
<1>8. CASE OfApi(ApiNext)
  BY <1>8 DEF OfApi
<1>9. CASE UNCHANGED desktopVars
  BY <1>9 DEF desktopVars
<1> QED
  BY <1>1, <1>2, <1>3, <1>4, <1>5, <1>6, <1>7, <1>8, <1>9 DEF DesktopNext

(* The application is, for each of its parts, that part: a behaviour of    *)
(* all of them is one of the database's, of the lists', of the insights',  *)
(* of the rules', of the queries', of the reader shell's, of the fetch's   *)
(* and of the local API's.                                                 *)
THEOREM DesktopIsItsParts ==
  DesktopSpec => /\ MigrationsSpec /\ ListsSpec /\ AiSpec /\ RuleSpec
                 /\ QuerySpec /\ CacheSpec /\ PipeSpec /\ ApiSpec
<1>1. DesktopInit => /\ MigrationsInit /\ ListsInit /\ AiInit /\ RuleInit
                     /\ QueryInit /\ CacheInit /\ PipeInit /\ ApiInit
  BY DEF DesktopInit
<1>2. [DesktopNext]_desktopVars =>
        /\ [MigrationsNext]_migrationVars /\ [ListsNext]_listVars /\ [AiNext]_aiVars
        /\ [RuleNext]_ruleVars /\ [QueryNext]_queryVars /\ [CacheNext]_cacheVars
        /\ [PipeNext]_pipeVars /\ [ApiNext]_apiVars
  BY EachPartGoesOn
<1> QED
  BY <1>1, <1>2, PTL
  DEF DesktopSpec, MigrationsSpec, ListsSpec, AiSpec, RuleSpec, QuerySpec, CacheSpec,
      PipeSpec, ApiSpec

(* Whatever part is at work, the state of every part is of its types:      *)
(* every row of the index, every artifact and every backup is a whole one. *)
THEOREM DesktopKeepsTypes == DesktopSpec => []DesktopTypeOK
<1>1. DesktopSpec => [](part \in Parts)
  <2>1. DesktopInit => part \in Parts
    BY DEF DesktopInit
  <2>2. part \in Parts /\ [DesktopNext]_desktopVars => (part \in Parts)'
    BY EachPartGoesOn
  <2> QED
    BY <2>1, <2>2, PTL DEF DesktopSpec
<1>2. part \in Parts /\ MigrationsTypeOK /\ ListsTypeOK /\ AiTypeOK /\ RuleTypeOK
        /\ QueryTypeOK /\ CacheTypeOK /\ PipeTypeOK /\ ApiTypeOK
        => DesktopTypeOK
  BY DEF DesktopTypeOK
<1> QED
  BY <1>1, <1>2, DesktopIsItsParts, UpgradesKeepTypes, IndexIsKept, AnswersHaveText,
     RunsAreExplained, QueryTypes, CacheIsKept, FetchMissesNothing, ConnectionsStay, PTL

(* In the application an upgrade keeps the history of every file, insights *)
(* are filed under what they answer, and an audit explains its rule's run, *)
(* whichever part is at work.                                              *)
THEOREM PartsKeepPromises ==
  DesktopSpec => [](UpgradesAreSafe /\ AnswersFitInputs /\ AuditExplainsRun)
  BY DesktopIsItsParts, UpgradesKeepHistory, AnswersAreFiled, RunsAreExplained, PTL

(* In the application the lists, the counts and the details agree with each *)
(* other and with the search index, after every change to the tables.       *)
THEOREM ListsStayInAgreement == DesktopSpec => []ListsAgreeAtWork
<1>1. ListsAgree => ListsAgreeAtWork
  BY DEF ListsAgreeAtWork
<1> QED
  BY <1>1, DesktopIsItsParts, QueriesAgree, PTL

(* In the application what the reader shell caches is sound, after every   *)
(* write, eviction, clearing and restart.                                  *)
THEOREM CacheStaysSound == DesktopSpec => []CacheIsSoundAtWork
<1>1. CacheIsSound => CacheIsSoundAtWork
  BY DEF CacheIsSoundAtWork
<1> QED
  BY <1>1, DesktopIsItsParts, CacheIsKept, PTL

(* In the application, while definitions are written, the reader tells     *)
(* what a rule will do, and what is kept of a definition means the same.   *)
THEOREM ReaderTellsAtWork ==
  ASSUME NoneIsNoJson
  PROVE  DesktopSpec => []ReaderAgreesAtWork
<1>1. ReaderAgreesWithRules => ReaderAgreesAtWork
  BY DEF ReaderAgreesAtWork
<1> QED
  BY <1>1, DesktopIsItsParts, ReaderTellsWhatRulesDo, PTL

(* In the application a fetch ends with what its answers say, whatever     *)
(* the server comes to serve in between.                                   *)
THEOREM FetchStaysUnderstood == DesktopSpec => []FetchTellsAnswerAtWork
<1>1. FetchTellsAnswer => FetchTellsAnswerAtWork
  BY DEF FetchTellsAnswerAtWork
<1> QED
  BY <1>1, DesktopIsItsParts, FetchIsUnderstood, PTL

===============================================================================
