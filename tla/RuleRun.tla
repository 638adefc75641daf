-------------------------------- MODULE RuleRun -------------------------------
(***************************************************************************)
(* crates/rule-engine/src/{actions,audit,engine}.rs and core-domain's      *)
(* rule_audit_store.rs: a rule is evaluated on an article, the evaluation  *)
(* is recorded with what it saw and what it plans, the planned commands    *)
(* are applied one by one, and the audit is told of it.                    *)
(*                                                                         *)
(* One rule and one article.  The program that keeps the rule and applies  *)
(* the commands is not in the repository: it may end between two of them,  *)
(* the user may change the rule and the article meanwhile, and it gives    *)
(* each audit an id, which is new, and a time, which is that of its clock. *)
(***************************************************************************)
EXTENDS RuleQuery

CONSTANTS
  Trim,           \* Trim[s]: the tag name s without the space around it
  Blank,          \* the name of nothing but space
  Root,           \* the root level, as a folder to move to
  Rules,          \* the rules as they are stored
  FirstArticles,  \* the articles a rule is evaluated on, with what is known
  AuditTimes,     \* the times an audit is given
  MaxAudits,      \* bound: the evaluations of a behaviour
  MaxEdits        \* bound: the user's changes of a behaviour

VARIABLES
  rule,     \* the rule as it is now
  subject,  \* the RuleMatchContext of the article
  audits,   \* the rows of RuleAudit, by their ids
  ran,      \* history: ran[id]: the rule as it was when audit id was made
  host,     \* what the program does: the audit it works on, the commands left,
            \* and whether the user has kept out of it
  edits     \* how often the user has changed something

ruleVars == <<rule, subject, audits, ran, host, edits>>

UserState == [read_state : ReadStates, starred : BOOLEAN, liked : BOOLEAN,
              read_later : BOOLEAN, importance : Importances]

FeedState == [title : STRING, custom_name : STRING \cup {None}, folder : STRING]

(* What is known of an article: a feed has a title, and a folder or Root.  *)
IsContext(context) ==
  /\ DOMAIN context =
       {"title", "author", "summary", "content_extracted", "content_raw", "language",
        "published_at", "fetched_at", "feed_id", "feed", "state", "tags", "attachments"}
  /\ context.state \in UserState \cup {None}
  /\ context.feed \in FeedState \cup {None}
  /\ \A i \in DOMAIN context.attachments : "path" \in DOMAIN context.attachments[i]

(* The actions of a rule are JSON.                                         *)
IsRule(r) ==
  /\ DOMAIN r = {"enabled", "conditions", "actions"} /\ r.enabled \in BOOLEAN
  /\ Is(r.actions, "object") =>
       LET object == r.actions.object
       IN  \A key \in DOMAIN object :
             /\ Is(object[key], "bool") => object[key].bool \in BOOLEAN
             /\ Is(object[key], "string") => object[key].string \in STRING

ASSUME RuleAssumption ==
  /\ \A r \in Rules : IsRule(r)
  /\ \A context \in FirstArticles : IsContext(context)
  /\ None \notin UserState \cup FeedState \cup STRING /\ Root \in STRING
  /\ AuditTimes \subseteq Nat
  /\ MaxAudits \in Nat /\ MaxEdits \in Nat

NoRun == [step |-> "idle", id |-> 0, left |-> <<>>, alone |-> TRUE]

-------------------------------------------------------------------------------
ActionFields == {"readState", "starred", "readLater", "importance", "tagNames",
                 "moveToFolderId", "clearCachedAttachments"}
ReadFlag(object, key) == IF Is(Get(object, key), "bool") THEN object[key].bool ELSE None

(* read_folder_target                                                      *)
FolderTarget(json) ==
  CASE json = None -> None [] Is(json, "null") -> Root [] OTHER -> json.string

(* The RuleActionDefinition made of accepted actions; that of noop is      *)
(* empty.  Tag names are trimmed and listed once.                          *)
ActionDefinition(object) ==
  [read_state |-> Read(object, "readState"), starred |-> ReadFlag(object, "starred"),
   read_later |-> ReadFlag(object, "readLater"), importance |-> Read(object, "importance"),
   tag_names  |-> IF Is(Get(object, "tagNames"), "list")
                    THEN {Trim[name.string] : name \in Range(object.tagNames.list)} ELSE {},
   move_to_folder |-> FolderTarget(Get(object, "moveToFolderId")),
   clear |-> ReadFlag(object, "clearCachedAttachments") = TRUE]

IsNoop(object)  == DOMAIN object = {"type"} /\ Read(object, "type") = "noop"
NoActions       == ActionDefinition([x \in {} |-> None])

(* parse_rule_actions                                                      *)
ParseRuleActions(json) ==
  /\ Is(json, "object")
  /\ LET object == json.object
         Optional(key, type) == Get(object, key) = None \/ Is(Get(object, key), type)
     IN  \/ IsNoop(object)
         \/ /\ DOMAIN object \subseteq ActionFields
            /\ \A key \in {"starred", "readLater", "clearCachedAttachments"} : Optional(key, "bool")
            /\ Get(object, "readState") # None => Read(object, "readState") \in ReadStates
            /\ Get(object, "importance") # None => Read(object, "importance") \in Importances
            /\ Optional("tagNames", "list")
            /\ Get(object, "tagNames") # None =>
                 /\ object.tagNames.list # <<>>
                 /\ \A name \in Range(object.tagNames.list) :
                      Is(name, "string") /\ Trim[name.string] # Blank
            /\ \/ Optional("moveToFolderId", "null")
               \/ Read(object, "moveToFolderId") \notin {None, Blank}
            /\ ActionDefinition(object) # NoActions

-------------------------------------------------------------------------------
StateChanges(definition, context) ==
  LET current == StateOf(context)
      differs == {f \in {"read_state", "starred", "read_later", "importance"} :
                    definition[f] # None /\ definition[f] # current[f]}
  IN  [f \in differs |-> definition[f]]

(* Slip: the tags are planned whether or not the article has them.         *)
AllTags(definition, context) == definition.tag_names

NewTags(definition, context) == definition.tag_names \ context.tags

FolderOf(context) == IF context.feed = None THEN Root ELSE context.feed.folder

CachedAttachments(context) ==
  {context.attachments[i] : i \in {j \in DOMAIN context.attachments :
                                     context.attachments[j].path # None}}

(* build_rule_action_plan: at most one command of each type, in this order.*)
ActionPlan(definition, context) ==
  LET changes == StateChanges(definition, context)
      tags    == NewTags(definition, context)
      folder  == definition.move_to_folder
      cached  == CachedAttachments(context)
      When(condition, command) == IF condition THEN <<command>> ELSE <<>>
  IN  When(DOMAIN changes # {}, [type |-> "updateUserState", changes |-> changes])
      \o When(tags # {}, [type |-> "addArticleTags", tag_names |-> tags])
      \o When(/\ folder # None
              /\ context.feed = None \/ FolderOf(context) # folder,
              [type |-> "moveFeedToFolder", from |-> FolderOf(context), to |-> folder])
      \o When(definition.clear /\ cached # {},
              [type |-> "clearAttachmentCaches", attachments |-> cached])

(* snapshot_from_context: the texts of the article but its title and       *)
(* author are left out, the user state is filled in.                       *)
SnapshotFromContext(context) ==
  [context EXCEPT !.summary = None, !.content_extracted = None, !.content_raw = None,
                  !.feed = IF @ = None THEN None
                           ELSE [title |-> FeedTitle(context), custom_name |-> None,
                                 folder |-> @.folder],
                  !.state = StateOf(context)]

-------------------------------------------------------------------------------
(* The root folder is null, and so is what is not there.                   *)
FolderJson(folder) == IF folder = Root THEN None ELSE folder

(* input_snapshot_json: a feed that is not known is one without a title.   *)
InputSnapshotJson(snapshot) ==
  [snapshot EXCEPT !.feed = IF @ = None THEN [title |-> None, folder |-> None]
                            ELSE [title |-> @.title, folder |-> FolderJson(@.folder)]]

(* planned_commands_json: a state that is not changed is null.             *)
CommandJson(command) ==
  CASE command.type = "updateUserState" ->
         [command EXCEPT !.changes =
            [f \in {"read_state", "starred", "read_later", "importance"} |->
               IF f \in DOMAIN @ THEN @[f] ELSE None]]
    [] command.type = "moveFeedToFolder" ->
         [command EXCEPT !.from = FolderJson(@), !.to = FolderJson(@)]
    [] OTHER -> command
PlannedCommandsJson(commands) == [i \in DOMAIN commands |-> CommandJson(commands[i])]

(* into_rule_audit: of the rule the row has no more than its id.           *)
IntoRuleAudit(created_at, evaluation) ==
  [match_result |-> evaluation.match_result,
   input_snapshot |-> InputSnapshotJson(evaluation.input_snapshot),
   planned_commands |-> PlannedCommandsJson(evaluation.planned_commands),
   applied_effects |-> {}, created_at |-> created_at]

ListedBefore(id, other) ==
  \/ audits[id].created_at > audits[other].created_at
  \/ audits[id].created_at = audits[other].created_at /\ id > other

(* list_rule_audits_for_rule: the ids of the rows it lists, which come in  *)
(* the order of ListedBefore.                                              *)
ListRuleAudits(limit) ==
  {id \in DOMAIN audits :
     Cardinality({other \in DOMAIN audits : ListedBefore(other, id)}) < limit}

(* evaluate_rule_with_audit, of an enabled rule; no audit when the actions *)
(* or the conditions are not accepted, in that order.                      *)
Evaluation(context) ==
  LET matched == MatchQueryDefinition(rule.conditions, context)
  IN  [match_result |-> IF matched THEN "matched" ELSE "not_matched",
       input_snapshot |-> SnapshotFromContext(context),
       planned_commands |-> IF matched
                              THEN ActionPlan(ActionDefinition(rule.actions.object), context)
                              ELSE <<>>]

Evaluates == rule.enabled /\ ParseRuleActions(rule.actions) /\ ParseQueryDefinition(rule.conditions)

RuleInit ==
  /\ rule \in Rules /\ subject \in FirstArticles
  /\ audits = <<>> /\ ran = <<>> /\ host = NoRun /\ edits = 0

(* The rule is evaluated and the audit inserted.  A rule that did not      *)
(* match gives no plan.                                                    *)
RecordRuleAudit ==
  /\ Evaluates /\ host.step # "applying"
  /\ \E id \in 1 .. MaxAudits \ DOMAIN audits, created_at \in AuditTimes :
       LET audit == Evaluation(subject)
       IN  /\ audits' = [a \in DOMAIN audits \cup {id} |->
                           IF a = id THEN IntoRuleAudit(created_at, audit) ELSE audits[a]]
           /\ ran' = [a \in DOMAIN ran \cup {id} |-> IF a = id THEN rule ELSE ran[a]]
           /\ host' = IF audit.match_result = "matched"
                        THEN [step |-> "applying", id |-> id, left |-> audit.planned_commands,
                              alone |-> TRUE]
                        ELSE NoRun
  /\ UNCHANGED <<rule, subject, edits>>

(* What a command makes of the article.                                    *)
Applied(command, context) ==
  CASE command.type = "updateUserState" ->
         [context EXCEPT !.state =
            [f \in DOMAIN DefaultState |-> IF f \in DOMAIN command.changes THEN command.changes[f]
                                                                     ELSE StateOf(context)[f]]]
    [] command.type = "addArticleTags" -> [context EXCEPT !.tags = @ \cup command.tag_names]
    [] command.type = "moveFeedToFolder" ->
         IF context.feed = None THEN context ELSE [context EXCEPT !.feed.folder = command.to]
    [] command.type = "clearAttachmentCaches" ->
         [context EXCEPT !.attachments =
            [i \in DOMAIN @ |-> IF @[i] \in command.attachments THEN [@[i] EXCEPT !.path = None]
                                                                ELSE @[i]]]

ApplyCommand ==
  /\ host.step = "applying" /\ host.left # <<>>
  /\ subject' = Applied(Head(host.left), subject)
  /\ host' = [host EXCEPT !.left = Tail(@)]
  /\ UNCHANGED <<rule, audits, ran, edits>>

(* Slip: the effects are those of the audit that is listed first.          *)
SetEffectsOfFirst ==
  /\ host.step = "applying" /\ host.left = <<>>
  /\ audits' = [a \in DOMAIN audits |->
       IF a \in ListRuleAudits(1) THEN [audits[a] EXCEPT !.applied_effects = {"applied"}]
                                  ELSE audits[a]]
  /\ host' = [host EXCEPT !.step = "done"]
  /\ UNCHANGED <<rule, subject, ran, edits>>

(* set_rule_audit_applied_effects                                          *)
SetAppliedEffects ==
  /\ host.step = "applying" /\ host.left = <<>>
  /\ audits' = [a \in DOMAIN audits |->
       IF a = host.id THEN [audits[a] EXCEPT !.applied_effects = {"applied"}] ELSE audits[a]]
  /\ host' = [host EXCEPT !.step = "done"]
  /\ UNCHANGED <<rule, subject, ran, edits>>

(* The program ends.                                                       *)
HostStops ==
  /\ host # NoRun
  /\ host' = NoRun
  /\ UNCHANGED <<rule, subject, audits, ran, edits>>

(* What a user may make of the article.                                    *)
Edited ==
  {[subject EXCEPT !.state = [StateOf(subject) EXCEPT !.read_state = "read"]],
   [subject EXCEPT !.state = [StateOf(subject) EXCEPT !.starred = ~@]],
   [subject EXCEPT !.tags = {}],
   [subject EXCEPT !.attachments = [i \in DOMAIN @ |-> [@[i] EXCEPT !.path = "cached"]]]}

(* The host is not told of what the user does to the article, and goes on  *)
(* with its plan when the rule is edited.                                  *)
UserChange ==
  /\ edits < MaxEdits
  /\ edits' = edits + 1
  /\ \/ /\ subject' \in Edited \ {subject}
        /\ host' = [host EXCEPT !.alone = FALSE]
        /\ UNCHANGED rule
     \/ /\ rule' \in (Rules \cup {[rule EXCEPT !.enabled = ~@]}) \ {rule}
        /\ UNCHANGED <<subject, host>>
  /\ UNCHANGED <<audits, ran>>

RuleNext == RecordRuleAudit \/ ApplyCommand \/ SetAppliedEffects \/ HostStops \/ UserChange

RuleSpec == RuleInit /\ [][RuleNext]_ruleVars

RuleTypeOK ==
  /\ IsContext(subject) /\ IsRule(rule)
  /\ DOMAIN audits \subseteq 1 .. MaxAudits /\ DOMAIN ran = DOMAIN audits
  /\ \A id \in DOMAIN audits : IsRule(ran[id]) /\ audits[id].created_at \in AuditTimes
  /\ host.step \in {"idle", "applying", "done"} /\ host.alone \in BOOLEAN
  /\ edits \in 0 .. MaxEdits

-------------------------------------------------------------------------------
(* What the conditions ask for is in the snapshot: it leaves out the texts *)
(* of the article but its title and author.                                *)
IsExplained(conditions) ==
  \A node \in Predicates(conditions.object.root) :
    node.field.string \in QueryFields \ {"anyText", "summary", "content"}

(* What the rule was given, as its audit has it.                           *)
SeenIn(input_snapshot) ==
  [input_snapshot EXCEPT
     !.feed = IF @.title = None THEN None
              ELSE [title |-> @.title, custom_name |-> None,
                    folder |-> IF @.folder = None THEN Root ELSE @.folder]]

(* An audit explains its run, whatever became of the rule and the article: *)
(* by the rule as it was then, from what the audit says was seen follow    *)
(* the result and the commands it says were planned.  Effects are told of  *)
(* runs that matched only, and the run at work is in the list, of whatever *)
(* time it is.  A run that applied all it planned, of an article the user  *)
(* left alone, leaves nothing for the next to plan: rules may be run again *)
(* and again, as after a crash.                                            *)
AuditExplainsRun ==
  /\ \A id \in ListRuleAudits(MaxAudits) :
       LET a       == audits[id]
           seen    == SeenIn(a.input_snapshot)
           matched == a.match_result = "matched"
           plan    == ActionPlan(ActionDefinition(ran[id].actions.object), seen)
       IN  /\ a.planned_commands = IF matched THEN PlannedCommandsJson(plan) ELSE <<>>
           /\ IsExplained(ran[id].conditions) =>
                (matched <=> MatchQueryDefinition(ran[id].conditions, seen))
           /\ a.applied_effects # {} => matched
  /\ host.step # "idle" => /\ host.id \in ListRuleAudits(MaxAudits)
                           /\ audits[host.id].match_result = "matched"
  /\ host.step = "done" /\ host.alone /\ subject.feed # None =>
       ActionPlan(ActionDefinition(ran[host.id].actions.object), subject) = <<>>
===============================================================================
