------------------------------- MODULE ArticleAi -------------------------------
(***************************************************************************)
(* AI results of articles: the desktop commands (ai_insights.rs,           *)
(* ai_actions.rs) read the articles they ask about, seed the cache of a    *)
(* task queue with the stored results, run their tasks, and store what     *)
(* they got (ai-adapter's queue.rs, article_insights.rs, article_actions   *)
(* .rs; core-domain's ai_artifact_store.rs).                               *)
(*                                                                         *)
(* Commands run at once, each on a connection of its own, while feeds are  *)
(* refreshed, articles deleted and results cleared.  A result is the input *)
(* it answers; input_hash is taken to be injective.                        *)
(***************************************************************************)
EXTENDS Integers, Sequences, SequencesExt

CONSTANTS
  Commands,      \* the calls of a command the user makes
  FeedOrder,     \* the articles of a feed, the newest first
  RowVersions,   \* bound: what the row of an article says, one refresh after the other
  Asks,          \* Asks[c]: what the user may ask with it
  Allowed,       \* the articles the user's list shows, and allows to be read
  Selected,      \* what the user may have selected of an article
  ContextLimit,  \* DEFAULT_CONTEXT_LIMIT
  NoText,        \* a text that is not there, or not worth asking about
  BlankText,     \* a text that is there, but has nothing in it but space
  Gone           \* the article is deleted

FeedArticles == Range(FeedOrder)
Translations == {"full-article", "selection"}
Scopes       == {"article", "feed", "search-result"}
ASSUME AskAssumption ==
  /\ Asks \in [Commands -> SUBSET [operation : {"insights"} \cup Translations \cup Scopes,
                                   article_id : FeedArticles]]
  /\ Allowed \in Seq(FeedArticles) /\ ContextLimit \in Nat

(* An article begins with a row, and has no version when it is gone.       *)
ASSUME GoneAssumption == Gone \notin Nat /\ Len(RowVersions) \in Nat \ {0}

VARIABLES
  version,   \* version[a]: the version the Article row of a has
  artifact,  \* the rows of AIArtifact
  run        \* run[c]: how far command c has come

aiVars == <<version, artifact, run>>

Idle == [step |-> "idle", ask |-> <<>>, input |-> <<>>, left |-> <<>>, cache |-> {},
         queue |-> <<>>, made |-> <<>>]
Over == [Idle EXCEPT !.step = "over"]

-------------------------------------------------------------------------------
Trimmed(text) == IF text = BlankText THEN NoText ELSE text

(* The extracted text of an article that has one, be it blank; or the raw  *)
(* text, or the summary.                                                   *)
ArticleText(row) ==
  Trimmed(IF row.extracted # NoText THEN row.extracted
          ELSE IF row.raw # NoText THEN row.raw ELSE row.summary)

Row(a) == RowVersions[version[a]]
Part(a, text) == [id |-> a, text |-> text]
ArticleToContext(a) == Part(a, ArticleText(Row(a)))

(* A summary is made of the content, keywords of the summary too.          *)
ArticleToSnapshot(a) == <<Part(a, ArticleText(Row(a))), Part(a, Trimmed(Row(a).summary))>>

(* What is translated: the text of the article, or of it what is selected. *)
ResolveTranslationText(a, operation) ==
  IF operation = "full-article" THEN {ArticleText(Row(a))} ELSE Selected

(* validate, of the requests: every text they need is there.               *)
HasText(input)          == \A i \in DOMAIN input : input[i].text # NoText
ValidInsights(input)    == input[1].text # NoText
ValidTranslation(input) == HasText(input)
ValidQuestion(input)    == input # <<>> /\ HasText(input)
Valid(ask, input) ==
  CASE ask.operation = "insights"     -> ValidInsights(input)
    [] ask.operation \in Translations -> ValidTranslation(input)
    [] ask.operation \in Scopes       -> ValidQuestion(input)

(* Tasks.  mode is that of a translation, or the scope of a question.      *)
Task(kind, ask, input) ==
  [kind |-> kind, mode |-> ask.operation, article_id |-> ask.article_id, input |-> input]
SummaryTask(ask, snapshot)     == Task("summary", ask, <<snapshot[1]>>)
KeywordTask(ask, snapshot)     ==
  Task("keywords", ask, IF snapshot[2].text = NoText THEN <<snapshot[1]>> ELSE snapshot)
TranslationTask(ask, input)    == Task("translation", ask, input)
QuestionTask(ask, contexts)    == Task("question-answer", ask, contexts)

GenerateSummaryAndKeywords(ask, input) == <<SummaryTask(ask, input), KeywordTask(ask, input)>>
TranslateArticleText(ask, input)       == <<TranslationTask(ask, input)>>
AnswerLimitedQuestion(ask, input)      == <<QuestionTask(ask, input)>>
Tasks(ask, input) ==
  CASE ask.operation = "insights"     -> GenerateSummaryAndKeywords(ask, input)
    [] ask.operation \in Translations -> TranslateArticleText(ask, input)
    [] ask.operation \in Scopes       -> AnswerLimitedQuestion(ask, input)

(* The id of the task, and of its artifact: it has the text for a          *)
(* translation, the ids of the contexts for a question, and neither for a  *)
(* summary or for keywords.                                                *)
ArtifactId(task) ==
  [kind |-> task.kind, mode |-> task.mode, article_id |-> task.article_id,
   fingerprint |-> CASE task.kind = "translation" -> task.input
                     [] task.kind = "question-answer" ->
                          [i \in DOMAIN task.input |-> Part(task.input[i].id, NoText)]
                     [] OTHER -> <<>>]

(* Slip: the hash is made of what the task's id is made of.                *)
HashOfId(task) == ArtifactId(task)

(* stable_input_hash: the operation, the article and all of the input.     *)
StableInputHash(task) == task

(* response_to_artifact                                                    *)
Respond(task) ==
  [id |-> ArtifactId(task), article_id |-> task.article_id, kind |-> task.kind,
   input_hash |-> StableInputHash(task), answers |-> task.input]

-------------------------------------------------------------------------------
AiInit ==
  /\ version = [a \in FeedArticles |-> 1]
  /\ artifact = {}
  /\ run = [c \in Commands |-> Idle]

Begin(c, ask, step, input, left) ==
  /\ run[c].step = "idle"
  /\ run' = [run EXCEPT ![c] = [Idle EXCEPT !.step = step, !.ask = ask, !.input = input,
                                           !.left = left]]
  /\ UNCHANGED <<version, artifact>>

(* Each command reads the article it was asked about, which must exist, ...*)
Askable(c) == {ask \in Asks[c] : version[ask.article_id] # Gone}

GenerateArticleInsights(c, ask) ==
  /\ ask.operation = "insights"
  /\ Begin(c, ask, "read", ArticleToSnapshot(ask.article_id), <<>>)

GenerateArticleTranslation(c, ask) ==
  /\ ask.operation \in Translations
  /\ \E text \in ResolveTranslationText(ask.article_id, ask.operation) :
        /\ text # NoText
        /\ Begin(c, ask, "read", <<Part(ask.article_id, text)>>, <<>>)

AnswerArticleQuestion(c, ask) ==
  \/ /\ ask.operation = "article"
     /\ ArticleToContext(ask.article_id).text # NoText
     /\ Begin(c, ask, "read", <<ArticleToContext(ask.article_id)>>, <<>>)
  \/ /\ ask.operation \in {"feed", "search-result"}
     /\ Begin(c, ask, "loading", <<>>, Allowed)

(* ... a question about a feed the articles the feed has by then, ...      *)
LoadFeedContexts(c) ==
  LET present  == SelectSeq(FeedOrder, LAMBDA a : version[a] # Gone)
      contexts == [i \in DOMAIN present |-> ArticleToContext(present[i])]
      taken    == IF Len(contexts) < ContextLimit THEN contexts
                  ELSE SubSeq(contexts, 1, ContextLimit)
  IN  /\ run[c].step = "loading" /\ run[c].ask.operation = "feed"
      /\ HasText(taken)
      /\ run' = [run EXCEPT ![c].step = "read", ![c].input = taken]
      /\ UNCHANGED <<version, artifact>>

(* ... and one about a list its articles, one by one.                      *)
LoadSearchResultContext(c) ==
  LET a == Head(run[c].left)
  IN  /\ run[c].step = "loading" /\ run[c].ask.operation = "search-result"
      /\ IF run[c].left = <<>> \/ Len(Allowed) - Len(run[c].left) = ContextLimit
           THEN run[c].input # <<>> /\ run' = [run EXCEPT ![c].step = "read"]
         ELSE IF version[a] = Gone THEN run' = [run EXCEPT ![c].left = Tail(@)]
         ELSE /\ ArticleToContext(a).text # NoText
              /\ run' = [run EXCEPT ![c].left = Tail(@),
                                    ![c].input = Append(@, ArticleToContext(a))]
      /\ UNCHANGED <<version, artifact>>

ArtifactsOf(a)          == {x \in artifact : x.article_id = a}
ListArtifacts(a, kinds) == {x \in ArtifactsOf(a) : x.kind \in kinds}

(* Then it reads the stored artifacts of the article and of its kinds, and *)
(* enqueues its tasks.                                                     *)
SeedCache(c) ==
  LET tasks == Tasks(run[c].ask, run[c].input)
  IN  /\ run[c].step = "read"
      /\ Valid(run[c].ask, run[c].input)
      /\ run' = [run EXCEPT ![c].step = "running", ![c].queue = tasks,
           ![c].cache = ListArtifacts(run[c].ask.article_id,
                                      {tasks[i].kind : i \in DOMAIN tasks})]
      /\ UNCHANGED <<version, artifact>>

Cached(c, task) == {x \in run[c].cache : x.input_hash = StableInputHash(task)}

(* run_next: an artifact of the cache, or the provider's.                  *)
RunNext(c) ==
  LET task == Head(run[c].queue)
  IN  /\ run[c].step = "running" /\ run[c].queue # <<>>
      /\ \E x \in IF Cached(c, task) # {} THEN Cached(c, task) ELSE {Respond(task)} :
           run' = [run EXCEPT ![c].queue = Tail(@), ![c].made = Append(@, x),
                              ![c].cache = @ \cup {x}]
      /\ UNCHANGED <<version, artifact>>

(* A command fails, and its workflow goes with it: the provider failed, an *)
(* article is gone or has no text, or the program ended.                   *)
FailCommand(c) ==
  /\ run[c].step \in {"loading", "read", "running"}
  /\ run' = [run EXCEPT ![c] = Over]
  /\ UNCHANGED <<version, artifact>>

(* ON CONFLICT(id) DO UPDATE                                               *)
IsKept(x, made) == \A i \in DOMAIN made : made[i].id # x.id

(* upsert_ai_artifact(s), in one transaction; the foreign key holds.  The  *)
(* command returns what it made.                                           *)
StoreArtifacts(c) ==
  /\ run[c].step = "running" /\ run[c].queue = <<>>
  /\ version[run[c].ask.article_id] # Gone
  /\ artifact' = {x \in artifact : IsKept(x, run[c].made)} \cup Range(run[c].made)
  /\ run' = [run EXCEPT ![c] = Over]
  /\ UNCHANGED version

(* A refresh brings the article a later text.                              *)
RefreshText(a) ==
  /\ version[a] # Gone /\ version[a] < Len(RowVersions)
  /\ version' = [version EXCEPT ![a] = @ + 1]
  /\ UNCHANGED <<artifact, run>>

(* The article is deleted; its artifacts cascade.                          *)
DropArticle(a) ==
  /\ version[a] # Gone
  /\ version' = [version EXCEPT ![a] = Gone]
  /\ artifact' = artifact \ ArtifactsOf(a)
  /\ UNCHANGED run

(* delete_ai_artifacts_for_article                                         *)
DeleteAiCache(a) ==
  /\ artifact' = artifact \ ArtifactsOf(a)
  /\ UNCHANGED <<version, run>>

AiNext ==
  \/ \E c \in Commands :
       \/ \E ask \in Askable(c) : \/ GenerateArticleInsights(c, ask)
                                  \/ GenerateArticleTranslation(c, ask)
                                  \/ AnswerArticleQuestion(c, ask)
       \/ LoadFeedContexts(c) \/ LoadSearchResultContext(c) \/ SeedCache(c) \/ RunNext(c)
       \/ StoreArtifacts(c) \/ FailCommand(c)
  \/ \E a \in FeedArticles : RefreshText(a) \/ DropArticle(a) \/ DeleteAiCache(a)

AiSpec == AiInit /\ [][AiNext]_aiVars

Kinds == {"summary", "keywords", "translation", "question-answer"}

AiTypeOK ==
  /\ version \in [FeedArticles -> (1 .. Len(RowVersions)) \cup {Gone}]
  /\ \A x \in artifact \cup UNION {run[c].cache : c \in Commands} :
       /\ x.kind \in Kinds /\ x.article_id \in FeedArticles
       /\ x.answers # <<>> /\ HasText(x.answers)
  /\ \A c \in Commands : run[c].step \in {"idle", "loading", "read", "running", "over"}

-------------------------------------------------------------------------------
(* What a command returns answers the very texts it read, task for task,   *)
(* though the answers may be an earlier command's and the articles have    *)
(* changed since; what is stored for an id is one answer, filed under its  *)
(* own input, of an article that exists.                                   *)
AnswersFitInputs ==
  /\ \A c \in Commands : run[c].step = "running" =>
       LET tasks == Tasks(run[c].ask, run[c].input)
       IN  /\ Len(run[c].made) + Len(run[c].queue) = Len(tasks)
           /\ \A i \in DOMAIN run[c].made :
                /\ run[c].made[i].kind = tasks[i].kind
                /\ run[c].made[i].answers = tasks[i].input
                /\ run[c].made[i].article_id = run[c].ask.article_id
  /\ \A x \in artifact :
       /\ x.input_hash = StableInputHash([kind |-> x.kind, mode |-> x.id.mode,
                                         article_id |-> x.article_id, input |-> x.answers])
       /\ version[x.article_id] # Gone
  /\ \A x, y \in artifact : x.id = y.id => x = y
===============================================================================
