------------------------------ MODULE DesktopParts ------------------------------
(***************************************************************************)
(* Parts of the desktop application that call none of the others, and      *)
(* change nothing the others go by: a behaviour is one of one of them, and *)
(* leaves the others as they are.                                          *)
(***************************************************************************)
EXTENDS Migrations, ArticleLists, ArticleAi, RuleRun, ReaderQuery, ReaderCache,
        FeedPipeline, LocalApi

CONSTANTS
  Parts  \* the parts a behaviour may be of

VARIABLE part

desktopVars ==
  <<part, migrationVars, listVars, aiVars, ruleVars, queryVars, cacheVars, pipeVars, apiVars>>

(* A rule and an article, a definition and a budget are given to the part  *)
(* that runs.                                                              *)
DesktopInit ==
  /\ part \in Parts
  /\ MigrationsInit /\ ListsInit /\ AiInit /\ ApiInit
  /\ RuleInit
  /\ part # "rules" => /\ rule = CHOOSE r \in Rules : TRUE
                       /\ subject = CHOOSE a \in FirstArticles : TRUE
  /\ QueryInit
  /\ CacheInit
  /\ part # "cache" => maxBytes = CHOOSE bytes \in CacheBudgets : TRUE
  /\ PipeInit
  /\ part # "fetch" => served = CHOOSE page \in Pages : TRUE
  /\ part # "queries" => root = Group("all", <<>>)

Database ==
  /\ part = "database" /\ MigrationsNext
  /\ UNCHANGED <<part, listVars, aiVars, ruleVars, queryVars, cacheVars, pipeVars, apiVars>>

Search ==
  /\ part = "search" /\ ListsNext
  /\ UNCHANGED <<part, migrationVars, aiVars, ruleVars, queryVars, cacheVars, pipeVars, apiVars>>

Ai ==
  /\ part = "ai" /\ AiNext
  /\ UNCHANGED <<part, migrationVars, listVars, ruleVars, queryVars, cacheVars, pipeVars, apiVars>>

RuleStep ==
  /\ part = "rules" /\ RuleNext
  /\ UNCHANGED <<part, migrationVars, listVars, aiVars, queryVars, cacheVars, pipeVars, apiVars>>

QueryStep ==
  /\ part = "queries" /\ QueryNext
  /\ UNCHANGED <<part, migrationVars, listVars, aiVars, ruleVars, cacheVars, pipeVars, apiVars>>

CacheStep ==
  /\ part = "cache" /\ CacheNext
  /\ UNCHANGED <<part, migrationVars, listVars, aiVars, ruleVars, queryVars, pipeVars, apiVars>>

FetchStep ==
  /\ part = "fetch" /\ PipeNext
  /\ UNCHANGED <<part, migrationVars, listVars, aiVars, ruleVars, queryVars, cacheVars, apiVars>>

OfApi(step) ==
  /\ part = "api" /\ step
  /\ UNCHANGED <<part, migrationVars, listVars, aiVars, ruleVars, queryVars, cacheVars, pipeVars>>

DesktopNext ==
  Database \/ Search \/ Ai \/ RuleStep \/ QueryStep \/ CacheStep \/ FetchStep
  \/ OfApi(ApiNext)

(* The thread of the local API is scheduled, its waits end, and so does    *)
(* what drop does; nothing is asked of its clients.                        *)
DesktopFairness ==
  /\ WF_desktopVars(OfApi(ServerStep))
  /\ WF_desktopVars(OfApi(WakeUp)) /\ WF_desktopVars(OfApi(JoinThread))

DesktopSpec == DesktopInit /\ [][DesktopNext]_desktopVars /\ DesktopFairness

(* Each part's state is of its types: among others, that every row of the  *)
(* index, every artifact and every backup is a whole one.                  *)
DesktopTypeOK ==
  /\ part \in Parts
  /\ MigrationsTypeOK /\ ListsTypeOK /\ AiTypeOK /\ RuleTypeOK /\ QueryTypeOK
  /\ CacheTypeOK /\ PipeTypeOK /\ ApiTypeOK

-------------------------------------------------------------------------------
(* The properties below are those of the part at work: an idle part stays  *)
(* in its first state.                                                     *)

(* The lists, the counts, the details and the index agree, as ListsAgree   *)
(* says, while the tables change.                                          *)
ListsAgreeAtWork == part = "search" => ListsAgree

(* The filter of the reader and the rule engine give one definition one    *)
(* meaning, as ReaderAgreesWithRules says, while definitions are written.  *)
ReaderAgreesAtWork == part = "queries" => ReaderAgreesWithRules

(* CacheIsSound, while the reader shell is used.                           *)
CacheIsSoundAtWork == part = "cache" => CacheIsSound

(* What a fetch ends with is what its answers say, as FetchTellsAnswer     *)
(* says, while the server changes what it serves.                          *)
FetchTellsAnswerAtWork == part = "fetch" => FetchTellsAnswer
===============================================================================
