------------------------------ MODULE ReaderCache ------------------------------
(***************************************************************************)
(* The cache of the reader shell (desktop/src/features/reader-shell):      *)
(* cache-maintenance.ts plans what a clean-up evicts, batch-operations.ts  *)
(* and mock-data.ts change what it goes by.  The list of articles and the  *)
(* details keep the state, the tags and the cached attachments twice.      *)
(*                                                                         *)
(* Each call runs to its end before the next: an action.  Reports of a     *)
(* batch, titles and the time an article was opened are left out.          *)
(*                                                                         *)
(* No entry is ever added, so the entries that are left keep the order of  *)
(* the first inventory: a set of them says which are left.                 *)
(***************************************************************************)
EXTENDS Integers, Sequences, FiniteSets, Functions

CONSTANTS
  Inventory,      \* the entries the cache starts with, a sequence
  ShellArticles,  \* the articles of the shell
  ShellFeeds,     \* its feeds
  ShellTags,      \* the tags with scope article
  CacheBudgets,   \* values of maxBytes
  PolicyEdits,    \* <<feed, policy>>: policies the user may choose
  StateEdits,     \* <<article, input>>: what updateMockArticleState may be given
  Notes,          \* <<article, annotation>>: annotations the user may make
  BatchInputs,    \* inputs of a batch operation
  NoAttachment,   \* the attachmentId of a content entry
  NoDate          \* a lastAccessedAt that does not parse

VARIABLES
  cacheEntries,  \* the entries that are left of the inventory
  shellList,     \* what the list has of each article
  shellDetails,  \* what its details have
  policies,      \* the cachePolicy of each feed
  maxBytes

cacheVars == <<cacheEntries, shellList, shellDetails, policies, maxBytes>>

FirstState == [readState |-> "unread", starred |-> FALSE, readLater |-> FALSE, readingProgress |-> 0]
Policies == {"metadata-only", "content", "content-and-attachments"}

ShownAs  == {"unread", "reading", "read"}
ShellStates ==
  [readState : ShownAs, starred : BOOLEAN, readLater : BOOLEAN, readingProgress : 0 .. 100]

(* Some of the fields of a state, the progress not yet clamped.            *)
IsStateInput(input) ==
  /\ DOMAIN input \subseteq DOMAIN FirstState
  /\ "readState" \in DOMAIN input => input.readState \in ShownAs
  /\ "starred" \in DOMAIN input => input.starred \in BOOLEAN
  /\ "readLater" \in DOMAIN input => input.readLater \in BOOLEAN
  /\ "readingProgress" \in DOMAIN input => input.readingProgress \in Int

(* The inventory has one entry of an attachment.                           *)
ASSUME CacheAssumption ==
  /\ CacheBudgets # {} /\ CacheBudgets \subseteq Int
  /\ Inventory \in Seq(Range(Inventory))
  /\ \A i, j \in DOMAIN Inventory : i # j =>
       /\ Inventory[i].id # Inventory[j].id
       /\ Inventory[i].attachmentId = Inventory[j].attachmentId =>
            Inventory[i].attachmentId = NoAttachment
  /\ \A e \in Range(Inventory) :
       /\ e.attachmentId = NoAttachment <=> e.kind = "content"
       /\ e.bytes \in Int /\ e.lastAccessedAt \in {NoDate} \cup Int
  /\ PolicyEdits \subseteq ShellFeeds \X Policies
  /\ \A note \in Notes : note[1] \in ShellArticles
  /\ \A edit \in StateEdits : edit[1] \in ShellArticles /\ IsStateInput(edit[2])

AttachmentsOf(entries, a) ==
  {e.attachmentId : e \in {x \in entries : x.articleId = a}} \ {NoAttachment}

CacheInit ==
  /\ cacheEntries = Range(Inventory)
  /\ shellList = [a \in ShellArticles |-> [state |-> FirstState, tagIds |-> {}]]
  /\ shellDetails = [a \in ShellArticles |->
       [state |-> FirstState, tags |-> {}, annotations |-> {},
        cached |-> AttachmentsOf(Range(Inventory), a)]]
  /\ policies = [f \in ShellFeeds |-> "content-and-attachments"]
  /\ maxBytes \in CacheBudgets

-------------------------------------------------------------------------------
(* normalizeBytes; bytes are whole.                                        *)
NormalizeBytes(value) == IF value > 0 THEN value ELSE 0

(* The sum of the bytes of entries: each entry's are counted one by one.   *)
BytesOf(entries) == UNION {{e} \X (1 .. NormalizeBytes(e.bytes)) : e \in entries}
TotalBytes(entries) == Cardinality(BytesOf(entries))

LastAccess(e) == IF e.lastAccessedAt = NoDate THEN 0 ELSE e.lastAccessedAt

HasAnnotationNote(detail) ==
  \E annotation \in detail.annotations : annotation.type = "note" \/ annotation.note

(* resolveProtectionReasons is not empty.                                  *)
HasReason(a) ==
  /\ a \in ShellArticles
  /\ \/ shellList[a].state.starred \/ shellList[a].state.readLater
     \/ HasAnnotationNote(shellDetails[a])

IsEntryAllowedByPolicy(policy, kind) ==
  \/ policy = "content" /\ kind = "content"
  \/ policy = "content-and-attachments"

PolicyMismatch(e) ==
  ~IsEntryAllowedByPolicy(IF e.feedId \in ShellFeeds THEN policies[e.feedId] ELSE "content", e.kind)

ProtectedFromLru(e) == ~PolicyMismatch(e) /\ HasReason(e.articleId)

(* Slip: what was read last is evicted first.                              *)
SortedBeforeLatest(e, o) ==
  IF PolicyMismatch(e) # PolicyMismatch(o) THEN PolicyMismatch(e)
  ELSE IF ProtectedFromLru(e) # ProtectedFromLru(o) THEN ProtectedFromLru(o)
  ELSE LastAccess(e) > LastAccess(o)

SortedBefore(e, o) ==
  IF PolicyMismatch(e) # PolicyMismatch(o) THEN PolicyMismatch(e)
  ELSE IF ProtectedFromLru(e) # ProtectedFromLru(o) THEN ProtectedFromLru(o)
  ELSE LastAccess(e) < LastAccess(o)

Place(e) == CHOOSE i \in DOMAIN Inventory : Inventory[i] = e

(* buildPlannedEntries: the sort is stable.                                *)
PlannedBefore(e, o) ==
  SortedBefore(e, o) \/ (~SortedBefore(o, e) /\ Place(e) < Place(o))

CandidateEntries(entries) == {e \in entries : PolicyMismatch(e) \/ ~ProtectedFromLru(e)}

(* planReaderCacheCleanup: all that the policies forbid, then the oldest   *)
(* until the rest fits.                                                    *)
EvictedEntries(entries) ==
  LET candidates == CandidateEntries(entries)
      mismatched == {e \in candidates : PolicyMismatch(e)}
      lru        == candidates \ mismatched
      RemainingAt(e) == TotalBytes(entries) - TotalBytes(mismatched)
                          - TotalBytes({o \in lru : PlannedBefore(o, e)})
  IN  mismatched \cup {e \in lru : RemainingAt(e) > NormalizeBytes(maxBytes)}

(* summarizeReaderCache                                                    *)
CacheSummary(entries) ==
  [candidates          |-> CandidateEntries(entries),
   evictableBytes      |-> TotalBytes(CandidateEntries(entries)),
   policyMismatchBytes |-> TotalBytes({e \in entries : PolicyMismatch(e)}),
   protectedBytes      |-> TotalBytes({e \in entries : ProtectedFromLru(e)}),
   totalBytes          |-> TotalBytes(entries)]

-------------------------------------------------------------------------------
(* runMockCacheCleanup, with clearAttachmentCachePaths.                    *)
RunCacheCleanup ==
  LET evicted == EvictedEntries(cacheEntries)
  IN  /\ cacheEntries' = cacheEntries \ evicted
      /\ shellDetails' = [a \in ShellArticles |->
           [shellDetails[a] EXCEPT !.cached = @ \ {e.attachmentId : e \in evicted}]]
      /\ UNCHANGED <<shellList, policies, maxBytes>>

(* updateMockFeed                                                          *)
UpdateFeed(f, policy) ==
  /\ policies' = [policies EXCEPT ![f] = policy]
  /\ UNCHANGED <<cacheEntries, shellList, shellDetails, maxBytes>>

(* updateMockCacheSettings                                                 *)
UpdateCacheSettings(bytes) ==
  /\ maxBytes' = bytes
  /\ UNCHANGED <<cacheEntries, shellList, shellDetails, policies>>

(* clampReadingProgress and resolveReadStateFromProgress, in percent.      *)
ClampReadingProgress(value) ==
  IF value < 0 THEN 0 ELSE IF value > 100 THEN 100 ELSE value
ReadStateFromProgress(progress) ==
  IF progress >= 100 THEN "read" ELSE IF progress > 0 THEN "reading" ELSE "unread"

(* normalizeArticleState: input has some of the fields of the state.       *)
NormalizeArticleState(current, input) ==
  LET given == [f \in DOMAIN current |-> IF f \in DOMAIN input THEN input[f] ELSE current[f]]
      progress ==
        IF "readingProgress" \in DOMAIN input THEN ClampReadingProgress(input.readingProgress)
        ELSE IF "readState" \notin DOMAIN input THEN current.readingProgress
        ELSE IF input.readState = "read" THEN 100
        ELSE IF input.readState = "unread" THEN 0
        ELSE IF current.readingProgress \in 1 .. 99 THEN current.readingProgress ELSE 25
  IN  [given EXCEPT
         !.readingProgress = progress,
         !.readState = IF "readingProgress" \in DOMAIN input THEN ReadStateFromProgress(progress)
                       ELSE @]

(* replaceArticleState and updateArticleStates: in the list and in the     *)
(* details of each; next says which articles, and their states from now on.*)
ReplaceStates(next) ==
  /\ shellList' = [a \in ShellArticles |->
       [shellList[a] EXCEPT !.state = IF a \in DOMAIN next THEN next[a] ELSE @]]
  /\ shellDetails' = [a \in ShellArticles |->
       [shellDetails[a] EXCEPT !.state = IF a \in DOMAIN next THEN next[a] ELSE @]]
  /\ UNCHANGED <<cacheEntries, policies, maxBytes>>

(* updateMockArticleState                                                  *)
UpdateArticleState(a, input) ==
  ReplaceStates([b \in {a} |-> NormalizeArticleState(shellList[b].state, input)])

(* createMockAnnotation, for a selection that is there: a note has text.   *)
CreateAnnotation(a, annotation) ==
  /\ annotation.type = "note" => annotation.note
  /\ shellDetails' = [shellDetails EXCEPT ![a].annotations = @ \cup {annotation}]
  /\ UNCHANGED <<cacheEntries, shellList, policies, maxBytes>>

-------------------------------------------------------------------------------
(* applyReaderBatchOperation: an unknown article or no article at all, and *)
(* an unknown tag, are refused.                                            *)
Selectable(input) == input.articleIds # {} /\ input.articleIds \subseteq ShellArticles

MarkRead(input) ==
  /\ input.action = "mark-read" /\ Selectable(input)
  /\ ReplaceStates([a \in input.articleIds |->
       [shellList[a].state EXCEPT !.readState = "read", !.readingProgress = 100]])

AddReadLater(input) ==
  /\ input.action = "add-read-later" /\ Selectable(input)
  /\ ReplaceStates([a \in input.articleIds |-> [shellList[a].state EXCEPT !.readLater = TRUE]])

AddTag(input) ==
  /\ input.action = "add-tag" /\ Selectable(input) /\ input.tagId \in ShellTags
  /\ shellList' = [a \in ShellArticles |->
       IF a \in input.articleIds THEN [shellList[a] EXCEPT !.tagIds = @ \cup {input.tagId}]
       ELSE shellList[a]]
  /\ shellDetails' = [a \in ShellArticles |->
       IF a \in input.articleIds THEN [shellDetails[a] EXCEPT !.tags = @ \cup {input.tagId}]
       ELSE shellDetails[a]]
  /\ UNCHANGED <<cacheEntries, policies, maxBytes>>

(* Slip: the details keep the paths of what is deleted.                    *)
DeleteEntriesOnly(input) ==
  /\ input.action = "delete-cache" /\ Selectable(input)
  /\ cacheEntries' = {e \in cacheEntries : e.articleId \notin input.articleIds}
  /\ UNCHANGED <<shellList, shellDetails, policies, maxBytes>>

(* deleteSelectedCache: whatever protects the entries.                     *)
DeleteCache(input) ==
  LET evicted == {e \in cacheEntries : e.articleId \in input.articleIds}
  IN  /\ input.action = "delete-cache" /\ Selectable(input)
      /\ cacheEntries' = cacheEntries \ evicted
      /\ shellDetails' = [a \in ShellArticles |->
           IF a \in input.articleIds
             THEN [shellDetails[a] EXCEPT !.cached = @ \ {e.attachmentId : e \in evicted}]
             ELSE shellDetails[a]]
      /\ UNCHANGED <<shellList, policies, maxBytes>>

CacheNext ==
  \/ RunCacheCleanup
  \/ \E edit \in PolicyEdits : UpdateFeed(edit[1], edit[2])
  \/ \E bytes \in CacheBudgets : UpdateCacheSettings(bytes)
  \/ \E edit \in StateEdits : UpdateArticleState(edit[1], edit[2])
  \/ \E note \in Notes : CreateAnnotation(note[1], note[2])
  \/ \E input \in BatchInputs :
       MarkRead(input) \/ AddReadLater(input) \/ AddTag(input) \/ DeleteCache(input)

CacheSpec == CacheInit /\ [][CacheNext]_cacheVars

CacheTypeOK ==
  /\ cacheEntries \subseteq Range(Inventory)
  /\ shellList \in [ShellArticles -> [state : ShellStates, tagIds : SUBSET ShellTags]]
  /\ shellDetails \in
       [ShellArticles -> [state : ShellStates, tags : SUBSET ShellTags,
                          annotations : SUBSET {note[2] : note \in Notes},
                          cached : SUBSET {e.attachmentId : e \in Range(Inventory)}]]
  /\ policies \in [ShellFeeds -> Policies]
  /\ maxBytes \in CacheBudgets

-------------------------------------------------------------------------------
(* The list and the details say the same of an article, and its details    *)
(* show as cached the attachments the inventory has.                       *)
DetailsAreOfInventory ==
  \A a \in ShellArticles :
    /\ shellDetails[a].state = shellList[a].state
    /\ shellDetails[a].tags = shellList[a].tagIds
    /\ shellDetails[a].cached = AttachmentsOf(cacheEntries, a)
    /\ shellList[a].state.readState = ReadStateFromProgress(shellList[a].state.readingProgress)

(* Whatever the policies, the budget and the marks have become since the   *)
(* entries were cached, a clean-up now would keep every allowed entry of   *)
(* an article the user starred, put aside or made a note in, and no        *)
(* forbidden one; make the rest fit, unless all of it is kept for the user;*)
(* stop when it fits, and take nothing read later than what it leaves;     *)
(* take what the summary offered; and find nothing to do when it is run    *)
(* again.                                                                  *)
CleanupIsLean ==
  LET evicted == EvictedEntries(cacheEntries)
      kept    == cacheEntries \ evicted
      pressed == {e \in evicted : ~PolicyMismatch(e)}
      limit   == NormalizeBytes(maxBytes)
      summary == CacheSummary(cacheEntries)
      ForUser(e) == \E a \in ShellArticles :
        /\ a = e.articleId
        /\ \/ shellDetails[a].state.starred \/ shellDetails[a].state.readLater
           \/ \E annotation \in shellDetails[a].annotations : annotation.note
  IN  /\ \A e \in pressed : ~ForUser(e)
      /\ \A e \in kept : ~PolicyMismatch(e)
      /\ TotalBytes(kept) <= limit \/ \A e \in kept : ForUser(e)
      /\ pressed # {} => \E e \in pressed : TotalBytes(kept) + NormalizeBytes(e.bytes) > limit
      /\ \A e \in pressed, o \in kept : ForUser(o) \/ LastAccess(e) <= LastAccess(o)
      /\ evicted \subseteq summary.candidates
      /\ TotalBytes(evicted) <= summary.evictableBytes
      /\ summary.protectedBytes + summary.evictableBytes = summary.totalBytes
      /\ EvictedEntries(kept) = {}

(* What the shell shows of its cache is what is cached, and a clean-up     *)
(* takes what it should and nothing else.                                  *)
CacheIsSound == DetailsAreOfInventory /\ CleanupIsLean
===============================================================================
