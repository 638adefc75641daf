# Freely-RSS in TLA+

Freely-RSS is a local-first feed reader: Rust crates for feeds, storage, rules,
AI tasks and synchronisation, an in-memory synchronisation server, and
TypeScript clients. This directory holds a TLA+ specification of its core
logic, TLC configurations that check small instances of it, and theorems with
machine-checked proofs. At its centre is synchronisation, where several devices
change the same data and nobody sees the whole history: the part of the code
whose correctness is hardest to test. Around it are the ways events get to and
from a device, the fetching of feeds, and the parts of the desktop application
that keep one state in two places, run next to each other, or may stop half-way.

Source paths below are relative to the repository; line numbers are in
`PROJECT.json`, which maps every definition of the modules to the code.

## 1. Inventory

| Component | State | Operations | Interacts with | What is hard | Correct when |
|---|---|---|---|---|---|
| `sync-engine/batch.rs` | cursor of a device | `advance_to`, `event_is_after`, `package_event_batch` | merge, replay, server | ties of one second, pages | no event is skipped, the cursor never goes back |
| `sync-engine/merge.rs` | entities with a version per field, tombstones, tag links with versions, applied ids, cursor | `merge_event_batch` | pages from the server | any order, duplicates, an event that fails half-way | the result depends on the set of events only, where the code means it to |
| `sync-engine/replay.rs` | entities, links, applied ids, cursor | `replay_event_batch` | pages from the server | duplicates, errors | the result is the history in key order |
| `sync-server` | users, tokens, devices, events and blobs per user, in memory behind one lock | login, register device, upload, pull, blobs, lists | clients over HTTP | two lock sections per request, an upload that fails in its middle, repeated uploads | accounts are kept apart, a log only grows, what was acknowledged is stored |
| `sync-engine/encryption.rs`, `retry.rs`, `lib.rs` | none (a retry state) | seal and open, recovery kit, next attempt, classify changes | outbox, server | attempt counter, wrong secret | attempts are bounded, nothing opens with another key |
| `sync-engine/webdav.rs` | objects at a WebDAV server | put, list, pull, put manifests | outbox, replay | one object per event, partial failure, objects of others | what sorts before an object, and was committed before it, is there |
| `core-domain/sqlite/sync_event_store.rs` | local tables and the event outbox | state changes with their events | feed and reader code, upload | state and event in one transaction, callers with an old row, keys in any order | the outbox tells of the tables |
| `core-domain/sqlite` stores | feeds, articles, states, rules, AI artifacts | row operations | every Rust crate | read-modify-write outside transactions | health counters, unique rows |
| `core-domain/sqlite` migrations, backup | schema version, backup files | initialise, back up, restore | start of the program | two initialisers, a crash in between | a database is never migrated twice, nor without a backup |
| `core-domain/sqlite` search | full-text index and its triggers | index, search, list | article store, local API, reader | derived data, many queries | the index is the articles, lists and details agree |
| `feed-engine` | feed health, articles | request, parse, discover, normalise, deduplicate, persist | transport, store | overlapping fetches, redirects, retries, validators, four formats | an article is stored once, nothing new is missed, health tells the truth |
| `rule-engine` | audit log | accept, match, plan, audit | stores, reader | a crash between two commands, a second evaluator in the reader | a run is explained by its audit, and leaves nothing to do |
| `ai-adapter` with the desktop's AI commands | queue and cache of a workflow, stored artifacts | seed, run, store | providers, article store | articles refreshed or deleted meanwhile, two commands at once | an answer is filed under its own input |
| `integration-engine`, `content-pipeline`, `search-engine`, `performance-baseline` | none | pure conversions and single calls | | | outside of what a state machine tells apart |
| desktop shell (`src-tauri`) | queue of the reader, local HTTP API | commands, routes, one serving thread | stores | clients that stall, a drop at any moment | every client is answered, a drop ends |
| desktop reader (`reader-shell/*.ts`) | articles twice (list and details), cache, batch operations | evict, protect, change, filter | shell | policy changes, budget boundary | what is protected is never evicted, both copies agree |
| web, mobile, shared packages | none of their own | reading, query parsing | | | |

A fetch asks the feed's URL with the ETag of its row, parses and normalises the
answer, looks up the ids of the feed and of every entry, and writes feed,
articles and default user states in one transaction; a 304 and a failure only
write the feed's row.

How the parts of synchronisation interact: a device writes a local change and
its event; the events are encrypted and uploaded to the user's log at the
server (`upload_events`), or put one by one at a WebDAV server; every device
pulls pages of the log after its own cursor (`pull_events` calls
`package_event_batch`), opens them and folds them into its state with
`merge_event_batch`; `replay_event_batch` rebuilds a state from the log. There
is no client loop in the repository yet other than the one the tests drive
(`sync-engine/tests/concurrency.rs`, and the tests of `webdav.rs` and
`sync_event_store.rs`); `SyncPull` and `DeviceSync` model these.

On the desktop, migrations bring the database up to date before anything else
opens it; the search index follows the tables by triggers; the reader, the local
API and the AI commands read and write them on connections of their own. The
reader shell still works on data of its own (`mock-data.ts`).

## 2. Modules

| Module | Models |
|---|---|
| `SyncEvents` | events, their keys and order, the cursor, the packaging of pages (`batch.rs`) |
| `SyncMerge` | `merge.rs`: one action per merged event |
| `LastWriterSet` | what the links of `merge.rs` promise: a set that is a function of the events seen |
| `SyncEvents_proofs` | lemmas about keys and their order, and about `SyncReplay`'s operators |
| `SyncMerge_proofs` | theorems about `SyncMerge` |
| `SyncReplay` | `replay.rs`: one action per replayed event |
| `SyncPull` | composes `SyncMerge` and `SyncReplay` with the server's log: upload, paged pulls, redelivery |
| `SyncPull_proofs` | theorems about `SyncPull` |
| `SyncServer` | `sync-server`: the handlers as two lock sections per request |
| `SyncServer_proofs` | theorems about `SyncServer` |
| `FeedFetch` | `feed-engine`'s `FeedFetcher::run` over its SQLite repository and the feed and article rows of `store.rs` |
| `FeedFetch_proofs` | theorems about `FeedFetch` |
| `FeedPipeline` | one fetch in detail: `transport.rs`, the parsers, the normaliser |
| `LocalOutbox` | `sync_event_store.rs`: a change of the tables and its event, in one transaction |
| `WebDavSync` | `webdav.rs` with `encryption.rs` and `retry.rs`: one object per event, sealed |
| `DeviceSync` | composes `LocalOutbox`, `WebDavSync` and `SyncReplay`: one device's tables on their way to another |
| `DeviceSync_proofs` | theorems about `DeviceSync` |
| `Migrations` | `mod.rs`, `migrations.rs`, `backup.rs`: programs that open one database |
| `SearchIndex` | the tables, triggers and view of `004_article_search_fts.sql` |
| `ArticleLists` | the queries over tables and index: `article_search_store.rs`, `reader_queue.rs`, lists and details of `local_api.rs` |
| `ArticleAi` | `ai_actions.rs`, `ai_insights.rs` with `ai-adapter`'s queue and workflows |
| `RuleQuery` | `query.rs`, `engine.rs`: which definitions are accepted, what they match |
| `RuleRun` | `actions.rs`, `audit.rs`, `rule_audit_store.rs`: plan, audit and application of a rule |
| `ReaderQuery` | `article-query.ts` and `normalize.ts`: the reader's own evaluator of the same definitions |
| `ReaderCache` | `cache-maintenance.ts`, `batch-operations.ts` and what of `mock-data.ts` they go by |
| `LocalApi` | the serving thread of `local_api.rs`, its clients and its drop |
| `DesktopParts` | the modules from `Migrations` on, and `FeedPipeline`, one of them at work in each behaviour |
| `Desktop_proofs` | theorems about `Migrations`, `ArticleAi`, `SearchIndex` with `ArticleLists`, and `FeedPipeline` |
| `DesktopParts_proofs` | theorems about `RuleRun`, `ReaderCache` and `LocalApi`, and about `DesktopParts` as a whole |
| `MC*` | instances for TLC |

`SyncEvents` <- `SyncMerge`, `SyncReplay` <- `SyncPull`; `SyncEvents` <- `SyncServer`;
`SyncEvents` <- `LocalOutbox`, `WebDavSync`, and with `SyncReplay` <- `DeviceSync`;
`SearchIndex` <- `ArticleLists`; `RuleQuery` <- `RuleRun`, `ReaderQuery`;
all of the desktop's <- `DesktopParts`.
`SyncMerge` instantiates `LastWriterSet` with a refinement mapping.

The parts under `DesktopParts` call none of each other and change nothing the
others go by (a rule's host is not in the repository, the reader shell has its
own data), so a product of them would show nothing that each alone does not: a
behaviour is one of one part, chosen at the start by `part`.

### State and actions against the code

*Events.* `Log` is the set of all events that devices will ever create, so that
unique ids are an assumption about it (`UniqueIds`) and a replica's history is a
set of its elements. Strings the code only compares (`created_at`, ids) are
naturals; `NoKey` is below every key and stands for an absent `Option`.
The types `create`, `update` and `snapshot` are one change, `upsert`, because
`is_upsert_change` does not tell them apart; for a link they are `attach`, and
`delete` is `detach`. Events that `merge_event` refuses before it has changed
anything are one change, `malformed`. The walk over a payload, a `BTreeMap`, is
in name order; what matters of it is which fields come before
`reading_progress`: `EarlyFields` and `LateFields`.

*Merge.* `state[r]` is a `SyncMergeState`; the seven entity maps are one,
indexed by (type, id), with `present` for "has an entry". `batch[r]` is the rest
of the running call. `Deliver` is the call of `merge_event_batch`; `MergeNext`
and `MergeFails` are one turn of its loop, in key order because the code sorts.
An update with a bad progress has, when it fails, already removed the tombstone,
created the entity and written the early fields: `Dispatch` does exactly that,
and `MergeEvent` then does not mark it as applied. The history variable
`failed[r]` remembers such events; the code has no such state, and no guard
reads it. `JSON` numbers in 0..1 are naturals in the order of their values.

*Replay.* As merge, without versions and tombstones. `replay.rs` does not check
`reading_progress`, so `Invalid` is an ordinary value here.

*Server.* `Authenticate` is the read-locked part of a request (its result is
`conn[c]`), the other actions of a connection are the part under the second
lock; `Login` has one lock section only. Ids the server allocates are counters,
so users, devices and tokens are sequences. `UploadEvents` is the whole loop of
`upload_events`: `Taken` are the events it gets through, `Accepted` those of
them that are stored, and the early return leaves what was stored before it. The
order of checks is that of the code: types, device, duplicate, then encryption,
so that a duplicate in plaintext is no error. `disabled_at` is never set in the
code and left out. `acked` is a history variable: the ids a client was told are
stored. The store is a value in memory: a restart forgets the accounts with
their logs, there is nothing to recover, and no restart is modelled.

*Pull.* `Upload`, `PullToMerge`, `PullToReplay` take the place of the requests;
`Package` is evaluated at the server's log at the time of the request. A page may
be folded again (`Redeliver`, `RedeliverPage`): the test folds each batch twice,
and a client whose answer was lost asks for the same page again, by which time
the log may have grown. `UploadsInOrder` tells whether uploads come in the order
of their keys.

*Fetch.* `job[w]` is one call of `FeedFetcher::run`; its `step` is the place in
the code, its other fields are the local variables still in use. Calls overlap,
because every repository operation opens its own connection. `ResolveFeed` and
`ResolveEntry` are the lookups of `persist`, `Persist` its one transaction;
`ResolveUnmodified` and `RecordNotModified`, `ReadFailures` and `RecordFailure`
are the reading and the writing statements of the other two operations. The
lookups for one entry (up to five statements) are one step, and so are the
lookup of the feed and the read of its counter; the code never deletes a feed
or an article, so the first result stays one. `LIMIT 1` without an order is a choice. `Matches` and
`Hits` are the four kinds of lookup with their precedence (guid, canonical,
original URL, title and time, content hash), used both for the database and for
the index of the document's own entries. An id that is a digest is the tuple it
is the digest of. An ETag is the URL and version it came with, `Last-Modified`
is left out, as it goes wherever the ETag goes. `Named` says whether a request
with an ETag names the feed it is of: without the id the feed is looked up by its
URL, after the answer, and a 304 may be recorded on another row than the one whose
ETag was sent. The web is external: `Redirects`
and `Document` say what it may answer, `Publish` changes it. `EndEarly` covers
every `?` after which nothing is written, a page without a feed, the unique
index refusing a second feed with one URL, and a crash. `item` in an entry is
what its publisher means by it; no guard reads it. `stale` is history.
Entries with no guid, URL, time or content, whose id contains the time of the
fetch, are left out (`Identified`), and so are attachments.

*One fetch.* A page is what the libraries for XML, JSON and HTML give of a body:
what it starts with, which signatures are in its first 256 characters, what kind
of document it is when all of it is read, and its items with the members of their
format. `Parsed` is the order of tests of `DefaultFeedParser::parse`, `RssItem`,
`AtomEntry` and `JsonItem` are the three `parse_item`s, `TakeAnswer` is one turn
of `fetch_with_executor` and, after the last one, the rest of
`FeedFetcher::run`. The server is external and calls a page unmodified as
RFC 9110 says: by the ETag if it is sent one, else by the date. `means` in a page
is what its publisher means by it, and `Meanings` the articles it then tells of; no
guard reads them. The feeds a page of HTML offers (`discover`), and the author, language
and thumbnail of an article, are left out: no step and no property goes by them.

*Outbox.* `draft` is the open rusqlite transaction: the tables as they will be.
`BeginChange` is the statement on the tables, `NoteChange` the insert into
`SyncEvent`, `CommitChange` the commit; `RollBack` is every failure, and the drop
of the transaction. Each operation returns early when its statement touches no
row (`NoRows`). The caller of `update_user_state` passes a whole row, which it
read at some earlier time (`view`); `stale` is history, the columns a caller took
back to what they were. The time and the id of an event are the caller's
(`SyncEventWriteContext`), the time in seconds and the id random: in `MakeChange`
the next event may sort anywhere in the outbox. `before` is history too: which event
was in the outbox when another was committed.

*WebDAV.* `call` is a running `put_webdav_event_objects`; `PutObject` and
`PutFails` are one turn of its loop, the answer of which may be lost after the
object was stored. `confirmed` are the events of the calls that returned `Ok`,
which the caller does not list again. A ciphertext is the key and the metadata it
was made with (`EncryptBytes`): it opens with exactly these. `LeaveObject` and
`RemoveObject` are other programs with access to the folder.

*Migrations.* `opener[p]` is one `initialize_database`: `LoadApplied` the read
and validation of `schema_migrations`, `BackUp` the `VACUUM INTO`, and
`ApplyMigration` one migration in its transaction. `Close` is the end of the
program at any point, or any error. A migration's SQL is its name, a schema the
sequence of names it went through.

*Search and lists.* Every statement with the triggers it fires is one action, as
in SQLite; `Reindex` is the pair of statements every trigger consists of. Each
query has an operator of its own with the joins and defaults of its SQL text.

*AI.* `run[c]` is one command; each of its reads, the run of each task and the
store are steps of their own, because each is a statement on the command's own
connection. `version[a]` is the row of an article, which refreshes change. A task
has the texts of one or two rows; without text in the second the keyword task goes
back to the first alone (`KeywordTask`). `BlankText` is a text of spaces: the texts after it
do not stand in for it (`ArticleText`), and trimmed it is none.

*Rules and queries.* JSON values are records named for their type. A parser that
reports what it drops is a predicate: an accepted value stands for what is made of
it. The parsers and the matchers call themselves for the children of a node: here each
is a recursive function on a node and all below it (`NodesOf`, down to `MaxNesting`,
the depth at which `serde_json` gives up). In `RuleRun` the host evaluates, applies the planned commands one by one and
tells the audit; it may stop anywhere. `audits` is the table: a row has of its rule no
more than the id, which is the same for all, and its own id and time are any the caller
gives, so that `ListRuleAudits` lists by these and not by the order of the runs. The
user edits article and rule between and during runs. `ran` is history: the rule as it was
when it was evaluated.

`anyText` searches one text that is joined, by spaces, of several: the engine's join
(`AnyText`) leaves out what is missing, the reader's (`ReaderAnyText`) has an empty text in
its place, and the tags after it. A value is found in a join if it is in one of the texts,
or if it goes across some of them, as `Across` says of each join and value. In
`ReaderQuery` a definition is built up predicate by predicate, and compared in every step.

*Reader cache.* One action per call of the shell, which is not interrupted. The
entries are the set of those left of `Inventory`, which has them in their order; the
loop over the sorted candidates is what it leaves: an entry goes if what comes
before it, and may go, is not enough (`PlannedBefore`).

*Local API.* `thread` is the accept loop with the connection it is busy with,
`owner` the `Drop` of the server, `backlog` the connections the kernel has. The
clients connect, send their lines one by one, stall or hang up as they like.

## 3. What TLC checks

| Run | Shows |
|---|---|
| `merge_any_order` | Any order and repetition of 11 events at one replica: types; the cursor is the newest applied event; undeleted entities converge field by field; values and versions stay together; tombstones and entities exclude each other; existence of a plain entity and every link are decided by the newest event; the links implement `LastWriterSet` |
| `pull_in_order` | From a log that grows in key order, merge and replay both show exactly the history (merge: every field but the progress, as long as it has met no event it refuses half-way), a cursor never passes what was not applied, and whatever precedes the first refused event is folded in the end |
| `server` | One account per email; logs and blobs of own devices only; no two events with one id, nothing unsupported or in plaintext; what was acknowledged is stored; logs only grow, and only for the user of the request; a repeated upload stores nothing |
| `merge_converge` | *violated*: see below |
| `merge_progress_time` | *violated* |
| `pull_progress` | *violated* |
| `pull_late_upload` | *violated* |
| `fetch_articles` | Two overlapping runs: whatever was redirected, ended early or came late, the articles of the version whose ETag a feed holds are all stored (else a 304 would hide them for good); a row keeps its article and its user state; a run that nobody overlapped adds no second row for an article, and overlapping ones add none for an article whose first identifier stays |
| `fetch_failures` | Status, last error and failure counter of a feed agree after any overlap of failures and successes, though the counter is read outside the statement that writes it |
| `fetch_distinct` | *violated* |
| `device_webdav` | Two devices over a WebDAV folder that strangers meddle with: the outbox tells of the tables, a column by the event committed last, but for what a caller with an old row took back; with an event on the server are those that sort before it and were committed before it; what a call confirmed is there; the reader shows what the events it folded tell, which are all up to its cursor but those committed after a greater key it had, and catches up but for these when the folder is clean and the writer has not given up |
| `desktop` | Each part of the desktop application: upgrades keep one history and are backed up (`UpgradesAreSafe`); index, lists, counts, details, queue and API agree (`ListsAgreeAtWork`); AI answers fit their inputs (`AnswersFitInputs`); audits explain runs by the rule as it was, and a run left alone leaves nothing to do (`AuditExplainsRun`); reader and rule engine give a definition one meaning where they are not known to differ (`ReaderAgreesAtWork`); a clean-up keeps what is the user's and no more than fits (`CacheIsSoundAtWork`); a fetch uses its attempts, misses no new page and reads an article alike in every format (`FetchTellsAnswerAtWork`); every client of the local API is answered and a drop ends (`ApiAnswersAndStops`) |

### Where the documents and the code disagree

1. **Deletes and late updates** (`merge_converge`). The design document says that
   devices converge by replaying events and merging by field
   (`RSS-design-document.md:647`). Around a delete they do not: an update U1, a
   delete D2 and an update U3 of another field leave U3's field alone when
   merged in order, and the fields of both when merged as U3, U1, D2 (D2 is older
   than a field and ignored as a whole). `PresenceIsLastWriter` shows how far the
   promise does hold: the *existence* of a plain entity never depends on the order.
2. **Time of the progress** (`merge_progress_time`). Document, line 679: the
   further progress wins "keeping the latest update time". The code keeps the
   time of the update that set the progress.
3. **Merge and replay** (`pull_progress`). `tests/concurrency.rs:94-98` asserts
   that both show the same; they differ once a progress goes down.
4. **Late uploads** (`pull_late_upload`). The cursor is the client's time, so an
   event uploaded after newer ones is never pulled by devices that have those.
5. **Distinct articles with one content** (`fetch_distinct`). The plan for
   deduplication says that it never removes distinct articles
   (`implementation-plan.md:146`), and a test is named after that. An entry with
   its own guid, URL, title and time is dropped when its content, or its summary
   if there is nothing else, has the digest of an earlier entry of the document.

Smaller ones, met while modelling, which no run is about:

- The events of annotations carry no `article_id`, so another device cannot tell
  what they annotate (`sync_event_store.rs`).
- `update_user_state` with an old row takes back columns no event tells of; the
  invariant `OutboxTellsOfTables` has to except them (`stale`).
- `list_feeds` of the local API counts one unread article in a feed without any
  (`CountsAreOfLists` excepts it); the lists say `liked` is false of every article;
  tags of scope feed are shown with an article but not searched.
- The order of the keys of an outbox is not that of its commits: two changes of one second
  have random ids, and a clock may go back. The newest event by key then does not
  have the column's value, so that a device that replays the outbox shows another; and an
  event that sorts before one a reader has folded is behind its cursor and never pulled by
  it. `OutboxTellsOfTables` speaks of the event committed last, `PublishedIsPrefix`,
  `ReaderShowsPast` and `ReaderCatchesUp` except the events committed after a greater
  key (`before`, `Overtaken`). With keys that grow with the commits they say that the
  outbox replays to the tables, that what is on the server is its beginning, that the
  reader shows a past state, and that it catches up with all of it. `pull_late_upload` is
  the same fault at the server.
- `anyText` includes the tags in the reader and not in the rule engine, and joins a missing
  text as an empty one there, while the engine leaves it out: an article without an
  author of the feed `read`, with the summary `rust`, matches `read rust` in the engine only.
  `AnyTextAlike` excepts articles that have tags or lack one of the texts, for values that
  are empty, in a tag, or across texts in one of the joins. `Date.parse` reads dates that RFC 3339 does not
  know, which `SeenAlike` excepts too.
- Two audits of one second are listed in the order of their random ids, and those of a
  clock that went back before older ones: the first of `list_rule_audits_for_rule` need not
  be of the last run.
- The audit of a rule keeps neither summary nor content: a rule about these is not
  explained by it (`IsExplained`). Nor does it keep the rule's conditions and actions: once
  the rule is edited, no audit of before can be explained from the database (`ran`).
- A rule that is retried after a crash in the middle of its commands may not match any
  more, and never applies the rest.
- `restore_database_from_backup` removes the database before it copies: a crash
  between leaves none. The backups are not touched, so it can be repeated.
- A fetch replaces an article's attachments and forgets where they are cached.
- An AI run that ends after the user has cleared the results of its article stores
  its own; a slow run replaces the answer of a faster, newer one.
- In JSON Feeds a blank `external_url` or `date_published` is not stood in for by
  `url` and `date_modified`; in XML the corresponding ones are. URLs and dates of
  JSON Feeds are not trimmed.
- An accept error ends the loop of the local API, while its status still says that
  it runs.

### Bounds, and why they are enough

- `merge_any_order`: one replica, because replicas never read each other; the
  agreement of two is a consequence of what is said of one (`OrderInsensitive`,
  `SameEventsSameFields`, proved). `EntityLog` has a user state with an early field, a progress and a
  late one, a tie of an update and a delete in one second, a bad progress, a
  lower progress; a plain entity that is created, deleted and created again;
  an attach and a detach; a malformed event. Batches of one event give every
  order; batches of two and the complete one give the sort, the error that
  drops the rest, and overlaps.
- `merge_converge`: two replicas, the five events the disagreement is about.
- `pull_*`: pages of two out of up to six events: pages end within a second, at
  an error, at the end of the log. A device may upload any subset in order.
  Three devices at most; they meet only through the log.
- `server`: two connections, two tokens (of one user or of two), two devices,
  one email and anonymous logins, four requests that cover each branch of the
  loop, client-chosen blob ids that collide with the server's own.
  `MaxUsers`, `MaxTokens`, `MaxDevices` and `MaxBlobs` bound what is handed out;
  nothing else is bounded.
- `fetch_*`: two URLs, one of which may redirect to the other, two runs at a time
  (a third would only repeat what a second does: a run meets the others through
  the tables). `MCDocument` has an article that keeps its guid and changes its
  URLs, one without a guid that changes its URL, one with a mirror in the same
  document, a guid that is a URL elsewhere, and a version that drops its entries.
  `fetch_articles` (719,781 states) has requests that name their feed (`Named`; see
  `TagsAreHonest` below), no failures (`MaxFailures` 0) and one article opened
  (`MaxRead`); `fetch_failures` requests of both kinds, one entry
  and up to four failures, one more than the third, at which the status changes.
  Both use that the two workers are interchangeable.

- `device_webdav` (41,824 states): one writer, one reader, three plans of at most four
  changes (`MaxChanges`), made in any order and therefore in and against the order of their
  keys: two changes of one user state in one second by callers with fresh and with old rows; a
  tag attached twice, a move of a feed that is gone and a note older than all others; two
  moves of one feed in one second. Pages of one event (`PageSize`) end between
  events of one second, and let the outbox grow between any two folds; longer pages are the
  proof's. Two attempts, three kinds of foreign objects, one at a time; two secrets.
- `desktop`, each part alone: two programs of two builds that part after their
  first migration, two seconds and two backups (a name twice, and a name free);
  two articles, two feeds, one tag, two words, and requests with every parameter;
  three AI commands, two of which may ask for the same, two articles and three
  versions of a row; ten rules, of which five are not accepted, four articles, two
  evaluations of any ids and of two times (`MaxAudits`, `AuditTimes`), and one edit by the user, of the article
  or to any other rule, between any two steps (`MaxEdits`; a second edit meets only what the
  first has met: with two, this part has 243,766 states and no error); every field,
  operator and value of each type in definitions up to three deep (`MaxDepth`; a
  fourth level meets only what the third has met, and `MaxNesting`, 4, is
  deeper than any definition built), on five articles, three of which lack texts, and a value that is in
  no text but goes across two in some of their joins (`MCAcross`); four cache
  entries, two feeds and two budgets; ten pages, one per way through the parser, those
  of one publisher's article in each format among them (`MCMeanings`), and two attempts (the first may be retried, the last may not); two API clients,
  requests that are complete, cut off and bad.

Deadlock is checked in every run but `desktop`: all others can always do something.
The parts of the desktop may stop: AI commands end, definitions reach their depth,
a dropped server stays dropped.

### Fairness

In `PullSpec` a running fold takes its next step (weak: it is a
loop over a vector), and a device that has something to pull asks for it again and
again (strong, because redelivery may keep a device busy at any moment). The
first is the code's; the second is the assumption about the client that
`tests/concurrency.rs` makes by pulling until nothing is left. No fairness
is assumed of uploads: `EventuallyFolded` is about what has been uploaded. It
stops at the first event a device refuses, because the code does: that event
heads every later page.

`DeviceSpec` is fair to the two devices: the writer tries its pending events again
and again, and puts of an object do not fail forever (strong: failures and
crashes may come between); the reader, which has typed the right secret, pulls
again and again when a pull can succeed (strong: strangers may dirty the folder) and
folds what it got (weak). Nothing is assumed of the user and of strangers:
`ReaderCatchesUp` is conditional on a folder that stays clean, and on a writer that
does not give up for good (`retry.exhausted`).

`DesktopSpec` is fair to the thread of the local API, to the waits it sets timeouts
for, and to the thread that drops it (weak). Nothing is assumed of clients but that
each sends finitely many lines: the 500 ms are for one read, and a client that
sends a byte now and then may keep the thread for ever. The fetches, the commands and
the migrations have no liveness property: the user, or the next start, repeats them.

## 4. What is proved

Every theorem is about a specification TLC runs, for every value of its
constants that meets the named assumptions of its modules; where a theorem needs
more, it says so in its statement. The proofs are laid out alike: lemmas about the
operators an action is built from, one lemma per action, a step lemma that only
finds out which action is which, and short theorems from the invariant.

| Properties | Theorems | Invariant | Beyond the assumptions |
|---|---|---|---|
| `merge_any_order`: all | `TypeCorrect`, `CursorCorrect`, `LinksCorrect`, `TombstonesCorrect`, `PresenceCorrect`, `LinksRefineLastWriterSet`; `ValuesMatch`, `FieldsConverge` | `IInv`; `FieldInv` | |
| (two replicas agree) | `OrderInsensitive`; `SameEventsSameFields` | `IInv`; `FieldInv` | |
| `pull_in_order`: `PullTypeOK` | `PullIsTyped` | `PullTypeOK`, with the types of the parts | |
| `pull_in_order`: the other invariants | `CursorSkipsNothing`, `ReplayShowsHistory`, `MergeShowsHistory` | `PullInv` | `UploadsInOrder` |
| `server`: all | `ServerIsTyped`, `AccountsStayApart`, `LogsAreSound`, `AckedStaysStored`, `LogsGrow`, `RepeatsStoreNothing` | one each | |
| `device_webdav`: all invariants | `OutboxTellsTheTables`, `PublishedIsBeginning`, `ConfirmedStays`, `DeviceIsTyped`; `ReaderShowsThePast` | `DeviceInv`; `ReaderInv` | |
| `fetch_articles`, `fetch_failures`: types, health | `FetchIsTyped`, `HealthAgrees` | `FetchInv` | |
| `fetch_articles`: the others | `TagsAreHonest`, `RunsAgree`, `RowsStay`, `RowsStaySingle` | `ContentInv`, `FreshInv` | `DistinctEntries`; `AlwaysNamed` or `KnownAgain` |
| `desktop`: `UpgradesAreSafe` | `UpgradesKeepHistory`, `UpgradesKeepTypes` | `MigrationsInv` | |
| `desktop`: `AnswersFitInputs` | `AnswersAreFiled`, `AnswersHaveText` | `AiInv`, `AllHaveText` | |
| `desktop`: `ListsAgreeAtWork` | `IndexIsKept`, `ListsTellTheSame`, `RequestsAreAnswered`, `QueriesAgree`, `ListsStayInAgreement` | `ListsInv` | |
| `desktop`: `AuditExplainsRun` | `RunsAreExplained` | `RuleInv` | |
| `desktop`: `CacheIsSoundAtWork` | `CacheIsKept`, `CacheStaysSound` | `CacheInv` | |
| `desktop`: `FetchTellsAnswerAtWork` | `FetchMissesNothing`, `FetchIsUnderstood`, `FetchStaysUnderstood` | `PipeInv`, `FormatInv` | |
| `desktop`: `ReaderAgreesAtWork` | `ReaderTellsWhatRulesDo`, `ReaderTellsAtWork` | `QueryInv` | `NoneIsNoJson` |
| `desktop`: `DesktopTypeOK` | `DesktopKeepsTypes`, from `ConnectionsStay`, `QueryTypes` and those above | `ApiInv`, those above | |
| (the parts' promises, of the whole) | `DesktopIsItsParts`, `PartsKeepPromises` | | |

The theorems on the parts of the desktop are about the specifications of these (`MigrationsSpec`,
`AiSpec`, `ListsSpec`, `RuleSpec`, `QuerySpec`, `CacheSpec`, `PipeSpec`, `ApiSpec`).
`DesktopIsItsParts` carries them over: `DesktopInit` implies the `Init` of every part, and
a step of the desktop is a step of one part and leaves the variables of the others alone,
so that `DesktopSpec` implies all eight specifications.

*Merge* (`SyncMerge_proofs`; for any log, replicas and batches, so for any delivery).
`IInv` is `TypeOK` and, for the state of each replica, `StateOK`:
the conjunction of the cursor, link, tombstone and presence properties with two
strengthenings. `PresenceIsLastWriter` is not inductive alone: it says nothing of
the versions that decide whether the next delete or update is taken. `PresenceOK`
adds that the tombstone, or the newest field version, of a plain entity is at
least the key of each applied event about it, and belongs to an applied event; a
delete is then taken exactly when it is newer than all of them. And an applied
event is never malformed, which a link's last writer needs. As the code's
functions take a state and an event, the lemmas are about these (`MergeKeeps...`:
if a state is good, so is `MergeEvent` of it).

`FieldInv` adds `FieldsOK`, which speaks of the applied events and of those that
failed half-way (`failed[r]`), because these have written their early fields. It has
three parts. Each field's value is the value of an event that its version names. In
an entity that no applied event deletes, the version of a field is the newest
of those that wrote it; and its progress is the furthest anyone reached, in the version of
the newest event that reached it. The last two are not true after a delete
(`merge_converge` shows how), so the invariant makes them conditional on no *applied*
delete, and a delete keeps them by falsifying the condition.
All of this is of one replica. Two that applied the same events, and failed at the same ones,
have the same writers of each field, so that the newest of them, and the furthest progress,
are the same (`SameEventsSameFields`, with `OneWriter`). That they *applied* the same is not
enough: an event that failed at one of them has left its early fields there.

*Pull* (`SyncPull_proofs`; for any log and page sizes). Within `PullInv`, what
`Follows` says is the heart: the events a device has folded, with
those of the page it is working on, are a beginning of the server's log in key
order, up to the first event it refuses; and its cursor is the last it
folded. An upload keeps it because `UploadsInOrder` puts new keys above all
cursors; `pull_late_upload` shows what happens otherwise. A page that comes again begins
with folded events, which merge and replay skip. That `Package` returns the next events in key order,
without a gap, is a lemma about its definition by the number of smaller
keys, not by recursion, so that it holds for any page size. `SyncEvents_proofs`
says what one replayed event does to a state, in the terms of `ReplayIsHistory`.

*Server* (`SyncServer_proofs`; for any users, devices, connections, requests and bounds).
The loop of `upload_events` is reasoned about once, as lemmas about the operators that
stand for it: an index the loop gets through (`Taken`) has a request's event of the
right device and type; an accepted index is the first with its id, so a log keeps one
event of an id; every index taken has its id in the log afterwards, which is what an
acknowledgement says; and an upload that is repeated finds all it had stored as
duplicates. The least index of a set of them, which the argument on ids needs,
comes from the well-foundedness of `<` on naturals.

*Device to device* (`DeviceSync_proofs`; for any plan of changes, any objects others
leave and any policy of attempts). `NamesAssumption`: an event's object is named after
its random id, so no stranger has its name. `SealAssumption`: a
stranger's readable object does not open with the writer's key, for strangers do not have
it and the cipher authenticates. `NoKeyAssumption`: having no key is not having a wrong one.
Nothing is assumed of keys but that they differ: of two events of the outbox, `before` says
which was committed first, and `TablesOK` that it is an order of all of them.
`DeviceInv` is in two halves, as tables and calls touch nothing in common but the
outbox. `TablesInv` adds to `OutboxTellsOfTables` what an open transaction will make of
the tables (`DraftOK`): with the event not yet noted, the tables are ahead of the
outbox by exactly that change. `ServerInv` adds to `PublishedIsPrefix` where a running
call is (`CallOK`): what it no longer has to put is on the server, and every event that
sorts before one of the call's, and was committed before it, is there too or in the call. A
commit keeps it because the new event was committed before no other.
`ReaderInv` adds the other end. `StoreOK`: an object in the folder is the writer's, under
its event's name, or a stranger's, and there are finitely many. `ReaderOK`: up to its
cursor the reader has folded all of the outbox but what was committed after a greater key
it had folded, and its page leaves out, between the cursor and an event of its own, only
what was committed after that one; although strangers may replace or remove any object
at any time: a pull that meets one it cannot open fails as a whole.

*Fetch* (`FeedFetch_proofs`; for any URLs, redirects, documents, error kinds and number of
overlapping runs). `FetchInv` says what the local variables of a run hold at the place it
has come to (`JobOK`): in particular that a run that counts a failure has a feed that has
a row, so that no failure makes a row without a URL, and that the articles a run has found
are of its feed and have different ids, so that persisting them leaves one row of an id.
`RowOK` is the health property of one row.

What the rows say depends on what publishers write, so the other theorems have
hypotheses on the documents; they are formulas about the constants:

- `DistinctEntries`: two entries that match in a guid, URL, title and time, or content mean
  the same article. Without it a lookup finds another article's row; that
  is the finding of `fetch_distinct`.
- `AlwaysNamed`: a request with an ETag names its feed. `TagTellsContent` needs it: with
  `Named = {TRUE, FALSE}` TLC finds it violated, by a run that sends the ETag of one
  feed, is redirected while another run moves the row, and records the 304 on
  the feed that has the URL by then. Every request with an ETag in the repository, all of them
  in tests so far, names its feed.
- `KnownAgain`: any two entries for an article share one identifying value.
  `NoSecondRow` needs it: an entry that changes all of them is a new article.

The documents of `fetch_articles` meet all three. `ContentInv` says that every row is
what some entry said under an id made from an entry of the same article (`Told`), that
the same is true of what a run carries (`JobTold`), and that all articles of the version
whose ETag a feed *or a running job* holds are stored, or will be by that job (`JobTags`).
`FreshInv` says that a run that nobody overlapped will write an article under the id its
row has, if it has one.

*Migrations* (`Desktop_proofs`, as the next four; for any builds that are not empty,
programs, seconds and backups). `FileOK`: the file's applied rows are those of one build
up to some length, and its schema is what they say. `OpenerOK`: what an opener has
read is a beginning both of its own build and of the file. `BackedUp`: it has a backup of
what it found, unless another one has migrated the file in between. Two openers may
have read the same rows: the insert of the one that comes second fails, for the version
is the primary key, and the lemma for `ApplyMigration` shows that nothing else can
happen to it; so the file is only changed by an opener that has backed it up.

*AI* (for any commands, articles and versions of rows). `AiInv`: every artifact and every
cached answer is the provider's answer to the input whose hash it is filed under, and
a command that has not stored yet holds the same of its own. `GoneAssumption` keeps
the mark of a deleted row apart from the versions. `AllHaveText` says that no task
queued, no answer made or cached and no artifact stored is of a blank input.

*Search and lists* (for any articles, feeds, tags, words and requests). `ListsInv` is
`TablesOK`, the foreign keys, with `entry = Source`: the index row of an article is what the
view would say of it now. Each statement with its triggers keeps it because the triggers
reindex exactly the articles whose `Source` the statement can change, and that is
what each lemma shows; the foreign keys are needed where a cascade
deletes the rows by which a trigger would find the article. The agreements of
counts, lists, details and search are then consequences of one state. That a list sorted
`oldest` is the one sorted `newest` turned round (`OrdersAreReverse`) needs that a finite
set has one order at most that a total comparison allows: where two orders first
differ, the one element would have to come before and after the other.

*One fetch* (for any pages, sizes and numbers of attempts). `PipeInv`: the validators stored for
a feed are those of the page it holds; a request carries the feed's or none; the
attempts are counted. `ValidatorAssumption`: a server does not give two different pages
one ETag, or one date if it has no ETags.

*What the formats say* (`FetchIsUnderstood`). `FormatInv` adds to `PipeInv` that the feed holds
exactly what the pipeline reads from its page, and that the outcome is that of the last
answer. What a publisher of an article writes in each format is
an assumption (`MeaningAssumption`: `RssTells`, `AtomTells`, `JsonTells`), for it is about the
world; the theorem is that the three `parse_item`s and the normaliser make one article of
the three. `MomentAssumption`: a blank is not a date. The files of an article
are those of its links in their order; they are compared by rank, the number of files that
come before, as the code's filters over vectors would need induction otherwise.

*Rules* (`DesktopParts_proofs`, as the next three; for any rules, articles and bounds, and
whatever the query of a rule computes). `RuleInv`: each stored audit explains, by the rule
as it was at its run, what was decided on what it says was seen; and the host (`HostOK`) is at an audit
of the table and, as long as the user did not change the article, has left to do exactly what
the rule that ran would plan for the
article as it is now: an applied command is never planned again. No step depends on the
order of ids and times, for these are any. The proof
found an error in the model: `ParseRuleActions` took a `moveToFolderId` that is neither null nor a
string, which `actions.rs:486-493` refuses; the rule that TLC now
has for it (`MCRules`) is refused.

*Queries* (for any values, articles, texts and instants, and definitions nested as deep as
JSON may be). `QueryInv`: what has been built up is a tree nested as deep as it was built
(`Trees`). `AcceptsNode`, `MatchNode`, `ReaderMatchNode` and the two normalisers are functions of the
nodes below, defined by themselves, so that first each has to be shown to have one such function,
on which all nodes above agree (`WalksEnd`, `WalksAgree`, `ResultIs`): of a tree for which it had
none, a least nested one (`LeastTree`) would have children that have theirs, and so have its own.
In the same way
`DefinitionSettles`: an accepted definition is rewritten to a normal form, in which no negation is
of a negation and no group of a group with its match or of one child; a normal form is
rewritten to itself, which is why looking at a double negation's node a second time is enough;
and what is made of a node is accepted, nested no deeper, and means the same to the engine and to
the reader. `DefinitionsAgree` takes the agreement of predicates, field by field and operator by
operator (`PredicateAgrees`), up to the root. For `anyText` the two joins are compared
(`JoinsAgree`): of an article that has all the texts and no tags they are one, and a value that goes
across no text of either is found in both or in neither. `InstantAssumption`: `Date.parse` reads what RFC 3339
knows as RFC 3339 does, which is so to the millisecond; finer instants the reader does
not tell apart. `ValueAssumption`: a JSON value is of one type. `NoneIsNoJson`: what marks an absent
value is not a JSON value.

*Reader cache* (for any inventory, budgets and edits). `CacheInv` adds that the details show
the same state, tags and cached attachments as the list and the cache
(`DetailsAreOfInventory`) and that an annotation of type note has one, so that what
protects an entry is what the user did to its article. That a clean-up frees enough, and stops
as soon as it has, is about sums of sizes over a finite set in an order: the entries that
go are a beginning of it, and the last of them was still needed.

*Local API* (for any clients and requests). `ApiInv`: the thread serves a connection
there is, each connection is at a place of the code, and the backlog is of clients.

*Model-checked only.*

- Liveness (`EventuallyFolded`, `ReaderCatchesUp`, `ApiAnswersAndStops`), which is out of
  the prover's reach, as is `ENABLED`.
- What a recursive definition computes for *every* input is induction over data, and out of
  reach too; the theorems that are about recursive functions reach their results by a
  least counterexample (*Queries*) or by counting (`Package`, the order of clean-ups).

## 5. Plan

1. Done: all modules above, and the theorems of section 4.
2. Done: a theorem for every invariant a passing run checks, and for its action properties.
3. Left: the liveness properties, which need a prover with fairness.

### Not modelled

- HTML extraction and sanitising (`content-pipeline`), export adapters
  (`integration-engine`), prompts and providers: pure conversions or single calls,
  without a state or an order of steps that could go wrong.
- The blob and sync manifests of `webdav.rs`, `smart_folder_store.rs`: put and read
  by nothing else.
- The SQL plan of `shared-query` and its text syntax: no program executes the plan.
- Backoff and delays: no module has time but the order of events.
- View state, components and forms of the clients; type declarations; the data
  generator of `performance-baseline`; the empty `search-engine`.
