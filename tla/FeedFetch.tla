------------------------------- MODULE FeedFetch -------------------------------
(***************************************************************************)
(* crates/feed-engine: FeedFetcher::run over SqliteFeedRepository, with    *)
(* the Feed and Article rows of core-domain/sqlite/store.rs.  Several runs *)
(* may overlap: every repository call opens a connection of its own, looks *)
(* ids up in statements of their own and writes in one transaction.        *)
(*                                                                         *)
(* The id of a new feed is a digest of its URL, the id of a new article a  *)
(* digest of its feed and its first identifying value; here the URL and    *)
(* the triple stand for them.  The web is external: each URL answers with  *)
(* the current version of its document, or with one it redirects to.       *)
(***************************************************************************)
EXTENDS Integers, FiniteSets, Sequences

CONSTANTS
  Urls, NoId,
  Redirects,    \* Redirects[u]: the URLs a request for u may end at
  Named,        \* whether a request with an ETag has its feed's id, may lack it
  Document,     \* Document[u]: the versions of u, sequences of entries
  Values, None, \* what identifies an article; None where an entry lacks it
  Items,        \* the articles the entries really are
  ErrorKinds,   \* the kinds of fetch and parse errors, "permission" one of them
  Workers,
  MaxFailures,  \* bound on the failures counted
  MaxRead       \* bound on the articles opened

(* What an article is looked up by, in this order.                         *)
Kinds == <<"guid", "canonical", "original", "stamp", "hash">>

(* stamp stands for title and published_at, hash for content_hash; item is *)
(* not in the data, it says what the publisher meant.                      *)
Entry == [item : Items, guid : Values \cup {None}, canonical : Values \cup {None},
          original : Values \cup {None}, stamp : Values \cup {None},
          hash : Values \cup {None}]

(* Every entry has something that identifies it.                           *)
Identified(e) == \E k \in 1 .. 5 : e[Kinds[k]] # None

ASSUME UrlAssumption   == NoId \notin Urls /\ Redirects \in [Urls -> SUBSET Urls]
ASSUME EntryAssumption ==
  /\ None \notin Values
  /\ Document \in [Urls -> Seq(Seq(Entry)) \ {<<>>}]
  /\ \A u \in Urls : \A v \in DOMAIN Document[u] : \A i \in DOMAIN Document[u][v] :
       Identified(Document[u][v][i])
ASSUME ErrorAssumption == "none" \notin ErrorKinds
ASSUME NamedAssumption == Named \subseteq BOOLEAN
ASSUME BoundAssumption == MaxFailures \in Nat /\ MaxRead \in Nat

VARIABLES
  version,   \* version[u]: the version of its document u answers with
  feeds,     \* the Feed rows, by id
  articles,  \* the Article rows
  read,      \* the ids of articles whose UserState the user has changed
  job        \* job[w]: where the run of worker w is; its field stale is
             \* history: another run wrote articles since w began to resolve

fetchVars == <<version, feeds, articles, read, job>>

Tag    == Urls \X Nat \* the ETag of a version of a document
NoTag  == <<NoId, 0>>
NoFeed == [url |-> NoId, tag |-> NoTag, health |-> "healthy", error |-> "none", failures |-> 0]
Known  == {f \in Urls : feeds[f] # NoFeed}

Idle == [step |-> "idle", asked |-> NoId, url |-> NoId, sent |-> NoTag, tag |-> NoTag,
         feed |-> NoId, rest |-> <<>>, found |-> <<>>, error |-> "none", failures |-> 0,
         stale |-> FALSE]

FetchInit ==
  /\ version = [u \in Urls |-> 1]
  /\ feeds = [f \in Urls |-> NoFeed]
  /\ articles = {} /\ read = {}
  /\ job = [w \in Workers |-> Idle]

-------------------------------------------------------------------------------
(* The world: a publisher changes a document, the user opens an article.   *)
Publish(u) ==
  /\ version[u] < Len(Document[u])
  /\ version' = [version EXCEPT ![u] = @ + 1]
  /\ UNCHANGED <<feeds, articles, read, job>>

OpenArticle(a) ==
  /\ Cardinality(read) < MaxRead
  /\ read' = read \cup {a.id}
  /\ UNCHANGED <<version, feeds, articles, job>>

(* A run for a new URL, or for a feed as its row was when it was asked for,*)
(* with or without its id.                                                 *)
Begin(w) ==
  /\ job[w] = Idle
  /\ \/ \E u \in Urls :
          job' = [job EXCEPT ![w] = [@ EXCEPT !.step = "asked", !.url = u]]
     \/ \E f \in Known, named \in Named :
          job' = [job EXCEPT ![w] = [@ EXCEPT !.step = "asked", !.url = feeds[f].url,
                                              !.asked = IF named THEN f ELSE NoId,
                                              !.sent = feeds[f].tag]]
  /\ UNCHANGED <<version, feeds, articles, read>>

(* map_http_response: a 304 if the tag sent is that of the answer.         *)
Answer(w, final) ==
  LET tag == <<final, version[final]>>
  IN  /\ job[w].step = "asked"
      /\ final \in Redirects[job[w].url]
      /\ job' = [job EXCEPT ![w] =
           IF job[w].sent = tag
             THEN [@ EXCEPT !.step = "unmodified", !.sent = NoTag, !.tag = tag]
             ELSE [Idle EXCEPT !.step = "modified", !.asked = job[w].asked, !.tag = tag,
                               !.rest = Document[final][version[final]]]]
      /\ UNCHANGED <<version, feeds, articles, read>>

(* The last attempt of the transport fails, or the answer does not parse.  *)
Fail(w, kind) ==
  /\ job[w].step = "asked"
  /\ job' = [job EXCEPT ![w] = [@ EXCEPT !.step = "failed", !.sent = NoTag, !.error = kind]]
  /\ UNCHANGED <<version, feeds, articles, read>>

(* The run ends with nothing more written: a page with no feed, an error   *)
(* of the database, a conflict of two feeds over one URL, a crash.         *)
EndEarly(w) ==
  /\ job[w] # Idle
  /\ job' = [job EXCEPT ![w] = Idle]
  /\ UNCHANGED <<version, feeds, articles, read>>

-------------------------------------------------------------------------------
(* The id in the request, or that of the row with the URL.                 *)
FeedsOf(w, u) ==
  IF job[w].asked # NoId THEN {job[w].asked} ELSE {f \in Known : feeds[f].url = u}

(* persist looks for the URL the answer came from, and makes an id of it.  *)
ResolveFeed(w) ==
  LET final == job[w].tag[1]
      found == FeedsOf(w, final)
  IN  /\ job[w].step = "modified"
      /\ \E f \in IF found = {} THEN {final} ELSE found :
           job' = [job EXCEPT ![w] = [@ EXCEPT !.step = "resolving", !.asked = NoId, !.feed = f]]
      /\ UNCHANGED <<version, feeds, articles, read>>

(* A URL is compared with both URLs of the row.                            *)
UrlsOf(row) == {row.canonical, row.original}

Matches(row, e, k) ==
  /\ e[k] # None
  /\ e[k] \in IF k \in {"canonical", "original"} THEN UrlsOf(row) ELSE {row[k]}

(* What of an entry comes first among the things it is identified by.      *)
FirstKind(e) ==
  Kinds[CHOOSE k \in 1 .. 5 : e[Kinds[k]] # None /\ \A j \in 1 .. k - 1 : e[Kinds[j]] = None]

(* Slip: only that is looked up.                                           *)
HitsByFirst(rows, e) == {row \in rows : Matches(row, e, FirstKind(e))}

(* The rows the first successful lookup may return (LIMIT 1).              *)
Hits(rows, e) ==
  {row \in rows : \E k \in 1 .. 5 :
     /\ Matches(row, e, Kinds[k])
     /\ \A j \in 1 .. k - 1 : \A other \in rows : ~Matches(other, e, Kinds[j])}

(* Slip: the id is always that of the URL, which may change or be missing. *)
NewIdFromUrl(f, e) == <<f, "canonical", e.canonical>>

NewId(f, e) == <<f, FirstKind(e), e[FirstKind(e)]>>

Found(w) == {job[w].found[i] : i \in DOMAIN job[w].found}

(* build_article_graph: an entry that matches one of this document, by     *)
(* what identifies it or by the row it would go to, is dropped.            *)
ResolveEntry(w) ==
  LET j     == job[w]
      e     == Head(j.rest)
      known == {a \in articles : a.feed = j.feed}
      ids   == IF Hits(known, e) # {} THEN {a.id : a \in Hits(known, e)}
                                      ELSE {NewId(j.feed, e)}
  IN  /\ j.step = "resolving"
      /\ j.rest # <<>>
      /\ \E id \in ids :
           LET row  == [id |-> id, feed |-> j.feed, item |-> e.item, guid |-> e.guid,
                        canonical |-> e.canonical, original |-> e.original,
                        stamp |-> e.stamp, hash |-> e.hash]
               drop == Hits(Found(w), e) # {} \/ \E a \in Found(w) : a.id = id
           IN  job' = [job EXCEPT ![w] =
                         [j EXCEPT !.rest = Tail(j.rest),
                                   !.found = IF drop THEN j.found ELSE Append(j.found, row)]]
      /\ UNCHANGED <<version, feeds, articles, read>>

(* No other feed has the URL: ux_feed_feed_url.                            *)
UrlIsFree(f, u) == \A g \in Known \ {f} : feeds[g].url # u

Wrote(w) == [x \in Workers |-> IF x = w THEN Idle
                               ELSE IF job[x].step = "resolving" THEN [job[x] EXCEPT !.stale = TRUE]
                               ELSE job[x]]

(* The row of a feed that was fetched, or found unchanged: all is well.    *)
Checked(f, tag) == [feeds EXCEPT ![f] = [NoFeed EXCEPT !.url = tag[1], !.tag = tag]]

(* Slip: the feed row is written in a transaction of its own, before.      *)
PersistFeedFirst(w) ==
  LET j == job[w]
  IN  /\ j.step = "resolving"
      /\ UrlIsFree(j.feed, j.tag[1])
      /\ feeds' = Checked(j.feed, j.tag)
      /\ IF feeds[j.feed].tag # j.tag
           THEN UNCHANGED <<articles, job>>
           ELSE /\ j.rest = <<>>
                /\ articles' = {a \in articles : \A row \in Found(w) : row.id # a.id} \cup Found(w)
                /\ job' = Wrote(w)
      /\ UNCHANGED <<version, read>>

(* Slip: the user states of the articles are set to their defaults again.  *)
PersistResetting(w) ==
  LET j == job[w]
  IN  /\ j.step = "resolving" /\ j.rest = <<>>
      /\ UrlIsFree(j.feed, j.tag[1])
      /\ feeds' = Checked(j.feed, j.tag)
      /\ articles' = {a \in articles : \A row \in Found(w) : row.id # a.id} \cup Found(w)
      /\ read' = read \ {row.id : row \in Found(w)}
      /\ job' = [job EXCEPT ![w] = Idle]
      /\ UNCHANGED version

(* persist_feed_graph: one transaction.                                    *)
Persist(w) ==
  LET j == job[w]
  IN  /\ j.step = "resolving" /\ j.rest = <<>>
      /\ UrlIsFree(j.feed, j.tag[1])
      /\ feeds' = Checked(j.feed, j.tag)
      /\ articles' = {a \in articles : \A row \in Found(w) : row.id # a.id} \cup Found(w)
      /\ job' = Wrote(w)
      /\ UNCHANGED <<version, read>>

-------------------------------------------------------------------------------
(* record_not_modified and record_failure look for the URL asked for.      *)
ResolveUnmodified(w) ==
  /\ job[w].step = "unmodified"
  /\ \E f \in FeedsOf(w, job[w].url) :
       job' = [job EXCEPT ![w] = [Idle EXCEPT !.step = "checking", !.tag = job[w].tag, !.feed = f]]
  /\ UNCHANGED <<version, feeds, articles, read>>

RecordNotModified(w) ==
  /\ job[w].step = "checking"
  /\ UrlIsFree(job[w].feed, job[w].tag[1])
  /\ feeds' = Checked(job[w].feed, job[w].tag)
  /\ job' = [job EXCEPT ![w] = Idle]
  /\ UNCHANGED <<version, articles, read>>

(* record_feed_failed_check reads the counter and writes it in a statement *)
(* of its own.  A failure of a URL no feed has is not recorded: EndEarly.  *)
ReadFailures(w) ==
  /\ job[w].step = "failed"
  /\ \E f \in FeedsOf(w, job[w].url) :
       /\ feeds[f].failures < MaxFailures
       /\ job' = [job EXCEPT ![w] = [Idle EXCEPT !.step = "counting", !.feed = f,
                                                 !.error = job[w].error,
                                                 !.failures = feeds[f].failures]]
  /\ UNCHANGED <<version, feeds, articles, read>>

HealthOf(kind, failures) ==
  IF kind = "permission" \/ failures >= 3 THEN "error" ELSE "degraded"

(* Slip: the health is that of the row, not that of the counter written.   *)
RecordFailureByRow(w) ==
  LET j == job[w]
  IN  /\ j.step = "counting"
      /\ feeds' = [feeds EXCEPT ![j.feed] =
           [@ EXCEPT !.health = HealthOf(j.error, feeds[j.feed].failures + 1),
                     !.error = j.error, !.failures = j.failures + 1]]
      /\ job' = [job EXCEPT ![w] = Idle]
      /\ UNCHANGED <<version, articles, read>>

RecordFailure(w) ==
  LET j == job[w]
  IN  /\ j.step = "counting"
      /\ feeds' = [feeds EXCEPT ![j.feed] =
           [@ EXCEPT !.health = HealthOf(j.error, j.failures + 1), !.error = j.error,
                     !.failures = j.failures + 1]]
      /\ job' = [job EXCEPT ![w] = Idle]
      /\ UNCHANGED <<version, articles, read>>

FetchNext ==
  \/ \E u \in Urls : Publish(u)
  \/ \E a \in articles : OpenArticle(a)
  \/ \E w \in Workers :
       \/ Begin(w) \/ EndEarly(w)
       \/ \E final \in Urls : Answer(w, final)
       \/ \E kind \in ErrorKinds : Fail(w, kind)
       \/ ResolveFeed(w) \/ ResolveEntry(w) \/ Persist(w)
       \/ ResolveUnmodified(w) \/ RecordNotModified(w)
       \/ ReadFailures(w) \/ RecordFailure(w)

FetchSpec == FetchInit /\ [][FetchNext]_fetchVars

-------------------------------------------------------------------------------
Ids  == Urls \X {Kinds[k] : k \in 1 .. 5} \X Values
Rows == [id : Ids, feed : Urls, item : Items, guid : Values \cup {None},
         canonical : Values \cup {None}, original : Values \cup {None},
         stamp : Values \cup {None}, hash : Values \cup {None}]

FetchTypeOK ==
  /\ version \in [Urls -> Nat]
  /\ \A f \in Urls : /\ feeds[f].url \in Urls \cup {NoId}
                     /\ feeds[f].tag \in Tag \cup {NoTag}
                     /\ feeds[f].failures \in 0 .. MaxFailures
  /\ articles \subseteq Rows
  /\ \A a, b \in articles : a.id = b.id => a = b
  /\ \A a \in articles : a.feed \in Known
  /\ read \subseteq {a.id : a \in articles}
  /\ \A w \in Workers : Found(w) \subseteq Rows

Content(tag) == {Document[tag[1]][tag[2]][i] : i \in DOMAIN Document[tag[1]][tag[2]]}

(* While a feed has the ETag of a version, later answers may be 304: then  *)
(* all articles of that version must have been stored, whatever overlapped,*)
(* failed, was redirected or came late (persist, record_not_modified), as  *)
(* long as a conditional request names its feed: the 304 of one that does  *)
(* not is recorded on the feed that has the URL by then.                   *)
TagTellsContent ==
  \A f \in Known : \A e \in Content(feeds[f].tag) :
    \E a \in articles : a.feed = f /\ a.item = e.item

(* The row of an article stays its row, and what the user has read stays   *)
(* read, however its identifying values change or are shared by mirrors.   *)
RowsKeepTheirArticle ==
  [][/\ \A a \in articles : \E b \in articles' : b.id = a.id /\ b.item = a.item
     /\ read \subseteq read']_fetchVars

(* A run during which no other run wrote never adds a second row for an    *)
(* article its feed has: the lookups and the index of the document's own   *)
(* entries find every change of its identifying values.                    *)
NoSecondRow ==
  [][\A w \in Workers : Persist(w) /\ ~job[w].stale =>
       \A row, other \in articles' :
         row.feed = other.feed /\ row.item = other.item /\ row # other
           => {row.id, other.id} \subseteq {a.id : a \in articles}]_fetchVars

(* The entries of all documents, those for an item, and the items for      *)
(* which their first identifying value is the same in all of them.         *)
AllEntries == UNION {UNION {Content(<<u, v>>) : v \in DOMAIN Document[u]} : u \in Urls}
Entries(item) == {e \in AllEntries : e.item = item}
StableItems ==
  {item \in Items : \A d, e \in Entries(item) :
     FirstKind(d) = FirstKind(e) /\ d[FirstKind(d)] = e[FirstKind(e)]}

(* Overlapping runs that both take an article for a new one make one row   *)
(* of it, as long as its first identifying value stays: the id is derived. *)
OverlappingRunsAgree ==
  \A a, b \in articles :
    a.feed = b.feed /\ a.item = b.item /\ a.item \in StableItems => a = b

(* The health, the last error and the counter of a feed agree, though the  *)
(* counter is read in a statement of its own and other runs write the row  *)
(* in between.                                                             *)
HealthIsConsistent ==
  \A f \in Known :
    /\ feeds[f].health = "healthy" <=> feeds[f].failures = 0
    /\ feeds[f].health = "healthy" <=> feeds[f].error = "none"
    /\ feeds[f].failures >= 3 => feeds[f].health = "error"
    /\ feeds[f].health = "error" => feeds[f].failures >= 3 \/ feeds[f].error = "permission"

(* Deduplication "never removes distinct articles by mistake"              *)
(* (memory-bank/implementation-plan.md:146): every entry of the version a  *)
(* feed was last fetched in has a row with its guid.  The code compares    *)
(* the content last, whatever the entry's own guid and URL are.            *)
DistinctArticlesKept ==
  \A f \in Known : \A e \in Content(feeds[f].tag) :
    e.guid # None => \E a \in articles : a.feed = f /\ a.guid = e.guid
===============================================================================
