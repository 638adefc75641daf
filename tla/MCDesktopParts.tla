---------------------------- MODULE MCDesktopParts ----------------------------
(***************************************************************************)
(* A small instance of each of the DesktopParts.                           *)
(***************************************************************************)
EXTENDS DesktopParts

CONSTANT none

(* Two builds that agree on their first migration, as two branches do.     *)
MCBuilds == {<<"a", "b", "c">>, <<"a", "x">>}

(* What the user makes of one article, and requests with every parameter.  *)
MCUserStates ==
  {[read_state |-> "reading", starred |-> TRUE, liked |-> TRUE,
    importance |-> "high", read_later |-> TRUE, reading_progress |-> 20]}
ApiRequest(q, feedId, feedIds, status, sort, limit) ==
  [q |-> q, feedId |-> feedId, feedIds |-> feedIds, status |-> status, sort |-> sort, limit |-> limit]
MCApiRequests ==
  {ApiRequest(NoRow, {}, {""}, "unread", "oldest", 5),
   ApiRequest(NoRow, {CHOOSE f \in Feeds : TRUE}, {}, "read-later", "", NoRow),
   ApiRequest(NoRow, {}, {"", CHOOSE f \in Feeds : TRUE}, "starred", "newest", -1),
   ApiRequest(CHOOSE word \in Words : TRUE, {}, {}, "all", "newest", 2)}

(* Two calls may ask for the same, and for different things; a refresh     *)
(* changes a summary, or leaves a blank text, which hides the raw one.     *)
MCCommands == {"c1", "c2", "c3"}
Ask(operation, article_id) == [operation |-> operation, article_id |-> article_id]
MCAsks ==
  [c \in MCCommands |->
     CASE c = "c1" -> {Ask("insights", "a1"), Ask("search-result", "a1")}
       [] c = "c2" -> {Ask("insights", "a1"), Ask("full-article", "a2"), Ask("feed", "a1")}
       [] c = "c3" -> {Ask("article", "a1"), Ask("selection", "a1")}]
MCFeedOrder == <<"a1", "a2">>
MCAllowed   == <<"a2", "a1">>
Version(summary, extracted, raw) == [summary |-> summary, extracted |-> extracted, raw |-> raw]
MCRowVersions ==
  <<Version("first", none, "raw"), Version("second", "raw", "html"), Version(none, " ", "raw")>>
MCSelected == {"raw", none}

-------------------------------------------------------------------------------
(* "rustic" contains "rust", "Rust" is "rust" but for its case; every text *)
(* contains itself.                                                        *)
MCInside == {<<t, t>> : t \in {"rust", "Rust", "rustic", "read", "later", "Custom", "Title"}}
            \cup {<<"Rust", "rust">>, <<"rust", "Rust">>,
                  <<"rustic", "rust">>, <<"rustic", "Rust">>}

(* "day" is a date without a time, which only Date.parse reads; two of the *)
(* strings name the same instant.                                          *)
MCInstants       == [s \in {"00Z", "01+1", "02Z"} |-> IF s = "02Z" THEN 2 ELSE 0]
MCReaderInstants == [s \in {"00Z", "01+1", "02Z", "day"} |-> IF s = "02Z" THEN 2 ELSE 0]

Bool(b) == [bool |-> b]
List(l) == [list |-> l]
Obj(o)  == [object |-> o]

MCValues ==
  {Str("rust"), Str("read"), Str("read rust"), Str("00Z"), Str("day"), Bool(TRUE), [number |-> 1], List(<<>>),
   List(<<Str("rust")>>), List(<<Str("read"), Str("Rust")>>), List(<<Str("rust"), [number |-> 1]>>)}

Sample(title, author, summary, extracted, raw, language, published, fetched, state, tags, attachments) ==
  [title |-> title, author |-> author, summary |-> summary, content_extracted |-> extracted,
   content_raw |-> raw, language |-> language, published_at |-> published,
   fetched_at |-> fetched, feed_id |-> "rust",
   feed |-> [title |-> "read", custom_name |-> language, folder |-> none],
   state |-> state, tags |-> tags, attachments |-> attachments]

State(read_state, starred) ==
  [read_state |-> read_state, starred |-> starred, liked |-> starred,
   read_later |-> FALSE, importance |-> "high"]

MCSamples ==
  {Sample("Rust", none, "rust", none, none, none, none, "00Z", none, {}, <<>>),
   Sample("rust", "rust", "rust", "read", "rust", "rust", "02Z", "02Z", none, {}, <<>>),
   Sample("rustic", "rust", none, "rust", "rust", "rust", "01+1", "02Z",
          State("read", TRUE), {"rust"}, <<"a">>),
   Sample("read", "Rust", "read", "Rust", "read", "read", "02Z", "01+1",
          State("reading", FALSE), {"rust", "read"}, <<>>),
   Sample("read", "read", "rustic", none, none, "00Z", "00Z", "00Z",
          State("unread", TRUE), {"read"}, <<"a">>)}

(* "read rust" is in no text, but in "read" and the next one or a tag.     *)
BeginsWithRust == {"rust", "Rust", "rustic"}
MCAcross ==
  {<<texts, tags, "read rust">> : <<texts, tags>> \in
     {join \in {<<AnyText(c), {}>> : c \in MCSamples} \cup
               {<<ReaderAnyText(c), c.tags>> : c \in MCSamples} :
        LET places == DOMAIN join[1]
            Next(i) == {k \in places : k > i /\ ~\E j \in places : i < j /\ j < k}
        IN  \E i \in places : /\ join[1][i] = "read"
                              /\ \/ \E k \in Next(i) : join[1][k] \in BeginsWithRust
                                 \/ Next(i) = {} /\ "rust" \in join[2]}}

-------------------------------------------------------------------------------
MCTrim == [s \in {" rust", "rust", " "} |-> IF s = " " THEN " " ELSE "rust"]

UnreadAndNotLater ==
  Definition(Group("all", <<Predicate("readState", "neq", Str("read")),
                            Not(Predicate("tag", "in", List(<<Str("later")>>)))>>))
Named     == Definition(Predicate("feedTitle", "eq", Str("Custom")))
InContent == Definition(Predicate("content", "notContains", Str("rust")))

Mark == Obj([readState |-> Str("read"), starred |-> Bool(TRUE),
             tagNames |-> List(<<Str(" rust"), Str("rust")>>),
             clearCachedAttachments |-> Bool(TRUE)])
Move   == Obj([moveToFolderId |-> Str("f1"), importance |-> Str("high")])
ToRoot == Obj([moveToFolderId |-> [null |-> TRUE], readLater |-> Bool(FALSE)])
Noop   == Obj([type |-> Str("noop")])
(* Actions that are not accepted.                                          *)
Wrong  == {Obj([type |-> Str("noop"), starred |-> Bool(TRUE)]), Obj([tagNames |-> List(<<Str(" ")>>)]),
           Obj([clearCachedAttachments |-> Bool(FALSE)]), Obj([starred |-> Str("x")]),
           Obj([moveToFolderId |-> [number |-> 42]])}

Rule(conditions, actions) == [enabled |-> TRUE, conditions |-> conditions, actions |-> actions]

MCRules ==
  {Rule(UnreadAndNotLater, Mark), Rule(Named, Move), Rule(InContent, ToRoot),
   Rule(UnreadAndNotLater, Noop), Rule(Definition(Group("all", <<>>)), Mark)}
  \cup {Rule(UnreadAndNotLater, actions) : actions \in Wrong}

Subject(state, tags, source, extracted, attachments) ==
  [title |-> "Title", author |-> none, summary |-> none, content_extracted |-> extracted,
   content_raw |-> none, language |-> none, published_at |-> none, fetched_at |-> "00Z",
   feed_id |-> "f", feed |-> source, state |-> state, tags |-> tags, attachments |-> attachments]

From(custom_name, folder) == [title |-> "Title", custom_name |-> custom_name, folder |-> folder]
Attachment(path) == [id |-> "a1", path |-> path]

(* The feed of one is not known to the program that evaluates the rule.    *)
MCFirstArticles ==
  {Subject(none, {}, From("Custom", "f2"), none, <<Attachment("cached")>>),
   Subject(State("unread", TRUE), {"rust"}, From(none, "f1"), "rust", <<Attachment(none)>>),
   Subject(none, {"later"}, none, none, <<>>),
   Subject(none, {}, From("Custom", "root"), "rust", <<>>)}

-------------------------------------------------------------------------------
(* Two entries of the first article and two of the second, of two feeds,   *)
(* one with a date that does not parse; a budget that holds all and one    *)
(* that does not.                                                          *)
InCache(id, articleId, feedId, attachmentId, bytes, date) ==
  [id |-> id, articleId |-> articleId, feedId |-> feedId, attachmentId |-> attachmentId,
   kind |-> IF attachmentId = none THEN "content" ELSE "attachment",
   bytes |-> bytes, lastAccessedAt |-> date]
MCInventory ==
  <<InCache("e1", "r1", "s1", none, 2, 3), InCache("e2", "r1", "s1", "t1", 1, 2),
    InCache("e3", "r2", "s2", none, 1, none), InCache("e4", "r2", "s2", "t2", 3, 2)>>
MCCacheBudgets == {2, 7}
MCPolicyEdits ==
  ({"s1"} \X {"metadata-only", "content", "content-and-attachments"}) \cup {<<"s2", "content">>}
MCStateEdits ==
  {<<"r1", [starred |-> TRUE]>>, <<"r1", [starred |-> FALSE, readState |-> "reading"]>>,
   <<"r2", [readingProgress |-> 120]>>, <<"r2", [readState |-> "unread", readLater |-> FALSE]>>}
MCNotes ==
  {<<"r1", [type |-> "highlight", note |-> FALSE]>>, <<"r2", [type |-> "highlight", note |-> TRUE]>>,
   <<"r2", [type |-> "note", note |-> FALSE]>>}
MCBatchInputs ==
  {[action |-> "mark-read", articleIds |-> {"r1", "r2"}],
   [action |-> "add-read-later", articleIds |-> {"r2"}],
   [action |-> "add-tag", articleIds |-> {"r1"}, tagId |-> "g"],
   [action |-> "add-tag", articleIds |-> {"r2"}, tagId |-> "feed tag"],
   [action |-> "delete-cache", articleIds |-> {"r1"}],
   [action |-> "delete-cache", articleIds |-> {"r1", "gone"}]}

-------------------------------------------------------------------------------
(* Two articles in three formats: the first has all there is, the second   *)
(* little; in Atom another link comes before the article's own.            *)
Media(mime, url) == [mime |-> mime, medium |-> none, url |-> url]
RssEntry(id, link, title, description, date, enclosed) ==
  [guid |-> id, link |-> link, title |-> title, description |-> description, encoded |-> none,
   pubDate |-> date, enclosure |-> enclosed, media |-> <<>>]
Link(rel, mime, href) == [rel |-> rel, mime |-> mime, href |-> href]
InAtom(id, title, summary, published, updated, links) ==
  [id |-> id, links |-> links, title |-> title, summary |-> summary, content |-> none,
   published |-> published, updated |-> updated]
InJson(id, url, external_url, title, summary, published, modified, attachments) ==
  [id |-> id, url |-> url, external_url |-> external_url, title |-> title, summary |-> summary,
   content_html |-> none, content_text |-> none, date_published |-> published,
   date_modified |-> modified, attachments |-> attachments]

Page(etag, last_modified, type, start, hints, kind, means, items) ==
  [etag |-> etag, last_modified |-> last_modified, content_type |-> type, start |-> start,
   hints |-> hints, root |-> kind, means |-> means, items |-> items]
NoFile == Media(none, none)

MCMoments == [s \in {"Mon, 1 GMT", "1Z"} |-> 1]

Told(guid, link, title, summary, published, files) ==
  [guid |-> guid, link |-> link, title |-> title, summary |-> summary, content |-> none,
   published |-> published, files |-> files]
MCMeanings ==
  [m \in {"news"} |-> <<Told("i1", "u1", "One", "about", 1, <<[type |-> "audio", url |-> "file"]>>),
                        Told("i2", "u2", none, none, none, <<>>)>>]

MCPages ==
  {Page("t1", none, "html", "<?xml", {"feed"}, "rss", "news",
        <<RssEntry("i1", "u1", "One", "about", "Mon, 1 GMT", Media("audio", "file")),
          RssEntry("i2", "u2", " ", none, "soon", NoFile)>>),
   Page("t2", 1, "html", "<", {"feed", "html"}, "feed", "news",
        <<InAtom("i1", "One", "about", " ", "1Z",
                 <<Link("self", none, "s1"), Link("enclosure", "audio", "file"), Link(none, none, "u1")>>),
          InAtom("i2", none, " ", none, none, <<Link("self", none, "u2")>>)>>),
   Page(none, 2, none, "{", {}, "json", "news",
        <<InJson("i1", "u1", none, "One", "about", none, "1Z", <<Media("audio", "file"), NoFile>>),
          InJson("i2", "u2", none, " ", none, none, none, <<>>)>>),
   Page("t3", none, "html", "<", {"html"}, "html", none, <<>>),
   Page(none, none, "html", "<?xml", {"html"}, "html", none, <<>>),
   Page(none, 3, "text", "<", {"html"}, none, none, <<>>),
   Page(none, none, none, "", {}, none, none, <<>>),
   Page("t4", 4, "html", "{", {"html"}, none, none, <<>>),
   Page("t5", none, "rss", "<?xml", {"html"}, none, none, <<>>),
   Page(none, none, "rss", "binary", {}, none, none, <<>>)}

-------------------------------------------------------------------------------
Request(method, path) == [kind |-> "request", method |-> method, path |-> path]
Bearer(token)         == [kind |-> "authorization", token |-> token]
End                   == [kind |-> "end"]

(* A complete request, one that stops after a line, and a bad one.         *)
MCRequests ==
  {<<Request("GET", "/articles/id"), Bearer("old"), Bearer("token"), End>>,
   <<Bearer("token")>>, <<Request("GET", "/search"), Bearer("token"), End>>}
===============================================================================
