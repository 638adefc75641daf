----------------------------- MODULE FeedPipeline -----------------------------
(***************************************************************************)
(* crates/feed-engine, one fetch of one feed from request to stored        *)
(* articles: the attempts of the transport, the parsers of the formats and *)
(* the normaliser.  FeedFetch says what becomes of fetches that overlap.   *)
(* The feeds a page of HTML offers are left out, and of an article its     *)
(* author, language and thumbnail, which nothing goes by.                  *)
(*                                                                         *)
(* A text is a value, Missing or OnlySpace; markup stands for its text.    *)
(* The server is external: it answers with the page it serves, and with a  *)
(* 304 only if the validators it is sent are those of that page.           *)
(***************************************************************************)
EXTENDS Integers, Sequences, FiniteSets

CONSTANTS
  Pages,        \* what the server may serve, by what the program reads of it
  MaxAttempts,  \* max_attempts, which with_max_attempts keeps from being 0
  Missing, OnlySpace,
  Moments,      \* Moments[s]: the second named by s, a date of either format
  Meanings      \* Meanings[m]: the articles that a page that means m tells of

ASSUME AttemptsAssumption == MaxAttempts \in Nat \ {0}
(* Validators tell the pages apart.                                        *)
ASSUME ValidatorAssumption ==
  /\ Missing \notin Pages
  /\ \A p, q \in Pages : \/ p = q
                         \/ /\ p.etag # q.etag \/ p.etag = Missing
                            /\ p.last_modified # q.last_modified \/ p.last_modified = Missing

VARIABLES
  served,   \* the page the server has
  sent,     \* the validators of the request under way
  answers,  \* the answers to its attempts, or to those of the last request
  outcome,  \* what the last request ended with
  kept      \* the validators and the articles of the feed

pipeVars == <<served, sent, answers, outcome, kept>>

Text(value)   == IF value = OnlySpace THEN Missing ELSE value
Moment(value) == IF value \in DOMAIN Moments THEN Moments[value] ELSE Missing

FirstOf(s) ==
  IF \A i \in DOMAIN s : s[i] = Missing THEN Missing
  ELSE s[CHOOSE i \in DOMAIN s : s[i] # Missing /\ \A j \in 1 .. i - 1 : s[j] = Missing]

Texts(s) == [i \in DOMAIN s |-> Text(s[i])]

-------------------------------------------------------------------------------
(* The parsers.  Each gives an article the same fields.                    *)
AttachmentType(mime, medium) ==
  IF medium \in {"image", "audio", "video"} THEN medium
  ELSE IF mime \in {"image", "audio", "video"} THEN mime ELSE "file"

NewAttachment(mime, medium, url) == [type |-> AttachmentType(mime, medium), url |-> url]

(* Where files have an address, and those that do, each at its rank.       *)
Addressed(files) == {i \in 1 .. Len(files) : files[i].url # Missing}
WithUrl(files) ==
  LET Rank(i) == Cardinality({j \in Addressed(files) : j <= i})
  IN  [k \in 1 .. Cardinality(Addressed(files)) |->
         files[CHOOSE i \in Addressed(files) : Rank(i) = k]]

RssFiles(item) ==
  <<NewAttachment(item.enclosure.mime, Missing, Text(item.enclosure.url))>>
    \o [i \in DOMAIN item.media |->
          NewAttachment(item.media[i].mime, item.media[i].medium, Text(item.media[i].url))]

RssItem(item) ==
  [guid |-> Text(item.guid), title |-> Text(item.title), summary |-> Text(item.description),
   raw |-> Text(item.encoded), extracted |-> Missing,
   canonical |-> Text(item.link), original |-> Text(item.link),
   published |-> Moment(item.pubDate), attachments |-> WithUrl(RssFiles(item))]

Rel(link) == IF Text(link.rel) = Missing THEN "alternate" ELSE link.rel

(* Slip: the first link is the article's.                                  *)
FirstLink(links, rel) == FirstOf([i \in DOMAIN links |-> Text(links[i].href)])

(* The first link with the relation, with or without an address, else the  *)
(* first with an address.                                                  *)
SelectLink(links, rel) ==
  LET fits == {i \in DOMAIN links : Rel(links[i]) = rel}
  IN  IF fits = {} THEN FirstOf([i \in DOMAIN links |-> Text(links[i].href)])
      ELSE Text(links[CHOOSE i \in fits : \A j \in fits : i <= j].href)

AtomFiles(links) ==
  [i \in DOMAIN links |->
     NewAttachment(links[i].mime, Missing,
                   IF Rel(links[i]) = "enclosure" THEN Text(links[i].href) ELSE Missing)]

AtomEntry(entry) ==
  [guid |-> Text(entry.id), title |-> Text(entry.title), summary |-> Text(entry.summary),
   raw |-> Text(entry.content), extracted |-> Missing,
   canonical |-> SelectLink(entry.links, "alternate"),
   original |-> SelectLink(entry.links, "alternate"),
   published |-> Moment(FirstOf(Texts(<<entry.published, entry.updated>>))),
   attachments |-> WithUrl(AtomFiles(entry.links))]

JsonFiles(item) ==
  [i \in DOMAIN item.attachments |->
     NewAttachment(item.attachments[i].mime, Missing, Text(item.attachments[i].url))]

(* Here a member that is blank is there, where another may stand in for    *)
(* one that is not.                                                        *)
JsonItem(item) ==
  [guid |-> FirstOf(Texts(<<item.id, item.url, item.external_url>>)),
   title |-> Text(item.title), summary |-> Text(item.summary),
   raw |-> Text(FirstOf(<<item.content_html, item.content_text>>)),
   extracted |-> Text(item.content_text), canonical |-> Text(item.url),
   original |-> Text(FirstOf(<<item.external_url, item.url>>)),
   published |-> Moment(FirstOf(<<item.date_published, item.date_modified>>)),
   attachments |-> WithUrl(JsonFiles(item))]

ParseItem(page, item) ==
  CASE page.root = "rss"  -> RssItem(item)
    [] page.root = "feed" -> AtomEntry(item)
    [] page.root = "json" -> JsonItem(item)

ArticleTitle(article) ==
  FirstOf(<<article.title, article.canonical, article.original, "Untitled article">>)

ContentHash(article) == FirstOf(<<article.extracted, article.raw, article.summary>>)

(* normalize_article, and the hash build_article adds.                     *)
NormalizeArticle(article) ==
  [f \in DOMAIN article \cup {"hash"} |->
     CASE f = "title" -> ArticleTitle(article)
       [] f = "hash"  -> ContentHash(article)
       [] OTHER       -> article[f]]

ReadArticles(page) ==
  [i \in DOMAIN page.items |-> NormalizeArticle(ParseItem(page, page.items[i]))]

-------------------------------------------------------------------------------
(* What a body is: start is what it starts with, hints the signatures in   *)
(* its first 256 characters, and root the kind of document it is when all  *)
(* of it is read, "json" for a JSON Feed of a known version and "rss" for  *)
(* one with a channel.                                                     *)
LooksLikeHtml(page)    == page.content_type = "html" \/ "html" \in page.hints
LooksLikeXmlFeed(page) == page.start = "<?xml" \/ "feed" \in page.hints
FallsBack(page) ==
  "html" \in page.hints /\ (page.start # "<?xml" \/ page.root = "html")

(* Slip: the content type is believed.                                     *)
ParsedAsDeclared(page) ==
  CASE page.start = "binary" -> "parse"
    [] page.start = ""       -> "empty"
    [] page.start = "{"      -> IF page.root = "json" THEN "feed" ELSE "parse"
    [] OTHER -> IF LooksLikeHtml(page) THEN "discovery"
                ELSE IF page.root \in {"rss", "feed"} THEN "feed" ELSE "parse"

(* DefaultFeedParser::parse.                                               *)
Parsed(page) ==
  CASE page.start = "binary" -> "parse"
    [] page.start = ""       -> "empty"
    [] page.start = "{"      -> IF page.root = "json" THEN "feed" ELSE "parse"
    [] OTHER -> IF LooksLikeHtml(page) /\ ~LooksLikeXmlFeed(page) THEN "discovery"
                ELSE IF page.root \in {"rss", "feed"} THEN "feed"
                ELSE IF FallsBack(page) THEN "discovery" ELSE "parse"

-------------------------------------------------------------------------------
(* What publishers write, of which nothing but the assumption is asked: a  *)
(* page that means a feed is a document of its kind, with its signature    *)
(* where it is looked for, and tells of the articles of its meaning in the *)
(* words of its format.                                                    *)
Recognisable(page) ==
  \/ page.root = "json" /\ page.start = "{"
  \/ /\ page.root \in {"rss", "feed"} /\ page.start \notin {"binary", "", "{"}
     /\ page.start = "<?xml" \/ "feed" \in page.hints

(* The files that have an address are those, in this order.                *)
Lists(written, files) ==
  /\ Len(written) \in Nat
  /\ files \in Seq({written[i] : i \in Addressed(written)})
  /\ \E places \in [1 .. Len(files) -> Addressed(written)] :
       /\ \A i, j \in 1 .. Len(files) : i < j => places[i] < places[j]
       /\ \A place \in Addressed(written) : \E i \in 1 .. Len(files) : places[i] = place
       /\ \A i \in 1 .. Len(files) : written[places[i]] = files[i]

(* Of the dates at least one is this one, and any other is not written.    *)
Dates(written, second) ==
  /\ \E s \in written : Moment(s) = second
  /\ \A s \in written : s = Missing \/ Moment(s) = second

RssTells(item, article) ==
  /\ Text(item.guid) = article.guid /\ Text(item.link) = article.link
  /\ Text(item.title) = article.title /\ Text(item.description) = article.summary
  /\ Text(item.encoded) = article.content /\ Dates({item.pubDate}, article.published)
  /\ Lists(RssFiles(item), article.files)

(* The alternate links are the article's, or, if there are none, all are.  *)
AtomTells(entry, article) ==
  LET alternates == {i \in DOMAIN entry.links : Rel(entry.links[i]) = "alternate"}
      hrefs      == {Text(entry.links[i].href) : i \in DOMAIN entry.links}
  IN  /\ entry.links \in Seq({entry.links[i] : i \in DOMAIN entry.links})
      /\ Text(entry.id) = article.guid
      /\ IF alternates # {} THEN \A i \in alternates : Text(entry.links[i].href) = article.link
         ELSE hrefs \cup {Missing} = {article.link, Missing}
      /\ Text(entry.title) = article.title /\ Text(entry.summary) = article.summary
      /\ Text(entry.content) = article.content
      /\ Dates({Text(entry.published), Text(entry.updated)}, article.published)
      /\ Lists(AtomFiles(entry.links), article.files)

(* The content is the text, or the HTML of an item without one.            *)
JsonTells(item, article) ==
  /\ Text(item.id) = article.guid /\ article.guid # Missing
  /\ Text(item.url) = article.link /\ item.external_url \in {Missing, item.url}
  /\ Text(item.title) = article.title /\ Text(item.summary) = article.summary
  /\ article.content = IF Text(item.content_text) # Missing THEN Text(item.content_text)
                       ELSE Text(item.content_html)
  /\ Dates({item.date_published, item.date_modified}, article.published)
  /\ Lists(JsonFiles(item), article.files)

Tells(page, item, article) ==
  \/ page.root = "rss"  /\ RssTells(item, article)
  \/ page.root = "feed" /\ AtomTells(item, article)
  \/ page.root = "json" /\ JsonTells(item, article)

ASSUME MeaningAssumption ==
  \A page \in Pages :
    page.means # Missing =>
      /\ Recognisable(page)
      /\ DOMAIN page.items = DOMAIN Meanings[page.means]
      /\ \A i \in DOMAIN page.items : Tells(page, page.items[i], Meanings[page.means][i])

(* What is not there, and what is blank, is no date.                       *)
ASSUME MomentAssumption == Missing \notin DOMAIN Moments /\ OnlySpace \notin DOMAIN Moments

-------------------------------------------------------------------------------
NoRequest  == [etag |-> Missing, last_modified |-> Missing, open |-> FALSE]
NothingYet == [etag |-> Missing, last_modified |-> Missing, page |-> Missing, articles |-> <<>>]

(* The status is that of a response, 0 of an error that may be retried and *)
(* 1 of one that may not.                                                  *)
Answered(status, page) ==
  [status |-> status, etag |-> page.etag, last_modified |-> page.last_modified, page |-> page]
Bare(status) ==
  [status |-> status, etag |-> Missing, last_modified |-> Missing, page |-> Missing]

(* If-None-Match comes before If-Modified-Since.                           *)
Unmodified(page, validators) ==
  IF validators.etag # Missing THEN validators.etag = page.etag
  ELSE validators.last_modified # Missing /\ validators.last_modified = page.last_modified

PossibleAnswers ==
  {Bare(status) : status \in {0, 1, 403, 404, 429, 500}} \cup {Answered(200, served)}
  \cup IF Unmodified(served, sent) THEN {Bare(304), Answered(304, served)} ELSE {}

MayRetry(answer) == answer.status \in {0, 408, 429} \cup 500 .. 599

(* Slip: a status is retried on the last attempt too.                      *)
RetriesAnyway(all) == MayRetry(all[Len(all)])

Retries(all) == MayRetry(all[Len(all)]) /\ Len(all) < MaxAttempts

(* map_http_response, and what the parser makes of the body.               *)
OutcomeOf(answer) ==
  CASE answer.status = 304          -> "not modified"
    [] answer.status \in {401, 403} -> "permission"
    [] answer.status \in 200 .. 299 -> Parsed(answer.page)
    [] OTHER                        -> "network"

Or(a, b) == IF a # Missing THEN a ELSE b

(* Slip: what the answer lacks is taken from the request, as of a 304.     *)
KeptWithSent(answer) ==
  CASE OutcomeOf(answer) = "not modified" ->
         [kept EXCEPT !.etag = Or(answer.etag, sent.etag),
                      !.last_modified = Or(answer.last_modified, sent.last_modified)]
    [] OutcomeOf(answer) = "feed" ->
         [etag |-> Or(answer.etag, sent.etag),
          last_modified |-> Or(answer.last_modified, sent.last_modified),
          page |-> answer.page, articles |-> ReadArticles(answer.page)]
    [] OTHER -> kept

Kept(answer) ==
  CASE OutcomeOf(answer) = "not modified" ->
         [kept EXCEPT !.etag = Or(answer.etag, sent.etag),
                      !.last_modified = Or(answer.last_modified, sent.last_modified)]
    [] OutcomeOf(answer) = "feed" ->
         [etag |-> answer.etag, last_modified |-> answer.last_modified,
          page |-> answer.page, articles |-> ReadArticles(answer.page)]
    [] OTHER -> kept

PipeInit ==
  /\ served \in Pages
  /\ sent = NoRequest /\ answers = <<>>
  /\ outcome = Missing /\ kept = NothingYet

Serve(page) == served' = page /\ UNCHANGED <<sent, answers, outcome, kept>>

(* A feed is refreshed, or its address is given once more.                 *)
BeginFetch(validators) ==
  /\ ~sent.open
  /\ sent' = [etag |-> validators.etag, last_modified |-> validators.last_modified, open |-> TRUE]
  /\ answers' = <<>>
  /\ UNCHANGED <<served, outcome, kept>>

(* One turn of fetch_with_executor, and after the last one the rest of run.*)
TakeAnswer(answer) ==
  /\ sent.open
  /\ answers' = Append(answers, answer)
  /\ IF Retries(answers') THEN UNCHANGED <<sent, outcome, kept>>
     ELSE /\ sent' = NoRequest
          /\ outcome' = OutcomeOf(answer)
          /\ kept' = Kept(answer)
  /\ UNCHANGED served

PipeNext ==
  \/ \E page \in Pages : Serve(page)
  \/ \E validators \in {kept, NothingYet} : BeginFetch(validators)
  \/ \E answer \in PossibleAnswers : TakeAnswer(answer)

(* When nothing else of the application is at work.                        *)
PipeSpec == PipeInit /\ [][PipeNext]_pipeVars

-------------------------------------------------------------------------------
PipeTypeOK ==
  /\ served \in Pages
  /\ sent.open => answers \in Seq([status : Nat, etag : {p.etag : p \in Pages} \cup {Missing},
                                   last_modified : {p.last_modified : p \in Pages} \cup {Missing},
                                   page : Pages \cup {Missing}])
  /\ outcome \in {Missing, "feed", "discovery", "not modified", "permission", "network",
                  "parse", "empty"}
  /\ kept.page \in Pages \cup {Missing}

(* Attempts are bounded, only what may be retried is, and a request that   *)
(* ends with such an answer has used all its attempts and says so.         *)
AttemptsAreUsed ==
  /\ Len(answers) <= MaxAttempts
  /\ \A i \in 1 .. Len(answers) - 1 : MayRetry(answers[i])
  /\ ~sent.open /\ answers # <<>> /\ MayRetry(answers[Len(answers)])
       => Len(answers) = MaxAttempts /\ outcome = "network"

(* As long as the server would call what the feed's validators stand for   *)
(* unmodified, the feed holds the page served.                             *)
NothingIsMissed == Unmodified(served, kept) => kept.page = served

(* What an article is looked up by when its feed is fetched again.         *)
KnownBy(found) ==
  [i \in DOMAIN found |->
     [f \in {"guid", "canonical", "original", "title", "published", "hash", "attachments"} |->
        found[i][f]]]

(* A page that means a feed is read as one, whatever its content type, and *)
(* a feed that changes its format keeps what its articles are known by.    *)
FormatsAgree ==
  /\ ~sent.open /\ answers # <<>> =>
       LET last == answers[Len(answers)]
       IN  last.status = 200 /\ last.page.means # Missing => outcome = "feed"
  /\ kept.page # Missing =>
       \A page \in Pages : page.means # Missing /\ page.means = kept.page.means
                             => KnownBy(ReadArticles(page)) = KnownBy(kept.articles)

(* What a fetch ends with is what its answers say (fetch_with_executor,    *)
(* map_http_response, DefaultFeedParser::parse, normalize_article).        *)
FetchTellsAnswer == AttemptsAreUsed /\ NothingIsMissed /\ FormatsAgree
===============================================================================
