------------------------------ MODULE ArticleLists ------------------------------
(***************************************************************************)
(* What the desktop application and its local API show of the database:    *)
(* the lists of ArticleSearchStore (core-domain/sqlite), the reader queue  *)
(* (reader_queue.rs), and the feeds, lists and details of local_api.rs,    *)
(* each by an SQL query of its own.                                        *)
(*                                                                         *)
(* Each query is one read.  The dates of the articles are a parameter of   *)
(* the lists, the other texts are left out.                                *)
(***************************************************************************)
EXTENDS SearchIndex, Sequences, SequencesExt

CONSTANTS
  UserStates,     \* what the user may make of the state of an article
  Times,          \* the dates an article may have, numbers
  ApiRequests,    \* requests of the local API for a list
  DefaultLimit, MaxLimit

VARIABLE userState  \* the UserState rows

listVars == <<searchVars, userState>>

ReadFilters == {"all", "unread", "reading", "readLater", "starred"}

(* The columns of UserState, the progress in percent.                      *)
UserStateRow ==
  [read_state : {"unread", "reading", "read"}, starred : BOOLEAN, liked : BOOLEAN,
   importance : {"low", "normal", "high"}, read_later : BOOLEAN, reading_progress : 0 .. 100]

(* What the local API gives of one article.                                *)
ArticleDetail ==
  [feed_id : Feeds, feed_title : Words, title : Words, state : UserStateRow, tags : SUBSET Tags]

DefaultUserState ==
  [read_state |-> "unread", starred |-> FALSE, liked |-> FALSE,
   importance |-> "normal", read_later |-> FALSE, reading_progress |-> 0]

ASSUME ListAssumption ==
  /\ UserStates \subseteq UserStateRow
  /\ NoRow \notin UserStateRow \cup ArticleDetail \cup Times \cup Articles
  /\ IsFiniteSet(Articles) /\ "" \notin Feeds
  /\ Times \subseteq Int
  /\ DefaultLimit \in Nat /\ MaxLimit \in Nat \ {0}
  /\ \A r \in ApiRequests :
       /\ DOMAIN r = {"q", "feedId", "feedIds", "status", "sort", "limit"}
       /\ r.limit \in Int \cup {NoRow}

-------------------------------------------------------------------------------
ListsInit == SearchInit /\ userState = [a \in Articles |-> NoRow]

(* ensure_default_user_state of each article there now is, in the          *)
(* transaction that writes it; the row of one that is deleted cascades.    *)
EnsureDefaultUserState ==
  userState' = [a \in Articles |-> IF article'[a] = NoRow THEN NoRow
                                   ELSE IF userState[a] = NoRow THEN DefaultUserState
                                   ELSE userState[a]]

(* upsert_user_state                                                       *)
SaveUserState(a, state) ==
  /\ article[a] # NoRow
  /\ userState' = [userState EXCEPT ![a] = state]
  /\ UNCHANGED searchVars

ListsNext ==
  \/ SearchNext /\ EnsureDefaultUserState
  \/ \E a \in Articles, state \in UserStates : SaveUserState(a, state)

(* When nothing else of the application is at work.                        *)
ListsSpec == ListsInit /\ [][ListsNext]_listVars

ListsTypeOK ==
  /\ SearchTypeOK
  /\ userState \in [Articles -> UserStates \cup {DefaultUserState, NoRow}]

-------------------------------------------------------------------------------
(* COALESCE(UserState.f, its default)                                      *)
UserStateOf(a) == IF userState[a] = NoRow THEN DefaultUserState ELSE userState[a]

Passes(state, read_filter) ==
  CASE read_filter = "all" -> TRUE
    [] read_filter \in {"unread", "reading"} -> state.read_state = read_filter
    [] read_filter = "readLater" -> state.read_later
    [] read_filter = "starred" -> state.starred

(* Slip: no date is where SQLite sorts NULL, before every date.            *)
PrecedesNullFirst(dates, sort, a, b) ==
  CASE dates[a] = NoRow -> sort = "oldest" /\ dates[b] # NoRow
    [] dates[b] = NoRow -> sort = "newest"
    [] OTHER -> IF sort = "newest" THEN dates[a] > dates[b] ELSE dates[a] < dates[b]

(* ORDER BY: no date is last in both orders.  Articles of one date are in  *)
(* the order of their titles, here in any.                                 *)
Precedes(dates, sort, a, b) ==
  /\ dates[a] # NoRow
  /\ \/ dates[b] = NoRow
     \/ sort = "newest" /\ dates[a] > dates[b]
     \/ sort = "oldest" /\ dates[a] < dates[b]

(* The articles of list_articles; without a query, the tables alone.       *)
Listed(query, feeds, read_filter) ==
  {a \in Articles :
     /\ article[a] # NoRow /\ feed[article[a].feed_id] # NoRow
     /\ query # NoRow => Matches(entry[a], query)
     /\ feeds = {} \/ article[a].feed_id \in feeds
     /\ Passes(UserStateOf(a), read_filter)}

(* list_articles: the sequences the query may return.                      *)
ListArticles(dates, query, feeds, read_filter, sort) ==
  {list \in SetToSeqs(Listed(query, feeds, read_filter)) :
     \A i, j \in DOMAIN list : i < j => ~Precedes(dates, sort, list[j], list[i])}

LoadArticleTagIds(a) == {p[2] : p \in {q \in attached : q[1] = a}}

DefaultReadingProgress(read_state) ==
  CASE read_state = "unread" -> 0 [] read_state = "reading" -> 50 [] read_state = "read" -> 100

(* The row of an article in a list: whether it is liked is not asked for,  *)
(* and the progress is made up from the read state.                        *)
ListItem(a) ==
  [feed_id |-> article[a].feed_id, feed_title |-> DisplayTitle(feed[article[a].feed_id]),
   title |-> article[a].text, tag_ids |-> LoadArticleTagIds(a),
   state |-> [UserStateOf(a) EXCEPT
                !.liked = FALSE,
                !.reading_progress = DefaultReadingProgress(UserStateOf(a).read_state)]]

(* load_reader_queue_articles_at: the whole list.                          *)
LoadReaderQueue(dates, query, feeds, status_filter, sort_mode) ==
  {[i \in DOMAIN list |-> ListItem(list[i])] :
     list \in ListArticles(dates, query, feeds, status_filter, sort_mode)}

-------------------------------------------------------------------------------
(* feed_ids_from_request: feedId as it is, the parts of feedIds that are   *)
(* not empty.                                                              *)
FeedIdsFromRequest(r) == r.feedId \cup (r.feedIds \ {""})

ReadFilterFromRequest(r) ==
  CASE r.status \in {"unread", "reading", "starred"} -> r.status
    [] r.status \in {"readLater", "read-later"} -> "readLater"
    [] OTHER -> "all"

SortFromRequest(r) == IF r.sort = "oldest" THEN "oldest" ELSE "newest"

(* NoRow: no limit, or not a number.  None is read of a negative one.      *)
LimitFromRequest(r) ==
  LET limit == IF r.limit = NoRow \/ r.limit < 0 THEN DefaultLimit ELSE r.limit
  IN  CASE limit < 1 -> 1 [] limit > MaxLimit -> MaxLimit [] OTHER -> limit

(* list_articles of the local API                                          *)
ApiListArticles(dates, r) ==
  {SubSeq(list, 1, IF Len(list) < LimitFromRequest(r) THEN Len(list) ELSE LimitFromRequest(r)) :
     list \in ListArticles(dates, r.q, FeedIdsFromRequest(r), ReadFilterFromRequest(r),
                           SortFromRequest(r))}

(* A row of list_feeds: the join gives a feed without articles one row of  *)
(* nothing, whose state counts as unread.                                  *)
ListFeed(f) ==
  LET rows == IF ArticlesOf(f) = {} THEN {NoRow} ELSE ArticlesOf(f)
  IN  [display_title |-> DisplayTitle(feed[f]),
       article_count |-> Cardinality(rows \ {NoRow}),
       unread_count  |-> Cardinality({a \in rows : a = NoRow \/ UserStateOf(a).read_state = "unread"})]

(* The tags that still have a row.                                         *)
LoadArticleTags(a) == {g \in Tags : tag[g] # NoRow /\ <<a, g>> \in attached}

GetArticleDetail(a) ==
  IF article[a] = NoRow \/ feed[article[a].feed_id] = NoRow THEN NoRow
  ELSE [feed_id |-> article[a].feed_id, feed_title |-> DisplayTitle(feed[article[a].feed_id]),
        title |-> article[a].text, state |-> UserStateOf(a),
        tags |-> LoadArticleTags(a)]

-------------------------------------------------------------------------------
(* A feed's counts are those of its lists.  For a feed without articles    *)
(* list_feeds counts one unread.                                           *)
CountsAreOfLists ==
  \A f \in Feeds : feed[f] # NoRow =>
    /\ ListFeed(f).article_count = Cardinality(Listed(NoRow, {f}, "all"))
    /\ ListFeed(f).article_count # 0 =>
         ListFeed(f).unread_count = Cardinality(Listed(NoRow, {f}, "unread"))

(* An article has details exactly when it is listed, and both say the same *)
(* of it, but for liked and the progress.                                  *)
DetailsAreOfLists ==
  \A a \in Articles :
    /\ GetArticleDetail(a) # NoRow <=> a \in Listed(NoRow, {}, "all")
    /\ GetArticleDetail(a) # NoRow =>
         LET detail == GetArticleDetail(a)
             item   == ListItem(a)
         IN  /\ <<detail.feed_id, detail.feed_title, detail.title, detail.tags>>
                  = <<item.feed_id, item.feed_title, item.title, item.tag_ids>>
             /\ \A f \in {"read_state", "starred", "importance", "read_later"} :
                  detail.state[f] = item.state[f]

(* What a search finds shows the word in what it lists.                    *)
FoundIsShown ==
  \A word \in Words, a \in Articles : a \in Listed(word, {}, "all") =>
    \/ word \in {ListItem(a).title, ListItem(a).feed_title}
    \/ \E g \in ListItem(a).tag_ids : tag[g].name = word

(* Whatever the dates, an article with a date is listed before those       *)
(* without, and the dated articles in both orders are each other's reverse.*)
OrdersAreReverse ==
  \A dates \in [Articles -> Times \cup {NoRow}] :
    LET Dated(list) == {i \in DOMAIN list : dates[list[i]] # NoRow}
        n == Cardinality({a \in Listed(NoRow, {}, "all") : dates[a] # NoRow})
    IN  \A newest \in ListArticles(dates, NoRow, {}, "all", "newest"),
           oldest \in ListArticles(dates, NoRow, {}, "all", "oldest") :
          /\ Dated(newest) = 1 .. n /\ Dated(oldest) = 1 .. n
          /\ \A i \in 1 .. n : dates[newest[i]] = dates[oldest[n + 1 - i]]

(* The details of article a are what a request asks for; they show tags of *)
(* a feed too, which are not searched.                                     *)
Fits(r, a) ==
  LET detail == GetArticleDetail(a)
  IN  /\ detail # NoRow
      /\ \/ r.feedId = {} /\ r.feedIds \subseteq {""}
         \/ detail.feed_id \in r.feedId \cup r.feedIds
      /\ r.status \in {"unread", "reading"} => detail.state.read_state = r.status
      /\ r.status = "starred" => detail.state.starred
      /\ r.status \in {"readLater", "read-later"} => detail.state.read_later
      /\ r.q # NoRow =>
           \/ r.q \in {detail.title, detail.feed_title}
           \/ \E g \in detail.tags : tag[g] = [name |-> r.q, scope |-> "article"]

(* The local API answers with articles whose details fit the request, each *)
(* once, and with fewer than the limit only if all are there; it answers   *)
(* with the head of a queue the reader may show for the same.              *)
ApiAnswersRequests ==
  \A r \in ApiRequests : \A answer \in ApiListArticles([a \in Articles |-> NoRow], r) :
    LET shown  == {answer[i] : i \in DOMAIN answer}
        queues == LoadReaderQueue([a \in Articles |-> NoRow], r.q, FeedIdsFromRequest(r),
                                  ReadFilterFromRequest(r), SortFromRequest(r))
    IN  /\ \E queue \in queues : IsPrefix([i \in DOMAIN answer |-> ListItem(answer[i])], queue)
        /\ \A a \in shown : Fits(r, a)
        /\ Cardinality(shown) = Len(answer)
        /\ Len(answer) < LimitFromRequest(r) => \A a \in Articles : Fits(r, a) => a \in shown

(* After any sequence of changes the queries that read the tables and the  *)
(* index, each with joins and defaults of its own, agree with one another. *)
ListsAgree ==
  /\ IndexIsSource /\ CountsAreOfLists /\ DetailsAreOfLists
  /\ FoundIsShown /\ OrdersAreReverse /\ ApiAnswersRequests
===============================================================================
