------------------------------ MODULE SearchIndex ------------------------------
(***************************************************************************)
(* The full-text index of the local database: the view ArticleSearchSource *)
(* says what should be found, and the triggers of                          *)
(* migrations/004_article_search_fts.sql keep the table ArticleSearch up   *)
(* to date with it, row by row, from changes of four tables.               *)
(*                                                                         *)
(* A statement and the triggers it fires are one step; a text is the set   *)
(* of its words.                                                           *)
(***************************************************************************)
EXTENDS Integers, FiniteSets

CONSTANTS
  Articles, Feeds, Tags, NoRow,
  Words,       \* what there is to search for
  CustomNames  \* what the user may call a feed

VARIABLES
  article,   \* the Article rows
  feed,      \* the Feed rows
  tag,       \* the Tag rows
  attached,  \* the ArticleTag rows
  entry      \* the rows of ArticleSearch

searchVars == <<article, feed, tag, attached, entry>>

ArticleRow == [feed_id : Feeds, text : Words]
FeedRow    == [title : Words, custom_name : CustomNames \cup {NoRow}]
TagRow     == [name : Words, scope : {"article", "feed"}]
Entry      == [feed_id : Feeds, text : Words, feed_title : Words, tag_names : SUBSET Words]

ASSUME SearchAssumption ==
  /\ CustomNames \subseteq Words
  /\ NoRow \notin ArticleRow \cup FeedRow \cup TagRow \cup Entry \cup Words

(* Slip: a feed is shown under its custom name, though it has none.        *)
CustomName(row) == row.custom_name

(* COALESCE(Feed.custom_name, Feed.title)                                  *)
DisplayTitle(row) == IF row.custom_name # NoRow THEN row.custom_name ELSE row.title

(* The row of ArticleSearchSource for article a, if it has one.            *)
Source(a) ==
  IF article[a] = NoRow \/ feed[article[a].feed_id] = NoRow THEN NoRow
  ELSE [feed_id    |-> article[a].feed_id,
        text       |-> article[a].text,
        feed_title |-> DisplayTitle(feed[article[a].feed_id]),
        tag_names  |-> {tag[g].name : g \in {h \in Tags : /\ <<a, h>> \in attached
                                                          /\ tag[h] # NoRow
                                                          /\ tag[h].scope = "article"}}]

(* What a trigger does with some articles: their rows are deleted and what *)
(* the view now says is inserted.                                          *)
Reindex(articles) ==
  entry' = [a \in Articles |-> IF a \in articles THEN Source(a)' ELSE entry[a]]

SearchInit ==
  /\ article = [a \in Articles |-> NoRow]
  /\ feed = [f \in Feeds |-> NoRow]
  /\ tag = [g \in Tags |-> NoRow]
  /\ attached = {}
  /\ entry = [a \in Articles |-> NoRow]

(* upsert_article: an article stays in its feed; the foreign key holds.    *)
Upserted(a, row) ==
  IF article[a] = NoRow THEN row ELSE [row EXCEPT !.feed_id = article[a].feed_id]

(* article_search_after_article_insert, _update                            *)
UpsertArticle(a, row) ==
  /\ feed[row.feed_id] # NoRow
  /\ article' = [article EXCEPT ![a] = Upserted(a, row)]
  /\ UNCHANGED <<feed, tag, attached>>
  /\ Reindex({a})

(* article_search_after_article_delete: the ArticleTag rows cascade, and   *)
(* their trigger finds neither the article nor its row.                    *)
DeleteArticle(a) ==
  /\ article[a] # NoRow
  /\ article' = [article EXCEPT ![a] = NoRow]
  /\ attached' = {p \in attached : p[1] # a}
  /\ entry' = [entry EXCEPT ![a] = NoRow]
  /\ UNCHANGED <<feed, tag>>

ArticlesOf(f) == {a \in Articles : article[a] # NoRow /\ article[a].feed_id = f}
TaggedWith(g) == {a \in Articles : <<a, g>> \in attached}

(* article_search_after_feed_label_update, of title or custom_name.        *)
Relabel(f, row) ==
  /\ feed' = [feed EXCEPT ![f] = row]
  /\ UNCHANGED <<article, tag, attached>>
  /\ IF feed[f] = NoRow THEN UNCHANGED entry ELSE Reindex(ArticlesOf(f))

(* upsert_feed: a feed that is fetched again keeps the name it was given.  *)
UpsertFeed(f, row) ==
  Relabel(f, IF feed[f] = NoRow THEN row ELSE [row EXCEPT !.custom_name = feed[f].custom_name])

RenameFeed(f, name) == feed[f] # NoRow /\ Relabel(f, [feed[f] EXCEPT !.custom_name = name])

(* The feed's articles, and their tags, cascade.                           *)
DeleteFeed(f) ==
  /\ feed[f] # NoRow
  /\ feed' = [feed EXCEPT ![f] = NoRow]
  /\ article' = [a \in Articles |-> IF a \in ArticlesOf(f) THEN NoRow ELSE article[a]]
  /\ attached' = {p \in attached : p[1] \notin ArticlesOf(f)}
  /\ entry' = [a \in Articles |-> IF a \in ArticlesOf(f) THEN NoRow ELSE entry[a]]
  /\ UNCHANGED tag

(* article_search_after_article_tag_insert                                 *)
AttachTag(a, g) ==
  /\ article[a] # NoRow /\ tag[g] # NoRow /\ <<a, g>> \notin attached
  /\ attached' = attached \cup {<<a, g>>}
  /\ UNCHANGED <<article, feed, tag>>
  /\ Reindex({a})

(* article_search_after_article_tag_delete                                 *)
DetachTag(a, g) ==
  /\ <<a, g>> \in attached
  /\ attached' = attached \ {<<a, g>>}
  /\ UNCHANGED <<article, feed, tag>>
  /\ Reindex({a})

(* article_search_after_article_tag_update: a row goes to another article. *)
MoveTag(a, b, g) ==
  /\ <<a, g>> \in attached /\ <<b, g>> \notin attached
  /\ article[b] # NoRow
  /\ attached' = (attached \ {<<a, g>>}) \cup {<<b, g>>}
  /\ UNCHANGED <<article, feed, tag>>
  /\ Reindex({a, b})

(* Slip: the trigger is for tags that are an article's tags afterwards.    *)
ConcernsNewScope(old, new) == new.scope = "article"

(* WHEN OLD.scope = 'article' OR NEW.scope = 'article'                     *)
ConcernsSearch(old, new) == old.scope = "article" \/ new.scope = "article"

(* article_search_after_article_tag_scope_update, of name or scope.        *)
SaveTag(g, row) ==
  /\ tag' = [tag EXCEPT ![g] = row]
  /\ UNCHANGED <<article, feed, attached>>
  /\ IF tag[g] # NoRow /\ ConcernsSearch(tag[g], row)
       THEN Reindex(TaggedWith(g))
       ELSE UNCHANGED entry

(* The ArticleTag rows cascade, and fire their trigger.                    *)
DeleteTag(g) ==
  /\ tag[g] # NoRow
  /\ tag' = [tag EXCEPT ![g] = NoRow]
  /\ attached' = {p \in attached : p[2] # g}
  /\ UNCHANGED <<article, feed>>
  /\ Reindex(TaggedWith(g))

SearchNext ==
  \/ \E a \in Articles : \/ \E row \in ArticleRow : UpsertArticle(a, row)
                         \/ DeleteArticle(a)
                         \/ \E g \in Tags : \/ AttachTag(a, g) \/ DetachTag(a, g)
                                            \/ \E b \in Articles \ {a} : MoveTag(a, b, g)
  \/ \E f \in Feeds : \/ DeleteFeed(f)
                      \/ \E row \in FeedRow : UpsertFeed(f, row)
                      \/ \E name \in CustomNames \cup {NoRow} : RenameFeed(f, name)
  \/ \E g \in Tags : DeleteTag(g) \/ \E row \in TagRow : SaveTag(g, row)

SearchTypeOK ==
  /\ article \in [Articles -> ArticleRow \cup {NoRow}]
  /\ feed \in [Feeds -> FeedRow \cup {NoRow}]
  /\ tag \in [Tags -> TagRow \cup {NoRow}]
  /\ attached \subseteq Articles \X Tags
  /\ entry \in [Articles -> Entry \cup {NoRow}]

-------------------------------------------------------------------------------
(* ArticleSearch MATCH word                                                *)
Matches(row, word) ==
  row # NoRow /\ (row.text = word \/ row.feed_title = word \/ word \in row.tag_names)

(* search_article_ids and search_with_snippets, by the feed_id of the      *)
(* index; no feeds are all feeds.                                          *)
SearchArticleIds(word, feeds) ==
  {a \in Articles : /\ Matches(entry[a], word)
                    /\ feeds = {} \/ entry[a].feed_id \in feeds}

(* What list_articles joins, by the feed_id of the article.                *)
FindArticles(word, feeds) ==
  {a \in Articles : /\ article[a] # NoRow
                    /\ Matches(entry[a], word)
                    /\ feeds = {} \/ article[a].feed_id \in feeds}

(* After any sequence of changes and cascades the index is what the view   *)
(* says, so the two ways to search, by the index alone and joined with the *)
(* tables, find the same articles of a feed.                               *)
IndexIsSource ==
  /\ \A a \in Articles : entry[a] = Source(a)
  /\ \A word \in Words, feeds \in SUBSET Feeds :
       SearchArticleIds(word, feeds) = FindArticles(word, feeds)
===============================================================================
