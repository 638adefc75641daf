--------------------------- MODULE FeedFetch_proofs ---------------------------
(***************************************************************************)
(* Proofs about FeedFetch, for any URLs, redirects, documents and number   *)
(* of overlapping runs.                                                    *)
(***************************************************************************)
EXTENDS FeedFetch, TLAPS

-------------------------------------------------------------------------------
Steps   == {"idle", "asked", "unmodified", "modified", "failed", "resolving", "checking",
            "counting"}
Row     == [url : Urls \cup {NoId}, tag : Tag \cup {NoTag},
            health : {"healthy", "degraded", "error"}, error : ErrorKinds \cup {"none"},
            failures : 0 .. MaxFailures]
Job     == [step : Steps, asked : Urls \cup {NoId}, url : Urls \cup {NoId},
            sent : Tag \cup {NoTag}, tag : Tag \cup {NoTag}, feed : Urls \cup {NoId},
            rest : Seq(Entry), found : Seq(Rows), error : ErrorKinds \cup {"none"},
            failures : 0 .. MaxFailures, stale : BOOLEAN]

(* What the local variables of a run hold, by the place it has come to,    *)
(* when the feeds of known have a row.                                     *)
JobOK(j, known) ==
  /\ j \in Job
  /\ j.step \in {"asked", "unmodified", "failed"} => j.url \in Urls
  /\ j.step \in {"unmodified", "modified", "resolving", "checking"} => j.tag \in Tag
  /\ j.step \in {"resolving", "checking", "counting"} => j.feed \in Urls
  /\ j.step \in {"failed", "counting"} => j.error \in ErrorKinds
  /\ j.step = "counting" => j.failures < MaxFailures /\ j.feed \in known
  /\ j.asked \in known \cup {NoId}
  /\ \A i \in DOMAIN j.rest : Identified(j.rest[i])
  /\ j.step # "resolving" => j.found = <<>>
  /\ \A i \in DOMAIN j.found : j.found[i].feed = j.feed
  /\ \A i, k \in DOMAIN j.found : j.found[i].id = j.found[k].id => i = k

(* A row of a feed says one thing of its health, and is one of a URL.      *)
RowOK(row) ==
  /\ row \in Row
  /\ row # NoFeed => row.url \in Urls /\ row.tag \in Tag
  /\ row.health = "healthy" <=> row.failures = 0
  /\ row.health = "healthy" <=> row.error = "none"
  /\ row.failures >= 3 => row.health = "error"
  /\ row.health = "error" => row.failures >= 3 \/ row.error = "permission"

ArticlesOK ==
  /\ articles \subseteq Rows
  /\ \A a, b \in articles : a.id = b.id => a = b
  /\ \A a \in articles : a.feed \in Known
  /\ read \subseteq {a.id : a \in articles}

FetchInv ==
  /\ version \in [Urls -> Nat] /\ \A u \in Urls : version[u] \in DOMAIN Document[u]
  /\ feeds \in [Urls -> Row] /\ \A f \in Urls : RowOK(feeds[f])
  /\ ArticlesOK
  /\ job \in [Workers -> Job] /\ \A w \in Workers : JobOK(job[w], Known)

LEMMA IdleOK ==
  ASSUME NEW known
  PROVE  JobOK(Idle, known) /\ Idle \in Job
<1>1. NoTag \in Tag \cup {NoTag} /\ 0 \in 0 .. MaxFailures
  BY BoundAssumption
<1>2. Idle \in Job
  BY <1>1 DEF Idle, Job, Steps
<1> QED
  BY <1>2 DEF Idle, JobOK

LEMMA NoFeedOK == RowOK(NoFeed)
  BY BoundAssumption DEF NoFeed, RowOK, Row

(* An entry is known by one of the five things it may be identified by.    *)
LEMMA FirstKindExists ==
  ASSUME NEW e \in Entry, Identified(e)
  PROVE  /\ FirstKind(e) \in {Kinds[k] : k \in 1 .. 5}
         /\ e[FirstKind(e)] \in Values
<1> DEFINE Present(k) == e[Kinds[k]] # None
           First(k)   == Present(k) /\ \A j \in 1 .. k - 1 : ~Present(j)
<1>1. \E k \in 1 .. 5 : First(k)
  <2>1. Present(1) \/ Present(2) \/ Present(3) \/ Present(4) \/ Present(5)
    BY DEF Identified
  <2> HIDE DEF Present
  <2>2. First(1) \/ First(2) \/ First(3) \/ First(4) \/ First(5)
    BY <2>1
  <2> QED
    BY <2>2
<1>2. PICK k \in 1 .. 5 : FirstKind(e) = Kinds[k] /\ Present(k)
  BY <1>1 DEF FirstKind
<1>3. e[Kinds[k]] \in Values \cup {None}
  BY DEF Kinds, Entry
<1> QED
  BY <1>2, <1>3

LEMMA NewIdIsId ==
  ASSUME NEW f \in Urls, NEW e \in Entry, Identified(e)
  PROVE  NewId(f, e) \in Ids
  BY FirstKindExists DEF NewId, Ids

-------------------------------------------------------------------------------
LEMMA FetchInitial ==
  ASSUME FetchInit
  PROVE  FetchInv
<1>1. \A u \in Urls : 1 \in DOMAIN Document[u]
  BY EntryAssumption
<1>2. NoFeed \in Row
  BY NoFeedOK DEF RowOK
<1> QED
  BY <1>1, <1>2, NoFeedOK, IdleOK DEF FetchInit, FetchInv, ArticlesOK

(* What a run may count on still holds when more feeds have a row.         *)
LEMMA JobStaysOK ==
  ASSUME NEW j, NEW known, NEW more, JobOK(j, known), known \subseteq more
  PROVE  JobOK(j, more)
  BY DEF JobOK

(* A step of a run that only changes its local variables.                  *)
LEMMA JobStep ==
  ASSUME FetchInv, NEW w \in Workers, NEW j, JobOK(j, Known),
         job' = [job EXCEPT ![w] = j],
         UNCHANGED <<version, feeds, articles, read>>
  PROVE  FetchInv'
<1>1. j \in Job
  BY DEF JobOK
<1>2. job' \in [Workers -> Job] /\ \A x \in Workers : JobOK(job'[x], Known)
  BY <1>1 DEF FetchInv
<1>3. Known' = Known
  BY DEF Known
<1> QED
  BY <1>2, <1>3 DEF FetchInv, ArticlesOK

(* The feeds that have a row are rows of URLs.                             *)
LEMMA KnownFeed ==
  ASSUME FetchInv, NEW f \in Known
  PROVE  /\ f \in Urls /\ feeds[f] \in Row
         /\ feeds[f].url \in Urls /\ feeds[f].tag \in Tag /\ feeds[f].failures \in 0 .. MaxFailures
<1>1. f \in Urls /\ RowOK(feeds[f]) /\ feeds[f] # NoFeed
  BY DEF FetchInv, Known
<1> QED
  BY <1>1 DEF RowOK, Row

LEMMA StepBegin ==
  ASSUME FetchInv, NEW w \in Workers, Begin(w)
  PROVE  FetchInv'
<1>1. job[w] = Idle /\ UNCHANGED <<version, feeds, articles, read>>
  BY DEF Begin
<1>2. ASSUME NEW u \in Urls, job' = [job EXCEPT ![w] = [@ EXCEPT !.step = "asked", !.url = u]]
      PROVE  FetchInv'
  <2> DEFINE j == [Idle EXCEPT !.step = "asked", !.url = u]
  <2>1. JobOK(j, Known)
    BY IdleOK DEF JobOK, Job, Steps, Idle
  <2>2. job' = [job EXCEPT ![w] = j]
    BY <1>1, <1>2
  <2> HIDE DEF j
  <2> QED
    BY <1>1, <2>1, <2>2, JobStep
<1>3. ASSUME NEW f \in Known, NEW id \in {f, NoId},
             job' = [job EXCEPT ![w] = [@ EXCEPT !.step = "asked", !.url = feeds[f].url,
                                                 !.asked = id, !.sent = feeds[f].tag]]
      PROVE  FetchInv'
  <2> DEFINE j == [Idle EXCEPT !.step = "asked", !.url = feeds[f].url, !.asked = id,
                               !.sent = feeds[f].tag]
  <2>1. id \in Known \cup {NoId} /\ id \in Urls \cup {NoId} /\ feeds[f].url \in Urls
        /\ feeds[f].tag \in Tag
    BY KnownFeed
  <2>2. JobOK(j, Known)
    <3>1. j \in Job
      BY <2>1, IdleOK DEF Job, Steps
    <3>2. /\ j.step = "asked" /\ j.asked = id /\ j.url = feeds[f].url
          /\ j.rest = <<>> /\ j.found = <<>>
      BY DEF Idle
    <3> HIDE DEF j
    <3> QED
      BY <2>1, <3>1, <3>2 DEF JobOK
  <2>3. job' = [job EXCEPT ![w] = j]
    BY <1>1, <1>3
  <2> HIDE DEF j
  <2> QED
    BY <1>1, <2>2, <2>3, JobStep
<1>4. \/ \E u \in Urls : job' = [job EXCEPT ![w] = [@ EXCEPT !.step = "asked", !.url = u]]
      \/ \E f \in Known : \E id \in {f, NoId} :
           job' = [job EXCEPT ![w] = [@ EXCEPT !.step = "asked", !.url = feeds[f].url,
                                               !.asked = id, !.sent = feeds[f].tag]]
  BY Zenon DEF Begin
<1> QED
  BY <1>2, <1>3, <1>4

LEMMA StepAnswer ==
  ASSUME FetchInv, NEW w \in Workers, NEW final \in Urls, Answer(w, final)
  PROVE  FetchInv'
<1> DEFINE tag  == <<final, version[final]>>
           same == [job[w] EXCEPT !.step = "unmodified", !.sent = NoTag, !.tag = tag]
           new  == [Idle EXCEPT !.step = "modified", !.asked = job[w].asked, !.tag = tag,
                                !.rest = Document[final][version[final]]]
<1>1. /\ job[w].step = "asked" /\ UNCHANGED <<version, feeds, articles, read>>
      /\ job' = [job EXCEPT ![w] = same] \/ job' = [job EXCEPT ![w] = new]
  BY DEF Answer
<1>2. tag \in Tag /\ JobOK(job[w], Known)
  BY DEF FetchInv, Tag
<1>3. /\ Document[final][version[final]] \in Seq(Entry)
      /\ \A i \in DOMAIN Document[final][version[final]] :
           Identified(Document[final][version[final]][i])
  <2>1. Document[final] \in Seq(Seq(Entry)) /\ version[final] \in DOMAIN Document[final]
    BY EntryAssumption DEF FetchInv
  <2>2. Document[final][version[final]] \in Seq(Entry)
    BY <2>1
  <2> QED
    BY <2>1, <2>2, EntryAssumption
<1> HIDE DEF tag
<1>4. JobOK(same, Known)
  BY <1>1, <1>2 DEF JobOK, Job, Steps
<1>5. JobOK(new, Known)
  <2>1. job[w].asked \in Urls \cup {NoId} /\ job[w].asked \in Known \cup {NoId}
    BY <1>2 DEF JobOK, Job
  <2>2. new \in Job
    BY <1>2, <1>3, <2>1, IdleOK DEF Job, Steps
  <2>3. /\ new.step = "modified" /\ new.asked = job[w].asked /\ new.tag = tag
        /\ new.rest = Document[final][version[final]] /\ new.found = <<>>
    BY DEF Idle
  <2> HIDE DEF new
  <2> QED
    BY <1>2, <1>3, <2>1, <2>2, <2>3 DEF JobOK
<1> HIDE DEF same, new
<1> QED
  BY <1>1, <1>4, <1>5, JobStep

LEMMA StepFail ==
  ASSUME FetchInv, NEW w \in Workers, NEW kind \in ErrorKinds, Fail(w, kind)
  PROVE  FetchInv'
<1> DEFINE j == [job[w] EXCEPT !.step = "failed", !.sent = NoTag, !.error = kind]
<1>1. /\ job[w].step = "asked" /\ UNCHANGED <<version, feeds, articles, read>>
      /\ job' = [job EXCEPT ![w] = j]
  BY DEF Fail
<1>2. JobOK(job[w], Known)
  BY DEF FetchInv
<1>3. JobOK(j, Known)
  BY <1>1, <1>2 DEF JobOK, Job, Steps
<1> HIDE DEF j
<1> QED
  BY <1>1, <1>3, JobStep

LEMMA StepEndEarly ==
  ASSUME FetchInv, NEW w \in Workers, EndEarly(w)
  PROVE  FetchInv'
  BY JobStep, IdleOK DEF EndEarly

(* What a run looks up is a feed that has a row.                           *)
LEMMA FeedsAreKnown ==
  ASSUME FetchInv, NEW w \in Workers, NEW u
  PROVE  FeedsOf(w, u) \subseteq Known
  BY DEF FetchInv, JobOK, FeedsOf

LEMMA StepResolveFeed ==
  ASSUME FetchInv, NEW w \in Workers, ResolveFeed(w)
  PROVE  FetchInv'
<1>1. /\ job[w].step = "modified" /\ UNCHANGED <<version, feeds, articles, read>>
      /\ JobOK(job[w], Known)
  BY DEF ResolveFeed, FetchInv
<1>2. PICK f : /\ f = job[w].tag[1] \/ f \in FeedsOf(w, job[w].tag[1])
               /\ job' = [job EXCEPT ![w] = [@ EXCEPT !.step = "resolving", !.asked = NoId,
                                                      !.feed = f]]
  BY DEF ResolveFeed
<1> DEFINE j == [job[w] EXCEPT !.step = "resolving", !.asked = NoId, !.feed = f]
<1>3. f \in Urls
  <2>1. job[w].tag \in Tag
    BY <1>1 DEF JobOK
  <2>2. job[w].tag[1] \in Urls
    BY <2>1 DEF Tag
  <2> QED
    BY <1>2, <2>2, FeedsAreKnown, KnownFeed
<1>4. JobOK(j, Known)
  <2>1. job[w] \in Job /\ job[w].found = <<>>
    BY <1>1 DEF JobOK
  <2>2. j \in Job
    BY <1>3, <2>1 DEF Job, Steps
  <2>3. /\ j.step = "resolving" /\ j.asked = NoId /\ j.feed = f
        /\ j.tag = job[w].tag /\ j.rest = job[w].rest /\ j.found = <<>>
    BY <2>1 DEF Job
  <2> HIDE DEF j
  <2> QED
    BY <1>1, <1>3, <2>2, <2>3 DEF JobOK
<1>5. job' = [job EXCEPT ![w] = j]
  BY <1>2
<1> HIDE DEF j
<1> QED
  BY <1>1, <1>4, <1>5, JobStep

LEMMA StepResolveUnmodified ==
  ASSUME FetchInv, NEW w \in Workers, ResolveUnmodified(w)
  PROVE  FetchInv'
<1>1. /\ job[w].step = "unmodified" /\ UNCHANGED <<version, feeds, articles, read>>
      /\ JobOK(job[w], Known)
  BY DEF ResolveUnmodified, FetchInv
<1>2. PICK f \in FeedsOf(w, job[w].url) :
        job' = [job EXCEPT ![w] = [Idle EXCEPT !.step = "checking", !.tag = job[w].tag,
                                               !.feed = f]]
  BY DEF ResolveUnmodified
<1> DEFINE j == [Idle EXCEPT !.step = "checking", !.tag = job[w].tag, !.feed = f]
<1>3. f \in Urls /\ job[w].tag \in Tag
  BY <1>1, FeedsAreKnown, KnownFeed DEF JobOK
<1>4. JobOK(j, Known)
  <2>1. j \in Job
    BY <1>3, IdleOK DEF Job, Steps
  <2>2. /\ j.step = "checking" /\ j.asked = NoId /\ j.feed = f /\ j.tag = job[w].tag
        /\ j.rest = <<>> /\ j.found = <<>>
    BY DEF Idle
  <2> HIDE DEF j
  <2> QED
    BY <1>3, <2>1, <2>2 DEF JobOK
<1> HIDE DEF j
<1> QED
  BY <1>1, <1>2, <1>4, JobStep DEF j

LEMMA StepReadFailures ==
  ASSUME FetchInv, NEW w \in Workers, ReadFailures(w)
  PROVE  FetchInv'
<1>1. /\ job[w].step = "failed" /\ UNCHANGED <<version, feeds, articles, read>>
      /\ JobOK(job[w], Known)
  BY DEF ReadFailures, FetchInv
<1>2. PICK f \in FeedsOf(w, job[w].url) :
        /\ feeds[f].failures < MaxFailures
        /\ job' = [job EXCEPT ![w] = [Idle EXCEPT !.step = "counting", !.feed = f,
                                                  !.error = job[w].error,
                                                  !.failures = feeds[f].failures]]
  BY DEF ReadFailures
<1> DEFINE j == [Idle EXCEPT !.step = "counting", !.feed = f, !.error = job[w].error,
                             !.failures = feeds[f].failures]
<1>3. /\ f \in Urls /\ f \in Known /\ job[w].error \in ErrorKinds
      /\ feeds[f].failures \in 0 .. MaxFailures
  BY <1>1, FeedsAreKnown, KnownFeed DEF JobOK
<1>4. JobOK(j, Known)
  <2>1. j \in Job
    BY <1>3, IdleOK DEF Job, Steps
  <2>2. /\ j.step = "counting" /\ j.asked = NoId /\ j.feed = f /\ j.error = job[w].error
        /\ j.failures = feeds[f].failures /\ j.rest = <<>> /\ j.found = <<>>
    BY DEF Idle
  <2> HIDE DEF j
  <2> QED
    BY <1>2, <1>3, <2>1, <2>2 DEF JobOK
<1> HIDE DEF j
<1> QED
  BY <1>1, <1>2, <1>4, JobStep DEF j

LEMMA StepResolveEntry ==
  ASSUME FetchInv, NEW w \in Workers, ResolveEntry(w)
  PROVE  FetchInv'
<1> DEFINE e == Head(job[w].rest)
           known == {a \in articles : a.feed = job[w].feed}
           ids == IF Hits(known, e) # {} THEN {a.id : a \in Hits(known, e)}
                                         ELSE {NewId(job[w].feed, e)}
           row(id) == [id |-> id, feed |-> job[w].feed, item |-> e.item, guid |-> e.guid,
                       canonical |-> e.canonical, original |-> e.original,
                       stamp |-> e.stamp, hash |-> e.hash]
           without == [job[w] EXCEPT !.rest = Tail(job[w].rest)]
           with(id) == [job[w] EXCEPT !.rest = Tail(job[w].rest),
                                      !.found = Append(job[w].found, row(id))]
<1>1. /\ job[w].step = "resolving" /\ job[w].rest # <<>>
      /\ UNCHANGED <<version, feeds, articles, read>>
  BY DEF ResolveEntry
<1>2. PICK id \in ids :
        \/ job' = [job EXCEPT ![w] = without]
        \/ (\A a \in Found(w) : a.id # id) /\ job' = [job EXCEPT ![w] = with(id)]
  <2> DEFINE drop(id)    == Hits(Found(w), e) # {} \/ \E a \in Found(w) : a.id = id
             next(id, d) == [job[w] EXCEPT
                               !.rest = Tail(job[w].rest),
                               !.found = IF d THEN job[w].found
                                              ELSE Append(job[w].found, row(id))]
  <2>1. PICK id \in ids : job' = [job EXCEPT ![w] = next(id, drop(id))]
    BY DEF ResolveEntry
  <2>2. drop(id) \in BOOLEAN
    OBVIOUS
  <2>3. next(id, TRUE) = without
    <3>1. job[w] \in Job
      BY DEF FetchInv
    <3> QED
      BY <3>1 DEF Job
  <2>4. next(id, FALSE) = with(id)
    OBVIOUS
  <2>5. drop(id) = FALSE => \A a \in Found(w) : a.id # id
    OBVIOUS
  <2> HIDE DEF next, drop, with, without, ids
  <2> QED
    BY <2>1, <2>2, <2>3, <2>4, <2>5
<1>3. /\ job[w] \in Job /\ JobOK(job[w], Known) /\ job[w].feed \in Urls
      /\ job[w].rest \in Seq(Entry) /\ job[w].found \in Seq(Rows)
  <2>1. job[w] \in Job /\ JobOK(job[w], Known)
    BY DEF FetchInv
  <2> QED
    BY <1>1, <2>1 DEF JobOK, Job
<1>4. e \in Entry /\ Identified(e)
  <2>1. 1 \in DOMAIN job[w].rest /\ e = job[w].rest[1]
    BY <1>1, <1>3
  <2> QED
    BY <1>3, <2>1 DEF JobOK
<1>5. /\ Tail(job[w].rest) \in Seq(Entry)
      /\ \A i \in DOMAIN Tail(job[w].rest) : Identified(Tail(job[w].rest)[i])
  <2>1. \A i \in DOMAIN Tail(job[w].rest) :
          i + 1 \in DOMAIN job[w].rest /\ Tail(job[w].rest)[i] = job[w].rest[i + 1]
    BY <1>1, <1>3
  <2> QED
    BY <1>1, <1>3, <2>1 DEF JobOK
<1> HIDE DEF e
<1>6. id \in Ids
  <2>1. \A a \in Hits(known, e) : a \in Rows
    BY DEF Hits, FetchInv, ArticlesOK
  <2>2. \A a \in Hits(known, e) : a.id \in Ids
    BY <2>1 DEF Rows
  <2>3. NewId(job[w].feed, e) \in Ids
    BY <1>3, <1>4, NewIdIsId
  <2> QED
    BY <1>2, <2>2, <2>3
<1>7. row(id) \in Rows /\ row(id).id = id /\ row(id).feed = job[w].feed
  BY <1>3, <1>4, <1>6 DEF Rows, Entry
<1> HIDE DEF row
<1>8. JobOK(without, Known)
  <2>1. without \in Job
    BY <1>3, <1>5 DEF Job
  <2>2. without = [job[w] EXCEPT !.rest = Tail(job[w].rest)]
    OBVIOUS
  <2> HIDE DEF without
  <2> QED
    BY <1>1, <1>3, <1>5, <2>1, <2>2 DEF JobOK, Job
<1>9. ASSUME \A a \in Found(w) : a.id # id
      PROVE  JobOK(with(id), Known)
  <2> DEFINE found == Append(job[w].found, row(id))
             n     == Len(job[w].found)
  <2>1. found \in Seq(Rows) /\ DOMAIN found = 1 .. n + 1
    BY <1>3, <1>7
  <2>2. \A i \in 1 .. n : found[i] = job[w].found[i] /\ i \in DOMAIN job[w].found
    BY <1>3, <1>7
  <2>3. found[n + 1] = row(id) /\ n \in Nat
    BY <1>3, <1>7
  <2>4. \A i \in 1 .. n : job[w].found[i].id # id
    BY <1>9, <2>2 DEF Found
  <2> HIDE DEF found
  <2>5. \A i \in DOMAIN found : found[i].feed = job[w].feed
    <3>1. \A i \in 1 .. n : found[i].feed = job[w].feed
      BY <1>3, <2>2 DEF JobOK
    <3> QED
      BY <1>7, <2>1, <2>3, <3>1
  <2>6. \A i, k \in DOMAIN found : found[i].id = found[k].id => i = k
    <3>1. \A i, k \in 1 .. n : found[i].id = found[k].id => i = k
      BY <1>3, <2>2 DEF JobOK
    <3> HIDE DEF n
    <3>2. \A i \in 1 .. n : found[i].id # found[n + 1].id
      BY <1>7, <2>2, <2>3, <2>4
    <3> QED
      BY <2>1, <2>3, <3>1, <3>2
  <2>7. with(id) \in Job
    <3>1. with(id) = [job[w] EXCEPT !.rest = Tail(job[w].rest), !.found = found]
      BY DEF found
    <3>2. [job[w] EXCEPT !.rest = Tail(job[w].rest), !.found = found] \in Job
      BY <1>3, <1>5, <2>1 DEF Job
    <3> QED
      BY <3>1, <3>2
  <2>8. with(id) = [job[w] EXCEPT !.rest = Tail(job[w].rest), !.found = found]
    BY DEF found
  <2> HIDE DEF with
  <2>9. /\ with(id).step = "resolving" /\ with(id).feed = job[w].feed
        /\ with(id).tag = job[w].tag /\ with(id).asked = job[w].asked
        /\ with(id).rest = Tail(job[w].rest) /\ with(id).found = found
    BY <1>1, <1>3, <2>8 DEF Job
  <2> QED
    BY <1>1, <1>3, <1>5, <2>5, <2>6, <2>7, <2>9 DEF JobOK
<1> HIDE DEF without, with
<1> QED
  BY <1>1, <1>2, <1>8, <1>9, JobStep

-------------------------------------------------------------------------------
(* A feed's row is written.                                                *)
LEMMA FeedWritten ==
  ASSUME FetchInv, NEW f \in Urls, NEW row, RowOK(row), row # NoFeed,
         feeds' = [feeds EXCEPT ![f] = row]
  PROVE  /\ feeds' \in [Urls -> Row] /\ \A g \in Urls : RowOK(feeds'[g])
         /\ Known' = Known \cup {f}
<1>1. row \in Row
  BY DEF RowOK
<1> QED
  BY <1>1 DEF FetchInv, Known

LEMMA CheckedIsOK ==
  ASSUME NEW f \in Urls, NEW tag \in Tag
  PROVE  LET row == [NoFeed EXCEPT !.url = tag[1], !.tag = tag]
         IN  RowOK(row) /\ row # NoFeed
<1> DEFINE row == [NoFeed EXCEPT !.url = tag[1], !.tag = tag]
<1>1. tag[1] \in Urls
  BY DEF Tag
<1>2. row \in Row
  <2>1. NoFeed \in Row
    BY NoFeedOK DEF RowOK
  <2> QED
    BY <1>1, <2>1 DEF Row
<1>3. /\ row.url = tag[1] /\ row.tag = tag /\ row.health = "healthy" /\ row.error = "none"
      /\ row.failures = 0
  BY DEF NoFeed
<1>4. row # NoFeed
  BY <1>1, <1>3, UrlAssumption DEF NoFeed
<1> HIDE DEF row
<1>5. RowOK(row)
  BY <1>1, <1>2, <1>3 DEF RowOK
<1> QED
  BY <1>4, <1>5 DEF row

LEMMA StepRecordNotModified ==
  ASSUME FetchInv, NEW w \in Workers, RecordNotModified(w)
  PROVE  FetchInv'
<1> DEFINE f   == job[w].feed
           tag == job[w].tag
           row == [NoFeed EXCEPT !.url = tag[1], !.tag = tag]
<1>1. /\ job[w].step = "checking" /\ UNCHANGED <<version, articles, read>>
      /\ feeds' = [feeds EXCEPT ![f] = row] /\ job' = [job EXCEPT ![w] = Idle]
      /\ JobOK(job[w], Known)
  BY DEF RecordNotModified, Checked, FetchInv
<1>2. f \in Urls /\ tag \in Tag
  BY <1>1 DEF JobOK
<1>3. RowOK(row) /\ row # NoFeed
  BY <1>2, CheckedIsOK
<1> HIDE DEF row, f, tag
<1>4. /\ feeds' \in [Urls -> Row] /\ \A g \in Urls : RowOK(feeds'[g])
      /\ Known \subseteq Known'
  BY <1>1, <1>2, <1>3, FeedWritten
<1>5. job' \in [Workers -> Job] /\ \A x \in Workers : JobOK(job'[x], Known')
  BY <1>1, <1>4, IdleOK, JobStaysOK DEF FetchInv
<1> QED
  BY <1>1, <1>4, <1>5 DEF FetchInv, ArticlesOK

(* The counter written is one more than one read, and the health is of it. *)
LEMMA StepRecordFailure ==
  ASSUME FetchInv, NEW w \in Workers, RecordFailure(w)
  PROVE  FetchInv'
<1> DEFINE j   == job[w]
           f   == j.feed
           row == [feeds[f] EXCEPT !.health = HealthOf(j.error, j.failures + 1),
                                   !.error = j.error, !.failures = j.failures + 1]
<1>1. /\ j.step = "counting" /\ UNCHANGED <<version, articles, read>>
      /\ feeds' = [feeds EXCEPT ![f] = row] /\ job' = [job EXCEPT ![w] = Idle]
      /\ JobOK(j, Known)
  BY DEF RecordFailure, FetchInv
<1>2. /\ f \in Known /\ j.error \in ErrorKinds /\ j.failures \in 0 .. MaxFailures
      /\ j.failures < MaxFailures
  BY <1>1 DEF JobOK, Job
<1>3. /\ f \in Urls /\ feeds[f] \in Row /\ feeds[f].url \in Urls /\ feeds[f].tag \in Tag
  BY <1>2, KnownFeed
<1> DEFINE n == j.failures + 1
<1>4. n \in 1 .. MaxFailures /\ n \in 0 .. MaxFailures /\ n \in Nat /\ n # 0
  BY <1>2, BoundAssumption
<1>5. HealthOf(j.error, n) \in {"degraded", "error"}
  BY DEF HealthOf
<1>6. /\ n >= 3 => HealthOf(j.error, n) = "error"
      /\ HealthOf(j.error, n) = "error" => n >= 3 \/ j.error = "permission"
  BY DEF HealthOf
<1> HIDE DEF n
<1>7. row = [feeds[f] EXCEPT !.health = HealthOf(j.error, n), !.error = j.error,
                             !.failures = n]
  BY DEF n
<1>8. [feeds[f] EXCEPT !.health = HealthOf(j.error, n), !.error = j.error, !.failures = n]
        \in Row
  BY <1>2, <1>3, <1>4, <1>5 DEF Row
<1>9. /\ row.url = feeds[f].url /\ row.tag = feeds[f].tag
      /\ row.health = HealthOf(j.error, n) /\ row.error = j.error /\ row.failures = n
  BY <1>3, <1>7 DEF Row
<1> HIDE DEF row, j
<1>10. RowOK(row) /\ row # NoFeed
  <2>1. row # NoFeed
    BY <1>3, <1>9, UrlAssumption DEF NoFeed
  <2>2. j.error # "none"
    BY <1>2, ErrorAssumption
  <2>3. row.health # "healthy"
    BY <1>5, <1>9
  <2> QED
    BY <1>3, <1>4, <1>6, <1>7, <1>8, <1>9, <2>1, <2>2, <2>3 DEF RowOK
<1>11. /\ feeds' \in [Urls -> Row] /\ \A g \in Urls : RowOK(feeds'[g])
       /\ Known \subseteq Known'
  BY <1>1, <1>3, <1>10, FeedWritten
<1>12. job' \in [Workers -> Job] /\ \A x \in Workers : JobOK(job'[x], Known')
  BY <1>1, <1>11, IdleOK, JobStaysOK DEF FetchInv
<1> QED
  BY <1>1, <1>11, <1>12 DEF FetchInv, ArticlesOK

(* One transaction writes the feed and the articles: what it stores has    *)
(* the feed it stores, and a row for an id only once.                      *)
LEMMA StepPersist ==
  ASSUME FetchInv, NEW w \in Workers, Persist(w)
  PROVE  FetchInv'
<1> DEFINE f    == job[w].feed
           tag  == job[w].tag
           row  == [NoFeed EXCEPT !.url = tag[1], !.tag = tag]
           kept == {a \in articles : \A r \in Found(w) : r.id # a.id}
<1>1. /\ job[w].step = "resolving" /\ UNCHANGED <<version, read>>
      /\ feeds' = [feeds EXCEPT ![f] = row] /\ job' = Wrote(w)
      /\ articles' = kept \cup Found(w)
      /\ JobOK(job[w], Known)
  BY DEF Persist, Checked, FetchInv
<1>2. f \in Urls /\ tag \in Tag
  BY <1>1 DEF JobOK
<1>3. RowOK(row) /\ row # NoFeed
  BY <1>2, CheckedIsOK
<1>4. /\ Found(w) \subseteq Rows /\ \A r \in Found(w) : r.feed = f
      /\ \A r, q \in Found(w) : r.id = q.id => r = q
  <2>1. job[w].found \in Seq(Rows)
    BY <1>1 DEF JobOK, Job
  <2> QED
    BY <1>1, <2>1 DEF JobOK, Found
<1> HIDE DEF row, f, tag
<1>5. /\ feeds' \in [Urls -> Row] /\ \A g \in Urls : RowOK(feeds'[g])
      /\ Known' = Known \cup {f}
  BY <1>1, <1>2, <1>3, FeedWritten
<1>6. job' \in [Workers -> Job] /\ \A x \in Workers : JobOK(job'[x], Known')
  <2>1. ASSUME NEW x \in Workers
        PROVE  /\ [job[x] EXCEPT !.stale = TRUE] \in Job
               /\ JobOK([job[x] EXCEPT !.stale = TRUE], Known)
    <3> DEFINE j == [job[x] EXCEPT !.stale = TRUE]
    <3>1. job[x] \in Job /\ JobOK(job[x], Known)
      BY DEF FetchInv
    <3>2. j \in Job
      BY <3>1 DEF Job
    <3>3. /\ j.step = job[x].step /\ j.asked = job[x].asked /\ j.url = job[x].url
          /\ j.tag = job[x].tag /\ j.feed = job[x].feed /\ j.rest = job[x].rest
          /\ j.found = job[x].found /\ j.error = job[x].error
          /\ j.failures = job[x].failures
      BY <3>1 DEF Job
    <3> HIDE DEF j
    <3>4. JobOK(j, Known)
      BY <3>1, <3>2, <3>3 DEF JobOK
    <3> QED
      BY <3>2, <3>4 DEF j
  <2>2. \A x \in Workers : job[x] \in Job /\ JobOK(job[x], Known)
    BY DEF FetchInv
  <2>3. \A x \in Workers : Wrote(w)[x] \in Job /\ JobOK(Wrote(w)[x], Known)
    BY <2>1, <2>2, IdleOK DEF Wrote
  <2>4. Wrote(w) \in [Workers -> Job]
    BY <2>3 DEF Wrote
  <2> QED
    BY <1>1, <1>5, <2>3, <2>4, JobStaysOK
<1>7. ArticlesOK'
  <2>1. articles' \subseteq Rows
    BY <1>1, <1>4 DEF FetchInv, ArticlesOK
  <2>2. \A a, b \in articles' : a.id = b.id => a = b
    BY <1>1, <1>4 DEF FetchInv, ArticlesOK
  <2>3. \A a \in articles' : a.feed \in Known'
    BY <1>1, <1>4, <1>5 DEF FetchInv, ArticlesOK
  <2>4. \A a \in articles : \E b \in articles' : b.id = a.id
    BY <1>1
  <2>5. read' \subseteq {a.id : a \in articles'}
    BY <1>1, <2>4 DEF FetchInv, ArticlesOK
  <2> QED
    BY <2>1, <2>2, <2>3, <2>5 DEF ArticlesOK
<1> QED
  BY <1>1, <1>5, <1>6, <1>7 DEF FetchInv

LEMMA StepPublish ==
  ASSUME FetchInv, NEW u \in Urls, Publish(u)
  PROVE  FetchInv'
<1>1. /\ version[u] < Len(Document[u]) /\ version' = [version EXCEPT ![u] = @ + 1]
      /\ UNCHANGED <<feeds, articles, read, job>>
  BY DEF Publish
<1>2. Document[u] \in Seq(Seq(Entry)) /\ version[u] \in Nat
  BY EntryAssumption DEF FetchInv
<1>3. version[u] + 1 \in DOMAIN Document[u]
  BY <1>1, <1>2
<1>4. version' \in [Urls -> Nat] /\ \A x \in Urls : version'[x] \in DOMAIN Document[x]
  BY <1>1, <1>2, <1>3 DEF FetchInv
<1>5. Known' = Known
  BY <1>1 DEF Known
<1> QED
  BY <1>1, <1>4, <1>5 DEF FetchInv, ArticlesOK

LEMMA StepOpenArticle ==
  ASSUME FetchInv, NEW a \in articles, OpenArticle(a)
  PROVE  FetchInv'
<1>1. read' = read \cup {a.id} /\ UNCHANGED <<version, feeds, articles, job>>
  BY DEF OpenArticle
<1>2. Known' = Known
  BY <1>1 DEF Known
<1> QED
  BY <1>1, <1>2 DEF FetchInv, ArticlesOK

LEMMA FetchStep ==
  ASSUME FetchInv, [FetchNext]_fetchVars
  PROVE  FetchInv'
<1>1. CASE UNCHANGED fetchVars
  <2>1. Known' = Known
    BY <1>1 DEF fetchVars, Known
  <2> QED
    BY <1>1, <2>1 DEF fetchVars, FetchInv, ArticlesOK
<1>2. CASE FetchNext
  BY <1>2, StepPublish, StepOpenArticle, StepBegin, StepEndEarly, StepAnswer, StepFail,
     StepResolveFeed, StepResolveEntry, StepPersist, StepResolveUnmodified,
     StepRecordNotModified, StepReadFailures, StepRecordFailure DEF FetchNext
<1> QED
  BY <1>1, <1>2

(* The invariant holds of every run of any number of fetches.              *)
THEOREM FetchInvariance == FetchSpec => []FetchInv
<1>1. FetchInit => FetchInv
  BY FetchInitial
<1>2. FetchInv /\ [FetchNext]_fetchVars => FetchInv'
  BY FetchStep
<1> QED
  BY <1>1, <1>2, PTL DEF FetchSpec

(* The rows and the runs keep their types; an article's id has one row, of *)
(* a feed that exists, and what the user has read are articles.            *)
THEOREM FetchIsTyped == FetchSpec => []FetchTypeOK
<1>1. FetchInv => FetchTypeOK
  <2> SUFFICES ASSUME FetchInv PROVE FetchTypeOK
    OBVIOUS
  <2>1. \A f \in Urls : /\ feeds[f].url \in Urls \cup {NoId}
                        /\ feeds[f].tag \in Tag \cup {NoTag}
                        /\ feeds[f].failures \in 0 .. MaxFailures
    BY DEF FetchInv, Row
  <2>2. \A w \in Workers : job[w].found \in Seq(Rows)
    BY DEF FetchInv, Job
  <2>3. \A w \in Workers : Found(w) \subseteq Rows
    BY <2>2 DEF Found
  <2> QED
    BY <2>1, <2>3 DEF FetchInv, ArticlesOK, FetchTypeOK
<1> QED
  BY <1>1, FetchInvariance, PTL

(* record_feed_failed_check reads the counter and writes it later, and     *)
(* other runs write the row in between: health, error and counter of the   *)
(* row agree all the same, for they are written together.                  *)
THEOREM HealthAgrees == FetchSpec => []HealthIsConsistent
<1>1. FetchInv => HealthIsConsistent
  BY DEF FetchInv, RowOK, HealthIsConsistent, Known
<1> QED
  BY <1>1, FetchInvariance, PTL

-------------------------------------------------------------------------------
(* What the rows say of the documents, when no two articles share what     *)
(* identifies them: then a lookup never finds another article's row.  The  *)
(* publisher decides that; fetch_distinct shows what happens otherwise.    *)
DistinctEntries ==
  \A d, e \in AllEntries : (\E k \in 1 .. 5 : Matches(d, e, Kinds[k])) => d.item = e.item

SameEntry(row, e) ==
  /\ row.item = e.item /\ row.guid = e.guid /\ row.canonical = e.canonical
  /\ row.original = e.original /\ row.stamp = e.stamp /\ row.hash = e.hash

(* A row is what an entry said, under an id made of an entry for the item. *)
Told(row) ==
  /\ \E e \in AllEntries : SameEntry(row, e)
  /\ \E d \in Entries(row.item) : row.id = NewId(row.feed, d)

(* Of every entry of a version the feed has an article.                    *)
Stored(rows, f, tag) ==
  \A e \in Content(tag) : \E a \in rows : a.feed = f /\ a.item = e.item

(* The rows a run is about to write are told so too, and it reads entries. *)
JobTold(j) ==
  /\ \A i \in DOMAIN j.rest : j.rest[i] \in AllEntries
  /\ \A i \in DOMAIN j.found : Told(j.found[i])

(* The ETag a run has sent, or has a 304 for, is one of a version stored   *)
(* for the feed it names; of a version it was sent no article is lost.     *)
JobTags(j, rows) ==
  /\ j.step = "asked" /\ j.sent # NoTag => j.asked # NoId /\ Stored(rows, j.asked, j.sent)
  /\ j.step = "unmodified" => j.asked # NoId /\ Stored(rows, j.asked, j.tag)
  /\ j.step = "checking" => Stored(rows, j.feed, j.tag)
  /\ j.step \in {"modified", "resolving"} =>
       \A e \in Content(j.tag) : \/ \E i \in DOMAIN j.rest : j.rest[i].item = e.item
                                 \/ \E i \in DOMAIN j.found : j.found[i].item = e.item

(* As long as a request with an ETag has the id of the feed it is of.      *)
AlwaysNamed == Named \subseteq {TRUE}

JobSays(j, rows) == JobTold(j) /\ (AlwaysNamed => JobTags(j, rows))

ContentInv ==
  /\ \A a \in articles : Told(a)
  /\ AlwaysNamed => \A f \in Known : Stored(articles, f, feeds[f].tag)
  /\ \A w \in Workers : JobSays(job[w], articles)

LEMMA DocumentEntries ==
  ASSUME NEW u \in Urls, NEW v \in DOMAIN Document[u]
  PROVE  /\ Document[u][v] \in Seq(Entry)
         /\ \A i \in DOMAIN Document[u][v] : Document[u][v][i] \in AllEntries
         /\ \A e \in Content(<<u, v>>) : \E i \in DOMAIN Document[u][v] : e = Document[u][v][i]
<1>1. Document[u] \in Seq(Seq(Entry))
  BY EntryAssumption
<1>2. Content(<<u, v>>) \subseteq AllEntries
  BY DEF AllEntries
<1> QED
  BY <1>1, <1>2 DEF Content

LEMMA EntriesIdentified ==
  ASSUME NEW e \in AllEntries
  PROVE  e \in Entry /\ Identified(e)
<1>1. PICK u \in Urls : \E v \in DOMAIN Document[u] : e \in Content(<<u, v>>)
  BY DEF AllEntries
<1>2. PICK v \in DOMAIN Document[u] : e \in Content(<<u, v>>)
  BY <1>1
<1>3. PICK i \in DOMAIN Document[u][v] : e = Document[u][v][i]
  BY <1>2, DocumentEntries
<1>4. Document[u][v] \in Seq(Entry)
  BY DocumentEntries
<1> QED
  BY <1>3, <1>4, EntryAssumption

LEMMA MatchIsItem ==
  ASSUME DistinctEntries, NEW row, Told(row), NEW e \in AllEntries,
         NEW k \in 1 .. 5, Matches(row, e, Kinds[k])
  PROVE  row.item = e.item
<1>1. PICK d \in AllEntries : SameEntry(row, d)
  BY DEF Told
<1>2. Kinds[k] \in {"guid", "canonical", "original", "stamp", "hash"}
  BY DEF Kinds
<1>3. Matches(d, e, Kinds[k])
  BY <1>1, <1>2 DEF Matches, UrlsOf, SameEntry
<1> QED
  BY <1>1, <1>3 DEF DistinctEntries, SameEntry

(* An id is one item's, and one feed's.                                    *)
LEMMA IdIsItem ==
  ASSUME DistinctEntries, NEW a, NEW b, Told(a), Told(b), a.id = b.id
  PROVE  a.item = b.item /\ a.feed = b.feed
<1>1. PICK d \in Entries(a.item) : a.id = NewId(a.feed, d)
  BY DEF Told
<1>2. PICK e \in Entries(b.item) : b.id = NewId(b.feed, e)
  BY DEF Told
<1>3. d \in AllEntries /\ d.item = a.item /\ e \in AllEntries /\ e.item = b.item
  BY <1>1, <1>2 DEF Entries
<1>4. /\ FirstKind(e) \in {Kinds[k] : k \in 1 .. 5} /\ e[FirstKind(e)] \in Values
  BY <1>3, EntriesIdentified, FirstKindExists
<1>5. a.feed = b.feed /\ FirstKind(d) = FirstKind(e) /\ d[FirstKind(d)] = e[FirstKind(e)]
  <2> DEFINE x == d[FirstKind(d)]
             y == e[FirstKind(e)]
  <2>1. NewId(a.feed, d) = <<a.feed, FirstKind(d), x>> /\ NewId(b.feed, e) = <<b.feed, FirstKind(e), y>>
    BY DEF NewId
  <2> HIDE DEF x, y
  <2>2. <<a.feed, FirstKind(d), x>> = <<b.feed, FirstKind(e), y>>
    BY <1>1, <1>2, <2>1
  <2>3. a.feed = b.feed /\ FirstKind(d) = FirstKind(e) /\ x = y
    BY <2>2
  <2> QED
    BY <2>3 DEF x, y
<1>6. PICK k \in 1 .. 5 : FirstKind(e) = Kinds[k]
  BY <1>4
<1>7. Kinds[k] \in {"guid", "canonical", "original", "stamp", "hash"}
  BY DEF Kinds
<1>8. e[Kinds[k]] # None /\ d[Kinds[k]] = e[Kinds[k]]
  BY <1>4, <1>5, <1>6, EntryAssumption
<1>9. Matches(d, e, Kinds[k])
  BY <1>7, <1>8 DEF Matches, UrlsOf
<1> QED
  BY <1>3, <1>5, <1>9 DEF DistinctEntries

LEMMA SaysNothing ==
  ASSUME NEW j, NEW rows, j.step \in {"idle", "failed", "counting"}, j.rest = <<>>, j.found = <<>>
  PROVE  JobSays(j, rows)
  BY DEF JobSays, JobTold, JobTags

(* A step of a run that writes nothing.                                    *)
LEMMA JobSaysStep ==
  ASSUME FetchInv, ContentInv, NEW w \in Workers, NEW j, JobSays(j, articles),
         job' = [job EXCEPT ![w] = j], UNCHANGED <<feeds, articles>>
  PROVE  ContentInv'
<1>1. \A x \in Workers : JobSays(job'[x], articles)
  BY DEF FetchInv, ContentInv
<1>2. Known' = Known
  BY DEF Known
<1> QED
  BY <1>1, <1>2 DEF ContentInv

LEMMA BeginSays ==
  ASSUME FetchInv, ContentInv, NEW w \in Workers, Begin(w)
  PROVE  ContentInv'
<1>1. job[w] = Idle /\ UNCHANGED <<feeds, articles>>
  BY DEF Begin
<1>2. ASSUME NEW u \in Urls, job' = [job EXCEPT ![w] = [@ EXCEPT !.step = "asked", !.url = u]]
      PROVE  ContentInv'
  <2> DEFINE j == [Idle EXCEPT !.step = "asked", !.url = u]
  <2>1. j.step = "asked" /\ j.sent = NoTag /\ j.rest = <<>> /\ j.found = <<>>
    BY DEF Idle
  <2>2. job' = [job EXCEPT ![w] = j]
    BY <1>1, <1>2
  <2> HIDE DEF j
  <2>3. JobSays(j, articles)
    BY <2>1 DEF JobSays, JobTold, JobTags
  <2> QED
    BY <1>1, <2>2, <2>3, JobSaysStep
<1>3. ASSUME NEW f \in Known, NEW id \in {f, NoId}, id = f \/ FALSE \in Named,
             job' = [job EXCEPT ![w] = [@ EXCEPT !.step = "asked", !.url = feeds[f].url,
                                                 !.asked = id, !.sent = feeds[f].tag]]
      PROVE  ContentInv'
  <2> DEFINE j == [Idle EXCEPT !.step = "asked", !.url = feeds[f].url, !.asked = id,
                               !.sent = feeds[f].tag]
  <2>1. /\ j.step = "asked" /\ j.sent = feeds[f].tag /\ j.asked = id
        /\ j.rest = <<>> /\ j.found = <<>>
    BY DEF Idle
  <2>2. job' = [job EXCEPT ![w] = j]
    BY <1>1, <1>3
  <2> HIDE DEF j
  <2>3. AlwaysNamed => j.asked = f
    BY <1>3, <2>1 DEF AlwaysNamed
  <2>4. f # NoId
    BY KnownFeed, UrlAssumption
  <2>5. JobSays(j, articles)
    BY <2>1, <2>3, <2>4 DEF JobSays, JobTold, JobTags, ContentInv
  <2> QED
    BY <1>1, <2>2, <2>5, JobSaysStep
<1>4. \/ \E u \in Urls : job' = [job EXCEPT ![w] = [@ EXCEPT !.step = "asked", !.url = u]]
      \/ \E f \in Known : \E id \in {f, NoId} :
           /\ id = f \/ FALSE \in Named
           /\ job' = [job EXCEPT ![w] = [@ EXCEPT !.step = "asked", !.url = feeds[f].url,
                                                  !.asked = id, !.sent = feeds[f].tag]]
  <2> DEFINE Asks(f, id) ==
        job' = [job EXCEPT ![w] = [@ EXCEPT !.step = "asked", !.url = feeds[f].url,
                                            !.asked = id, !.sent = feeds[f].tag]]
  <2>1. \/ \E u \in Urls : job' = [job EXCEPT ![w] = [@ EXCEPT !.step = "asked", !.url = u]]
        \/ \E f \in Known, named \in Named : Asks(f, IF named THEN f ELSE NoId)
    BY Zenon DEF Begin
  <2> HIDE DEF Asks
  <2>2. ASSUME NEW f \in Known, NEW named \in Named, Asks(f, IF named THEN f ELSE NoId)
        PROVE  \E id \in {f, NoId} : (id = f \/ FALSE \in Named) /\ Asks(f, id)
    <3>1. CASE named
      BY <2>2, <3>1
    <3>2. CASE ~named
      BY <2>2, <3>2, NamedAssumption
    <3> QED
      BY <3>1, <3>2
  <2> QED
    BY <2>1, <2>2 DEF Asks
<1> QED
  BY <1>2, <1>3, <1>4

LEMMA AnswerSays ==
  ASSUME FetchInv, ContentInv, NEW w \in Workers, NEW final \in Urls, Answer(w, final)
  PROVE  ContentInv'
<1> DEFINE tag  == <<final, version[final]>>
           text == Document[final][version[final]]
           same == [job[w] EXCEPT !.step = "unmodified", !.sent = NoTag, !.tag = tag]
           new  == [Idle EXCEPT !.step = "modified", !.asked = job[w].asked, !.tag = tag,
                                !.rest = text]
<1>1. /\ job[w].step = "asked" /\ UNCHANGED <<feeds, articles>>
      /\ \/ job[w].sent = tag /\ job' = [job EXCEPT ![w] = same]
         \/ job' = [job EXCEPT ![w] = new]
  BY DEF Answer
<1>2. job[w] \in Job /\ JobSays(job[w], articles) /\ version[final] \in DOMAIN Document[final]
  BY DEF FetchInv, ContentInv
<1>3. tag # NoTag
  BY UrlAssumption DEF NoTag
<1>4. /\ \A i \in DOMAIN text : text[i] \in AllEntries
      /\ \A e \in Content(tag) : \E i \in DOMAIN text : e = text[i]
  BY <1>2, DocumentEntries
<1> HIDE DEF tag, text
<1>5. ASSUME job[w].sent = tag
      PROVE  JobSays(same, articles)
  <2>1. /\ same.step = "unmodified" /\ same.tag = tag /\ same.asked = job[w].asked
        /\ same.rest = job[w].rest /\ same.found = job[w].found
    BY <1>2 DEF Job
  <2> HIDE DEF same
  <2> QED
    BY <1>1, <1>2, <1>3, <1>5, <2>1 DEF JobSays, JobTold, JobTags
<1>6. JobSays(new, articles)
  <2>1. new.step = "modified" /\ new.tag = tag /\ new.rest = text /\ new.found = <<>>
    BY DEF Idle
  <2> HIDE DEF new
  <2> QED
    BY <1>4, <2>1 DEF JobSays, JobTold, JobTags
<1> HIDE DEF same, new
<1> QED
  BY <1>1, <1>5, <1>6, JobSaysStep

LEMMA FailSays ==
  ASSUME FetchInv, ContentInv, NEW w \in Workers, NEW kind \in ErrorKinds, Fail(w, kind)
  PROVE  ContentInv'
<1> DEFINE j == [job[w] EXCEPT !.step = "failed", !.sent = NoTag, !.error = kind]
<1>1. UNCHANGED <<feeds, articles>> /\ job' = [job EXCEPT ![w] = j]
  BY DEF Fail
<1>2. job[w] \in Job /\ JobSays(job[w], articles)
  BY DEF FetchInv, ContentInv
<1>3. j.step = "failed" /\ j.rest = job[w].rest /\ j.found = job[w].found
  BY <1>2 DEF Job
<1> HIDE DEF j
<1>4. JobSays(j, articles)
  BY <1>2, <1>3 DEF JobSays, JobTold, JobTags
<1> QED
  BY <1>1, <1>4, JobSaysStep

LEMMA EndEarlySays ==
  ASSUME FetchInv, ContentInv, NEW w \in Workers, EndEarly(w)
  PROVE  ContentInv'
<1>1. JobSays(Idle, articles)
  BY SaysNothing DEF Idle
<1> QED
  BY <1>1, JobSaysStep DEF EndEarly

LEMMA ResolveFeedSays ==
  ASSUME FetchInv, ContentInv, NEW w \in Workers, ResolveFeed(w)
  PROVE  ContentInv'
<1>1. PICK f : job' = [job EXCEPT ![w] = [@ EXCEPT !.step = "resolving", !.asked = NoId, !.feed = f]]
  BY DEF ResolveFeed
<1> DEFINE j == [job[w] EXCEPT !.step = "resolving", !.asked = NoId, !.feed = f]
<1>2. /\ job[w].step = "modified" /\ UNCHANGED <<feeds, articles>>
      /\ job[w] \in Job /\ JobSays(job[w], articles)
  BY DEF ResolveFeed, FetchInv, ContentInv
<1>3. /\ j.step = "resolving" /\ j.tag = job[w].tag
      /\ j.rest = job[w].rest /\ j.found = job[w].found
  BY <1>2 DEF Job
<1>4. job' = [job EXCEPT ![w] = j]
  BY <1>1
<1> HIDE DEF j
<1>5. JobSays(j, articles)
  BY <1>2, <1>3 DEF JobSays, JobTold, JobTags
<1> QED
  BY <1>2, <1>4, <1>5, JobSaysStep

(* The feed of a 304 is the one named, whose ETag was sent.                *)
LEMMA ResolveUnmodifiedSays ==
  ASSUME FetchInv, ContentInv, NEW w \in Workers, ResolveUnmodified(w)
  PROVE  ContentInv'
<1>1. PICK f \in FeedsOf(w, job[w].url) :
        job' = [job EXCEPT ![w] = [Idle EXCEPT !.step = "checking", !.tag = job[w].tag, !.feed = f]]
  BY DEF ResolveUnmodified
<1> DEFINE j == [Idle EXCEPT !.step = "checking", !.tag = job[w].tag, !.feed = f]
<1>2. /\ job[w].step = "unmodified" /\ UNCHANGED <<feeds, articles>>
      /\ JobSays(job[w], articles)
  BY DEF ResolveUnmodified, ContentInv
<1>3. j.step = "checking" /\ j.tag = job[w].tag /\ j.feed = f /\ j.rest = <<>> /\ j.found = <<>>
  BY DEF Idle
<1>4. AlwaysNamed => f = job[w].asked /\ Stored(articles, f, job[w].tag)
  BY <1>1, <1>2 DEF FeedsOf, JobSays, JobTags
<1>5. job' = [job EXCEPT ![w] = j]
  BY <1>1
<1> HIDE DEF j
<1>6. JobSays(j, articles)
  BY <1>3, <1>4 DEF JobSays, JobTold, JobTags
<1> QED
  BY <1>2, <1>5, <1>6, JobSaysStep

LEMMA ReadFailuresSays ==
  ASSUME FetchInv, ContentInv, NEW w \in Workers, ReadFailures(w)
  PROVE  ContentInv'
<1>1. PICK f : job' = [job EXCEPT ![w] = [Idle EXCEPT !.step = "counting", !.feed = f,
                                                     !.error = job[w].error,
                                                     !.failures = feeds[f].failures]]
  BY DEF ReadFailures
<1> DEFINE j == [Idle EXCEPT !.step = "counting", !.feed = f, !.error = job[w].error,
                             !.failures = feeds[f].failures]
<1>2. UNCHANGED <<feeds, articles>>
  BY DEF ReadFailures
<1>3. j.step = "counting" /\ j.rest = <<>> /\ j.found = <<>>
  BY DEF Idle
<1>4. job' = [job EXCEPT ![w] = j]
  BY <1>1
<1> HIDE DEF j
<1>5. JobSays(j, articles)
  BY <1>3 DEF JobSays, JobTold, JobTags
<1> QED
  BY <1>2, <1>4, <1>5, JobSaysStep
(* The row found for an entry, or made for it, is told by entries for the  *)
(* same item; an entry is dropped for one of its own item only.            *)
LEMMA ResolveEntrySays ==
  ASSUME DistinctEntries, FetchInv, ContentInv, NEW w \in Workers, ResolveEntry(w)
  PROVE  ContentInv'
<1> DEFINE e == Head(job[w].rest)
           known == {a \in articles : a.feed = job[w].feed}
           ids == IF Hits(known, e) # {} THEN {a.id : a \in Hits(known, e)}
                                         ELSE {NewId(job[w].feed, e)}
           row(id) == [id |-> id, feed |-> job[w].feed, item |-> e.item, guid |-> e.guid,
                       canonical |-> e.canonical, original |-> e.original,
                       stamp |-> e.stamp, hash |-> e.hash]
           drop(id) == Hits(Found(w), e) # {} \/ \E a \in Found(w) : a.id = id
           next(id) == [job[w] EXCEPT
                          !.rest = Tail(job[w].rest),
                          !.found = IF drop(id) THEN job[w].found
                                                ELSE Append(job[w].found, row(id))]
<1>1. /\ job[w].step = "resolving" /\ job[w].rest # <<>>
      /\ UNCHANGED <<version, feeds, articles, read>>
  BY DEF ResolveEntry
<1>2. PICK id \in ids : job' = [job EXCEPT ![w] = next(id)]
  BY DEF ResolveEntry
<1>3. /\ job[w] \in Job /\ job[w].rest \in Seq(Entry) /\ job[w].found \in Seq(Rows)
      /\ JobTold(job[w]) /\ (AlwaysNamed => JobTags(job[w], articles))
  <2>1. job[w] \in Job
    BY DEF FetchInv
  <2> QED
    BY <2>1 DEF Job, ContentInv, JobSays
<1>4. /\ e = job[w].rest[1] /\ e \in AllEntries
      /\ \A i \in DOMAIN Tail(job[w].rest) :
           i + 1 \in DOMAIN job[w].rest /\ Tail(job[w].rest)[i] = job[w].rest[i + 1]
      /\ \A i \in DOMAIN job[w].rest : i = 1 \/ i - 1 \in DOMAIN Tail(job[w].rest)
  BY <1>1, <1>3 DEF JobTold
<1> HIDE DEF e
<1>5. \E d \in Entries(e.item) : id = NewId(job[w].feed, d)
  <2>1. CASE Hits(known, e) = {}
    <3>1. id = NewId(job[w].feed, e)
      BY <1>2, <2>1
    <3> QED
      BY <1>4, <3>1 DEF Entries
  <2>2. CASE Hits(known, e) # {}
    <3>1. PICK a \in Hits(known, e) : id = a.id
      BY <1>2, <2>2
    <3>2. a \in articles /\ a.feed = job[w].feed /\ \E k \in 1 .. 5 : Matches(a, e, Kinds[k])
      BY <3>1 DEF Hits
    <3>3. Told(a)
      BY <3>2 DEF ContentInv
    <3>4. a.item = e.item
      BY <1>4, <3>2, <3>3, MatchIsItem
    <3> QED
      BY <3>1, <3>2, <3>3, <3>4 DEF Told
  <2> QED
    BY <2>1, <2>2
<1>6. Told(row(id)) /\ row(id).id = id /\ row(id).item = e.item
  BY <1>4, <1>5 DEF Told, SameEntry
<1> HIDE DEF row
<1>7. \A r \in Found(w) : Told(r) /\ \E i \in DOMAIN job[w].found : r = job[w].found[i]
  BY <1>3 DEF Found, JobTold
<1>8. ASSUME drop(id)
      PROVE  \E i \in DOMAIN job[w].found : job[w].found[i].item = e.item
  <2>1. CASE Hits(Found(w), e) # {}
    <3>1. PICK r \in Found(w) : \E k \in 1 .. 5 : Matches(r, e, Kinds[k])
      BY <2>1 DEF Hits
    <3>2. r.item = e.item
      BY <1>4, <1>7, <3>1, MatchIsItem
    <3> QED
      BY <1>7, <3>1, <3>2
  <2>2. CASE \E a \in Found(w) : a.id = id
    <3>1. PICK r \in Found(w) : r.id = id
      BY <2>2
    <3>2. r.item = e.item
      BY <1>6, <1>7, <3>1, IdIsItem
    <3> QED
      BY <1>7, <3>1, <3>2
  <2> QED
    BY <1>8, <2>1, <2>2
<1> DEFINE found == IF drop(id) THEN job[w].found ELSE Append(job[w].found, row(id))
<1>9. /\ \A i \in DOMAIN found : Told(found[i])
      /\ \A i \in DOMAIN job[w].found : i \in DOMAIN found /\ found[i] = job[w].found[i]
      /\ \E i \in DOMAIN found : found[i].item = e.item
  <2>1. CASE drop(id)
    <3>1. found = job[w].found
      BY <2>1
    <3> QED
      BY <1>3, <1>8, <2>1, <3>1 DEF JobTold
  <2>2. CASE ~drop(id)
    <3> DEFINE n == Len(job[w].found)
               more == Append(job[w].found, row(id))
    <3>1. found = more
      BY <2>2
    <3>2. /\ DOMAIN more = 1 .. n + 1 /\ more[n + 1] = row(id) /\ n \in Nat
          /\ DOMAIN job[w].found = 1 .. n
          /\ \A i \in 1 .. n : more[i] = job[w].found[i]
      BY <1>3
    <3> HIDE DEF n, more
    <3>3. n + 1 \in DOMAIN more /\ \A i \in DOMAIN more : i = n + 1 \/ i \in 1 .. n
      BY <3>2
    <3>4. \A i \in DOMAIN more : Told(more[i])
      BY <1>3, <1>6, <3>2, <3>3 DEF JobTold
    <3>5. 1 .. n \subseteq DOMAIN more
      BY <3>2
    <3> HIDE DEF found
    <3> QED
      BY <1>6, <3>1, <3>2, <3>3, <3>4, <3>5
  <2> QED
    BY <2>1, <2>2
<1>10. next(id) = [job[w] EXCEPT !.rest = Tail(job[w].rest), !.found = found]
  OBVIOUS
<1> HIDE DEF next, found
<1>11. /\ next(id).step = "resolving" /\ next(id).tag = job[w].tag
       /\ next(id).rest = Tail(job[w].rest) /\ next(id).found = found
  BY <1>1, <1>3, <1>10 DEF Job
<1>12. JobTold(next(id))
  BY <1>3, <1>4, <1>9, <1>11 DEF JobTold
<1>13. AlwaysNamed => JobTags(next(id), articles)
  <2> SUFFICES ASSUME AlwaysNamed, NEW d \in Content(job[w].tag)
               PROVE  \/ \E i \in DOMAIN next(id).rest : next(id).rest[i].item = d.item
                      \/ \E i \in DOMAIN next(id).found : next(id).found[i].item = d.item
    BY <1>11 DEF JobTags
  <2>1. \/ \E i \in DOMAIN job[w].rest : job[w].rest[i].item = d.item
        \/ \E i \in DOMAIN job[w].found : job[w].found[i].item = d.item
    BY <1>1, <1>3 DEF JobTags
  <2>2. CASE \E i \in DOMAIN job[w].rest : job[w].rest[i].item = d.item
    <3>1. PICK i \in DOMAIN job[w].rest : job[w].rest[i].item = d.item
      BY <2>2
    <3>2. CASE i = 1
      BY <1>4, <1>9, <1>11, <3>1, <3>2
    <3>3. CASE i # 1
      <4>1. i - 1 \in DOMAIN Tail(job[w].rest) /\ (i - 1) + 1 = i
        BY <1>3, <1>4, <3>1, <3>3
      <4> QED
        BY <1>4, <1>11, <3>1, <4>1
    <3> QED
      BY <3>2, <3>3
  <2>3. CASE \E i \in DOMAIN job[w].found : job[w].found[i].item = d.item
    BY <1>9, <1>11, <2>3
  <2> QED
    BY <2>1, <2>2, <2>3
<1> QED
  BY <1>1, <1>2, <1>12, <1>13, JobSaysStep DEF JobSays
(* Nothing stored for a feed is lost when its articles keep their place.   *)
Keeps(rows, more) == \A a \in rows : \E b \in more : b.id = a.id /\ b.feed = a.feed /\ b.item = a.item

LEMMA StoredStays ==
  ASSUME NEW rows, NEW more, Keeps(rows, more), NEW f, NEW tag, Stored(rows, f, tag)
  PROVE  Stored(more, f, tag)
<1> SUFFICES ASSUME NEW e \in Content(tag)
             PROVE  \E b \in more : b.feed = f /\ b.item = e.item
  BY DEF Stored
<1>1. PICK a \in rows : a.feed = f /\ a.item = e.item
  BY DEF Stored
<1> QED
  BY <1>1 DEF Keeps

LEMMA SaysStays ==
  ASSUME NEW rows, NEW more, Keeps(rows, more), NEW j, JobSays(j, rows)
  PROVE  JobSays(j, more)
<1>1. /\ \A f, tag : Stored(rows, f, tag) => Stored(more, f, tag)
      /\ JobTold(j) /\ (AlwaysNamed => JobTags(j, rows))
  BY StoredStays DEF JobSays
<1>2. ASSUME JobTags(j, rows)
      PROVE  JobTags(j, more)
  BY <1>1, <1>2 DEF JobTags
<1> QED
  BY <1>1, <1>2 DEF JobSays

(* The articles a transaction leaves, and writes.                          *)
LEMMA PersistKeeps ==
  ASSUME DistinctEntries, FetchInv, ContentInv, NEW w \in Workers, Persist(w)
  PROVE  /\ Keeps(articles, articles') /\ \A a \in articles' : Told(a)
         /\ AlwaysNamed => Stored(articles', job[w].feed, job[w].tag)
<1> DEFINE kept == {a \in articles : \A r \in Found(w) : r.id # a.id}
<1>1. /\ job[w].step = "resolving" /\ job[w].rest = <<>>
      /\ articles' = kept \cup Found(w)
      /\ JobOK(job[w], Known) /\ JobSays(job[w], articles)
  BY DEF Persist, FetchInv, ContentInv
<1>2. \A r \in Found(w) : Told(r) /\ r.feed = job[w].feed
  BY <1>1 DEF Found, JobOK, JobSays, JobTold
<1>3. \A a \in articles : Told(a)
  BY DEF ContentInv
<1>4. Keeps(articles, articles')
  <2> SUFFICES ASSUME NEW a \in articles
               PROVE  \E b \in articles' : b.id = a.id /\ b.feed = a.feed /\ b.item = a.item
    BY DEF Keeps
  <2>1. CASE a \in kept
    BY <1>1, <2>1
  <2>2. CASE a \notin kept
    <3>1. PICK r \in Found(w) : r.id = a.id
      BY <2>2
    <3>2. r.item = a.item /\ r.feed = a.feed
      BY <1>2, <1>3, <3>1, IdIsItem
    <3> QED
      BY <1>1, <3>1, <3>2
  <2> QED
    BY <2>1, <2>2
<1>5. \A a \in articles' : Told(a)
  BY <1>1, <1>2, <1>3
<1>6. ASSUME AlwaysNamed
      PROVE  Stored(articles', job[w].feed, job[w].tag)
  <2> SUFFICES ASSUME NEW e \in Content(job[w].tag)
               PROVE  \E b \in articles' : b.feed = job[w].feed /\ b.item = e.item
    BY DEF Stored
  <2>1. \/ \E i \in DOMAIN job[w].rest : job[w].rest[i].item = e.item
        \/ \E i \in DOMAIN job[w].found : job[w].found[i].item = e.item
    BY <1>1, <1>6 DEF JobSays, JobTags
  <2>2. ~ \E i \in DOMAIN job[w].rest : TRUE
    BY <1>1
  <2>3. PICK i \in DOMAIN job[w].found : job[w].found[i].item = e.item
    BY <2>1, <2>2
  <2>4. job[w].found[i] \in Found(w)
    BY DEF Found
  <2> QED
    BY <1>1, <1>2, <2>3, <2>4
<1> QED
  BY <1>4, <1>5, <1>6

(* A row is written with a tag of which all is stored, no article is lost. *)
LEMMA WriteSays ==
  ASSUME FetchInv, ContentInv, NEW f \in Urls, NEW tag,
         AlwaysNamed => Stored(articles', f, tag),
         Keeps(articles, articles'), \A a \in articles' : Told(a),
         \A g \in Urls \ {f} : feeds'[g] = feeds[g], feeds'[f].tag = tag,
         \A x \in Workers : JobSays(job'[x], articles)
  PROVE  ContentInv'
<1>1. \A x \in Workers : JobSays(job'[x], articles')
  BY SaysStays
<1>2. ASSUME AlwaysNamed, NEW g \in Known'
      PROVE  Stored(articles', g, feeds'[g].tag)
  <2>1. CASE g = f
    BY <1>2, <2>1
  <2>2. CASE g # f
    <3>1. g \in Known /\ feeds'[g] = feeds[g]
      BY <1>2, <2>2 DEF Known
    <3>2. Stored(articles, g, feeds[g].tag)
      BY <1>2, <3>1 DEF ContentInv
    <3> QED
      BY <3>1, <3>2, StoredStays
  <2> QED
    BY <2>1, <2>2
<1> QED
  BY <1>1, <1>2 DEF ContentInv

LEMMA PersistSays ==
  ASSUME DistinctEntries, FetchInv, ContentInv, NEW w \in Workers, Persist(w)
  PROVE  ContentInv'
<1> DEFINE f   == job[w].feed
           tag == job[w].tag
           row == [NoFeed EXCEPT !.url = tag[1], !.tag = tag]
<1>1. /\ feeds' = [feeds EXCEPT ![f] = row] /\ job' = Wrote(w)
      /\ job[w].step = "resolving" /\ JobOK(job[w], Known)
  BY DEF Persist, Checked, FetchInv
<1>2. f \in Urls /\ row.tag = tag
  BY <1>1 DEF JobOK, NoFeed
<1>3. /\ \A g \in Urls \ {f} : feeds'[g] = feeds[g]
      /\ feeds'[f].tag = tag
  BY <1>1, <1>2 DEF FetchInv
<1>4. ASSUME NEW x \in Workers
      PROVE  JobSays(job'[x], articles)
  <2>1. job[x] \in Job /\ JobSays(job[x], articles)
    BY DEF FetchInv, ContentInv
  <2>2. JobSays(Idle, articles)
    BY SaysNothing DEF Idle
  <2>3. JobSays([job[x] EXCEPT !.stale = TRUE], articles)
    <3> DEFINE j == [job[x] EXCEPT !.stale = TRUE]
    <3>1. /\ j.step = job[x].step /\ j.asked = job[x].asked /\ j.sent = job[x].sent
          /\ j.tag = job[x].tag /\ j.feed = job[x].feed /\ j.rest = job[x].rest
          /\ j.found = job[x].found
      BY <2>1 DEF Job
    <3> HIDE DEF j
    <3>2. JobSays(j, articles)
      BY <2>1, <3>1 DEF JobSays, JobTold, JobTags
    <3> QED
      BY <3>2 DEF j
  <2>4. \/ job'[x] = Idle \/ job'[x] = job[x] \/ job'[x] = [job[x] EXCEPT !.stale = TRUE]
    BY <1>1 DEF Wrote
  <2> QED
    BY <2>1, <2>2, <2>3, <2>4
<1> HIDE DEF f, tag
<1>5. /\ Keeps(articles, articles') /\ \A a \in articles' : Told(a)
      /\ AlwaysNamed => Stored(articles', f, tag)
  BY PersistKeeps DEF f, tag
<1> QED
  BY <1>2, <1>3, <1>4, <1>5, WriteSays

LEMMA RecordNotModifiedSays ==
  ASSUME FetchInv, ContentInv, NEW w \in Workers, RecordNotModified(w)
  PROVE  ContentInv'
<1> DEFINE f   == job[w].feed
           tag == job[w].tag
           row == [NoFeed EXCEPT !.url = tag[1], !.tag = tag]
<1>1. /\ job[w].step = "checking" /\ UNCHANGED articles
      /\ feeds' = [feeds EXCEPT ![f] = row] /\ job' = [job EXCEPT ![w] = Idle]
      /\ JobOK(job[w], Known) /\ JobSays(job[w], articles)
  BY DEF RecordNotModified, Checked, FetchInv, ContentInv
<1>2. f \in Urls /\ row.tag = tag
  BY <1>1 DEF JobOK, NoFeed
<1>3. AlwaysNamed => Stored(articles', f, tag)
  BY <1>1 DEF JobSays, JobTags
<1>4. /\ \A g \in Urls \ {f} : feeds'[g] = feeds[g]
      /\ feeds'[f].tag = tag
  BY <1>1, <1>2 DEF FetchInv
<1>5. \A x \in Workers : JobSays(job'[x], articles)
  <2>1. JobSays(Idle, articles)
    BY SaysNothing DEF Idle
  <2> QED
    BY <1>1, <2>1 DEF FetchInv, ContentInv
<1>6. Keeps(articles, articles') /\ \A a \in articles' : Told(a)
  BY <1>1 DEF Keeps, ContentInv
<1> HIDE DEF f, tag, row
<1> QED
  BY <1>2, <1>3, <1>4, <1>5, <1>6, WriteSays

(* A failure leaves the row its ETag.                                      *)
LEMMA RecordFailureSays ==
  ASSUME FetchInv, ContentInv, NEW w \in Workers, RecordFailure(w)
  PROVE  ContentInv'
<1> DEFINE j   == job[w]
           f   == j.feed
           row == [feeds[f] EXCEPT !.health = HealthOf(j.error, j.failures + 1),
                                   !.error = j.error, !.failures = j.failures + 1]
<1>1. /\ j.step = "counting" /\ UNCHANGED articles
      /\ feeds' = [feeds EXCEPT ![f] = row] /\ job' = [job EXCEPT ![w] = Idle]
      /\ JobOK(j, Known)
  BY DEF RecordFailure, FetchInv
<1>2. f \in Known /\ f \in Urls /\ feeds[f] \in Row
  BY <1>1, KnownFeed DEF JobOK
<1>3. row.tag = feeds[f].tag
  BY <1>2 DEF Row
<1> HIDE DEF row
<1>4. /\ \A g \in Urls \ {f} : feeds'[g] = feeds[g]
      /\ feeds'[f].tag = feeds[f].tag
  BY <1>1, <1>2, <1>3 DEF FetchInv
<1>5. \A x \in Workers : JobSays(job'[x], articles)
  <2>1. JobSays(Idle, articles)
    BY SaysNothing DEF Idle
  <2> QED
    BY <1>1, <2>1 DEF FetchInv, ContentInv
<1>6. Keeps(articles, articles') /\ \A a \in articles' : Told(a)
  BY <1>1 DEF Keeps, ContentInv
<1>7. AlwaysNamed => Stored(articles', f, feeds[f].tag)
  BY <1>1, <1>2 DEF ContentInv
<1> HIDE DEF f, j
<1> QED
  BY <1>2, <1>4, <1>5, <1>6, <1>7, WriteSays

LEMMA ContentStep ==
  ASSUME DistinctEntries, FetchInv, ContentInv, [FetchNext]_fetchVars
  PROVE  ContentInv'
<1>1. ASSUME UNCHANGED <<feeds, articles, job>>
      PROVE  ContentInv'
  <2>1. Known' = Known
    BY <1>1 DEF Known
  <2> QED
    BY <1>1, <2>1 DEF ContentInv
<1>2. CASE UNCHANGED fetchVars
  BY <1>1, <1>2 DEF fetchVars
<1>3. ASSUME NEW u \in Urls, Publish(u)
      PROVE  ContentInv'
  BY <1>1, <1>3 DEF Publish
<1>4. ASSUME NEW a \in articles, OpenArticle(a)
      PROVE  ContentInv'
  BY <1>1, <1>4 DEF OpenArticle
<1>5. CASE FetchNext
  BY <1>3, <1>4, <1>5, BeginSays, EndEarlySays, AnswerSays, FailSays, ResolveFeedSays,
     ResolveEntrySays, PersistSays, ResolveUnmodifiedSays, RecordNotModifiedSays,
     ReadFailuresSays, RecordFailureSays DEF FetchNext
<1> QED
  BY <1>2, <1>5

LEMMA ContentInitial ==
  ASSUME FetchInit
  PROVE  ContentInv
<1>1. Known = {} /\ articles = {}
  BY DEF FetchInit, Known
<1>2. \A x \in Workers : JobSays(job[x], articles)
  <2>1. JobSays(Idle, articles)
    BY SaysNothing DEF Idle
  <2> QED
    BY <2>1 DEF FetchInit
<1> QED
  BY <1>1, <1>2 DEF ContentInv

-------------------------------------------------------------------------------
(* The hypotheses are of constants: they are part of the invariant.        *)
DistinctInv == DistinctEntries /\ FetchInv /\ ContentInv

(* No two articles are identified by the same: rows and runs say so.       *)
THEOREM ContentInvariance == DistinctEntries /\ FetchSpec => []DistinctInv
<1>1. DistinctEntries /\ FetchInit => DistinctInv
  BY FetchInitial, ContentInitial DEF DistinctInv
<1>2. DistinctInv /\ [FetchNext]_fetchVars => DistinctInv'
  BY FetchStep, ContentStep DEF DistinctInv
<1> QED
  BY <1>1, <1>2, PTL DEF FetchSpec

(* As long as a conditional request names its feed, the ETag of a feed is  *)
(* one of a version of which it has every article: what a later 304 leaves *)
(* out is there, whatever overlapped, failed or was redirected in between. *)
THEOREM TagsAreHonest == DistinctEntries /\ AlwaysNamed /\ FetchSpec => []TagTellsContent
<1> DEFINE Inv == DistinctInv /\ AlwaysNamed
<1>1. DistinctEntries /\ AlwaysNamed /\ FetchInit => Inv
  BY FetchInitial, ContentInitial DEF DistinctInv
<1>2. Inv /\ [FetchNext]_fetchVars => Inv'
  BY FetchStep, ContentStep DEF DistinctInv
<1>3. Inv => TagTellsContent
  BY DEF DistinctInv, ContentInv, Stored, TagTellsContent
<1> HIDE DEF Inv
<1> QED
  BY <1>1, <1>2, <1>3, PTL DEF FetchSpec

(* Two runs that take an article for a new one make the same id of it, and *)
(* an id has one row.                                                      *)
THEOREM RunsAgree == DistinctEntries /\ FetchSpec => []OverlappingRunsAgree
<1>1. DistinctInv => OverlappingRunsAgree
  <2> SUFFICES ASSUME DistinctInv, NEW a \in articles, NEW b \in articles,
                      a.feed = b.feed, a.item = b.item, a.item \in StableItems
               PROVE  a = b
    BY DEF OverlappingRunsAgree
  <2>1. Told(a) /\ Told(b)
    BY DEF DistinctInv, ContentInv
  <2>2. PICK d \in Entries(a.item) : a.id = NewId(a.feed, d)
    BY <2>1 DEF Told
  <2>3. PICK e \in Entries(a.item) : b.id = NewId(a.feed, e)
    BY <2>1 DEF Told
  <2>4. FirstKind(d) = FirstKind(e) /\ d[FirstKind(d)] = e[FirstKind(e)]
    BY DEF StableItems
  <2>5. a.id = b.id
    BY <2>2, <2>3, <2>4 DEF NewId
  <2> QED
    BY <2>5 DEF DistinctInv, FetchInv, ArticlesOK
<1> QED
  BY <1>1, ContentInvariance, PTL

(* No step takes the row of an article for another one, and what the user  *)
(* has read stays read.                                                    *)
THEOREM RowsStay == DistinctEntries /\ FetchSpec => RowsKeepTheirArticle
<1> DEFINE Step == /\ \A a \in articles : \E b \in articles' : b.id = a.id /\ b.item = a.item
                   /\ read \subseteq read'
<1>1. DistinctInv /\ [FetchNext]_fetchVars => [Step]_fetchVars
  <2> SUFFICES ASSUME DistinctInv, FetchNext
               PROVE  Step
    OBVIOUS
  <2>1. ASSUME NEW w \in Workers, Persist(w)
        PROVE  Step
    BY <2>1, PersistKeeps DEF DistinctInv, Keeps, Persist
  <2>2. ASSUME NEW a \in articles, OpenArticle(a)
        PROVE  Step
    BY <2>2 DEF OpenArticle
  <2>3. ASSUME UNCHANGED <<articles, read>>
        PROVE  Step
    BY <2>3
  <2>4. \/ \E w \in Workers : Persist(w)
        \/ \E a \in articles : OpenArticle(a)
        \/ UNCHANGED <<articles, read>>
    BY DEF FetchNext, Publish, Begin, EndEarly, Answer, Fail, ResolveFeed, ResolveEntry,
       ResolveUnmodified, RecordNotModified, ReadFailures, RecordFailure
  <2> QED
    BY <2>1, <2>2, <2>3, <2>4
<1> QED
  BY <1>1, ContentInvariance, PTL DEF FetchSpec, RowsKeepTheirArticle
-------------------------------------------------------------------------------
(* When moreover an entry shares something that identifies it with every   *)
(* other entry for its item, a lookup finds the item's row if there is one.*)
KnownAgain ==
  \A d, e \in AllEntries : d.item = e.item => \E k \in 1 .. 5 : Matches(d, e, Kinds[k])

(* A run is to write one row for an item; and if no other run has written, *)
(* it does so under an id that has a row, or there is none for the item.   *)
FreshJob(j, rows) ==
  /\ \A i, k \in DOMAIN j.found : j.found[i].item = j.found[k].item => i = k
  /\ ~j.stale => \A i \in DOMAIN j.found :
       \/ j.found[i].id \in {a.id : a \in rows}
       \/ \A a \in rows : ~(a.feed = j.feed /\ a.item = j.found[i].item)

FreshInv == \A w \in Workers : FreshJob(job[w], articles)

LEMMA HitExists ==
  ASSUME NEW rows, NEW e, NEW row \in rows, NEW k \in 1 .. 5, Matches(row, e, Kinds[k])
  PROVE  Hits(rows, e) # {}
<1> DEFINE M(n)     == \E other \in rows : Matches(other, e, Kinds[n])
           Least(n) == M(n) /\ \A j \in 1 .. n - 1 : ~M(j)
<1>1. \E n \in 1 .. 5 : Least(n)
  <2>1. M(1) \/ M(2) \/ M(3) \/ M(4) \/ M(5)
    <3>1. M(k)
      OBVIOUS
    <3>2. k = 1 \/ k = 2 \/ k = 3 \/ k = 4 \/ k = 5
      OBVIOUS
    <3> HIDE DEF M
    <3> QED
      BY <3>1, <3>2
  <2> HIDE DEF M
  <2>2. Least(1) \/ Least(2) \/ Least(3) \/ Least(4) \/ Least(5)
    BY <2>1
  <2> QED
    BY <2>2
<1>2. PICK n \in 1 .. 5 : Least(n)
  BY <1>1
<1>3. PICK other \in rows : Matches(other, e, Kinds[n])
  BY <1>2
<1>4. other \in Hits(rows, e)
  BY <1>2, <1>3 DEF Hits
<1> QED
  BY <1>4

(* A row told of an item is found by every entry for it.                   *)
LEMMA ItemIsHit ==
  ASSUME KnownAgain, NEW rows, NEW e \in AllEntries, NEW row \in rows, Told(row),
         row.item = e.item
  PROVE  Hits(rows, e) # {}
<1>1. PICK d \in AllEntries : SameEntry(row, d)
  BY DEF Told
<1>2. PICK k \in 1 .. 5 : Matches(d, e, Kinds[k])
  BY <1>1 DEF KnownAgain, SameEntry
<1>3. Kinds[k] \in {"guid", "canonical", "original", "stamp", "hash"}
  BY DEF Kinds
<1>4. Matches(row, e, Kinds[k])
  BY <1>1, <1>2, <1>3 DEF Matches, UrlsOf, SameEntry
<1> QED
  BY <1>4, HitExists

LEMMA FreshNothing ==
  ASSUME NEW j, NEW rows, j.found = <<>>
  PROVE  FreshJob(j, rows)
  BY DEF FreshJob

(* A step of one run, after which it has nothing to write.                 *)
LEMMA FreshElsewhere ==
  ASSUME FetchInv', FreshInv, NEW w \in Workers, UNCHANGED articles,
         \A x \in Workers \ {w} : job'[x] = job[x], job'[w].step # "resolving"
  PROVE  FreshInv'
<1>1. job'[w].found = <<>>
  BY DEF FetchInv, JobOK
<1>2. FreshJob(job'[w], articles)
  BY <1>1, FreshNothing
<1> QED
  BY <1>2 DEF FreshInv

LEMMA ResolveEntryFresh ==
  ASSUME DistinctEntries, KnownAgain, FetchInv, ContentInv, FreshInv,
         NEW w \in Workers, ResolveEntry(w)
  PROVE  FreshInv'
<1> DEFINE e == Head(job[w].rest)
           known == {a \in articles : a.feed = job[w].feed}
           ids == IF Hits(known, e) # {} THEN {a.id : a \in Hits(known, e)}
                                         ELSE {NewId(job[w].feed, e)}
           row(id) == [id |-> id, feed |-> job[w].feed, item |-> e.item, guid |-> e.guid,
                       canonical |-> e.canonical, original |-> e.original,
                       stamp |-> e.stamp, hash |-> e.hash]
           drop(id) == Hits(Found(w), e) # {} \/ \E a \in Found(w) : a.id = id
           next(id) == [job[w] EXCEPT
                          !.rest = Tail(job[w].rest),
                          !.found = IF drop(id) THEN job[w].found
                                                ELSE Append(job[w].found, row(id))]
<1>1. job[w].step = "resolving" /\ job[w].rest # <<>> /\ UNCHANGED articles
  BY DEF ResolveEntry
<1>2. PICK id \in ids : job' = [job EXCEPT ![w] = next(id)]
  BY DEF ResolveEntry
<1>3. /\ job[w] \in Job /\ job[w].rest \in Seq(Entry) /\ job[w].found \in Seq(Rows)
      /\ JobTold(job[w]) /\ FreshJob(job[w], articles)
  <2>1. job[w] \in Job
    BY DEF FetchInv
  <2> QED
    BY <2>1 DEF Job, ContentInv, JobSays, FreshInv
<1>4. e \in AllEntries
  BY <1>1, <1>3 DEF JobTold
<1> HIDE DEF e
<1>5. /\ next(id).feed = job[w].feed /\ next(id).stale = job[w].stale
      /\ next(id).found = IF drop(id) THEN job[w].found ELSE Append(job[w].found, row(id))
  BY <1>3 DEF Job
<1>6. row(id).item = e.item /\ row(id).id = id
  OBVIOUS
<1> HIDE DEF next, row
<1>7. \/ id \in {a.id : a \in articles}
      \/ \A a \in articles : ~(a.feed = job[w].feed /\ a.item = e.item)
  <2>1. CASE Hits(known, e) # {}
    BY <1>2, <2>1 DEF Hits
  <2>2. CASE Hits(known, e) = {}
    <3> SUFFICES ASSUME NEW a \in articles, a.feed = job[w].feed, a.item = e.item
                 PROVE  FALSE
      OBVIOUS
    <3>1. a \in known /\ Told(a)
      BY DEF ContentInv
    <3> QED
      BY <1>4, <2>2, <3>1, ItemIsHit
  <2> QED
    BY <2>1, <2>2
<1> HIDE DEF known, ids
<1>8. ASSUME ~drop(id), NEW i \in DOMAIN job[w].found
      PROVE  job[w].found[i].item # e.item
  <2>1. job[w].found[i] \in Found(w) /\ Told(job[w].found[i])
    BY <1>3 DEF Found, JobTold
  <2> QED
    BY <1>4, <1>8, <2>1, ItemIsHit
<1>9. FreshJob(next(id), articles)
  <2>1. CASE drop(id)
    BY <1>3, <1>5, <2>1 DEF FreshJob
  <2>2. CASE ~drop(id)
    <3> DEFINE n == Len(job[w].found)
               more == Append(job[w].found, row(id))
    <3>1. next(id).found = more
      BY <1>5, <2>2
    <3>2. /\ DOMAIN more = 1 .. n + 1 /\ more[n + 1] = row(id) /\ n \in Nat
          /\ DOMAIN job[w].found = 1 .. n
          /\ \A i \in 1 .. n : more[i] = job[w].found[i]
      BY <1>3
    <3> HIDE DEF n, more
    <3>3. n + 1 \in DOMAIN more /\ \A i \in DOMAIN more : i = n + 1 \/ i \in 1 .. n
      BY <3>2
    <3>4. \A i \in 1 .. n : more[i].item # more[n + 1].item
      BY <1>6, <1>8, <2>2, <3>2
    <3>5. \A i, k \in DOMAIN more : more[i].item = more[k].item => i = k
      <4>1. \A i, k \in 1 .. n : more[i].item = more[k].item => i = k
        BY <1>3, <3>2 DEF FreshJob
      <4> QED
        BY <3>3, <3>4, <4>1
    <3>6. ASSUME ~job[w].stale, NEW i \in DOMAIN more
          PROVE  \/ more[i].id \in {a.id : a \in articles}
                 \/ \A a \in articles : ~(a.feed = job[w].feed /\ a.item = more[i].item)
      <4>1. CASE i = n + 1
        BY <1>6, <1>7, <3>2, <4>1
      <4>2. CASE i \in 1 .. n
        BY <1>3, <3>2, <3>6, <4>2 DEF FreshJob
      <4> QED
        BY <3>3, <4>1, <4>2
    <3> QED
      BY <1>5, <3>1, <3>5, <3>6 DEF FreshJob
  <2> QED
    BY <2>1, <2>2
<1> QED
  BY <1>1, <1>2, <1>9 DEF FreshInv, FetchInv

(* The runs a transaction overtakes are stale.                             *)
LEMMA PersistFresh ==
  ASSUME FetchInv, FreshInv, NEW w \in Workers, Persist(w)
  PROVE  FreshInv'
<1>1. job' = Wrote(w)
  BY DEF Persist
<1> SUFFICES ASSUME NEW x \in Workers
             PROVE  FreshJob(job'[x], articles')
  BY DEF FreshInv
<1>2. job[x] \in Job /\ JobOK(job[x], Known) /\ FreshJob(job[x], articles)
  BY DEF FetchInv, FreshInv
<1>3. CASE x = w
  <2>1. job'[x] = Idle
    BY <1>1, <1>3 DEF Wrote
  <2>2. job'[x].found = <<>>
    BY <2>1 DEF Idle
  <2> QED
    BY <2>2, FreshNothing
<1>4. CASE x # w /\ job[x].step = "resolving"
  <2>1. job'[x] = [job[x] EXCEPT !.stale = TRUE]
    BY <1>1, <1>4 DEF Wrote
  <2>2. job'[x].stale /\ job'[x].found = job[x].found
    BY <1>2, <2>1 DEF Job
  <2> QED
    BY <1>2, <2>2 DEF FreshJob
<1>5. CASE x # w /\ job[x].step # "resolving"
  <2>1. job'[x] = job[x]
    BY <1>1, <1>5 DEF Wrote
  <2>2. job'[x].found = <<>>
    BY <1>2, <1>5, <2>1 DEF JobOK
  <2> QED
    BY <2>2, FreshNothing
<1> QED
  BY <1>3, <1>4, <1>5

LEMMA FreshStep ==
  ASSUME DistinctEntries, KnownAgain, FetchInv, ContentInv, FreshInv, [FetchNext]_fetchVars
  PROVE  FreshInv'
<1>1. FetchInv'
  BY FetchStep
<1>2. ASSUME UNCHANGED <<articles, job>>
      PROVE  FreshInv'
  BY <1>2 DEF FreshInv
<1>3. CASE UNCHANGED fetchVars
  BY <1>2, <1>3 DEF fetchVars
<1>4. ASSUME NEW u \in Urls, Publish(u)
      PROVE  FreshInv'
  BY <1>2, <1>4 DEF Publish
<1>5. ASSUME NEW a \in articles, OpenArticle(a)
      PROVE  FreshInv'
  BY <1>2, <1>5 DEF OpenArticle
<1>6. ASSUME NEW w \in Workers
      PROVE  job \in [Workers -> Job] /\ job[w] \in Job /\ JobOK(job[w], Known)
  BY <1>6 DEF FetchInv
<1>7. ASSUME NEW w \in Workers, Begin(w)
      PROVE  FreshInv'
  <2>1. /\ UNCHANGED articles /\ \A x \in Workers \ {w} : job'[x] = job[x]
        /\ job'[w].step = "asked"
    BY <1>6, <1>7 DEF Begin, Idle
  <2> QED
    BY <1>1, <2>1, FreshElsewhere
<1>8. ASSUME NEW w \in Workers, EndEarly(w) \/ RecordNotModified(w) \/ RecordFailure(w)
      PROVE  FreshInv'
  <2>1. UNCHANGED articles /\ job' = [job EXCEPT ![w] = Idle]
    BY <1>8 DEF EndEarly, RecordNotModified, RecordFailure
  <2>2. /\ \A x \in Workers \ {w} : job'[x] = job[x]
        /\ job'[w].step = "idle"
    BY <1>6, <2>1 DEF Idle
  <2> QED
    BY <1>1, <2>1, <2>2, FreshElsewhere
<1>9. ASSUME NEW w \in Workers, NEW final \in Urls, Answer(w, final)
      PROVE  FreshInv'
  <2> DEFINE tag  == <<final, version[final]>>
             same == [job[w] EXCEPT !.step = "unmodified", !.sent = NoTag, !.tag = tag]
             new  == [Idle EXCEPT !.step = "modified", !.asked = job[w].asked, !.tag = tag,
                                  !.rest = Document[final][version[final]]]
  <2>1. /\ UNCHANGED articles
        /\ job' = [job EXCEPT ![w] = same] \/ job' = [job EXCEPT ![w] = new]
    BY <1>9 DEF Answer
  <2>2. same.step = "unmodified" /\ new.step = "modified"
    BY <1>6 DEF Job, Idle
  <2> HIDE DEF same, new
  <2>3. /\ \A x \in Workers \ {w} : job'[x] = job[x]
        /\ job'[w].step # "resolving"
    BY <1>6, <2>1, <2>2
  <2> QED
    BY <1>1, <2>1, <2>3, FreshElsewhere
<1>10. ASSUME NEW w \in Workers, NEW kind \in ErrorKinds, Fail(w, kind)
       PROVE  FreshInv'
  <2>1. /\ UNCHANGED articles /\ \A x \in Workers \ {w} : job'[x] = job[x]
        /\ job'[w].step = "failed"
    BY <1>6, <1>10 DEF Fail, Job
  <2> QED
    BY <1>1, <2>1, FreshElsewhere
<1>11. ASSUME NEW w \in Workers, ResolveFeed(w)
       PROVE  FreshInv'
  <2>1. PICK f : job' = [job EXCEPT ![w] = [@ EXCEPT !.step = "resolving", !.asked = NoId, !.feed = f]]
    BY <1>11 DEF ResolveFeed
  <2>2. UNCHANGED articles /\ job[w].step = "modified"
    BY <1>11 DEF ResolveFeed
  <2>3. /\ \A x \in Workers \ {w} : job'[x] = job[x]
        /\ job'[w].found = job[w].found
    BY <1>6, <2>1 DEF Job
  <2>4. job'[w].found = <<>>
    BY <1>6, <2>2, <2>3 DEF JobOK
  <2>5. FreshJob(job'[w], articles)
    BY <2>4, FreshNothing
  <2> QED
    BY <2>2, <2>3, <2>5 DEF FreshInv
<1>12. ASSUME NEW w \in Workers, ResolveUnmodified(w) \/ ReadFailures(w)
       PROVE  FreshInv'
  <2>1. /\ UNCHANGED articles /\ \A x \in Workers \ {w} : job'[x] = job[x]
        /\ job'[w].step \in {"checking", "counting"}
    BY <1>6, <1>12 DEF ResolveUnmodified, ReadFailures, Idle
  <2> QED
    BY <1>1, <2>1, FreshElsewhere
<1>13. CASE FetchNext
  BY <1>4, <1>5, <1>7, <1>8, <1>9, <1>10, <1>11, <1>12, <1>13, ResolveEntryFresh, PersistFresh
     DEF FetchNext
<1> QED
  BY <1>3, <1>13

AgainInv == DistinctInv /\ KnownAgain /\ FreshInv

(* A run during which no other run wrote never adds a second row for an    *)
(* article its feed has.                                                   *)
THEOREM RowsStaySingle == DistinctEntries /\ KnownAgain /\ FetchSpec => NoSecondRow
<1> DEFINE Single(w) ==
             \A row, other \in articles' :
               row.feed = other.feed /\ row.item = other.item /\ row # other
                 => {row.id, other.id} \subseteq {a.id : a \in articles}
           Step == \A w \in Workers : Persist(w) /\ ~job[w].stale => Single(w)
<1>1. DistinctEntries /\ KnownAgain /\ FetchInit => AgainInv
  <2> SUFFICES ASSUME DistinctEntries, KnownAgain, FetchInit PROVE AgainInv
    OBVIOUS
  <2>1. \A w \in Workers : job[w].found = <<>>
    BY DEF FetchInit, Idle
  <2> QED
    BY <2>1, FreshNothing, FetchInitial, ContentInitial DEF AgainInv, DistinctInv, FreshInv
<1>2. AgainInv /\ [FetchNext]_fetchVars => AgainInv'
  BY FetchStep, ContentStep, FreshStep DEF AgainInv, DistinctInv
<1>3. AgainInv => Step
  <2> SUFFICES ASSUME AgainInv, NEW w \in Workers, Persist(w), ~job[w].stale,
                      NEW row \in articles', NEW other \in articles',
                      row.feed = other.feed, row.item = other.item, row # other
               PROVE  row.id \in {a.id : a \in articles}
    <3> HIDE DEF AgainInv
    <3> QED
      BY Zenon
  <2>1. articles' \subseteq articles \cup Found(w)
    BY DEF Persist
  <2>2. CASE row \in articles
    BY <2>2
  <2>3. CASE row \in Found(w)
    <3>1. PICK i \in DOMAIN job[w].found : row = job[w].found[i]
      BY <2>3 DEF Found
    <3>2. row.feed = job[w].feed /\ FreshJob(job[w], articles)
      BY <3>1 DEF AgainInv, DistinctInv, FreshInv, FetchInv, JobOK
    <3>3. CASE other \in articles
      BY <3>1, <3>2, <3>3 DEF FreshJob
    <3>4. CASE other \in Found(w)
      <4>1. PICK k \in DOMAIN job[w].found : other = job[w].found[k]
        BY <3>4 DEF Found
      <4> QED
        BY <3>1, <3>2, <4>1 DEF FreshJob
    <3> QED
      BY <2>1, <3>3, <3>4
  <2> QED
    BY <2>1, <2>2, <2>3
<1>4. AgainInv /\ [FetchNext]_fetchVars => [Step]_fetchVars
  BY <1>3
<1> QED
  BY <1>1, <1>2, <1>4, PTL DEF FetchSpec, NoSecondRow
===============================================================================
