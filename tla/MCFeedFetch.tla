----------------------------- MODULE MCFeedFetch ------------------------------
(***************************************************************************)
(* Small instances of FeedFetch: two URLs, one of which may redirect to    *)
(* the other, and documents whose entries change what identifies them.     *)
(***************************************************************************)
EXTENDS FeedFetch, TLC

CONSTANTS u1, u2, none, a, b, c

Item(item, guid, canonical, original, stamp, hash) ==
  [item |-> item, guid |-> guid, canonical |-> canonical, original |-> original,
   stamp |-> stamp, hash |-> hash]

MCWorkers == Permutations(Workers)

MCValues == 1 .. 9
MCRedirects == [u \in Urls |-> IF u = u1 THEN Urls ELSE {u}]

(* a keeps its guid and changes its URLs; c has no guid and changes its    *)
(* URL, but not its title and time; b comes with a mirror, by its URL.  The*)
(* guid of b is a URL of a, and the other way round.                       *)
MCDocument ==
  [u \in Urls |->
     IF u = u1
       THEN <<<<Item(a, 1, 2, none, none, 3), Item(c, none, 4, none, 5, 6)>>,
              <<Item(a, 1, 7, 2, none, 3), Item(c, none, 8, none, 5, 9)>>>>
       ELSE <<<<Item(b, 2, none, 1, none, none), Item(b, none, 1, none, none, none)>>, <<>>>>]

(* One entry, to count failures with.                                      *)
OneEntry ==
  [u \in Urls |-> IF u = u1 THEN <<<<Item(a, 1, 2, none, none, 3)>>>> ELSE <<<<>>>>]

(* Two entries with guids and URLs of their own and the same summary.      *)
SharedSummary ==
  [u \in Urls |-> IF u = u1 THEN <<<<Item(a, 1, 2, none, none, 3),
                                   Item(b, 4, 5, none, none, 3)>>>> ELSE <<<<>>>>]
===============================================================================
