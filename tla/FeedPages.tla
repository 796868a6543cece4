------------------------------ MODULE FeedPages ------------------------------
(***************************************************************************)
(* Paging through the posts of the feed (src/webui/feed_index.py): the     *)
(* newest or oldest first, by keyset cursor, or "for you", which mixes     *)
(* three pools, each one walk around a fixed shuffle.  The reader asks for *)
(* page after page; between two queries posts come and go.                 *)
(*                                                                         *)
(* A post is its place in the order of the mode: (published_ts, id), or    *)
(* its shuffle.  Two posts with one shuffle are left out.                  *)
(***************************************************************************)
EXTENDS Naturals, FiniteSets, Sequences

CONSTANTS Posts,    \* 1..n
          Limit     \* posts of a page

ASSUME PagesAssumption ==
    /\ Posts = 1..Cardinality(Posts) /\ IsFiniteSet(Posts) /\ Limit \in Nat \ {0}

VARIABLES
    mode,       \* latest, oldest, foryou
    special,    \* per pool of foryou, the posts it is about
    present,    \* the posts of the index
    gone,       \* posts that have been removed
    stayed,     \* posts that were there from the beginning
    cursor,     \* the keyset cursor: the last post that was given
    pools,      \* foryou's cursor
    mixing,     \* the page that is being put together
    given,      \* how often a post was given, up to 2
    ended       \* a page came without a cursor

library == <<mode, special, present, gone, stayed>>
pagesVars == <<library, cursor, pools, mixing, given, ended>>

Pools == {"recent", "favorite", "all"}
Walk == [position : 0..Cardinality(Posts), start : 0..Cardinality(Posts),
         wrapped : BOOLEAN, done : BOOLEAN]
Order == IF special["favorite"] = {} THEN <<"recent", "all", "all">>
         ELSE <<"recent", "all", "favorite", "all">>
NoPage == [on |-> FALSE, posts |-> {}, turn |-> 0, misses |-> 0]

PagesTypeOK ==
    /\ mode \in {"latest", "oldest", "foryou"}
    /\ special \in [Pools -> SUBSET Posts]
    /\ present \subseteq Posts /\ gone \subseteq Posts /\ stayed \subseteq present
    /\ cursor \in 0..(Cardinality(Posts) + 1)
    /\ pools \in [Pools -> Walk]
    /\ mixing \in [on : BOOLEAN, posts : SUBSET Posts, turn : 0..3, misses : 0..4]
    /\ given \in [Posts -> 0..2]
    /\ ended \in BOOLEAN

PagesInit ==
    /\ mode \in {"latest", "oldest", "foryou"}
    /\ special \in [Pools -> SUBSET Posts]
    /\ special["recent"] \in {{}, {1}} /\ special["favorite"] \in {{}, {1}, {2}}
    /\ special["all"] = Posts
    /\ mode # "foryou" => special["recent"] = {} /\ special["favorite"] = {}
    /\ present \in SUBSET Posts /\ stayed = present /\ gone = {}
    /\ cursor = IF mode = "oldest" THEN 0 ELSE Cardinality(Posts) + 1
    /\ \E start \in Posts :      \* of the small pools, 0
          /\ pools = [p \in Pools |-> LET s == IF p = "all" THEN start ELSE 0
                                      IN  [position |-> s, start |-> s, wrapped |-> FALSE, done |-> FALSE]]
          /\ mode # "foryou" => start = 1
    /\ mixing = NoPage
    /\ given = [p \in Posts |-> 0] /\ ended = FALSE

\* foryou gives a post again in another page.
Most == IF mode = "foryou" THEN 1 ELSE 2
Give(S) == given' = [p \in Posts |-> IF p \in S /\ given[p] < Most THEN given[p] + 1 ELSE given[p]]

-----------------------------------------------------------------------------
\* latest_posts; account_posts, oldest first.  One more than a page is read.
Page ==
    LET after(p) == IF mode = "oldest" THEN p > cursor ELSE p < cursor
        before(p, q) == IF mode = "oldest" THEN p < q ELSE p > q
        rows == {p \in present : after(p)}
        page == {p \in rows : Cardinality({q \in rows : before(q, p)}) < Limit}
    IN  /\ mode # "foryou" /\ ~ended
        /\ Give(page)
        /\ ended' = (rows = page)
        /\ cursor' = IF ended' THEN cursor ELSE CHOOSE p \in page : \A q \in page : ~before(p, q)
        /\ UNCHANGED <<library, pools, mixing>>

\* foryou_page begins.
Mix ==
    /\ mode = "foryou" /\ ~ended /\ ~mixing.on
    /\ mixing' = [NoPage EXCEPT !.on = TRUE]
    /\ UNCHANGED <<library, cursor, pools, given, ended>>

\* A query of _pool_take: the next post of the walk, and how it goes on when
\* there is none.
Step(pool) ==
    LET w == pools[pool]
        rows == {p \in present \cap special[pool] :
                    p > w.position /\ (w.wrapped => p <= w.start)}
        first == CHOOSE p \in rows : \A q \in rows : p <= q
    IN  IF rows # {} THEN [post |-> first, walk |-> [w EXCEPT !.position = first]]
        ELSE IF w.wrapped THEN [post |-> 0, walk |-> [w EXCEPT !.done = TRUE]]
        ELSE [post |-> 0, walk |-> [w EXCEPT !.wrapped = TRUE, !.position = 0]]

\* The loop of foryou_page, one query at a time: a pool that has no next post
\* and has not been around is asked again; a post that is on the page already
\* is not given twice.
Take ==
    LET pool == Order[mixing.turn + 1]
        step == Step(pool)
        next == (mixing.turn + 1) % Len(Order)
    IN  /\ mixing.on
        /\ Cardinality(mixing.posts) < Limit /\ mixing.misses < Len(Order)
        /\ IF pools[pool].done THEN
              /\ mixing' = [mixing EXCEPT !.turn = next, !.misses = @ + 1]
              /\ UNCHANGED <<pools, given>>
           ELSE
              /\ pools' = [pools EXCEPT ![pool] = step.walk]
              /\ IF step.post # 0 THEN
                    /\ mixing' = [mixing EXCEPT !.posts = @ \cup {step.post}, !.turn = next, !.misses = 0]
                    /\ Give({step.post} \ mixing.posts)
                 ELSE
                    /\ mixing' = IF step.walk.done
                                 THEN [mixing EXCEPT !.turn = next, !.misses = @ + 1] ELSE mixing
                    /\ UNCHANGED given
        /\ UNCHANGED <<library, cursor, ended>>

\* Mutant: the feed ends with any of its pools.
MixedAny ==
    /\ mixing.on /\ (Cardinality(mixing.posts) >= Limit \/ mixing.misses >= Len(Order))
    /\ ended' = (\E p \in Pools : pools[p].done)
    /\ mixing' = NoPage
    /\ UNCHANGED <<library, cursor, pools, given>>

\* The page is full, or no pool has anything.  The feed ends with "all".
Mixed ==
    /\ mixing.on /\ (Cardinality(mixing.posts) >= Limit \/ mixing.misses >= Len(Order))
    /\ ended' = pools["all"].done
    /\ mixing' = NoPage
    /\ UNCHANGED <<library, cursor, pools, given>>

\* sync_account: a new post has an order of its own.
Comes(p) ==
    /\ p \notin present \cup gone
    /\ present' = present \cup {p}
    /\ UNCHANGED <<mode, special, gone, stayed, cursor, pools, mixing, given, ended>>

Goes(p) ==
    /\ p \in present
    /\ present' = present \ {p} /\ stayed' = stayed \ {p} /\ gone' = gone \cup {p}
    /\ UNCHANGED <<mode, special, cursor, pools, mixing, given, ended>>

\* list_posts: by time the rows of a page, for you a mix of the pools.
ListPosts == Page \/ Mix \/ Take \/ Mixed

PagesNext == ListPosts \/ \E p \in Posts : Comes(p) \/ Goes(p)

PagesSpec == PagesInit /\ [][PagesNext]_pagesVars

-----------------------------------------------------------------------------
(* Properties *)

\* "The "all" pool covers everything, so nothing is lost when the feed ends
\* with it" (feed_index.py): whatever is downloaded and deleted while somebody
\* pages through a feed, at its end they have been given every post that was
\* there all the time; newest or oldest first, none of them twice.
NothingLost ==
    /\ ended => \A p \in stayed : given[p] > 0
    /\ mode # "foryou" => \A p \in Posts : given[p] <= 1
=============================================================================
