------------------------------- MODULE FeedMarks -------------------------------
(***************************************************************************)
(* Likes of the immersive feed: the marks table (FeedState of              *)
(* src/webui/feed_state.py; saves are alike), the route that sets a mark   *)
(* in two transactions of two databases, and a viewer who leafs through    *)
(* them by offset (FeedService.list_posts of feed_routes.py) while the     *)
(* index behind the posts changes.                                         *)
(***************************************************************************)
EXTENDS Naturals, Sequences, FiniteSets, SequencesExt

CONSTANTS Posts,
          Owners,      \* account keys
          Nowhere,     \* no such post in the index; every account
          Taps,        \* requests that set a mark
          PerPage      \* limit

ASSUME MarksAssumption ==
    Nowhere \notin Owners /\ Owners # {} /\ Nowhere \notin Posts /\ PerPage \in Nat \ {0}

VARIABLES
    owner,     \* the account of a post in the index
    likes,     \* the marks "like", the newest first, with their account_key
    tap,       \* what a request has looked up
    scope,     \* the account the viewer looks at
    offset,    \* the viewer's cursor
    leafing,
    leafed,    \* how often the viewer was shown a post
    touched,   \* history: a like came or went while the viewer leafed
    steady     \* history: posts that were in the index all that time

markVars == <<owner, likes, tap, scope, offset, leafing, leafed, touched, steady>>

NoTap == [post |-> Nowhere, on |-> FALSE, account |-> Nowhere]

MarksTypeOK ==
    /\ owner \in [Posts -> Owners \cup {Nowhere}]
    /\ likes \in Seq([post : Posts, account : Owners \cup {Nowhere}])
    /\ tap \in [Taps -> [post : Posts, on : BOOLEAN, account : Owners \cup {Nowhere}]
                            \cup {NoTap}]
    /\ scope \in Owners \cup {Nowhere}
    /\ offset \in Nat /\ leafing \in BOOLEAN /\ touched \in BOOLEAN
    /\ leafed \in [Posts -> Nat] /\ steady \subseteq Posts

MarksInit ==
    /\ owner = [p \in Posts |-> CHOOSE a \in Owners : TRUE] /\ likes = <<>>
    /\ tap = [t \in Taps |-> NoTap]
    /\ scope = Nowhere /\ offset = 0 /\ leafing = FALSE
    /\ leafed = [p \in Posts |-> 0] /\ touched = FALSE /\ steady = {}

Liked(p) == \E e \in DOMAIN likes : likes[e].post = p
Others(p) == IF Liked(p) THEN RemoveAt(likes, CHOOSE e \in DOMAIN likes : likes[e].post = p)
                         ELSE likes

\* The rows that are asked for, and where one comes among them.
OfScope == {e \in DOMAIN likes : scope = Nowhere \/ likes[e].account = scope}
Place(e) == Cardinality({d \in OfScope : d <= e})

-----------------------------------------------------------------------------

\* FeedService.set_mark: the post is looked up; one that is gone can only be
\* unmarked.
TapsMark(t) ==
    /\ tap[t] = NoTap
    /\ \E p \in Posts, on \in BOOLEAN :
          /\ (on => owner[p] # Nowhere)
          /\ tap' = [tap EXCEPT ![t] = [post |-> p, on |-> on, account |-> owner[p]]]
    /\ UNCHANGED <<owner, likes, scope, offset, leafing, leafed, touched, steady>>

\* Mutant: INSERT OR REPLACE.
LikedAnew(p, a) == <<[post |-> p, account |-> a]>> \o Others(p)

\* INSERT OR IGNORE
LikedOnce(p, a) == IF Liked(p) THEN likes ELSE <<[post |-> p, account |-> a]>> \o likes

\* FeedState.set_mark
SetsMark(t) ==
    /\ tap[t] # NoTap
    /\ LET p == tap[t].post
       IN  /\ likes' = IF tap[t].on THEN LikedOnce(p, tap[t].account) ELSE Others(p)
           /\ touched' = (touched \/ Liked(p) # tap[t].on)
    /\ tap' = [tap EXCEPT ![t] = NoTap]
    /\ UNCHANGED <<owner, scope, offset, leafing, leafed, steady>>

\* The feed worker: a post is indexed, is gone, or has another account.
Reindexed ==
    /\ \E p \in Posts, a \in Owners \cup {Nowhere} :
          /\ owner' = [owner EXCEPT ![p] = a]
          /\ steady' = IF a = Nowhere THEN steady \ {p} ELSE steady
    /\ UNCHANGED <<likes, tap, scope, offset, leafing, leafed, touched>>

OpensLikes ==
    /\ ~leafing /\ leafing' = TRUE
    /\ scope' \in Owners \cup {Nowhere}
    /\ offset' = 0 /\ leafed' = [p \in Posts |-> 0] /\ touched' = FALSE
    /\ steady' = {p \in Posts : owner[p] # Nowhere}
    /\ UNCHANGED <<owner, likes, tap>>

Page == {e \in OfScope : offset < Place(e) /\ Place(e) <= offset + PerPage}

\* state.page, and index.posts_by_keys: a mark whose post is gone takes its
\* place in the page.
LeafsOn ==
    /\ leafing
    /\ leafed' = [p \in Posts |-> leafed[p] +
          Cardinality({e \in Page : likes[e].post = p /\ owner[p] # Nowhere})]
    /\ offset' = offset + PerPage
    /\ leafing' = (offset + PerPage < Cardinality(OfScope))
    /\ UNCHANGED <<owner, likes, tap, scope, touched, steady>>

MarksNext ==
    \/ \E t \in Taps : TapsMark(t) \/ SetsMark(t)
    \/ Reindexed \/ OpensLikes \/ LeafsOn

MarksSpec == MarksInit /\ [][MarksNext]_markVars

-----------------------------------------------------------------------------
(* Properties *)

\* A viewer who leafs through the likes sees none twice and misses none that
\* stayed in the index, unless a like came or went meanwhile: neither a
\* repeated tap nor the index moves one ("A repeated tap keeps the original
\* time, so lists stay stable", feed_state.py:64).  A post has one like.
LikesListed ==
    /\ \A d, e \in DOMAIN likes : likes[d].post = likes[e].post => d = e
    /\ ~touched =>
          /\ \A p \in Posts : leafed[p] <= 1
          /\ ~leafing /\ offset > 0 =>
                \A e \in OfScope : likes[e].post \in steady => leafed[likes[e].post] = 1
=============================================================================
