----------------------------- MODULE FeedComments -----------------------------
(***************************************************************************)
(* Comments of the immersive feed (FeedService.comments of                 *)
(* src/application/feed_routes.py): a page of comments is fetched while    *)
(* the viewer waits, one fetch at a time, and kept for a while in a small  *)
(* cache.  Viewers move on while they queue.                               *)
(*                                                                         *)
(* The request delay is kept between the moments at which two fetches      *)
(* begin.  Each then waits for the leases of an identity, for as long as   *)
(* these take, and asks the platform up to max_retry + 1 times.            *)
(***************************************************************************)
EXTENDS Naturals, Sequences, FiniteSets, SequencesExt

CONSTANTS Viewers,      \* requests; a viewer sends the next one when one ended
          CommentPages, \* the keys of the cache: work, cursor, thread
          Delays,       \* values of request_delay
          Fresh,        \* _COMMENT_CACHE_SECONDS
          CacheSize,    \* _COMMENT_CACHE_SIZE
          MaxTime       \* bound on the clock

ASSUME CommentsAssumption ==
    /\ Delays # {} /\ Delays \subseteq Nat /\ Fresh \in Nat /\ MaxTime \in Nat
    /\ CacheSize \in Nat \ {0} /\ CommentPages # {}

VARIABLES
    commentClock,  \* monotonic()
    cache,         \* comment_cache, the entry used last at the end
    slot,          \* the viewers at comment_slot, the first of them inside
    delay,         \* parameter.request_delay
    lastFetch,     \* last_comment_fetch
    viewer,        \* where his request stands, for which page it is, the request
                   \* delay when it came and whether he has disconnected since
    shown,         \* what was answered last, and how old that was
    lastRequest,   \* history: of the platform, when
    earlier        \* history: ... by the fetches before the last one

commentVars == <<commentClock, cache, slot, delay, lastFetch, viewer, shown, lastRequest, earlier>>

\* "empty": the end of the comments, or no answer of the platform; "refused":
\* that for the first page of a post that has comments.
Replies == {"comments", "empty", "refused", "unavailable"}
Inside == {"spacing", "asking", "leasing", "fetching"}

CommentsTypeOK ==
    /\ commentClock \in 0..MaxTime /\ lastFetch \in 0..MaxTime /\ lastRequest \in 0..MaxTime
    /\ earlier \in 0..MaxTime /\ delay \in Delays
    /\ cache \in Seq([page : CommentPages, expires : Nat, reply : Replies])
    /\ slot \in Seq(Viewers)
    /\ viewer \in [Viewers -> [at : {"idle", "queued"} \cup Inside, wants : CommentPages,
                               gap : Delays, gone : BOOLEAN]]
    /\ shown \in [reply : Replies \cup {"nothing"}, age : Nat]

NoRequest == [at |-> "idle", wants |-> CHOOSE p \in CommentPages : TRUE,
              gap |-> CHOOSE d \in Delays : TRUE, gone |-> FALSE]

CommentsInit ==
    /\ commentClock = 0 /\ cache = <<>> /\ slot = <<>> /\ lastFetch = 0
    /\ lastRequest = 0 /\ earlier = 0
    /\ delay = CHOOSE d \in Delays : TRUE
    /\ viewer = [v \in Viewers |-> NoRequest]
    /\ shown = [reply |-> "nothing", age |-> 0]

Entry(p) == {e \in 1..Len(cache) : cache[e].page = p}
\* A key has one entry.
Except(p) == IF Entry(p) = {} THEN cache ELSE RemoveAt(cache, CHOOSE e \in Entry(p) : TRUE)

Says(v, reply, age) ==
    /\ viewer' = [viewer EXCEPT ![v] = NoRequest]
    /\ shown' = [reply |-> reply, age |-> age]

-----------------------------------------------------------------------------

\* The post is looked up; then _cached_comments, or a place in the queue.
Request(v, p) ==
    /\ viewer[v].at = "idle"
    /\ \/ \E e \in Entry(p) :
             /\ commentClock < cache[e].expires
             /\ cache' = Append(Except(p), cache[e])
             /\ Says(v, cache[e].reply, commentClock + Fresh - cache[e].expires)
             /\ UNCHANGED slot
       \/ /\ \A e \in Entry(p) : commentClock >= cache[e].expires
          /\ cache' = Except(p)
          /\ viewer' = [viewer EXCEPT ![v] =
                [at |-> "queued", wants |-> p, gap |-> delay, gone |-> FALSE]]
          /\ slot' = Append(slot, v) /\ UNCHANGED shown
    /\ UNCHANGED <<commentClock, delay, lastFetch, lastRequest, earlier>>

\* The settings are saved.
SetDelay ==
    /\ \E d \in Delays \ {delay} : delay' = d
    /\ UNCHANGED <<commentClock, cache, slot, lastFetch, viewer, shown, lastRequest, earlier>>

MovesOn(v) ==
    /\ viewer[v].at # "idle" /\ ~viewer[v].gone
    /\ viewer' = [viewer EXCEPT ![v].gone = TRUE]
    /\ UNCHANGED <<commentClock, cache, slot, delay, lastFetch, shown, lastRequest, earlier>>

\* Mutant: nobody waits for the slot.
EntersFreely(v) ==
    /\ viewer[v].at = "queued"
    /\ viewer' = [viewer EXCEPT ![v].at = "spacing"]
    /\ UNCHANGED <<commentClock, cache, slot, delay, lastFetch, shown, lastRequest, earlier>>

\* async with comment_slot
Enters(v) ==
    /\ viewer[v].at = "queued" /\ Head(slot) = v
    /\ viewer' = [viewer EXCEPT ![v].at = "spacing"]
    /\ UNCHANGED <<commentClock, cache, slot, delay, lastFetch, shown, lastRequest, earlier>>

\* The sleep ends when the gap is over, or later.
Spaced(v) ==
    /\ viewer[v].at = "spacing" /\ commentClock >= lastFetch + viewer[v].gap
    /\ viewer' = [viewer EXCEPT ![v].at = "asking"]
    /\ UNCHANGED <<commentClock, cache, slot, delay, lastFetch, shown, lastRequest, earlier>>

\* is_disconnected; then the moment is kept, before the leases are waited for.
Begins(v) ==
    /\ viewer[v].at = "asking"
    /\ IF viewer[v].gone
       THEN /\ Says(v, "nothing", 0) /\ slot' = Tail(slot)
            /\ UNCHANGED <<lastFetch, earlier>>
       ELSE /\ viewer' = [viewer EXCEPT ![v].at = "leasing"] /\ lastFetch' = commentClock
            /\ earlier' = lastRequest /\ UNCHANGED <<slot, shown>>
    /\ UNCHANGED <<commentClock, cache, delay, lastRequest>>

\* The leases are there: the platform is asked, and asked again (Retry.retry).
Asks(v) ==
    /\ viewer[v].at \in {"leasing", "fetching"}
    /\ viewer' = [viewer EXCEPT ![v].at = "fetching"] /\ lastRequest' = commentClock
    /\ UNCHANGED <<commentClock, cache, slot, delay, lastFetch, shown, earlier>>

\* _remember_comments, unless the answer says why there are no comments.
Remember(p, reply) ==
    IF reply \in {"refused", "unavailable"} THEN cache
    ELSE LET kept == Append(Except(p), [page |-> p, expires |-> commentClock + Fresh,
                                        reply |-> reply])
         IN  IF Len(kept) > CacheSize THEN Tail(kept) ELSE kept

\* _fetch_comments has ended, whether the viewer is there or not; without an
\* identity that may be used before the platform was asked.
Fetched(v, reply) ==
    /\ viewer[v].at = "fetching" \/ (viewer[v].at = "leasing" /\ reply = "unavailable")
    /\ slot' = Tail(slot) /\ cache' = Remember(viewer[v].wants, reply)
    /\ Says(v, reply, 0)
    /\ UNCHANGED <<commentClock, delay, lastFetch, lastRequest, earlier>>

CommentTick ==
    /\ commentClock < MaxTime /\ commentClock' = commentClock + 1
    /\ UNCHANGED <<cache, slot, delay, lastFetch, viewer, shown, lastRequest, earlier>>

CommentsNext ==
    \/ \E v \in Viewers :
          \/ \E p \in CommentPages : Request(v, p)
          \/ MovesOn(v) \/ Enters(v) \/ Spaced(v) \/ Begins(v) \/ Asks(v)
          \/ \E reply \in Replies : Fetched(v, reply)
    \/ SetDelay \/ CommentTick

CommentsSpec == CommentsInit /\ [][CommentsNext]_commentVars

-----------------------------------------------------------------------------
(* Properties *)

Begun(v) == viewer[v].at \in {"leasing", "fetching"}

\* However many viewers queue, move on or are answered from the cache, and
\* however the request delay is set meanwhile: a fetch begins when no other
\* goes on, at the earliest the delay that held when its viewer came after the
\* one before began, and after the last request, retries included, of the one
\* before that; and for nobody who had gone when his turn came.  A viewer sees
\* no kept answer that is older than the cache promises or says why there are
\* no comments; the cache stays small (feed_routes.py:450-546).
CommentsPaced ==
    [][/\ \A v \in Viewers : (~Begun(v) /\ Begun(v)') =>
             /\ commentClock - lastFetch >= viewer[v].gap
             /\ commentClock - earlier >= viewer[v].gap
             /\ ~viewer[v].gone /\ \A other \in Viewers : ~Begun(other)
       /\ shown'.age > 0 => shown'.age <= Fresh /\ shown'.reply \in {"comments", "empty"}
       /\ Len(cache') <= CacheSize]_commentVars
=============================================================================
