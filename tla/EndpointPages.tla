---------------------------- MODULE EndpointPages ----------------------------
(***************************************************************************)
(* The endpoints that list something page by page (src/interface): the     *)
(* loop of template.py over requests, what an empty, failed or unreadable  *)
(* page does to it, the replies that comment.py fetches between two pages  *)
(* of comments, and the number of requests that the caller allows.         *)
(*                                                                         *)
(* A page stands for its items; a page of comments has Threads comments    *)
(* with replies, of ReplyPages pages each.                                 *)
(***************************************************************************)
EXTENDS Naturals

CONSTANTS Pages, Threads, ReplyPages,
          Budgets,    \* pages, as a caller may give it
          MaxPages    \* max_pages of the settings

ASSUME PagesAssumption ==
    /\ Pages \in Nat /\ Threads \in Nat /\ ReplyPages \in Nat
    /\ Budgets \subseteq Nat \ {0} /\ MaxPages \in Nat \ {0}

VARIABLES
    kind,     \* the endpoint
    budget,   \* pages as it was given
    hints,    \* has_more is said even of the last page
    loop,     \* the endpoint's loop
    thread,   \* the Reply of the comment at hand
    listed,   \* how often a page is in the response
    replied,  \* how often a page of replies is
    asked,    \* requests that were made, each with its retries counted once
    broken    \* history: a request failed, or an answer could not be read

endpointVars == <<kind, budget, hints, loop, thread, listed, replied, asked, broken>>

Endless == 99999
ReplyKeys == (1..Pages) \X (1..Threads) \X (1..ReplyPages)

\* limited: pages is looked at; lookup: an id is asked for first; replies: the
\* replies of a page's comments are fetched before the next page.
Kind(limited, lookup, replies) == [limited |-> limited, lookup |-> lookup, replies |-> replies]

Comment        == Kind(TRUE, FALSE, TRUE)
CommentAlone   == Kind(TRUE, FALSE, FALSE)
Search         == Kind(TRUE, FALSE, FALSE)
Collection     == Kind(TRUE, FALSE, FALSE)
CollectsDetail == Kind(TRUE, FALSE, FALSE)
Collects       == Kind(FALSE, FALSE, FALSE)
CollectsMix    == Kind(FALSE, FALSE, FALSE)
CollectsSeries == Kind(FALSE, FALSE, FALSE)
CollectsMusic  == Kind(FALSE, FALSE, FALSE)
Mix            == Kind(FALSE, TRUE, FALSE)
MixTikTok      == Kind(FALSE, FALSE, FALSE)
Kinds == {Comment, CommentAlone, Search, Collection, CollectsDetail, Collects, CollectsMix,
          CollectsSeries, CollectsMusic, Mix, MixTikTok}

\* at      lookup, page, replies (between two threads), thread, done
\* left    self.pages;  cursor: pages that are behind it
\* shows   current_page;  next: the thread of it that is next
Loop(at, left) == [at |-> at, left |-> left, cursor |-> 0, finished |-> FALSE, shows |-> 0, next |-> 1]
NoThread == [left |-> 0, cursor |-> 0, finished |-> FALSE]

EndpointTypeOK ==
    /\ kind \in Kinds /\ budget \in Budgets /\ hints \in BOOLEAN /\ broken \in BOOLEAN
    /\ loop \in [at : {"lookup", "page", "replies", "thread", "done"}, left : Nat,
                 cursor : 0..Pages, finished : BOOLEAN, shows : 0..Pages, next : 1..(Threads + 1)]
    /\ thread \in [left : Nat, cursor : 0..ReplyPages, finished : BOOLEAN]
    /\ listed \in [1..Pages -> Nat] /\ replied \in [ReplyKeys -> Nat] /\ asked \in Nat

EndpointInit ==
    /\ kind \in Kinds /\ budget \in Budgets /\ hints \in BOOLEAN
    /\ loop = Loop(IF kind.lookup THEN "lookup" ELSE "page",
                   IF kind.limited THEN budget ELSE Endless)
    /\ thread = NoThread
    /\ listed = [p \in 1..Pages |-> 0] /\ replied = [k \in ReplyKeys |-> 0]
    /\ asked = 0 /\ broken = FALSE

-----------------------------------------------------------------------------
\* request_data with Retry.retry: an answer, or nothing after the last try,
\* which finishes the loop.  An answer without the expected keys does, too.
Requested == asked' = asked + 1

More(cursor, last) == cursor < last \/ hints

\* Mix: the id comes with the detail of a work; without it there is no list.
MixLookup ==
    /\ loop.at = "lookup"
    /\ Requested
    /\ \/ loop' = [loop EXCEPT !.at = "page"] /\ UNCHANGED broken
       \/ loop' = [loop EXCEPT !.at = "done"] /\ broken' = TRUE
    /\ UNCHANGED <<kind, budget, hints, thread, listed, replied>>

\* Mutant: the page that is shown stays the first one.
ShownStays(cursor) == 1

\* current_page
Shown(cursor) == cursor

\* After a page the callback takes its turn, then the loop looks whether it
\* goes on.
AfterPage(l) ==
    [l EXCEPT !.left = @ - 1, !.next = 1,
              !.at = IF kind.replies THEN "replies"
                     ELSE IF l.finished \/ l.left = 1 THEN "done" ELSE "page"]

\* check_response: a page with items.
PageListed ==
    LET c == loop.cursor + 1 IN
    /\ loop.at = "page" /\ c <= Pages
    /\ Requested
    /\ listed' = [listed EXCEPT ![c] = @ + 1]
    /\ loop' = AfterPage([loop EXCEPT !.cursor = c, !.shows = Shown(c),
                                      !.finished = ~More(c, Pages)])
    /\ UNCHANGED <<kind, budget, hints, thread, replied, broken>>

\* check_response: a page without any.
PageEmpty ==
    /\ loop.at = "page" /\ loop.cursor = Pages
    /\ Requested
    /\ loop' = AfterPage([loop EXCEPT !.finished = TRUE])
    /\ UNCHANGED <<kind, budget, hints, thread, listed, replied, broken>>

PageFails ==
    /\ loop.at = "page"
    /\ Requested /\ broken' = TRUE
    /\ loop' = AfterPage([loop EXCEPT !.finished = TRUE])
    /\ UNCHANGED <<kind, budget, hints, thread, listed, replied>>

-----------------------------------------------------------------------------
(* run_reply                                                               *)

NextPage(l) == [l EXCEPT !.at = IF l.finished \/ l.left = 0 THEN "done" ELSE "page"]

\* pages or params.max_pages: a Reply that is given 0 has the whole of
\* max_pages.
ThreadBegins ==
    /\ loop.at = "replies"
    /\ IF loop.shows > 0 /\ loop.next <= Threads
       THEN /\ thread' = [NoThread EXCEPT !.left = IF loop.left = 0 THEN MaxPages ELSE loop.left]
            /\ loop' = [loop EXCEPT !.at = "thread"]
       ELSE /\ loop' = NextPage(loop)
            /\ UNCHANGED thread
    /\ UNCHANGED <<kind, budget, hints, listed, replied, asked, broken>>

\* The replies of a thread join the response when its loop ends; a thread that
\* leaves more than one request passes the rest on, else the page's other
\* threads are left out.
ReplyPage ==
    /\ loop.at = "thread" /\ ~thread.finished /\ thread.left > 0
    /\ Requested
    /\ LET c == thread.cursor + 1 IN
       \/ /\ c <= ReplyPages
          /\ thread' = [left |-> thread.left - 1, cursor |-> c, finished |-> ~More(c, ReplyPages)]
          /\ replied' = [replied EXCEPT ![<<loop.shows, loop.next, c>>] = @ + 1]
          /\ UNCHANGED broken
       \/ /\ c > ReplyPages
          /\ thread' = [thread EXCEPT !.left = @ - 1, !.finished = TRUE]
          /\ UNCHANGED <<replied, broken>>
       \/ /\ broken' = TRUE
          /\ thread' = [thread EXCEPT !.left = @ - 1, !.finished = TRUE]
          /\ UNCHANGED replied
    /\ UNCHANGED <<kind, budget, hints, loop, listed>>

ThreadEnds ==
    /\ loop.at = "thread" /\ (thread.finished \/ thread.left = 0)
    /\ loop' = IF thread.left > 1
               THEN [loop EXCEPT !.left = thread.left, !.at = "replies", !.next = @ + 1]
               ELSE NextPage(loop)
    /\ thread' = NoThread
    /\ UNCHANGED <<kind, budget, hints, listed, replied, asked, broken>>

EndpointNext ==
    MixLookup \/ PageListed \/ PageEmpty \/ PageFails \/ ThreadBegins \/ ReplyPage \/ ThreadEnds

EndpointSpec == EndpointInit /\ [][EndpointNext]_endpointVars

-----------------------------------------------------------------------------
\* The pages are in the response once each and without a gap, and so are the
\* replies of the pages that are behind the one at hand.  When the loop is
\* over and nothing failed, the response has all there is, unless the budget
\* ran out but for one request, which stays unused when a thread ends with it
\* left (Comment.run_reply).  The exception: after an empty or failed page the
\* callback runs for the page before it once more, and its replies can be
\* there twice.
Exhausted == loop.left <= 1 \/ (kind.limited /\ asked + 1 >= budget)
ListingsWhole ==
    /\ \A p \in 1..Pages : listed[p] = IF p <= loop.cursor THEN 1 ELSE 0
    /\ \A k \in ReplyKeys :
           replied[k] <= IF k[1] = loop.cursor /\ loop.finished /\ (broken \/ hints) THEN 2 ELSE 1
    /\ (loop.at = "done" /\ ~broken /\ ~Exhausted) =>
           /\ loop.cursor = Pages
           /\ kind.replies => \A k \in ReplyKeys : replied[k] >= 1
=============================================================================
