---------------------------- MODULE CollectionWalk ----------------------------
(***************************************************************************)
(* A monitor reads the newest works of a Douyin folder (main_server.py,    *)
(* _collect_monitor_fetch_aweme_items): page by page over the interface,   *)
(* and when a request fails, once more in a browser that opens the folder  *)
(* and scrolls, while the program listens to the answers that the page     *)
(* gets (src/collector/douyin_browser.py).  Each answer is read by a task  *)
(* of its own, and the tasks may end in any order.                         *)
(*                                                                         *)
(* A work is its place in the folder's history; the folder shows the       *)
(* newest first.                                                           *)
(***************************************************************************)
EXTENDS Naturals, Sequences, SequencesExt

CONSTANTS MaxFolder,   \* bound on the works of the folder
          Target,      \* limit of the monitor
          MinRounds,   \* rounds that are scrolled in any case
          MaxIdle         \* rounds without a new work that end the scrolling

ASSUME WalkAssumption ==
    /\ MaxFolder \in Nat /\ Target \in Nat \ {0}
    /\ MinRounds \in Nat /\ MaxIdle \in Nat /\ MinRounds < MaxIdle

MaxPages == 3          \* max_pages, for a limit of at most one page
PageWorks == 2         \* works of a page of the browser

VARIABLES
    shelf,     \* number of works in the folder
    walk,
    asked,      \* the browser page: how many works it has shown
    pending,    \* answers that are being read
    lacking     \* why the walk may lack works

walkVars == <<shelf, walk, asked, pending, lacking>>

Answers == [top : 1..MaxFolder, low : 1..MaxFolder, more : BOOLEAN]
Reasons == {"refused", "pages", "unread", "idle", "late"}

\* first: the folder's size when the walk began; declared: the size that the
\* list of folders gives, or 0; more: target_has_more; seen, failed:
\* target_response_seen, response_failed; waits: what gather waits for
AtStart(n) == [at |-> "direct", first |-> n, items |-> <<>>, cursor |-> 0, turns |-> 0,
               more |-> TRUE, declared |-> 0, seen |-> FALSE, failed |-> FALSE,
               idle |-> 0, before |-> 0, waits |-> {}]

WalkTypeOK ==
    /\ shelf \in 0..MaxFolder /\ asked \in 0..MaxFolder
    /\ pending \subseteq Answers /\ lacking \subseteq Reasons
    /\ walk \in [at : {"direct", "open", "scroll", "gather", "done", "failed"},
                 first : 0..MaxFolder, items : Seq(1..MaxFolder), cursor : 0..MaxFolder,
                 turns : Nat, more : BOOLEAN, declared : 0..MaxFolder,
                 seen : BOOLEAN, failed : BOOLEAN, idle : 0..MaxIdle, before : 0..MaxFolder,
                 waits : SUBSET Answers]

WalkInit ==
    /\ shelf \in 0..MaxFolder /\ walk = AtStart(shelf)
    /\ asked = 0 /\ pending = {} /\ lacking = {}

-----------------------------------------------------------------------------
\* The works of an answer, newest first.
Shown(top, low) == [k \in 1..(top + 1 - low) |-> top + 1 - k]

\* seen_aweme_ids: a work that is there is left out.
WithWork(items, w) == IF w \in ToSet(items) THEN items ELSE Append(items, w)

\* What is there after each of the works of an answer.
AddedUpTo(items, new) ==
    LET upTo[k \in 0..Len(new)] == IF k = 0 THEN items ELSE WithWork(upTo[k - 1], new[k])
    IN upTo

Added(items, new) == AddedUpTo(items, new)[Len(new)]

-----------------------------------------------------------------------------
(* The interface                                                           *)

\* The server gives at most as many works as it was asked for.  The last page
\* may be short, and so may any other.
DirectPage(size) ==
    LET low == shelf + 1 - walk.cursor - size
        items == Added(walk.items, Shown(shelf - walk.cursor, low))
        over == Len(items) >= Target \/ low = 1
        turns == walk.turns + 1
    IN
    /\ walk.at = "direct" /\ size <= shelf - walk.cursor
    /\ walk' = [walk EXCEPT !.items = SubSeq(items, 1, IF Len(items) > Target THEN Target
                                                                          ELSE Len(items)),
                            !.cursor = @ + size, !.turns = turns,
                            !.at = IF over \/ turns = MaxPages THEN "done" ELSE @]
    /\ lacking' = IF turns = MaxPages /\ ~over THEN lacking \cup {"pages"} ELSE lacking
    /\ UNCHANGED <<shelf, asked, pending>>

\* An answer without works: the end, as far as the walk knows.
DirectEmpty ==
    /\ walk.at = "direct"
    /\ walk' = [walk EXCEPT !.at = "done"]
    /\ lacking' = lacking \cup {"refused"}
    /\ UNCHANGED <<shelf, asked, pending>>

\* The request fails after its retries: what was read is thrown away, and a
\* browser shows the list of folders.  Its login, its tabs or the folder may
\* be missing.
DirectFails ==
    /\ walk.at = "direct"
    /\ \/ walk' = [walk EXCEPT !.at = "failed"]
       \/ \E d \in {0, shelf} :
             walk' = [AtStart(walk.first) EXCEPT !.at = "open", !.declared = d]
    /\ UNCHANGED <<shelf, asked, pending, lacking>>

-----------------------------------------------------------------------------
(* The browser                                                             *)

InBrowser == walk.at \in {"open", "scroll", "gather"}

\* schedule_capture of an answer of the folder
AnswerComes(top, low, more) ==
    /\ pending' = pending \cup {[top |-> top, low |-> low, more |-> more]}
    /\ walk' = [walk EXCEPT !.seen = TRUE]

\* The folder's card fetches one work as a preview, which need not say that
\* there are more.
Preview ==
    /\ walk.at = "open" /\ shelf > 0 /\ asked = 0 /\ ~walk.seen
    /\ \E more \in BOOLEAN : AnswerComes(shelf, shelf, more)
    /\ UNCHANGED <<shelf, asked, lacking>>

\* The page, open or scrolled to its end, shows the next works.
NextPage ==
    LET size == IF shelf - asked < PageWorks THEN shelf - asked ELSE PageWorks IN
    /\ InBrowser /\ size > 0
    /\ asked' = asked + size
    /\ AnswerComes(shelf - asked, shelf + 1 - asked', asked' < shelf)
    /\ UNCHANGED <<shelf, lacking>>

\* An empty folder, or an answer with an error: nothing to read.
BareAnswer ==
    /\ InBrowser /\ ~walk.seen
    /\ walk' = [walk EXCEPT !.seen = TRUE, !.failed = shelf > 0,
                            !.more = IF shelf = 0 THEN FALSE ELSE @]
    /\ UNCHANGED <<shelf, asked, pending, lacking>>

\* Mutant: every answer says whether there are more works, a late preview too.
AnyAnswer(existing, received) == TRUE

\* _should_update_collection_pagination
UpdatesMore(existing, received) == ~(existing > 1 /\ received <= 1)

Finished(a) == pending' = pending \ {a} /\ UNCHANGED <<shelf, asked>>

\* capture
Capture(a) ==
    LET new == Shown(a.top, a.low) IN
    /\ InBrowser /\ a \in pending
    /\ walk' = [walk EXCEPT !.items = Added(@, new), !.waits = @ \ {a},
                            !.more = IF UpdatesMore(Len(walk.items), Len(new)) THEN a.more ELSE @]
    /\ Finished(a) /\ UNCHANGED lacking

\* The body of the answer cannot be read.
CaptureFails(a) ==
    /\ InBrowser /\ a \in pending
    /\ walk' = [walk EXCEPT !.waits = @ \ {a}, !.failed = TRUE]
    /\ lacking' = lacking \cup {"unread"}
    /\ Finished(a)

-----------------------------------------------------------------------------
(* The scrolling                                                           *)

\* The condition of the loop.
GoesOn(w) ==
    /\ Len(w.items) < Target /\ w.idle < MaxIdle
    /\ w.more \/ w.declared > Len(w.items) \/ w.turns < MinRounds

\* The next round, or the end; what is read after it is not returned, and the
\* page may not have shown all.
Proceeds(w) ==
    LET idle == IF asked = 0 \/ (w.idle = MaxIdle /\ asked < shelf) THEN {"idle"} ELSE {}
        late == IF pending # {} THEN {"late"} ELSE {}
    IN
    /\ walk' = [w EXCEPT !.at = IF GoesOn(w) THEN "scroll" ELSE "done"]
    /\ lacking' = IF GoesOn(w) THEN lacking ELSE lacking \cup idle \cup late
    /\ UNCHANGED <<shelf, asked, pending>>

\* After the first answers; without any, or with an error only, it is a failure.
OpenEnds ==
    /\ walk.at = "open" /\ walk.seen
    /\ ~(walk.failed /\ walk.items = <<>>)
    /\ Proceeds([walk EXCEPT !.before = Len(walk.items)])

OpenFails ==
    /\ walk.at = "open" /\ (~walk.seen \/ (walk.failed /\ walk.items = <<>>))
    /\ walk' = [walk EXCEPT !.at = "failed"]
    /\ UNCHANGED <<shelf, asked, pending, lacking>>

\* The page was scrolled and had its time.
Gathers ==
    /\ walk.at = "scroll" /\ pending # {}
    /\ walk' = [walk EXCEPT !.at = "gather", !.waits = pending]
    /\ UNCHANGED <<shelf, asked, pending, lacking>>

RoundEnds ==
    LET count == Len(walk.items) IN
    /\ \/ walk.at = "scroll" /\ pending = {}
       \/ walk.at = "gather" /\ walk.waits = {}
    /\ Proceeds([walk EXCEPT !.turns = IF @ < MinRounds THEN @ + 1 ELSE @,
                             !.idle = IF count = walk.before THEN @ + 1 ELSE 0,
                             !.before = count])

-----------------------------------------------------------------------------
\* The user collects a work, which moves the others back.
Collects ==
    /\ walk.at \in {"direct", "open", "scroll", "gather"} /\ shelf < MaxFolder
    /\ shelf' = shelf + 1
    /\ UNCHANGED <<walk, asked, pending, lacking>>

WalkNext ==
    \/ DirectEmpty \/ DirectFails \/ \E size \in 1..Target : DirectPage(size)
    \/ Preview \/ NextPage \/ BareAnswer
    \/ \E a \in pending : Capture(a) \/ CaptureFails(a)
    \/ OpenEnds \/ OpenFails \/ Gathers \/ RoundEnds \/ Collects

WalkSpec == WalkInit /\ [][WalkNext]_walkVars

-----------------------------------------------------------------------------
(* Properties *)

\* A walk that ends well returns no work twice, and has reached the limit or
\* every work that was in the folder when it began.
WalkComplete ==
    walk.at = "done" =>
        /\ IsInjective(walk.items)
        /\ \/ Len(walk.items) >= Target
           \/ 1..walk.first \subseteq ToSet(walk.items)
           \/ lacking # {}
=============================================================================
