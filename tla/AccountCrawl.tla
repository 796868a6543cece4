----------------------------- MODULE AccountCrawl -----------------------------
(***************************************************************************)
(* One account with auto_update_earliest, crawled again and again: the     *)
(* walk over its pages of works, newest first (src/interface/template.py,  *)
(* account.py), the choice by date (src/extract/extractor.py), the         *)
(* download, and, when all of it went well, the new "earliest" in the      *)
(* settings, from which the next crawl begins (main_terminal.py,           *)
(* main_server.py).                                                        *)
(*                                                                         *)
(* A work is its place in the order of publication; a page has one work.   *)
(***************************************************************************)
EXTENDS Naturals, Sequences

CONSTANTS Days,        \* earliest_update_days
          MaxDay,      \* bound on the days
          MaxWorks     \* bound on the works

ASSUME CrawlAssumption == Days \in Nat /\ MaxDay \in Nat /\ MaxWorks \in Nat

VARIABLES
    today,
    works,      \* the day on which a work was published
    saved,      \* the works that are downloaded
    earliest,   \* of the account's row in the settings
    fetch,      \* the account in a batch
    excused     \* works that a crawl has missed for one of the known reasons

crawlerVars == <<today, works, saved, earliest, fetch, excused>>

Works == 1..Len(works)
\* from, upTo: earliest, latest; cursor: the last work that was listed;
\* broken: a page could not be had; edited: the user changed earliest meanwhile
AtRest == [at |-> "rest", from |-> 0, upTo |-> 0, cursor |-> MaxWorks + 1, items |-> {},
           ok |-> FALSE, broken |-> FALSE, edited |-> FALSE]

CrawlTypeOK ==
    /\ today \in 0..MaxDay /\ earliest \in 0..MaxDay
    /\ works \in UNION {[1..n -> 0..MaxDay] : n \in 0..MaxWorks}
    /\ saved \subseteq Works /\ excused \subseteq Works
    /\ fetch \in [at : {"rest", "page", "load", "report"}, from : 0..MaxDay, upTo : 0..MaxDay,
                  cursor : 1..(MaxWorks + 1), items : SUBSET (1..MaxWorks),
                  ok : BOOLEAN, broken : BOOLEAN, edited : BOOLEAN]

CrawlInit ==
    /\ today = 0 /\ works = <<>> /\ saved = {} /\ earliest = 0
    /\ fetch = AtRest /\ excused = {}

-----------------------------------------------------------------------------
(* Account.run: run_batch, run_single, early_stop                          *)

\* The task takes the row as it is; latest is the day on which it comes to
\* this account.
Fetched(from, edited) ==
    fetch' = [AtRest EXCEPT !.at = "page", !.from = from, !.upTo = today, !.edited = edited]

FetchBegins ==
    /\ fetch.at = "rest"
    /\ Fetched(earliest, FALSE)
    /\ UNCHANGED <<today, works, saved, earliest, excused>>

\* The work of the next page, or 0.
NextWork == IF fetch.cursor > Len(works) THEN Len(works) ELSE fetch.cursor - 1

\* Mutant: the walk ends with the first work of the earliest day.
EarlyDay(w) == fetch.from >= works[w]

\* early_stop: the cursor is the time of the page's last work.
Early(w) == fetch.from > works[w]

\* A page, of an account that has works.
ListPage ==
    LET w == NextWork IN
    /\ fetch.at = "page" /\ w > 0
    /\ fetch' = [fetch EXCEPT !.items = @ \cup {w}, !.cursor = w,
                              !.at = IF w = 1 \/ Early(w) THEN "load" ELSE "page"]
    /\ UNCHANGED <<today, works, saved, earliest, excused>>

\* The request fails after its retries, or the answer has no list of works:
\* the walk is over, and what is there counts.  Without any work, or when the
\* list is empty, the account has failed or is skipped.
ListBreaks ==
    /\ fetch.at = "page"
    /\ fetch' = IF fetch.items = {} THEN AtRest ELSE [fetch EXCEPT !.at = "load", !.broken = TRUE]
    /\ UNCHANGED <<today, works, saved, earliest, excused>>

-----------------------------------------------------------------------------
\* __date_filter
Chosen == {w \in fetch.items : fetch.from <= works[w] /\ works[w] <= fetch.upTo}

\* Any of the downloads may fail; with one of them the account has failed.
Load ==
    /\ fetch.at = "load"
    /\ \E got \in SUBSET (Chosen \ saved) :
          /\ saved' = saved \cup got
          /\ fetch' = [fetch EXCEPT !.at = "report", !.ok = Chosen \subseteq saved']
    /\ UNCHANGED <<today, works, earliest, excused>>

\* _apply_auto_update_earliest, at the end of the batch.  The exceptions: the
\* list broke off; more than Days midnights have passed since the account's
\* turn; or the user has changed earliest.
Update ==
    /\ fetch.at = "report"
    /\ IF fetch.ok THEN
          /\ earliest' = IF today > Days THEN today - Days ELSE 0
          /\ excused' = IF fetch.broken \/ fetch.edited \/ today > fetch.upTo + Days
                        THEN excused \cup (Works \ saved) ELSE excused
       ELSE UNCHANGED <<earliest, excused>>
    /\ fetch' = AtRest
    /\ UNCHANGED <<today, works, saved>>

\* The task is canceled; or the server is killed, and the task begins again
\* with the row that it was made from.
CrawlKilled ==
    /\ fetch.at # "rest"
    /\ fetch' = AtRest \/ Fetched(fetch.from, fetch.edited)
    /\ UNCHANGED <<today, works, saved, earliest, excused>>

-----------------------------------------------------------------------------
Publishes ==
    /\ Len(works) < MaxWorks
    /\ works' = Append(works, today)
    /\ UNCHANGED <<today, saved, earliest, fetch, excused>>

Midnight ==
    /\ today < MaxDay /\ today' = today + 1
    /\ UNCHANGED <<works, saved, earliest, fetch, excused>>

\* The user sets earliest: what is before it need not be crawled, what is
\* after it must.
SetEarliest(d) ==
    /\ d # earliest /\ earliest' = d
    /\ excused' = {w \in Works : works[w] < d}
    /\ fetch' = [fetch EXCEPT !.edited = fetch.at # "rest"]
    /\ UNCHANGED <<today, works, saved>>

CrawlNext ==
    \/ FetchBegins \/ ListPage \/ ListBreaks \/ Load \/ Update \/ CrawlKilled
    \/ Publishes \/ Midnight \/ \E d \in 0..today : SetEarliest(d)

CrawlSpec == CrawlInit /\ [][CrawlNext]_crawlerVars

-----------------------------------------------------------------------------
(* Properties *)

\* The window moves on without leaving anything behind: crawl after crawl,
\* with works that come during a walk or after midnight, failed downloads,
\* kills and repeated tasks, every work from before "earliest" is downloaded,
\* unless a crawl was one of the exceptions of Update.
NothingLeftBehind ==
    \A w \in Works : works[w] < earliest => w \in saved \cup excused
=============================================================================
