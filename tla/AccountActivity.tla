---------------------------- MODULE AccountActivity ----------------------------
(***************************************************************************)
(* What the account board knows of an account's works: the row of          *)
(* ui_account_activity (webui/task_journal.py), with the newest work that  *)
(* any crawl has seen in the account's list and the newest that passed its *)
(* dates.  A batch learns both when it visits the account (main_terminal)  *)
(* and writes them when all its accounts are over (main_server.py), maybe  *)
(* hours later and after a batch that began later.                         *)
(*                                                                         *)
(* One account.  Works are numbered as they are published.  Their times    *)
(* are kept as texts of the local time, and compared as texts.             *)
(***************************************************************************)
EXTENDS Naturals, FiniteSets, FiniteSetsExt

CONSTANTS Crawlers,   \* batches that may overlap
          MaxPosts,   \* bound on the works the account publishes
          Blank       \* the row as no crawl has written it

ASSUME ActivityAssumption == IsFiniteSet(Crawlers) /\ MaxPosts \in Nat \ {0}

VARIABLES
    published,  \* the account's works are 1..published
    turnsBack,  \* the clock is set back between the first work and the second
    errand,     \* of each batch: what its visit came to, not yet written
    activity,   \* the row
    told,       \* history: what the visits have come to
    dropped     \* history: one of it was never written

activityVars == <<published, turnsBack, errand, activity, told, dropped>>

None == 0
Outcomes == {"success", "failed", "skipped"}
Errand(at, seen, saved, status) == [at |-> at, seen |-> seen, saved |-> saved, status |-> status]
AtRest == Errand("rest", None, None, "failed")

ActivityRows == [seenAt : Nat, seen : 0..MaxPosts, savedAt : Nat, saved : 0..MaxPosts,
                 status : Outcomes, succeeded : BOOLEAN]
ASSUME BlankAssumption == Blank \notin ActivityRows

ActivityTypeOK ==
    /\ published \in 0..MaxPosts /\ turnsBack \in BOOLEAN /\ dropped \in BOOLEAN
    /\ errand \in [Crawlers -> [at : {"rest", "visiting", "visited"}, seen : 0..MaxPosts,
                                saved : 0..MaxPosts, status : Outcomes]]
    /\ activity \in ActivityRows \cup {Blank}
    /\ told \in [seen : SUBSET (1..MaxPosts), saved : SUBSET (1..MaxPosts)]

\* _initialize: the table is empty.
ActivityInit ==
    /\ published = 0 /\ turnsBack \in BOOLEAN
    /\ errand = [c \in Crawlers |-> AtRest]
    /\ activity = Blank /\ dropped = FALSE
    /\ told = [seen |-> {}, saved |-> {}]

-----------------------------------------------------------------------------
\* astimezone().isoformat(): where the text of a work's time comes among the
\* texts; no work has the empty one.  The hour before a clock is set back has
\* the texts of the hour after, but for the offset at their end.
TextOf(w) == IF turnsBack /\ w \in {1, 2} THEN 3 - w ELSE w

\* _latest_account_work: the newest by the number, whatever the texts.
Latest(works) == Max(works \cup {None})

PublishesWork ==
    /\ published < MaxPosts /\ published' = published + 1
    /\ UNCHANGED <<turnsBack, errand, activity, told, dropped>>

\* check_sec_user_id, then the requests for the account.
VisitsAccount(c) ==
    /\ errand[c].at = "rest"
    /\ errand' = [errand EXCEPT ![c].at = "visiting"]
    /\ UNCHANGED <<published, turnsBack, activity, told, dropped>>

\* _batch_process_detail: the list of works, or the part of it that the walk
\* came to, and those of them that are in the dates; the visit may still end
\* as a failure, when files cannot be loaded.
ListCome(c) ==
    /\ errand[c].at = "visiting"
    /\ \E listed \in SUBSET (1..published) : \E dated \in SUBSET listed :
          /\ listed # {}
          /\ \E status \in {"success", "failed"} :
                errand' = [errand EXCEPT ![c] =
                              Errand("visited", Latest(listed), Latest(dated), status)]
          /\ told' = [seen |-> told.seen \cup {Latest(listed)},
                      saved |-> (told.saved \cup {Latest(dated)}) \ {None}]
    /\ UNCHANGED <<published, turnsBack, activity, dropped>>

\* No list, no profile, an exception: the outcome has no context.
NothingComes(c) ==
    /\ errand[c].at = "visiting"
    /\ \E status \in {"failed", "skipped"} :
          errand' = [errand EXCEPT ![c] = Errand("visited", None, None, status)]
    /\ UNCHANGED <<published, turnsBack, activity, told, dropped>>

\* Mutant: the number of the work is taken from the last crawl.
NewerOfLast(at, id, w) == [at |-> IF TextOf(w) > at THEN TextOf(w) ELSE at, id |-> w]

\* The CASEs of the upsert over a time and the number that goes with it: the
\* later text stays, and what is missing is taken from the new row.
Newer(at, id, w) ==
    IF TextOf(w) > at THEN [at |-> TextOf(w), id |-> w]
    ELSE [at |-> at, id |-> IF id = None THEN w ELSE id]

\* TaskJournal.save_account_activity: one transaction, over whatever has been
\* written since the visit.
RowAfter(e) ==
    LET old == IF activity = Blank
               THEN [seenAt |-> 0, seen |-> None, savedAt |-> 0, saved |-> None,
                     status |-> e.status, succeeded |-> FALSE]
               ELSE activity
        seen == Newer(old.seenAt, old.seen, e.seen)
        saved == Newer(old.savedAt, old.saved, e.saved)
    IN  [seenAt |-> seen.at, seen |-> seen.id, savedAt |-> saved.at, saved |-> saved.id,
         status |-> e.status, succeeded |-> old.succeeded \/ e.status = "success"]

\* The batch is over and saves what its accounts came to, of their last visit
\* when other identities were tried with them.
SavesActivity(c) ==
    /\ errand[c].at = "visited"
    /\ activity' = RowAfter(errand[c])
    /\ errand' = [errand EXCEPT ![c] = AtRest]
    /\ UNCHANGED <<published, turnsBack, told, dropped>>

\* The server is killed, the task cancelled, or sqlite3 raises, which nothing
\* catches: the account's row in the journal of the task is final already, and
\* no execution comes back to it.
DropsActivity(c) ==
    /\ errand[c].at # "rest"
    /\ errand' = [errand EXCEPT ![c] = AtRest]
    /\ dropped' = (dropped \/ errand[c].seen # None)
    /\ UNCHANGED <<published, turnsBack, activity, told>>

ActivityNext ==
    \/ PublishesWork
    \/ \E c \in Crawlers :
          VisitsAccount(c) \/ ListCome(c) \/ NothingComes(c) \/ SavesActivity(c) \/ DropsActivity(c)

ActivitySpec == ActivityInit /\ [][ActivityNext]_activityVars

-----------------------------------------------------------------------------
(* Properties *)

\* _build_account_board_page: the work that the account's card names.
OnCard == IF activity.seenAt >= activity.savedAt THEN activity.seen ELSE activity.saved

\* In whatever order overlapping batches write what they have seen, the row
\* never goes back to an older work; when none has anything left to write, it
\* names the newest work that any of them has seen, and so does the card,
\* unless an outcome was dropped; and a time in the row is the time of the
\* work that is named with it.  The exception is a clock that was set back
\* between two works: then the row may stay with the older one, though not
\* under the other one's time (save_account_activity, _latest_account_work).
NewestIsKnown ==
    /\ [](activity # Blank =>
             /\ activity.seen # None => activity.seenAt = TextOf(activity.seen)
             /\ activity.saved # None => activity.savedAt = TextOf(activity.saved)
             /\ (~turnsBack /\ ~dropped /\ \A c \in Crawlers : errand[c].at # "visited") =>
                   /\ activity.seen = Latest(told.seen) /\ activity.saved = Latest(told.saved)
                   /\ OnCard = activity.seen)
    /\ [][activity # Blank /\ ~turnsBack =>
             activity'.seen >= activity.seen /\ activity'.saved >= activity.saved]_activityVars
=============================================================================
