---------------------------- MODULE BoardCovers ----------------------------
(***************************************************************************)
(* The cover of an account on the account board (main_server.py,           *)
(* server_routes.py): a pin in account_profile_pins.json, set by the user, *)
(* by the first page that shows the account, and by selections that look   *)
(* for a face in the account's media: asked for by the page, by the user,  *)
(* or made after a crawl.  A selection runs in a thread, one at a time,    *)
(* and meanwhile pages, users, crawls and the archive go on.               *)
(*                                                                         *)
(* One account.  The sources face_auto, face_refresh, fallback and legacy  *)
(* are one, "chosen": the code only asks for "pending" and what is not.    *)
(***************************************************************************)
EXTENDS FiniteSets

CONSTANTS Media,       \* files the account's folder may hold
          NoMedia,
          Selectors    \* requests and crawls that select a cover

ASSUME CoverAssumption ==
    IsFiniteSet(Media \cup Selectors) /\ NoMedia \notin Media

VARIABLES
    folderMedia,   \* the files that are there
    standing,      \* the account's row: on, off (not enabled), gone
    pin,           \* its entry in the file
    selecting      \* where a selection stands

coverVars == <<folderMedia, standing, pin, selecting>>

NoPin == [path |-> NoMedia, source |-> "none"]
Pins == {NoPin} \cup [path : Media, source : {"pending", "manual", "chosen"}]
Unmade == [at |-> "rest", mode |-> "auto", current |-> NoMedia, before |-> NoPin, found |-> NoMedia]

CoverTypeOK ==
    /\ folderMedia \subseteq Media /\ standing \in {"on", "off", "gone"} /\ pin \in Pins
    /\ selecting \in [Selectors -> [at : {"rest", "slot", "face", "found"},
                                    mode : {"auto", "replace", "scrape"},
                                    current : Media \cup {NoMedia},
                                    before : Pins, found : Media \cup {NoMedia}]]

CoverInit ==
    /\ folderMedia = Media /\ standing = "on" /\ pin = NoPin
    /\ selecting = [s \in Selectors |-> Unmade]

\* _collect_media_relpaths: what is there of the account's media.
There(m) == m \in folderMedia

\* _find_active_account_row
Listed == standing # "gone"

Going(s, job) == selecting' = [selecting EXCEPT ![s] = job]

-----------------------------------------------------------------------------
(* Users and pages *)

\* The user pins what a card shows, or all cards of a page; "random" with
\* pin picks the file itself and only for an account that is configured.
PinShown(m) ==
    /\ There(m) /\ pin' = [path |-> m, source |-> "manual"]
    /\ UNCHANGED <<folderMedia, standing, selecting>>
RandomPin(m) == Listed /\ PinShown(m)

\* A page of the board shows the account: without a pin whose file is there
\* it takes any file and notes it as pending.
PageShows ==
    /\ Listed /\ ~There(pin.path)
    /\ \E m \in folderMedia : pin' = [path |-> m, source |-> "pending"]
    /\ UNCHANGED <<folderMedia, standing, selecting>>

MediaChanges(m) ==
    /\ folderMedia' = IF m \in folderMedia THEN folderMedia \ {m} ELSE folderMedia \cup {m}
    /\ UNCHANGED <<standing, pin, selecting>>

\* The user disables, archives or restores the account.
RowChanges(to) ==
    /\ standing' = to /\ standing # to
    /\ UNCHANGED <<folderMedia, pin, selecting>>

-----------------------------------------------------------------------------
(* Selections *)

SlotFree == \A s \in Selectors : selecting[s].at \notin {"face", "found"}

\* The page, for a pending cover, or the user ask for a face: the route notes
\* the pin and waits for the slot.
Ask(s, mode, shown) ==
    /\ selecting[s].at = "rest" /\ Listed /\ mode \in {"auto", "replace"}
    /\ Going(s, [Unmade EXCEPT !.at = "slot", !.mode = mode, !.current = shown, !.before = pin])
    /\ UNCHANGED <<folderMedia, standing, pin>>

\* ... and has it: a pin that has changed, or that is not what the page
\* shows, supersedes the request.
SlotTaken(s) ==
    LET job == selecting[s]
        superseded == \/ pin # job.before
                      \/ pin # NoPin /\ pin.path # job.current
                      \/ job.mode = "auto" /\ pin.source # "pending"
    IN  /\ job.at = "slot" /\ job.mode # "scrape" /\ SlotFree
        /\ Going(s, IF superseded THEN Unmade ELSE [job EXCEPT !.at = "face"])
        /\ UNCHANGED <<folderMedia, standing, pin>>

\* A crawl of the account is over and its cover is looked after; the slot may
\* have to be waited for.
Scrape(s) ==
    /\ selecting[s].at = "rest" /\ standing = "on"
    /\ Going(s, [Unmade EXCEPT !.at = "slot", !.mode = "scrape"])
    /\ UNCHANGED <<folderMedia, standing, pin>>

\* A cover whose file is there stays, unless it is pending.
ScrapeStarts(s) ==
    LET current == IF There(pin.path) THEN pin.path ELSE NoMedia
        settled == (current # NoMedia /\ pin.source # "pending") \/ standing # "on"
    IN  /\ selecting[s].at = "slot" /\ selecting[s].mode = "scrape" /\ SlotFree
        /\ Going(s, IF settled THEN Unmade
                    ELSE [selecting[s] EXCEPT !.at = "face", !.current = current, !.before = pin])
        /\ UNCHANGED <<folderMedia, standing, pin>>

\* The thread ends: with a file, whose face is good enough or, after a crawl,
\* that is the old one or any; or with none.
Selects(s, m) ==
    /\ selecting[s].at = "face" /\ m \in folderMedia \cup {NoMedia}
    /\ selecting[s].mode = "scrape" /\ m = NoMedia => folderMedia = {}
    /\ Going(s, [selecting[s] EXCEPT !.at = "found", !.found = m])
    /\ UNCHANGED <<folderMedia, standing, pin>>

\* Mutant: the route does not look at the pin again after the thread.
StoreBlindly(s) ==
    LET job == selecting[s]
    IN  /\ job.at = "found" /\ job.mode # "scrape"
        /\ pin' = IF job.found # NoMedia THEN [path |-> job.found, source |-> "chosen"] ELSE pin
        /\ Going(s, Unmade) /\ UNCHANGED <<folderMedia, standing>>

\* The route stores what was found, unless the pin has changed; a pending
\* cover without a better one is settled.
Store(s) ==
    LET job == selecting[s]
    IN  /\ job.at = "found" /\ job.mode # "scrape"
        /\ pin' = IF pin # job.before THEN pin
                  ELSE IF job.found # NoMedia THEN [path |-> job.found, source |-> "chosen"]
                  ELSE IF job.mode = "auto" THEN [pin EXCEPT !.source = "chosen"] ELSE pin
        /\ Going(s, Unmade) /\ UNCHANGED <<folderMedia, standing>>

\* "Never overwrite a manual pin or reintroduce an archived account": after a
\* crawl the pin, the row and the file are looked at again.
StoreScraped(s) ==
    LET job == selecting[s]
        kept == pin = job.before \/ (job.before = NoPin /\ pin.source = "pending")
    IN  /\ job.at = "found" /\ job.mode = "scrape"
        /\ pin' = IF kept /\ standing = "on" /\ There(job.found)
                  THEN [path |-> job.found, source |-> "chosen"] ELSE pin
        /\ Going(s, Unmade) /\ UNCHANGED <<folderMedia, standing>>

CoverNext ==
    \/ \E m \in Media : PinShown(m) \/ RandomPin(m) \/ MediaChanges(m)
    \/ PageShows \/ \E to \in {"on", "off", "gone"} : RowChanges(to)
    \/ \E s \in Selectors :
          \/ \E mode \in {"auto", "replace"}, m \in Media \cup {NoMedia} : Ask(s, mode, m)
          \/ SlotTaken(s) \/ Scrape(s) \/ ScrapeStarts(s)
          \/ (\E m \in Media \cup {NoMedia} : Selects(s, m)) \/ Store(s) \/ StoreScraped(s)

CoverSpec == CoverInit /\ [][CoverNext]_coverVars

-----------------------------------------------------------------------------
(* Properties *)

\* However selections, pages and crawls overlap, a cover that the user has
\* pinned, and whose file is there, is replaced only by the user: by another
\* pin, or by a refresh that was asked for while the card showed this very
\* one.  The exception is a crawl that found its file missing when it began.
\* And a crawl gives no cover to an account that is disabled or archived by
\* then, nor one whose file is gone.
CoversKept ==
    [][/\ pin.source = "manual" /\ pin.path \in folderMedia /\ pin' # pin =>
             \/ \E m \in Media : PinShown(m)
             \/ \E s \in Selectors :
                   LET job == selecting[s]
                   IN  /\ job.at = "found" /\ selecting'[s].at = "rest" /\ job.before = pin
                       /\ \/ job.mode = "replace" /\ job.current = pin.path
                          \/ job.mode = "scrape" /\ job.current = NoMedia
       /\ \A s \in Selectors :
             StoreScraped(s) /\ pin' # pin => standing = "on" /\ pin'.path \in folderMedia]_coverVars
=============================================================================
