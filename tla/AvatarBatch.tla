---------------------------- MODULE AvatarBatch ----------------------------
(***************************************************************************)
(* _run_ui_avatar_batch (main_server.py): the task that makes an avatar    *)
(* for each account out of its media, one account after the other, with    *)
(* the account rows of the task journal, over pauses, kills and restarts;  *)
(* the retry of what failed, and the routes by which users set avatars.    *)
(*                                                                         *)
(* Work on an account awaits nothing: it blocks the server, and only a     *)
(* kill comes between its begin and its end, at any of its writes: the     *)
(* picture, the file of avatars that names it, the row.  The pictures of   *)
(* an account are taken to have one name (_account_avatar_output_path).    *)
(***************************************************************************)
EXTENDS FiniteSets, Integers

CONSTANT Portraits    \* accounts, by their position in the task: 1..n

ASSUME AvatarAssumption == Portraits = 1..Cardinality(Portraits) /\ IsFiniteSet(Portraits)

VARIABLES
    noted,      \* account_profile_avatars.json: accounts with an avatar
    picture,    \* the picture file of an account, and who made it
    chosen,     \* the accounts of the task
    skips,      \* skip_existing of the task
    journalRow, \* the account rows of the task
    drawing,    \* the execution
    early,      \* accounts that have had an avatar since before the task
    former      \* accounts of the tasks it retries, which may be at work still

avatarVars == <<noted, picture, chosen, skips, journalRow, drawing, early, former>>

Finals == {"success", "failed", "skipped"}
\* _load_account_board_avatars: an entry whose picture is gone is none.
Having == {a \in noted : picture[a] # "none"}
Marked(s) == {a \in Portraits : journalRow[a] = s}
Counts == [success |-> Cardinality(Marked("success")), failed |-> Cardinality(Marked("failed")),
           skipped |-> Cardinality(Marked("skipped"))]
Zero == [success |-> 0, failed |-> 0, skipped |-> 0]
Stopped == [at |-> "stopped", left |-> {}, known |-> {}, count |-> Zero, response |-> Zero]

AvatarTypeOK ==
    LET Tallies == [success : Nat, failed : Nat, skipped : Nat]
    IN  /\ noted \subseteq Portraits /\ skips \in BOOLEAN
        /\ picture \in [Portraits -> {"none", "made", "pinned"}]
        /\ journalRow \in [Portraits -> {"none", "pending", "running"} \cup Finals]
        /\ drawing \in [at : {"stopped", "loop", "item", "drawn", "noted", "done", "over"},
                        left : SUBSET Portraits, known : SUBSET Portraits,
                        count : Tallies, response : Tallies]
        /\ early \subseteq Portraits /\ chosen \subseteq Portraits /\ former \subseteq Portraits

AvatarInit ==
    /\ picture \in [Portraits -> {"none", "pinned"}] /\ skips \in BOOLEAN
    /\ noted = {a \in Portraits : picture[a] # "none"} /\ chosen \in SUBSET Portraits
    /\ journalRow = [a \in Portraits |-> "none"] /\ drawing = Stopped
    /\ early = Having /\ former = {}

-----------------------------------------------------------------------------
(* The batch *)

\* prepare_accounts: the rows are made once; later executions find them.
Prepared == IF \A a \in Portraits : journalRow[a] = "none"
         THEN [a \in Portraits |-> IF a \in chosen THEN "pending" ELSE "none"] ELSE journalRow

\* Mutant: an execution begins to count at nothing.
DrawAnew ==
    /\ drawing.at = "stopped"
    /\ journalRow' = Prepared
    /\ drawing' = [Stopped EXCEPT !.at = "loop", !.known = Having,
                                  !.left = {a \in chosen : Prepared[a] \notin Finals}]
    /\ UNCHANGED <<noted, picture, chosen, skips, early, former>>

\* An execution takes up what is not settled, goes on counting from the rows,
\* and reads the file of avatars once.
Draw ==
    /\ drawing.at = "stopped"
    /\ journalRow' = Prepared
    /\ drawing' = [Stopped EXCEPT !.at = "loop", !.count = Counts, !.known = Having,
                                  !.left = {a \in chosen : Prepared[a] \notin Finals}]
    /\ UNCHANGED <<noted, picture, chosen, skips, early, former>>

Upcoming == CHOOSE a \in drawing.left : \A b \in drawing.left : a <= b

\* start_item, after the pause check has let the batch go on.
StartItem ==
    /\ drawing.at = "loop" /\ drawing.left # {}
    /\ journalRow' = [journalRow EXCEPT ![Upcoming] = "running"]
    /\ drawing' = [drawing EXCEPT !.at = "item"]
    /\ UNCHANGED <<noted, picture, chosen, skips, early, former>>

Working == drawing.at \in {"item", "drawn", "noted"}
Skipped(a) == skips /\ a \in drawing.known /\ picture[a] # "none"

\* _set_account_avatar_path reads the file of avatars, adds to what it finds
\* and writes it; a write that fails may leave the old file or, when it breaks
\* off, one that cannot be read and so names nobody.
Saved(a) == {b \in noted \cup {a} : picture[b] # "none"}
Unsaved == noted' \in {noted, {}} /\ early' = early \cap noted'

\* A face is found in the media of the account, and its picture written.
DrawPicture ==
    /\ drawing.at = "item" /\ ~Skipped(Upcoming)
    /\ picture' = [picture EXCEPT ![Upcoming] = "made"]
    /\ drawing' = [drawing EXCEPT !.at = "drawn"]
    /\ UNCHANGED <<noted, chosen, skips, journalRow, early, former>>

NoteAvatar ==
    /\ drawing.at = "drawn"
    /\ noted' = IF picture[Upcoming] = "none" THEN noted ELSE Saved(Upcoming)
    /\ drawing' = [drawing EXCEPT !.at = "noted", !.known = @ \cup {Upcoming}]
    /\ UNCHANGED <<picture, chosen, skips, journalRow, early, former>>

\* Mutant: the row is written as soon as there is a picture.
ItemEndsUnnoted(status) ==
    \/ drawing.at = "item" /\ status = IF Skipped(Upcoming) THEN "skipped" ELSE "failed"
    \/ drawing.at = "drawn" /\ status \in {"failed", "success"}

\* The account has an avatar and is skipped; or there is no folder, no media,
\* no face; or the file of avatars cannot be written; or the avatar is noted.
ItemEnds(status) ==
    \/ drawing.at = "item" /\ status = IF Skipped(Upcoming) THEN "skipped" ELSE "failed"
    \/ drawing.at = "drawn" /\ status = "failed"
    \/ drawing.at = "noted" /\ status = "success"

\* finish_item
EndItem(status) ==
    /\ ItemEnds(status)
    /\ IF drawing.at = "drawn" THEN Unsaved ELSE UNCHANGED <<noted, early>>
    /\ journalRow' = [journalRow EXCEPT ![Upcoming] = status]
    /\ drawing' = [drawing EXCEPT !.at = "loop", !.left = @ \ {Upcoming}, !.count[status] = @ + 1]
    /\ UNCHANGED <<picture, chosen, skips, former>>

Respond ==
    /\ drawing.at = "loop" /\ drawing.left = {}
    /\ drawing' = [drawing EXCEPT !.at = "done", !.response = drawing.count]
    /\ UNCHANGED <<noted, picture, chosen, skips, journalRow, early, former>>

\* The task is cancelled between two accounts, or an error that nothing
\* catches ends it within one.
Aborted ==
    /\ drawing.at = "loop" \/ Working
    /\ drawing' = [drawing EXCEPT !.at = "over"]
    /\ UNCHANGED <<noted, picture, chosen, skips, journalRow, early, former>>

\* A kill, which may break off the writing of the file of avatars; the next
\* start makes running rows pending (recover_interrupted).
DrawingKilled ==
    /\ drawing.at = "loop" \/ Working
    /\ drawing' = Stopped
    /\ IF drawing.at = "drawn" THEN Unsaved ELSE UNCHANGED <<noted, early>>
    /\ journalRow' = [a \in Portraits |-> IF journalRow[a] = "running" THEN "pending" ELSE journalRow[a]]
    /\ UNCHANGED <<picture, chosen, skips, former>>

-----------------------------------------------------------------------------
(* The user *)

\* retry-failed: a new task for the failed rows, or for those of one category;
\* accounts that are off by then drop out when it begins.  The route does not
\* ask whether the old task is over: what that one has left may be drawn by it
\* at any time from then on.
RetryFailed ==
    /\ ~Working /\ Marked("failed") # {}
    /\ chosen' \in SUBSET Marked("failed")
    /\ journalRow' = [a \in Portraits |-> "none"] /\ drawing' = Stopped
    /\ early' = Having
    /\ former' = IF drawing.at = "over" THEN former
                 ELSE former \cup {a \in chosen : journalRow[a] \notin Finals}
    /\ UNCHANGED <<noted, picture, skips>>

\* A picture is written and noted, or could not be noted.
Sets(a, by) ==
    /\ ~Working
    /\ picture' = [picture EXCEPT ![a] = by]
    /\ \/ noted' = {b \in noted \cup {a} : picture'[b] # "none"} /\ UNCHANGED early
       \/ Unsaved
    /\ UNCHANGED <<chosen, skips, journalRow, drawing>>

FormerDraws(a) == a \in former /\ Sets(a, "made") /\ former' = former \ {a}

\* The user pins a picture, or has one made of a file in which there is a face.
PinAvatar(a) == Sets(a, "pinned") /\ UNCHANGED former
GenerateAvatar(a) == Sets(a, "pinned") /\ UNCHANGED former

\* A picture is deleted.
AvatarLost(a) ==
    /\ picture' = [picture EXCEPT ![a] = "none"] /\ early' = early \ {a}
    /\ UNCHANGED <<noted, chosen, skips, journalRow, drawing, former>>

AvatarNext ==
    \/ Draw \/ StartItem \/ DrawPicture \/ NoteAvatar \/ (\E s \in Finals : EndItem(s))
    \/ Respond \/ Aborted \/ DrawingKilled
    \/ RetryFailed
    \/ \E a \in Portraits : FormerDraws(a) \/ PinAvatar(a) \/ GenerateAvatar(a) \/ AvatarLost(a)

AvatarSpec == AvatarInit /\ [][AvatarNext]_avatarVars

-----------------------------------------------------------------------------
(* Properties *)

\* Over kills and restarts, between any two writes of an account, every account
\* is settled once in a task, the progress and the response are what the
\* journal's rows say, a row says success only once the avatar is noted, and,
\* when the task skips accounts with an avatar, it draws none anew that has been
\* there since before the task.  (After a kill between the avatar and its row
\* the account is taken up again: it is skipped for the task's own avatar, or
\* drawn a second time.  An avatar that the user sets while the task runs can
\* be replaced: the batch has read the file before.  So can one whose entry is
\* lost in a write that breaks off, and, by a task that is retried while it
\* still runs, one set since that began.)
AvatarsOnce ==
    /\ [](/\ drawing.at \in {"loop", "done"} => drawing.count = Counts
          /\ drawing.at = "done" =>
                 /\ drawing.response = Counts
                 /\ \A a \in chosen : journalRow[a] \in Finals)
    /\ [][\A a \in Portraits :
             /\ journalRow[a] \in Finals => journalRow'[a] = journalRow[a] \/ RetryFailed
             /\ journalRow'[a] = "success" =>
                    journalRow[a] = "success" \/ a \in noted \/ picture[a] = "none"
             /\ skips /\ a \in early /\ picture'[a] = "made" =>
                    picture[a] = "made" \/ FormerDraws(a)]_avatarVars
=============================================================================
