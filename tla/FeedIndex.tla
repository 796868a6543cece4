------------------------------ MODULE FeedIndex ------------------------------
(***************************************************************************)
(* The index behind the feed (src/webui/feed_index.py): a sqlite file that *)
(* mirrors the media folders of the configured accounts and the details of *)
(* the crawl database.  The worker thread makes passes over both; opening  *)
(* a profile scans one folder from a request's thread.  Downloads, crawls, *)
(* the settings and the deletion of the file go on meanwhile.              *)
(*                                                                         *)
(* A folder is a set of posts and a modification time; a table of the      *)
(* crawl database is the number of its newest row.                         *)
(***************************************************************************)
EXTENDS Naturals, FiniteSets

CONSTANTS Channels,     \* the accounts that may be configured
          Clips,        \* the posts a folder may hold
          MaxWrites,    \* bound on the changes of a folder
          MaxRecords,   \* bound on the rows of a crawl table
          MaxFaults     \* bound on errors, deletions and restarts together

ASSUME FeedAssumption ==
    /\ IsFiniteSet(Channels) /\ IsFiniteSet(Clips)
    /\ MaxWrites \in Nat /\ MaxRecords \in Nat /\ MaxFaults \in Nat

VARIABLES
    listed,     \* the accounts in the settings
    folder,     \* per account: the time of its last change, its posts
    records,    \* the newest row of its table in the crawl database
    tables,     \* the index file is there, with its tables
    prepared,   \* FeedIndex._prepared
    mirror,     \* accounts and posts: time and posts of the last scan
    marks,      \* meta_tables: the rows that are copied
    stamp,      \* _detail_stamp
    pass,       \* where the worker stands in its pass
    force,      \* _force_files
    scan,       \* the scan that holds _account_lock
    visitor,    \* the account whose row a request has read, to scan it
    unseen,     \* folders that changed since their scan, with the same time
    matched,    \* the accounts that were indexed when stamp was taken
    faults

outside == <<listed, folder, records>>
sqlite == <<tables, prepared>>
feedWorker == <<stamp, pass, force, matched>>
scanner == <<scan, visitor>>
feedVars == <<outside, sqlite, mirror, marks, feedWorker, scanner, unseen, faults>>

NoRows == [a \in Channels |-> 0]
NoStamp == [a \in Channels |-> MaxRecords + 1]
Stamps == [Channels -> 0..(MaxRecords + 1)]
NotIndexed == [there |-> FALSE, time |-> 0, clips |-> {}]
NoScan == [by |-> "nobody", of |-> {}, time |-> 0, clips |-> {}, read |-> FALSE, missed |-> FALSE]
\* left: accounts or tables to do; turn, newest: the table that is copied;
\* whole: no table was deferred
Resting == [at |-> "rest", left |-> {}, forced |-> FALSE, stamp |-> NoStamp, matched |-> {},
            turn |-> {}, newest |-> 0, whole |-> TRUE]

FeedTypeOK ==
    /\ listed \subseteq Channels
    /\ folder \in [Channels -> [time : 0..MaxWrites, clips : SUBSET Clips]]
    /\ records \in [Channels -> 0..MaxRecords] /\ marks \in [Channels -> 0..MaxRecords]
    /\ tables \in BOOLEAN /\ prepared \in BOOLEAN /\ force \in BOOLEAN
    /\ mirror \in [Channels -> [there : BOOLEAN, time : 0..MaxWrites, clips : SUBSET Clips]]
    /\ stamp \in Stamps
    /\ pass \in [at : {"rest", "list", "retire", "files", "details", "copy"},
                 left : SUBSET Channels, forced : BOOLEAN, stamp : Stamps,
                 matched : SUBSET Channels, turn : SUBSET Channels,
                 newest : 0..MaxRecords, whole : BOOLEAN]
    /\ scan \in [by : {"nobody", "worker", "visitor"}, of : SUBSET Channels, time : 0..MaxWrites,
                 clips : SUBSET Clips, read : BOOLEAN, missed : BOOLEAN]
    /\ visitor \subseteq Channels /\ unseen \subseteq Channels /\ matched \subseteq Channels
    /\ faults \in 0..MaxFaults

FeedInit ==
    /\ listed = Channels
    /\ folder = [a \in Channels |-> [time |-> 0, clips |-> {}]]
    /\ records = [a \in Channels |-> 0] /\ marks = records
    /\ tables = FALSE /\ prepared = FALSE /\ force = FALSE
    /\ mirror = [a \in Channels |-> NotIndexed]
    /\ stamp = NoStamp /\ pass = Resting /\ scan = NoScan
    /\ visitor = {} /\ unseen = {} /\ matched = {} /\ faults = 0

\* st_mtime_ns and st_size of the crawl database stand for its rows.
Database == records
Indexed == {a \in Channels : mirror[a].there}                \* indexed_uids

\* _prepare, before every statement: once per process.
Opened == (prepared => tables) /\ prepared' = TRUE /\ tables' = TRUE
Broken == prepared /\ ~tables                                \* "no such table"

Fault == faults < MaxFaults /\ faults' = faults + 1

-----------------------------------------------------------------------------
(* Passes: run_once                                                        *)

PassBegins ==
    /\ pass.at = "rest"
    /\ pass' = [Resting EXCEPT !.at = "list", !.forced = force]
    /\ UNCHANGED <<outside, sqlite, mirror, marks, stamp, force, matched, scanner, unseen, faults>>

\* The flag is cleared, and the sources are read.
Listed ==
    /\ pass.at = "list"
    /\ force' = FALSE
    /\ pass' = [pass EXCEPT !.at = "retire", !.left = listed]
    /\ UNCHANGED <<outside, sqlite, mirror, marks, stamp, matched, scanner, unseen, faults>>

\* retire_accounts
Retired ==
    /\ pass.at = "retire" /\ Opened
    /\ mirror' = [a \in Channels |-> IF a \in pass.left THEN mirror[a] ELSE NotIndexed]
    /\ pass' = [pass EXCEPT !.at = "files"]
    /\ UNCHANGED <<outside, marks, stamp, force, matched, scanner, unseen, faults>>

\* The statements of a pass raise, outside the copying of details: the pass
\* is over, until the next one.
PassFails ==
    /\ pass.at \in {"retire", "files", "details"}
    /\ \/ Broken /\ UNCHANGED faults
       \/ Fault
    /\ pass' = Resting
    /\ scan' = IF scan.by = "worker" THEN NoScan ELSE scan
    /\ UNCHANGED <<outside, sqlite, mirror, marks, stamp, force, matched, visitor, unseen>>

-----------------------------------------------------------------------------
(* sync_account, for the worker and for a request                          *)

Same(a) == mirror[a].there /\ mirror[a].time = folder[a].time

\* Inside the lock: the folder's time, and whether it is that of the row.
Look(by, a) ==
    /\ scan.by = "nobody" /\ Opened
    /\ scan' = IF Same(a) /\ ~(by = "worker" /\ pass.forced) THEN scan
               ELSE [NoScan EXCEPT !.by = by, !.of = {a}, !.time = folder[a].time]

WorkerLooks(a) ==
    /\ pass.at = "files" /\ a \in pass.left
    /\ Look("worker", a)
    /\ pass' = [pass EXCEPT !.left = @ \ {a}]
    /\ UNCHANGED <<outside, mirror, marks, stamp, force, matched, visitor, unseen, faults>>

\* sync_account_now: the row is read before the lock is there.
Visit(a) ==
    /\ visitor = {} /\ mirror[a].there /\ mirror[a].time > 0
    /\ visitor' = {a}
    /\ UNCHANGED <<outside, sqlite, mirror, marks, feedWorker, scan, unseen, faults>>

VisitorLooks(a) ==
    /\ visitor = {a}
    /\ \/ Look("visitor", a)
       \/ Broken /\ scan.by = "nobody" /\ UNCHANGED <<sqlite, scan>>
    /\ visitor' = {}
    /\ UNCHANGED <<outside, mirror, marks, feedWorker, unseen, faults>>

\* scan_folder; a directory that cannot be read is taken for an empty one.
ScanFolder(a) ==
    /\ scan.of = {a} /\ ~scan.read
    /\ \/ scan' = [scan EXCEPT !.read = TRUE, !.clips = folder[a].clips] /\ UNCHANGED faults
       \/ Fault /\ scan' = [scan EXCEPT !.read = TRUE, !.missed = folder[a].clips # {}]
    /\ UNCHANGED <<outside, sqlite, mirror, marks, feedWorker, visitor, unseen>>

\* Mutant: the folder's time is that after the scan.
ScanWrittenLate(a) ==
    /\ scan.of = {a} /\ scan.read /\ Opened
    /\ mirror' = [mirror EXCEPT ![a] = [there |-> TRUE, time |-> folder[a].time, clips |-> scan.clips]]
    /\ unseen' = IF scan.missed THEN unseen \cup {a} ELSE unseen \ {a}
    /\ scan' = NoScan
    /\ UNCHANGED <<outside, marks, feedWorker, visitor, faults>>

\* One transaction.  An account that was retired meanwhile is there again.
ScanWritten(a) ==
    /\ scan.of = {a} /\ scan.read /\ Opened
    /\ mirror' = [mirror EXCEPT ![a] = [there |-> TRUE, time |-> scan.time, clips |-> scan.clips]]
    /\ unseen' = IF scan.missed THEN unseen \cup {a} ELSE unseen \ {a}
    /\ scan' = NoScan
    /\ UNCHANGED <<outside, marks, feedWorker, visitor, faults>>

\* The request's write raises: it answers with an error.
VisitFails ==
    /\ scan.by = "visitor" /\ scan.read
    /\ \/ Broken /\ UNCHANGED faults
       \/ Fault
    /\ scan' = NoScan
    /\ UNCHANGED <<outside, sqlite, mirror, marks, feedWorker, visitor, unseen>>

-----------------------------------------------------------------------------
(* _sync_details                                                           *)

\* The stamp is taken first.  Without a database there is nothing to do.
Stamped ==
    /\ pass.at = "files" /\ pass.left = {} /\ scan.by # "worker"
    /\ pass' = IF Database \in {NoRows, stamp} THEN Resting
               ELSE [pass EXCEPT !.at = "details", !.stamp = Database]
    /\ UNCHANGED <<outside, sqlite, mirror, marks, stamp, force, matched, scanner, unseen, faults>>

\* The tables of the accounts that are indexed.
Matched ==
    /\ pass.at = "details" /\ Opened
    /\ pass' = [pass EXCEPT !.at = "copy", !.matched = Indexed,
                            !.left = {a \in Indexed : records[a] > 0}]
    /\ UNCHANGED <<outside, mirror, marks, stamp, force, matched, scanner, unseen, faults>>

\* _next_detail_table: the oldest, or one that a request has asked for.
CopyBegins(a) ==
    /\ pass.at = "copy" /\ pass.turn = {} /\ a \in pass.left
    /\ pass' = IF records[a] > marks[a]
               THEN [pass EXCEPT !.turn = {a}, !.newest = records[a]]
               ELSE [pass EXCEPT !.left = @ \ {a}]
    /\ UNCHANGED <<outside, sqlite, mirror, marks, stamp, force, matched, scanner, unseen, faults>>

\* apply_detail_rows: the rows and the mark are one transaction.
DetailsApplied(a, last) == marks' = [marks EXCEPT ![a] = last]

\* A batch, which may hold rows that are newer than the newest of the turn.
\* The turn ends there, or when another table is asked for.
Copy(a) ==
    /\ pass.turn = {a} /\ Opened
    /\ \E last \in (marks[a] + 1)..records[a] :
          /\ DetailsApplied(a, last)
          /\ pass' \in IF last < pass.newest THEN {pass, [pass EXCEPT !.turn = {}]}
                       ELSE {[pass EXCEPT !.turn = {}, !.left = @ \ {a}]}
    /\ UNCHANGED <<outside, mirror, stamp, force, matched, scanner, unseen, faults>>

\* sqlite3.Error, of either database
Deferred(a) ==
    /\ pass.turn = {a}
    /\ \/ Broken /\ UNCHANGED faults
       \/ Fault
    /\ pass' = [pass EXCEPT !.turn = {}, !.left = @ \ {a}, !.whole = FALSE]
    /\ UNCHANGED <<outside, sqlite, mirror, marks, stamp, force, matched, scanner, unseen>>

Copied ==
    /\ pass.at = "copy" /\ pass.turn = {} /\ pass.left = {}
    /\ IF pass.whole THEN stamp' = pass.stamp /\ matched' = pass.matched
       ELSE UNCHANGED <<stamp, matched>>
    /\ pass' = Resting
    /\ UNCHANGED <<outside, sqlite, mirror, marks, force, scanner, unseen, faults>>

-----------------------------------------------------------------------------
(* Everybody else                                                          *)

\* An account is added to the settings or leaves them.
Configures(a) ==
    /\ listed' = IF a \in listed THEN listed \ {a} ELSE listed \cup {a}
    /\ UNCHANGED <<folder, records, sqlite, mirror, marks, feedWorker, scanner, unseen, faults>>

\* A post comes or goes in the account's folder.
FolderChanges(a) ==
    /\ folder[a].time < MaxWrites
    /\ \E clips \in SUBSET Clips \ {folder[a].clips} :
          folder' = [folder EXCEPT ![a] = [time |-> @.time + 1, clips |-> clips]]
    /\ UNCHANGED <<listed, records, sqlite, mirror, marks, feedWorker, scanner, unseen, faults>>

\* ... in a folder below it, or within one tick of the file system's clock:
\* the folder keeps its time.
ChangesBelow(a) ==
    /\ folder[a].time > 0
    /\ \E clips \in SUBSET Clips \ {folder[a].clips} :
          folder' = [folder EXCEPT ![a].clips = clips]
    /\ unseen' = unseen \cup {a}
    /\ scan' = [scan EXCEPT !.missed = @ \/ (scan.of = {a} /\ scan.read)]
    /\ UNCHANGED <<listed, records, sqlite, mirror, marks, feedWorker, visitor, faults>>

\* A crawl records a work.
Crawls(a) ==
    /\ records[a] < MaxRecords
    /\ records' = [records EXCEPT ![a] = @ + 1]
    /\ UNCHANGED <<listed, folder, sqlite, mirror, marks, feedWorker, scanner, unseen, faults>>

\* request_sync(force = True)
Forces ==
    /\ force' = TRUE
    /\ UNCHANGED <<outside, sqlite, mirror, marks, stamp, pass, matched, scanner, unseen, faults>>

\* The index file is deleted.
Lost ==
    /\ tables /\ Fault
    /\ tables' = FALSE
    /\ mirror' = [a \in Channels |-> NotIndexed]
    /\ marks' = [a \in Channels |-> 0]
    /\ UNCHANGED <<outside, prepared, feedWorker, scanner, unseen>>

ServerRestarts ==
    /\ Fault
    /\ prepared' = FALSE /\ force' = FALSE
    /\ stamp' = NoStamp /\ pass' = Resting /\ scan' = NoScan /\ visitor' = {} /\ matched' = {}
    /\ UNCHANGED <<outside, tables, mirror, marks, unseen>>

WorkerStep ==
    \/ PassBegins \/ Listed \/ Retired \/ PassFails \/ Stamped \/ Matched \/ Copied
    \/ \E a \in Channels : WorkerLooks(a) \/ CopyBegins(a) \/ Copy(a) \/ Deferred(a)

FeedNext ==
    \/ WorkerStep \/ VisitFails
    \/ \E a \in Channels :
          \/ Visit(a) \/ VisitorLooks(a) \/ ScanFolder(a) \/ ScanWritten(a)
          \/ Configures(a) \/ FolderChanges(a) \/ ChangesBelow(a) \/ Crawls(a)
    \/ Forces \/ Lost \/ ServerRestarts

FeedSpec == FeedInit /\ [][FeedNext]_feedVars

-----------------------------------------------------------------------------
(* Properties *)

\* Scans of two threads, downloads and crawls overlap, and the index never
\* takes old contents for current: a folder whose time is that of its row
\* holds the posts of the row (unless it changed below, or was not readable),
\* and once the stamp of a pass is that of the crawl database, every account
\* that was indexed in that pass has all its rows.
IndexFaithful ==
    /\ \A a \in Indexed \ unseen :
          mirror[a].time = folder[a].time => mirror[a].clips = folder[a].clips
    /\ stamp = Database /\ tables =>
          \A a \in matched : marks[a] = records[a]
=============================================================================
