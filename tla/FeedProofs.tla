----------------------------- MODULE FeedProofs -----------------------------
(***************************************************************************)
(* The feed's index (FeedIndex) is faithful to the folders and the crawl   *)
(* database, and its pages (FeedPages) lose no post, for any accounts,     *)
(* posts, tables and page sizes.                                           *)
(***************************************************************************)
EXTENDS FeedIndex, FeedPages, FiniteSetTheorems, NaturalsInduction, WellFoundedInduction, TLAPS

-----------------------------------------------------------------------------
(* FeedIndex: the inductive invariant.                                     *)

Folders == [time : 0..MaxWrites, clips : SUBSET Clips]
MirrorRows == [there : BOOLEAN, time : 0..MaxWrites, clips : SUBSET Clips]
Passes == [at : {"rest", "list", "retire", "files", "details", "copy"},
           left : SUBSET Channels, forced : BOOLEAN, stamp : Stamps,
           matched : SUBSET Channels, turn : SUBSET Channels,
           newest : 0..MaxRecords, whole : BOOLEAN]
ScansOf == [by : {"nobody", "worker", "visitor"}, of : SUBSET Channels, time : 0..MaxWrites,
            clips : SUBSET Clips, read : BOOLEAN, missed : BOOLEAN]

\* A row is not newer than its folder, and of its time it is as the folder is.
Folded ==
    \A a \in Channels : mirror[a].there =>
        /\ mirror[a].time <= folder[a].time
        /\ a \notin unseen /\ mirror[a].time = folder[a].time => mirror[a].clips = folder[a].clips

\* So is what a scan has read, of one folder.
Scanned ==
    /\ \A a, b \in scan.of : a = b
    /\ ~scan.read => scan.clips = {} /\ ~scan.missed
    /\ \A a \in scan.of :
          /\ scan.time <= folder[a].time
          /\ scan.read /\ ~scan.missed /\ scan.time = folder[a].time => scan.clips = folder[a].clips

\* No row is copied that is not there, and what the index knows of the crawl
\* database is from the file it has opened.
Marked ==
    /\ \A a \in Channels : marks[a] <= records[a]
    /\ pass.at \in {"files", "details", "copy"} => prepared
    /\ matched # {} => prepared

\* Up to the stamp of the last whole pass, the rows are copied.
Stamp == tables => \A a \in matched : stamp[a] <= marks[a]

\* Up to the stamp of this pass, too, for the tables it has done.
Copying ==
    /\ pass.at \in {"details", "copy"} => \A a \in Channels : pass.stamp[a] <= records[a]
    /\ tables /\ pass.at = "copy" /\ pass.whole
          => \A a \in pass.matched \ pass.left : pass.stamp[a] <= marks[a]
    /\ \A a \in pass.turn : pass.at = "copy" /\ pass.stamp[a] <= pass.newest

IndexInv == FeedTypeOK /\ Folded /\ Scanned /\ Marked /\ Stamp /\ Copying

\* The types of the variables that hold records.
LEMMA FeedTypes ==
    ASSUME FeedTypeOK
    PROVE  /\ folder \in [Channels -> Folders] /\ mirror \in [Channels -> MirrorRows]
           /\ pass \in Passes /\ scan \in ScansOf /\ stamp \in [Channels -> 0..(MaxRecords + 1)]
           /\ pass.stamp \in [Channels -> 0..(MaxRecords + 1)]
           /\ records \in [Channels -> 0..MaxRecords] /\ marks \in [Channels -> 0..MaxRecords]
           /\ MaxWrites \in Nat /\ MaxRecords \in Nat /\ MaxFaults \in Nat
BY FeedAssumption DEF FeedTypeOK, Folders, MirrorRows, Passes, ScansOf, Stamps

\* ... and back.
LEMMA FeedTyped ==
    ASSUME listed' \subseteq Channels, folder' \in [Channels -> Folders],
           records' \in [Channels -> 0..MaxRecords], marks' \in [Channels -> 0..MaxRecords],
           tables' \in BOOLEAN, prepared' \in BOOLEAN, force' \in BOOLEAN,
           mirror' \in [Channels -> MirrorRows], stamp' \in Stamps, pass' \in Passes,
           scan' \in ScansOf, visitor' \subseteq Channels, unseen' \subseteq Channels,
           matched' \subseteq Channels, faults' \in 0..MaxFaults
    PROVE  FeedTypeOK'
BY DEF FeedTypeOK, Folders, MirrorRows, Passes, ScansOf

\* The constant records and stamps.
LEMMA FeedConstants ==
    /\ NoStamp \in Stamps /\ NoRows \in Stamps
    /\ NotIndexed \in MirrorRows /\ NotIndexed.there = FALSE
    /\ NoScan \in ScansOf /\ NoScan.of = {} /\ NoScan.clips = {}
    /\ NoScan.read = FALSE /\ NoScan.missed = FALSE
    /\ Resting \in Passes /\ Resting.at = "rest" /\ Resting.turn = {}
<1>1. NoStamp \in Stamps /\ NoRows \in Stamps
    BY FeedAssumption DEF NoStamp, NoRows, Stamps
<1>2. 0 \in 0..MaxWrites /\ 0 \in 0..MaxRecords
    BY FeedAssumption
<1> QED BY <1>1, <1>2 DEF NotIndexed, MirrorRows, NoScan, ScansOf, Resting, Passes

-----------------------------------------------------------------------------
(* FeedIndex: steps that leave one half of the invariant alone.            *)

LEMMA FilesStand ==
    ASSUME IndexInv, UNCHANGED <<folder, mirror, scan>>, unseen' = unseen
    PROVE  Folded' /\ Scanned'
BY DEF IndexInv, Folded, Scanned

LEMMA RowsStand ==
    ASSUME IndexInv, UNCHANGED <<records, marks, stamp, matched, pass>>,
           prepared => prepared' = TRUE, tables' => tables \/ ~prepared
    PROVE  Marked' /\ Stamp' /\ Copying'
BY DEF IndexInv, Marked, Stamp, Copying

\* A pass that begins, or ends without having copied everything.
LEMMA PassStands ==
    ASSUME IndexInv, UNCHANGED <<records, marks, stamp, matched>>,
           prepared => prepared' = TRUE, tables' => tables \/ ~prepared,
           pass'.at \in {"rest", "list", "retire"} \/ (pass'.at = "files" /\ prepared'),
           pass'.turn = {}
    PROVE  Marked' /\ Stamp' /\ Copying'
BY DEF IndexInv, Marked, Stamp, Copying

-----------------------------------------------------------------------------
(* FeedIndex: the actions.                                                 *)

\* What opening the index does to its file.
LEMMA OpenedFile ==
    ASSUME Opened
    PROVE  prepared' = TRUE /\ tables' = TRUE /\ (tables' => tables \/ ~prepared)
BY DEF Opened

\* A pass, up to the files.
LEMMA PassBeginsKeeps ==
    ASSUME IndexInv, PassBegins \/ Listed PROVE IndexInv'
<1>1. UNCHANGED <<outside, sqlite, mirror, marks, stamp, matched, scanner, unseen, faults>>
    BY DEF PassBegins, Listed
<1>2. pass' \in Passes /\ pass'.at \in {"list", "retire"} /\ pass'.turn = {} /\ force' \in BOOLEAN
    <2>1. CASE PassBegins
        <3>1. force \in BOOLEAN /\ force' = force
            BY <2>1 DEF IndexInv, FeedTypeOK, PassBegins
        <3>2. pass' = [Resting EXCEPT !.at = "list", !.forced = force]
            BY <2>1 DEF PassBegins
        <3> QED BY <3>1, <3>2, FeedConstants DEF Passes
    <2>2. CASE Listed
        <3>1. pass \in Passes /\ pass.at = "list" /\ listed \subseteq Channels
            BY <2>2, FeedTypes DEF IndexInv, FeedTypeOK, Listed
        <3>2. pass' = [pass EXCEPT !.at = "retire", !.left = listed] /\ force' = FALSE
            BY <2>2 DEF Listed
        <3>3. pass.turn = {}
            BY <3>1 DEF IndexInv, Copying
        <3> QED BY <3>1, <3>2, <3>3 DEF Passes
    <2> QED BY <2>1, <2>2
<1>3. FeedTypeOK'
    BY <1>1, <1>2, FeedTypes, FeedTyped DEF IndexInv, FeedTypeOK, outside, sqlite, scanner
<1>4. Folded' /\ Scanned'
    BY <1>1, FilesStand DEF outside, scanner
<1>5. Marked' /\ Stamp' /\ Copying'
    BY <1>1, <1>2, PassStands DEF outside, sqlite, IndexInv, FeedTypeOK
<1> QED BY <1>3, <1>4, <1>5 DEF IndexInv

\* Accounts that are not configured leave the index.
LEMMA RetiredKeeps ==
    ASSUME IndexInv, Retired PROVE IndexInv'
<1>1. /\ pass.at = "retire" /\ Opened
      /\ mirror' = [a \in Channels |-> IF a \in pass.left THEN mirror[a] ELSE NotIndexed]
      /\ pass' = [pass EXCEPT !.at = "files"]
      /\ UNCHANGED <<outside, marks, stamp, force, matched, scanner, unseen, faults>>
    BY DEF Retired
<1>2. pass \in Passes /\ pass.turn = {}
    BY <1>1, FeedTypes DEF IndexInv, Copying
<1>3. pass' \in Passes /\ pass'.at = "files" /\ pass'.turn = {}
    BY <1>1, <1>2 DEF Passes
<1>4. /\ mirror' \in [Channels -> MirrorRows]
      /\ \A a \in Channels : mirror'[a].there => mirror'[a] = mirror[a]
    BY <1>1, FeedTypes, FeedConstants DEF IndexInv
<1>5. FeedTypeOK'
    BY <1>1, <1>3, <1>4, FeedTypes, FeedTyped, OpenedFile DEF IndexInv, FeedTypeOK, outside, scanner
<1>6. Folded' /\ Scanned'
    BY <1>1, <1>4 DEF IndexInv, Folded, Scanned, outside, scanner
<1>7. Marked' /\ Stamp' /\ Copying'
    BY <1>1, <1>3, OpenedFile, PassStands DEF outside
<1> QED BY <1>5, <1>6, <1>7 DEF IndexInv

\* A pass is over before its end.
LEMMA PassFailsKeeps ==
    ASSUME IndexInv, PassFails PROVE IndexInv'
<1>1. /\ faults' = faults \/ Fault
      /\ pass' = Resting /\ scan' = IF scan.by = "worker" THEN NoScan ELSE scan
      /\ UNCHANGED <<outside, sqlite, mirror, marks, stamp, force, matched, visitor, unseen>>
    BY DEF PassFails
<1>2. faults' \in 0..MaxFaults /\ scan' \in ScansOf
    BY <1>1, FeedTypes, FeedConstants DEF IndexInv, FeedTypeOK, Fault
<1>3. FeedTypeOK'
    BY <1>1, <1>2, FeedTypes, FeedTyped, FeedConstants DEF IndexInv, FeedTypeOK, outside, sqlite
<1>4. Folded' /\ Scanned'
    BY <1>1, FeedConstants DEF IndexInv, Folded, Scanned, outside
<1>5. Marked' /\ Stamp' /\ Copying'
    BY <1>1, FeedConstants, PassStands DEF outside, sqlite, IndexInv, FeedTypeOK
<1> QED BY <1>3, <1>4, <1>5 DEF IndexInv

\* Somebody looks at a folder, and begins to scan it or not.
LEMMA LookKeeps ==
    ASSUME IndexInv, NEW by \in {"worker", "visitor"}, NEW a \in Channels,
           Look(by, a) \/ UNCHANGED <<sqlite, scan>>
    PROVE  /\ scan' \in ScansOf /\ tables' \in BOOLEAN /\ prepared' \in BOOLEAN
           /\ prepared => prepared' = TRUE
           /\ tables' => tables \/ ~prepared
           /\ UNCHANGED <<folder, mirror, unseen>> => Folded' /\ Scanned'
<1>1. CASE UNCHANGED <<sqlite, scan>>
    BY <1>1, FilesStand, FeedTypes DEF IndexInv, FeedTypeOK, sqlite
<1>2. CASE Look(by, a) /\ scan' = scan
    BY <1>2, FilesStand, FeedTypes, OpenedFile DEF IndexInv, FeedTypeOK, Look
<1>3. CASE Look(by, a) /\ scan' = [NoScan EXCEPT !.by = by, !.of = {a}, !.time = folder[a].time]
    <2>1. folder[a].time \in 0..MaxWrites
        BY FeedTypes DEF IndexInv, Folders
    <2>2. /\ scan' \in ScansOf /\ scan'.of = {a} /\ scan'.time = folder[a].time
          /\ scan'.read = FALSE /\ scan'.clips = {} /\ scan'.missed = FALSE
        BY <1>3, <2>1, FeedConstants DEF ScansOf
    <2>3. UNCHANGED <<folder, mirror, unseen>> => Folded' /\ Scanned'
        BY <2>1, <2>2 DEF IndexInv, Folded, Scanned
    <2> QED BY <1>3, <2>2, <2>3, OpenedFile DEF Look
<1> QED BY <1>1, <1>2, <1>3 DEF Look

LEMMA LooksAtFolders ==
    ASSUME IndexInv, NEW a \in Channels, WorkerLooks(a) \/ VisitorLooks(a) PROVE IndexInv'
<1>1. CASE WorkerLooks(a)
    <2>1. /\ pass.at = "files" /\ Look("worker", a) /\ pass' = [pass EXCEPT !.left = @ \ {a}]
          /\ UNCHANGED <<outside, mirror, marks, stamp, force, matched, visitor, unseen, faults>>
        BY <1>1 DEF WorkerLooks
    <2>2. pass' \in Passes /\ pass'.at = "files" /\ pass'.turn = {}
        BY <2>1, FeedTypes DEF IndexInv, Copying, Passes
    <2>3. prepared' = TRUE
        BY <2>1 DEF Look, Opened
    <2>4. FeedTypeOK'
        BY <2>1, <2>2, LookKeeps, FeedTypes, FeedTyped DEF IndexInv, FeedTypeOK, outside
    <2>5. Folded' /\ Scanned'
        BY <2>1, LookKeeps DEF outside
    <2>6. Marked' /\ Stamp' /\ Copying'
        BY <2>1, <2>2, <2>3, LookKeeps, PassStands DEF outside
    <2> QED BY <2>4, <2>5, <2>6 DEF IndexInv
<1>2. CASE VisitorLooks(a)
    <2>1. /\ Look("visitor", a) \/ UNCHANGED <<sqlite, scan>>
          /\ visitor' = {} /\ UNCHANGED <<outside, mirror, marks, feedWorker, unseen, faults>>
        BY <1>2 DEF VisitorLooks
    <2>2. FeedTypeOK'
        BY <2>1, LookKeeps, FeedTypes, FeedTyped DEF IndexInv, FeedTypeOK, outside, feedWorker
    <2>3. Folded' /\ Scanned'
        BY <2>1, LookKeeps DEF outside
    <2>4. Marked' /\ Stamp' /\ Copying'
        BY <2>1, LookKeeps, RowsStand DEF outside, feedWorker
    <2> QED BY <2>2, <2>3, <2>4 DEF IndexInv
<1> QED BY <1>1, <1>2

\* A folder is read, or cannot be.
LEMMA ScanFolderKeeps ==
    ASSUME IndexInv, NEW a \in Channels, ScanFolder(a) PROVE IndexInv'
<1>1. /\ scan.of = {a} /\ ~scan.read
      /\ UNCHANGED <<outside, sqlite, mirror, marks, feedWorker, visitor, unseen>>
    BY DEF ScanFolder
<1>2. /\ scan \in ScansOf /\ scan.clips = {} /\ ~scan.missed /\ scan.time <= folder[a].time
      /\ folder[a].clips \subseteq Clips
    BY <1>1, FeedTypes DEF IndexInv, Scanned, Folders
<1>3. /\ scan' \in ScansOf /\ scan'.of = {a} /\ scan'.time = scan.time /\ scan'.read = TRUE
      /\ scan'.missed \/ scan'.clips = folder[a].clips
      /\ faults' \in 0..MaxFaults
    <2>1. CASE scan' = [scan EXCEPT !.read = TRUE, !.clips = folder[a].clips] /\ UNCHANGED faults
        BY <1>1, <1>2, <2>1 DEF ScansOf, IndexInv, FeedTypeOK
    <2>2. CASE Fault /\ scan' = [scan EXCEPT !.read = TRUE, !.missed = folder[a].clips # {}]
        <3>1. faults' \in 0..MaxFaults
            BY <2>2, FeedTypes DEF Fault, IndexInv, FeedTypeOK
        <3>2. CASE folder[a].clips = {}
            BY <1>1, <1>2, <2>2, <3>1, <3>2 DEF ScansOf
        <3>3. CASE folder[a].clips # {}
            BY <1>1, <1>2, <2>2, <3>1, <3>3 DEF ScansOf
        <3> QED BY <3>2, <3>3
    <2> QED BY <2>1, <2>2 DEF ScanFolder
<1>4. FeedTypeOK'
    BY <1>1, <1>3, FeedTypes, FeedTyped DEF IndexInv, FeedTypeOK, outside, sqlite, feedWorker
<1>5. Folded' /\ Scanned'
    BY <1>1, <1>2, <1>3 DEF IndexInv, Folded, Scanned, outside
<1>6. Marked' /\ Stamp' /\ Copying'
    BY <1>1, RowsStand DEF outside, sqlite, feedWorker, IndexInv, FeedTypeOK
<1> QED BY <1>4, <1>5, <1>6 DEF IndexInv

\* What was read is written.
LEMMA ScanWrittenKeeps ==
    ASSUME IndexInv, NEW a \in Channels, ScanWritten(a) PROVE IndexInv'
<1> DEFINE row == [there |-> TRUE, time |-> scan.time, clips |-> scan.clips]
<1>1. /\ scan.of = {a} /\ scan.read /\ Opened
      /\ mirror' = [mirror EXCEPT ![a] = row]
      /\ unseen' = IF scan.missed THEN unseen \cup {a} ELSE unseen \ {a}
      /\ scan' = NoScan
      /\ UNCHANGED <<outside, marks, feedWorker, visitor, faults>>
    BY DEF ScanWritten
<1>2. row \in MirrorRows /\ row.there = TRUE /\ row.time = scan.time /\ row.clips = scan.clips
    BY FeedTypes DEF IndexInv, ScansOf, MirrorRows
<1> HIDE DEF row
<1>3. /\ mirror' \in [Channels -> MirrorRows]
      /\ \A b \in Channels : mirror'[b] = IF b = a THEN row ELSE mirror[b]
    BY <1>1, <1>2, FeedTypes DEF IndexInv
<1>4. FeedTypeOK'
    BY <1>1, <1>3, FeedTypes, FeedTyped, FeedConstants, OpenedFile
       DEF IndexInv, FeedTypeOK, outside, feedWorker
<1>5. Folded'
    <2>1. /\ scan.time <= folder[a].time
          /\ ~scan.missed /\ scan.time = folder[a].time => scan.clips = folder[a].clips
        BY <1>1 DEF IndexInv, Scanned
    <2>2. ASSUME NEW b \in Channels, mirror'[b].there
          PROVE  /\ mirror'[b].time <= folder[b].time
                 /\ b \notin unseen' /\ mirror'[b].time = folder[b].time
                       => mirror'[b].clips = folder[b].clips
        <3>1. CASE b = a
            BY <1>1, <1>2, <1>3, <2>1, <3>1
        <3>2. CASE b # a
            BY <1>1, <1>3, <2>2, <3>2 DEF IndexInv, Folded
        <3> QED BY <3>1, <3>2
    <2> QED BY <1>1, <2>2 DEF Folded, outside
<1>6. Scanned'
    BY <1>1, FeedConstants DEF Scanned
<1>7. Marked' /\ Stamp' /\ Copying'
    BY <1>1, OpenedFile, RowsStand DEF outside, feedWorker
<1> QED BY <1>4, <1>5, <1>6, <1>7 DEF IndexInv

\* A request asks for a scan; its write fails; a pass is asked for, with force.
LEMMA RequestsKeep ==
    ASSUME IndexInv, (\E a \in Channels : Visit(a)) \/ VisitFails \/ Forces PROVE IndexInv'
<1>1. /\ UNCHANGED <<outside, sqlite, mirror, marks, stamp, pass, matched, unseen>>
      /\ force' \in BOOLEAN /\ visitor' \subseteq Channels
      /\ scan' \in {scan, NoScan} /\ (faults' = faults \/ Fault)
    BY DEF IndexInv, FeedTypeOK, Visit, VisitFails, Forces, feedWorker, scanner
<1>2. scan' \in ScansOf /\ faults' \in 0..MaxFaults
    BY <1>1, FeedTypes, FeedConstants DEF IndexInv, FeedTypeOK, Fault
<1>3. FeedTypeOK'
    BY <1>1, <1>2, FeedTypes, FeedTyped DEF IndexInv, FeedTypeOK, outside, sqlite
<1>4. Folded' /\ Scanned'
    BY <1>1, FeedConstants DEF IndexInv, Folded, Scanned, outside
<1>5. Marked' /\ Stamp' /\ Copying'
    BY <1>1, RowsStand DEF outside, sqlite, IndexInv, FeedTypeOK
<1> QED BY <1>3, <1>4, <1>5 DEF IndexInv

\* The stamp is taken.
LEMMA StampedKeeps ==
    ASSUME IndexInv, Stamped PROVE IndexInv'
<1>1. /\ pass.at = "files"
      /\ pass' = Resting \/ pass' = [pass EXCEPT !.at = "details", !.stamp = records]
      /\ UNCHANGED <<outside, sqlite, mirror, marks, stamp, force, matched, scanner, unseen, faults>>
    BY DEF Stamped, Database
<1>2. CASE pass' = Resting
    <2>1. FeedTypeOK'
        BY <1>1, <1>2, FeedTypes, FeedTyped, FeedConstants
           DEF IndexInv, FeedTypeOK, outside, sqlite, scanner
    <2>2. Folded' /\ Scanned'
        BY <1>1, FilesStand DEF outside, scanner
    <2>3. Marked' /\ Stamp' /\ Copying'
        BY <1>1, <1>2, FeedConstants, PassStands DEF outside, sqlite, IndexInv, FeedTypeOK
    <2> QED BY <2>1, <2>2, <2>3 DEF IndexInv
<1>3. CASE pass' = [pass EXCEPT !.at = "details", !.stamp = records]
    <2>1. pass \in Passes /\ records \in Stamps /\ pass.turn = {}
        BY <1>1, FeedTypes DEF IndexInv, Stamps, Copying
    <2>2. pass' \in Passes /\ pass'.at = "details" /\ pass'.stamp = records /\ pass'.turn = {}
        BY <1>3, <2>1 DEF Passes
    <2>3. FeedTypeOK'
        BY <1>1, <2>2, FeedTypes, FeedTyped DEF IndexInv, FeedTypeOK, outside, sqlite, scanner
    <2>4. Folded' /\ Scanned'
        BY <1>1, FilesStand DEF outside, scanner
    <2>5. \A b \in Channels : records[b] <= records[b]
        BY FeedTypes DEF IndexInv
    <2>6. Marked' /\ Stamp' /\ Copying'
        BY <1>1, <2>2, <2>5 DEF IndexInv, Marked, Stamp, Copying, outside, sqlite
    <2> QED BY <2>3, <2>4, <2>6 DEF IndexInv
<1> QED BY <1>1, <1>2, <1>3

\* The tables of the accounts are looked up.
LEMMA MatchedKeeps ==
    ASSUME IndexInv, Matched PROVE IndexInv'
<1>1. /\ pass.at = "details" /\ Opened
      /\ pass' = [pass EXCEPT !.at = "copy", !.matched = Indexed,
                              !.left = {a \in Indexed : records[a] > 0}]
      /\ UNCHANGED <<outside, mirror, marks, stamp, force, matched, scanner, unseen, faults>>
    BY DEF Matched
<1>2. pass \in Passes /\ pass.turn = {} /\ Indexed \subseteq Channels
    BY <1>1, FeedTypes DEF IndexInv, Copying, Indexed
<1>3. /\ pass' \in Passes /\ pass'.at = "copy" /\ pass'.turn = {} /\ pass'.stamp = pass.stamp
      /\ pass'.matched = Indexed /\ pass'.left = {a \in Indexed : records[a] > 0}
    <2>1. {a \in Indexed : records[a] > 0} \subseteq Channels
        BY <1>2
    <2> QED BY <1>1, <1>2, <2>1 DEF Passes
<1>4. FeedTypeOK'
    BY <1>1, <1>3, FeedTypes, FeedTyped, OpenedFile DEF IndexInv, FeedTypeOK, outside, scanner
<1>5. Folded' /\ Scanned'
    BY <1>1, FilesStand DEF outside, scanner
<1>6. Marked' /\ Stamp'
    BY <1>1, OpenedFile DEF IndexInv, Marked, Stamp, outside
<1>7. Copying'
    <2>1. \A a \in Channels : pass.stamp[a] <= records[a]
        BY <1>1 DEF IndexInv, Copying
    <2>2. \A a \in Indexed \ pass'.left : pass.stamp[a] <= marks[a]
        BY <1>2, <1>3, <2>1, FeedTypes DEF IndexInv
    <2> QED BY <1>1, <1>3, <2>1, <2>2 DEF Copying, outside
<1> QED BY <1>4, <1>5, <1>6, <1>7 DEF IndexInv

\* A table's turn begins, or it is left out because it has no new rows.
LEMMA CopyBeginsKeeps ==
    ASSUME IndexInv, NEW a \in Channels, CopyBegins(a) PROVE IndexInv'
<1>1. /\ pass.at = "copy" /\ pass.turn = {} /\ a \in pass.left
      /\ UNCHANGED <<outside, sqlite, mirror, marks, stamp, force, matched, scanner, unseen, faults>>
    BY DEF CopyBegins
<1>2. pass \in Passes /\ records[a] \in 0..MaxRecords /\ pass.stamp[a] <= records[a]
    BY <1>1, FeedTypes DEF IndexInv, Copying
<1>3. Folded' /\ Scanned'
    BY <1>1, FilesStand DEF outside, scanner
<1>4. CASE records[a] > marks[a] /\ pass' = [pass EXCEPT !.turn = {a}, !.newest = records[a]]
    <2>1. /\ pass' \in Passes /\ pass'.at = "copy" /\ pass'.turn = {a} /\ pass'.newest = records[a]
          /\ pass'.stamp = pass.stamp /\ pass'.matched = pass.matched /\ pass'.left = pass.left
          /\ pass'.whole = pass.whole
        BY <1>1, <1>2, <1>4 DEF Passes
    <2>2. FeedTypeOK'
        BY <1>1, <2>1, FeedTypes, FeedTyped DEF IndexInv, FeedTypeOK, outside, sqlite, scanner
    <2>3. Marked' /\ Stamp' /\ Copying'
        BY <1>1, <1>2, <2>1 DEF IndexInv, Marked, Stamp, Copying, outside, sqlite
    <2> QED BY <1>3, <2>2, <2>3 DEF IndexInv
<1>5. CASE ~(records[a] > marks[a]) /\ pass' = [pass EXCEPT !.left = @ \ {a}]
    <2>1. /\ pass' \in Passes /\ pass'.at = "copy" /\ pass'.turn = {}
          /\ pass'.stamp = pass.stamp /\ pass'.matched = pass.matched
          /\ pass'.left = pass.left \ {a} /\ pass'.whole = pass.whole
        BY <1>1, <1>2, <1>5 DEF Passes
    <2>2. FeedTypeOK'
        BY <1>1, <2>1, FeedTypes, FeedTyped DEF IndexInv, FeedTypeOK, outside, sqlite, scanner
    <2>3. pass.stamp[a] <= marks[a]
        BY <1>2, <1>5, FeedTypes DEF IndexInv
    <2>4. Marked' /\ Stamp'
        BY <1>1, <2>1 DEF IndexInv, Marked, Stamp, outside, sqlite
    <2>5. Copying'
        BY <1>1, <2>1, <2>3 DEF IndexInv, Copying, outside, sqlite
    <2> QED BY <1>3, <2>2, <2>4, <2>5 DEF IndexInv
<1> QED BY <1>4, <1>5 DEF CopyBegins

\* A batch of rows.
LEMMA CopyKeeps ==
    ASSUME IndexInv, NEW a \in Channels, Copy(a) PROVE IndexInv'
<1>1. /\ pass.turn = {a} /\ Opened
      /\ UNCHANGED <<outside, mirror, stamp, force, matched, scanner, unseen, faults>>
    BY DEF Copy
<1>2. PICK last \in (marks[a] + 1)..records[a] :
        /\ marks' = [marks EXCEPT ![a] = last]
        /\ pass' \in IF last < pass.newest THEN {pass, [pass EXCEPT !.turn = {}]}
                     ELSE {[pass EXCEPT !.turn = {}, !.left = @ \ {a}]}
    BY DEF Copy, DetailsApplied
<1>3. /\ pass \in Passes /\ pass.at = "copy" /\ pass.stamp[a] <= pass.newest /\ prepared
      /\ pass.newest \in Nat /\ pass.stamp[a] \in Nat
    <2>1. pass \in Passes /\ pass.at = "copy" /\ pass.stamp[a] <= pass.newest /\ prepared
        BY <1>1, FeedTypes DEF IndexInv, Copying, Marked
    <2>2. pass.newest \in Nat /\ pass.stamp[a] \in Nat
        BY <2>1, FeedTypes DEF IndexInv, Passes
    <2> QED BY <2>1, <2>2
<1>4. marks[a] \in Nat /\ last \in 0..MaxRecords /\ marks[a] < last /\ last <= records[a]
    BY <1>2, FeedTypes DEF IndexInv
<1>5. /\ marks' \in [Channels -> 0..MaxRecords]
      /\ \A b \in Channels : marks'[b] = IF b = a THEN last ELSE marks[b]
    BY <1>2, <1>4, FeedTypes DEF IndexInv
<1>6. \A b \in Channels, n \in Nat : n <= marks[b] => n <= marks'[b]
    BY <1>4, <1>5, FeedTypes DEF IndexInv
<1>7. /\ pass' \in Passes /\ pass'.at = "copy" /\ pass'.turn \in {{}, {a}}
      /\ pass'.newest = pass.newest /\ pass'.stamp = pass.stamp /\ pass'.matched = pass.matched
      /\ pass'.whole = pass.whole
      /\ pass'.left = pass.left \/ (pass'.left = pass.left \ {a} /\ pass.newest <= last)
    <2>1. CASE last < pass.newest
        <3>1. pass' \in {pass, [pass EXCEPT !.turn = {}]}
            BY <1>2, <2>1
        <3>2. CASE pass' = pass
            BY <1>1, <1>3, <3>2
        <3>3. CASE pass' = [pass EXCEPT !.turn = {}]
            BY <1>1, <1>3, <3>3 DEF Passes
        <3> QED BY <3>1, <3>2, <3>3
    <2>2. CASE ~(last < pass.newest)
        <3>1. pass' = [pass EXCEPT !.turn = {}, !.left = @ \ {a}]
            BY <1>2, <2>2
        <3>2. pass.newest <= last
            BY <1>3, <1>4, <2>2
        <3> QED BY <1>1, <1>3, <3>1, <3>2 DEF Passes
    <2> QED BY <2>1, <2>2
<1>8. FeedTypeOK'
    BY <1>1, <1>5, <1>7, FeedTypes, FeedTyped, OpenedFile DEF IndexInv, FeedTypeOK, outside, scanner
<1>9. Folded' /\ Scanned'
    BY <1>1, FilesStand DEF outside, scanner
<1>10. Marked'
    BY <1>1, <1>4, <1>5, <1>7, OpenedFile DEF IndexInv, Marked, outside
<1>11. tables
    BY <1>1, <1>3 DEF Opened
<1>12. Stamp'
    <2>1. \A b \in Channels : stamp[b] \in Nat
        BY FeedTypes DEF IndexInv
    <2> QED BY <1>1, <1>6, <1>11, <2>1 DEF IndexInv, FeedTypeOK, Stamp
<1>13. Copying'
    <2>1. \A b \in Channels : pass.stamp[b] \in Nat /\ pass.stamp[b] <= records[b]
        BY <1>3, FeedTypes DEF IndexInv, Copying
    <2>2. ASSUME pass.whole, NEW b \in pass.matched \ pass'.left PROVE pass.stamp[b] <= marks'[b]
        <3>1. b \in Channels
            BY <1>3, <2>2 DEF Passes
        <3>2. CASE b \notin pass.left
            BY <1>3, <1>6, <1>11, <2>1, <2>2, <3>1, <3>2 DEF IndexInv, Copying
        <3>3. CASE b \in pass.left
            BY <1>3, <1>4, <1>5, <1>7, <2>2, <3>1, <3>3
        <3> QED BY <3>2, <3>3
    <2> QED BY <1>1, <1>3, <1>7, <2>1, <2>2 DEF Copying, outside
<1> QED BY <1>8, <1>9, <1>10, <1>12, <1>13 DEF IndexInv

\* A table is left for the next pass.
LEMMA DeferredKeeps ==
    ASSUME IndexInv, NEW a \in Channels, Deferred(a) PROVE IndexInv'
<1>1. /\ pass.turn = {a} /\ (faults' = faults \/ Fault)
      /\ pass' = [pass EXCEPT !.turn = {}, !.left = @ \ {a}, !.whole = FALSE]
      /\ UNCHANGED <<outside, sqlite, mirror, marks, stamp, force, matched, scanner, unseen>>
    BY DEF Deferred
<1>2. pass \in Passes /\ pass.at = "copy"
    BY <1>1, FeedTypes DEF IndexInv, Copying
<1>3. /\ pass' \in Passes /\ pass'.at = "copy" /\ pass'.turn = {} /\ pass'.stamp = pass.stamp
      /\ pass'.whole = FALSE
    BY <1>1, <1>2 DEF Passes
<1>4. faults' \in 0..MaxFaults
    BY <1>1, FeedTypes DEF Fault, IndexInv, FeedTypeOK
<1>5. FeedTypeOK'
    BY <1>1, <1>3, <1>4, FeedTypes, FeedTyped DEF IndexInv, FeedTypeOK, outside, sqlite, scanner
<1>6. Folded' /\ Scanned'
    BY <1>1, FilesStand DEF outside, scanner
<1>7. Marked' /\ Stamp' /\ Copying'
    BY <1>1, <1>2, <1>3 DEF IndexInv, Marked, Stamp, Copying, outside, sqlite
<1> QED BY <1>5, <1>6, <1>7 DEF IndexInv

\* Every table had its turn: the stamp of the pass is remembered.
LEMMA CopiedKeeps ==
    ASSUME IndexInv, Copied PROVE IndexInv'
<1>1. /\ pass.at = "copy" /\ pass.turn = {} /\ pass.left = {} /\ pass' = Resting
      /\ IF pass.whole THEN stamp' = pass.stamp /\ matched' = pass.matched
         ELSE UNCHANGED <<stamp, matched>>
      /\ UNCHANGED <<outside, sqlite, mirror, marks, force, scanner, unseen, faults>>
    BY DEF Copied
<1>2. pass \in Passes /\ prepared
    BY <1>1, FeedTypes DEF IndexInv, Marked
<1>3. stamp' \in Stamps /\ matched' \subseteq Channels
    BY <1>1, <1>2 DEF Passes, IndexInv, FeedTypeOK
<1>4. FeedTypeOK'
    BY <1>1, <1>3, FeedTypes, FeedTyped, FeedConstants DEF IndexInv, FeedTypeOK, outside, sqlite, scanner
<1>5. Folded' /\ Scanned'
    BY <1>1, FilesStand DEF outside, scanner
<1>6. Marked' /\ Copying'
    BY <1>1, <1>2, FeedConstants DEF IndexInv, Marked, Copying, outside, sqlite
<1>7. Stamp'
    BY <1>1 DEF IndexInv, Stamp, Copying, sqlite
<1> QED BY <1>4, <1>5, <1>6, <1>7 DEF IndexInv

-----------------------------------------------------------------------------
(* FeedIndex: everybody else.                                              *)

\* The settings change, or a crawl records a work.
LEMMA OutsideKeeps ==
    ASSUME IndexInv, NEW a \in Channels, Configures(a) \/ Crawls(a) PROVE IndexInv'
<1>1. UNCHANGED <<folder, sqlite, mirror, marks, feedWorker, scanner, unseen, faults>>
    BY DEF Configures, Crawls
<1>2. /\ records' \in [Channels -> 0..MaxRecords] /\ listed' \subseteq Channels
      /\ \A b \in Channels : records[b] <= records'[b]
    <2>1. CASE Configures(a)
        BY <2>1, FeedTypes DEF Configures, IndexInv, FeedTypeOK
    <2>2. CASE Crawls(a)
        <3>1. /\ records[a] < MaxRecords /\ records' = [records EXCEPT ![a] = @ + 1]
              /\ listed' = listed
            BY <2>2 DEF Crawls
        <3> QED BY <3>1, FeedTypes DEF IndexInv, FeedTypeOK
    <2> QED BY <2>1, <2>2
<1>3. FeedTypeOK'
    BY <1>1, <1>2, FeedTypes, FeedTyped DEF IndexInv, FeedTypeOK, sqlite, feedWorker, scanner
<1>4. Folded' /\ Scanned'
    BY <1>1, FilesStand DEF scanner
<1>5. \A b \in Channels, n \in Nat : n <= records[b] => n <= records'[b]
    BY <1>2, FeedTypes DEF IndexInv
<1>6. \A b \in Channels : marks[b] \in Nat /\ pass.stamp[b] \in Nat
    BY FeedTypes DEF IndexInv
<1>7. Marked' /\ Stamp' /\ Copying'
    BY <1>1, <1>5, <1>6 DEF IndexInv, Marked, Stamp, Copying, sqlite, feedWorker
<1> QED BY <1>3, <1>4, <1>7 DEF IndexInv

\* A folder changes, with its time or without it.
LEMMA FoldersChange ==
    ASSUME IndexInv, NEW a \in Channels, FolderChanges(a) \/ ChangesBelow(a) PROVE IndexInv'
<1>1. UNCHANGED <<listed, records, sqlite, mirror, marks, feedWorker, visitor, faults>>
    BY DEF FolderChanges, ChangesBelow, scanner
<1>2. Marked' /\ Stamp' /\ Copying'
    BY <1>1, RowsStand DEF sqlite, feedWorker, IndexInv, FeedTypeOK
<1>3. folder[a] \in Folders /\ scan \in ScansOf
    BY FeedTypes DEF IndexInv
<1>4. CASE FolderChanges(a)
    <2>1. PICK clips \in SUBSET Clips :
            folder' = [folder EXCEPT ![a] = [time |-> folder[a].time + 1, clips |-> clips]]
        BY <1>4 DEF FolderChanges
    <2>2. folder[a].time < MaxWrites /\ scan' = scan /\ unseen' = unseen
        BY <1>4 DEF FolderChanges, scanner
    <2> DEFINE f == [time |-> folder[a].time + 1, clips |-> clips]
    <2>3. f \in Folders /\ f.time = folder[a].time + 1
        BY <1>3, <2>2, FeedTypes DEF Folders, IndexInv
    <2> HIDE DEF f
    <2>4. /\ folder' \in [Channels -> Folders]
          /\ \A b \in Channels : folder'[b] = IF b = a THEN f ELSE folder[b]
        BY <2>1, <2>3, FeedTypes DEF IndexInv, f
    <2>5. FeedTypeOK'
        BY <1>1, <2>2, <2>4, FeedTypes, FeedTyped DEF IndexInv, FeedTypeOK, sqlite, feedWorker
    <2>6. \A n \in Nat : n <= folder[a].time => n <= f.time /\ n # f.time
        BY <1>3, <2>3, FeedTypes DEF IndexInv, Folders
    <2>7. scan.time \in Nat /\ \A b \in Channels : mirror[b].time \in Nat
        BY <1>3, FeedTypes DEF IndexInv, ScansOf, MirrorRows
    <2>8. Folded'
        BY <1>1, <2>2, <2>4, <2>6, <2>7 DEF IndexInv, Folded
    <2>9. Scanned'
        BY <1>3, <2>2, <2>4, <2>6, <2>7 DEF IndexInv, Scanned, ScansOf
    <2> QED BY <1>2, <2>5, <2>8, <2>9 DEF IndexInv
<1>5. CASE ChangesBelow(a)
    <2>1. PICK clips \in SUBSET Clips : folder' = [folder EXCEPT ![a].clips = clips]
        BY <1>5 DEF ChangesBelow
    <2>2. /\ unseen' = unseen \cup {a}
          /\ scan' = [scan EXCEPT !.missed = @ \/ (scan.of = {a} /\ scan.read)]
        BY <1>5 DEF ChangesBelow
    <2>3. /\ folder' \in [Channels -> Folders]
          /\ \A b \in Channels : /\ folder'[b].time = folder[b].time
                                 /\ b # a => folder'[b] = folder[b]
        BY <1>3, <2>1, FeedTypes DEF IndexInv, Folders
    <2>4. /\ scan' \in ScansOf /\ scan'.of = scan.of /\ scan'.time = scan.time
          /\ scan'.clips = scan.clips /\ scan'.read = scan.read
          /\ scan'.missed <=> (scan.missed \/ (scan.of = {a} /\ scan.read))
        <3>1. CASE scan.missed
            BY <1>3, <2>2, <3>1 DEF ScansOf
        <3>2. CASE ~scan.missed
            BY <1>3, <2>2, <3>2 DEF ScansOf
        <3> QED BY <3>1, <3>2
    <2>5. FeedTypeOK'
        BY <1>1, <2>2, <2>3, <2>4, FeedTypes, FeedTyped DEF IndexInv, FeedTypeOK, sqlite, feedWorker
    <2>6. Folded'
        BY <1>1, <2>2, <2>3 DEF IndexInv, Folded
    <2>7. Scanned'
        <3>1. \A b \in scan.of : b \in Channels /\ scan.of = {b}
            BY <1>3 DEF IndexInv, Scanned, ScansOf
        <3> QED BY <2>3, <2>4, <3>1 DEF IndexInv, Scanned
    <2> QED BY <1>2, <2>5, <2>6, <2>7 DEF IndexInv
<1> QED BY <1>4, <1>5

\* The file is deleted, or the server restarts.
LEMMA LosesKeep ==
    ASSUME IndexInv, Lost \/ ServerRestarts PROVE IndexInv'
<1>1. CASE Lost
    <2>1. /\ tables' = FALSE /\ Fault
          /\ mirror' = [a \in Channels |-> NotIndexed] /\ marks' = [a \in Channels |-> 0]
          /\ UNCHANGED <<outside, prepared, feedWorker, scanner, unseen>>
        BY <1>1 DEF Lost
    <2>2. faults' \in 0..MaxFaults
        BY <2>1, FeedTypes DEF Fault, IndexInv, FeedTypeOK
    <2>3. FeedTypeOK'
        <3>1. 0 \in 0..MaxRecords
            BY FeedAssumption
        <3> QED BY <2>1, <2>2, <3>1, FeedTypes, FeedTyped, FeedConstants
                DEF IndexInv, FeedTypeOK, outside, feedWorker, scanner
    <2>4. Folded' /\ Scanned'
        BY <2>1, FeedConstants DEF IndexInv, Folded, Scanned, outside, scanner
    <2>5. \A b \in Channels : 0 <= records[b]
        BY FeedTypes DEF IndexInv
    <2>6. Marked' /\ Stamp' /\ Copying'
        BY <2>1, <2>5 DEF IndexInv, Marked, Stamp, Copying, outside, feedWorker
    <2> QED BY <2>3, <2>4, <2>6 DEF IndexInv
<1>2. CASE ServerRestarts
    <2>1. /\ Fault /\ prepared' = FALSE /\ force' = FALSE /\ stamp' = NoStamp
          /\ pass' = Resting /\ scan' = NoScan /\ visitor' = {} /\ matched' = {}
          /\ UNCHANGED <<outside, tables, mirror, marks, unseen>>
        BY <1>2 DEF ServerRestarts
    <2>2. faults' \in 0..MaxFaults
        BY <2>1, FeedTypes DEF Fault, IndexInv, FeedTypeOK
    <2>3. FeedTypeOK'
        BY <2>1, <2>2, FeedTypes, FeedTyped, FeedConstants DEF IndexInv, FeedTypeOK, outside
    <2>4. Folded' /\ Scanned'
        BY <2>1, FeedConstants DEF IndexInv, Folded, Scanned, outside
    <2>5. Marked' /\ Stamp' /\ Copying'
        BY <2>1, FeedConstants DEF IndexInv, Marked, Stamp, Copying, outside
    <2> QED BY <2>3, <2>4, <2>5 DEF IndexInv
<1> QED BY <1>1, <1>2

-----------------------------------------------------------------------------
(* FeedIndex: the theorems.                                                *)

LEMMA FeedInitHolds == FeedInit => IndexInv
<1> SUFFICES ASSUME FeedInit PROVE IndexInv
    OBVIOUS
<1>1. 0 \in 0..MaxWrites /\ 0 \in 0..MaxRecords /\ 0 \in 0..MaxFaults
    BY FeedAssumption
<1>2. FeedTypeOK
    BY <1>1, FeedConstants DEF FeedInit, FeedTypeOK, MirrorRows, Passes, ScansOf
<1>3. Folded /\ Scanned /\ Marked /\ Stamp /\ Copying
    BY FeedConstants DEF FeedInit, Folded, Scanned, Marked, Stamp, Copying
<1> QED BY <1>2, <1>3 DEF IndexInv

LEMMA FeedStepsKeep == IndexInv /\ [FeedNext]_feedVars => IndexInv'
<1> SUFFICES ASSUME IndexInv, [FeedNext]_feedVars PROVE IndexInv'
    OBVIOUS
<1>1. CASE UNCHANGED feedVars
    BY <1>1 DEF feedVars, outside, sqlite, feedWorker, scanner, IndexInv, FeedTypeOK, Folded,
                Scanned, Marked, Stamp, Copying
<1>2. CASE WorkerStep
    BY <1>2, PassBeginsKeeps, RetiredKeeps, PassFailsKeeps, StampedKeeps, MatchedKeeps,
       CopiedKeeps, LooksAtFolders, CopyBeginsKeeps, CopyKeeps, DeferredKeeps DEF WorkerStep
<1>3. CASE VisitFails \/ Forces \/ \E a \in Channels : Visit(a)
    BY <1>3, RequestsKeep
<1>4. ASSUME NEW a \in Channels, VisitorLooks(a) \/ ScanFolder(a) \/ ScanWritten(a) PROVE IndexInv'
    BY <1>4, LooksAtFolders, ScanFolderKeeps, ScanWrittenKeeps
<1>5. ASSUME NEW a \in Channels, Configures(a) \/ Crawls(a) \/ FolderChanges(a) \/ ChangesBelow(a)
      PROVE  IndexInv'
    BY <1>5, OutsideKeeps, FoldersChange
<1>6. CASE Lost \/ ServerRestarts
    BY <1>6, LosesKeep
<1> QED BY <1>1, <1>2, <1>3, <1>4, <1>5, <1>6 DEF FeedNext

LEMMA FeedInvariance == FeedSpec => []IndexInv
BY FeedInitHolds, FeedStepsKeep, PTL DEF FeedSpec

\* Every variable has its type (FeedWorker and FeedIndex of feed_index.py).
THEOREM FeedTypeCorrect == FeedSpec => []FeedTypeOK
<1>1. IndexInv => FeedTypeOK
    BY DEF IndexInv
<1> QED BY <1>1, FeedInvariance, PTL

\* What the invariant says of a row that looks current.
LEMMA InvFaithful == IndexInv => IndexFaithful
<1> SUFFICES ASSUME IndexInv PROVE IndexFaithful
    OBVIOUS
<1>1. \A a \in Indexed \ unseen : mirror[a].time = folder[a].time => mirror[a].clips = folder[a].clips
    BY DEF IndexInv, Folded, Indexed
<1>2. ASSUME stamp = Database, tables, NEW a \in matched PROVE marks[a] = records[a]
    <2>1. a \in Channels /\ marks[a] \in Nat /\ records[a] \in Nat
        BY FeedTypes DEF IndexInv, FeedTypeOK
    <2> QED BY <1>2, <2>1 DEF IndexInv, Stamp, Marked, Database
<1> QED BY <1>1, <1>2 DEF IndexFaithful

\* However the worker's passes, the scans of requests, downloads, crawls,
\* deletions of the index and restarts overlap, a row with its folder's time has
\* its folder's posts, and a stamp that is the crawl database's means that every
\* account of that pass has all its rows (sync_account and _sync_details).
THEOREM FeedFaithful == FeedSpec => []IndexFaithful
BY InvFaithful, FeedInvariance, PTL

-----------------------------------------------------------------------------
(* Posts in their order.                                                   *)

\* A set of natural numbers has a least one.
LEMMA LeastOf ==
    ASSUME NEW T, T \subseteq Nat, T # {}
    PROVE  \E x \in T : \A y \in T : x <= y
<1> DEFINE R == OpToRel(<, Nat)
<1>1. IsWellFoundedOn(R, Nat)
    BY Zenon, NatLessThanWellFounded
<1>2. \A x, y \in Nat : y < x => <<y, x>> \in R
    BY DEF OpToRel
<1> HIDE DEF R
<1>3. PICK x \in T : \A y \in T : ~ (<<y, x>> \in R)
    BY <1>1, WFMin
<1>4. ASSUME NEW y \in T PROVE x <= y
    <2>1. x \in Nat /\ y \in Nat /\ ~ (y < x)
        BY <1>2, <1>3
    <2> QED BY <2>1
<1> QED BY <1>4

\* Some posts have a first and a last one.
LEMMA Extremes ==
    ASSUME NEW n \in Nat, NEW S, S \subseteq 1..n, S # {}
    PROVE  /\ \E x \in S : \A y \in S : x <= y
           /\ \E x \in S : \A y \in S : y <= x
<1>1. \E x \in S : \A y \in S : x <= y
    <2>1. S \subseteq Nat
        OBVIOUS
    <2> QED BY <2>1, LeastOf
<1>2. \E x \in S : \A y \in S : y <= x
    <2> DEFINE T == {n - x : x \in S}
    <2>1. \A x \in S : x \in Nat /\ n - x \in Nat
        OBVIOUS
    <2>a. T \subseteq Nat /\ T # {}
        BY <2>1
    <2>2. PICK t \in T : \A u \in T : t <= u
        BY <2>a, LeastOf
    <2>3. PICK x \in S : t = n - x
        OBVIOUS
    <2>4. ASSUME NEW y \in S PROVE y <= x
        <3>1. n - x <= n - y
            BY <2>2, <2>3
        <3> QED BY <2>1, <3>1
    <2> QED BY <2>4
<1> QED BY <1>1, <1>2

\* The posts are numbered.
LEMMA PostsCount ==
    /\ Cardinality(Posts) \in Nat /\ Posts = 1..Cardinality(Posts)
    /\ Limit \in Nat \ {0} /\ 0 \notin Posts /\ IsFiniteSet(Posts)
<1>1. Cardinality(Posts) \in Nat
    BY PagesAssumption, FS_CardinalityType
<1>2. Posts = 1..Cardinality(Posts)
    BY PagesAssumption
<1>3. 0 \notin Posts
    <2> DEFINE n == Cardinality(Posts)
    <2> HIDE DEF n
    <2>1. n \in Nat /\ Posts = 1..n
        BY <1>1, <1>2 DEF n
    <2> QED BY <2>1
<1> QED BY <1>1, <1>2, <1>3, PagesAssumption

-----------------------------------------------------------------------------
(* FeedPages: the inductive invariant.                                     *)

\* The posts up to the cursor, in the order of the mode.
Passed(p) == IF mode = "oldest" THEN p <= cursor ELSE p >= cursor

\* By time: they, and no others, have been given, once.
TimeWalk == mode # "foryou" =>
    /\ \A p \in Posts : given[p] <= 1
    /\ ~ended => \A p \in Posts : given[p] > 0 => Passed(p)
    /\ \A p \in stayed : Passed(p) \/ ended => given[p] > 0

\* The posts a walk around the shuffle has met.
Met(w, p) == IF p > w.start THEN w.wrapped \/ p <= w.position
             ELSE w.wrapped /\ (w.done \/ p <= w.position)

\* For you: those of the pool of all posts have been given.
PoolWalk ==
  /\ mixing.on => mode = "foryou"
  /\ mode = "foryou" =>
    /\ special["all"] = Posts
    /\ pools["all"].done => pools["all"].wrapped
    /\ \A p \in stayed : Met(pools["all"], p) => given[p] > 0
    /\ ended => pools["all"].done
    /\ \A p \in mixing.posts : given[p] > 0
    /\ mixing.turn < Len(Order) /\ mixing.misses <= Len(Order)

PagesInv == PagesTypeOK /\ TimeWalk /\ PoolWalk

\* The pools take their turns.
LEMMA Turns ==
    /\ Len(Order) \in {3, 4}
    /\ \A i \in 1..Len(Order) : Order[i] \in Pools
    /\ \A i \in Nat : i % Len(Order) \in 0..3 /\ i % Len(Order) < Len(Order)
<1>1. CASE special["favorite"] = {}
    <2>1. Order = <<"recent", "all", "all">>
        BY <1>1 DEF Order
    <2> QED BY <2>1 DEF Pools
<1>2. CASE special["favorite"] # {}
    <2>1. Order = <<"recent", "all", "favorite", "all">>
        BY <1>2 DEF Order
    <2> QED BY <2>1 DEF Pools
<1> QED BY <1>1, <1>2

\* What a page does to what was given.
LEMMA Given ==
    ASSUME PagesTypeOK, NEW S, Give(S)
    PROVE  /\ given' \in [Posts -> 0..2]
           /\ \A p \in Posts : given[p] > 0 => given'[p] > 0
           /\ \A p \in Posts : p \in S => given'[p] > 0
           /\ \A p \in Posts : p \notin S => given'[p] = given[p]
           /\ mode # "foryou" => \A p \in Posts : p \in S /\ given[p] = 0 => given'[p] = 1
<1>1. given' = [p \in Posts |-> IF p \in S /\ given[p] < Most THEN given[p] + 1 ELSE given[p]]
    BY DEF Give
<1>2. Most \in {1, 2} /\ (mode # "foryou" => Most = 2)
    BY DEF Most
<1>3. given \in [Posts -> 0..2]
    BY DEF PagesTypeOK
<1>4. \A p \in Posts : given'[p] = IF p \in S /\ given[p] < Most THEN given[p] + 1 ELSE given[p]
    BY <1>1
<1> QED BY <1>1, <1>2, <1>3, <1>4

-----------------------------------------------------------------------------
(* FeedPages: the actions.                                                 *)

\* Posts come and go.
LEMMA PostsMove ==
    ASSUME PagesInv, NEW p \in Posts, Comes(p) \/ Goes(p) PROVE PagesInv'
<1>1. /\ UNCHANGED <<mode, special, cursor, pools, mixing, given, ended>>
      /\ present' \subseteq Posts /\ gone' \subseteq Posts
      /\ stayed' \subseteq present' /\ stayed' \subseteq stayed
    BY DEF PagesInv, PagesTypeOK, Comes, Goes
<1>2. PagesTypeOK'
    BY <1>1 DEF PagesInv, PagesTypeOK
<1>3. TimeWalk'
    BY <1>1 DEF PagesInv, TimeWalk, Passed
<1>4. PoolWalk'
    BY <1>1 DEF PagesInv, PoolWalk, Met, Order
<1> QED BY <1>2, <1>3, <1>4 DEF PagesInv

\* A page of the mix begins or ends.
LEMMA MixKeeps ==
    ASSUME PagesInv, Mix \/ Mixed PROVE PagesInv'
<1>1. /\ UNCHANGED <<library, cursor, pools, given>>
      /\ ended' \in {ended, pools["all"].done}
      /\ mixing' \in {NoPage, [NoPage EXCEPT !.on = TRUE]}
    BY DEF Mix, Mixed
<1>2. /\ mixing' \in [on : BOOLEAN, posts : SUBSET Posts, turn : 0..3, misses : 0..4]
      /\ mixing'.posts = {} /\ mixing'.turn = 0 /\ mixing'.misses = 0
    <2>1. CASE mixing' = NoPage
        BY <2>1 DEF NoPage
    <2>2. CASE mixing' = [NoPage EXCEPT !.on = TRUE]
        <3>1. mixing' = [on |-> TRUE, posts |-> {}, turn |-> 0, misses |-> 0]
            BY <2>2 DEF NoPage
        <3> QED BY <3>1
    <2> QED BY <1>1, <2>1, <2>2
<1>3. mode = "foryou"
    BY DEF PagesInv, PoolWalk, Mix, Mixed
<1>a. pools["all"].done \in BOOLEAN
    BY DEF PagesInv, PagesTypeOK, Pools, Walk
<1>4. ended' \in BOOLEAN /\ (ended' => pools["all"].done)
    BY <1>1, <1>3, <1>a DEF PagesInv, PagesTypeOK, PoolWalk
<1>5. PagesTypeOK'
    BY <1>1, <1>2, <1>4 DEF PagesInv, PagesTypeOK, library
<1>6. TimeWalk'
    BY <1>1, <1>3 DEF TimeWalk, library
<1>7. Len(Order)' = Len(Order) /\ Len(Order) \in {3, 4}
    BY <1>1, Turns DEF Order, library
<1>8. PoolWalk'
    BY <1>1, <1>2, <1>3, <1>4, <1>7 DEF PagesInv, PoolWalk, Met, library
<1> QED BY <1>5, <1>6, <1>8 DEF PagesInv

\* A page by time.
LEMMA PageKeeps ==
    ASSUME PagesInv, Page PROVE PagesInv'
<1> DEFINE n == Cardinality(Posts)
           Sooner(p, q) == IF mode = "oldest" THEN p < q ELSE p > q
           rows == {p \in present : IF mode = "oldest" THEN p > cursor ELSE p < cursor}
           page == {p \in rows : Cardinality({q \in rows : Sooner(q, p)}) < Limit}
<1>1. /\ mode # "foryou" /\ ~ended /\ Give(page) /\ ended' = (rows = page)
      /\ cursor' = IF ended' THEN cursor
                   ELSE CHOOSE p \in page : \A q \in page : ~Sooner(p, q)
      /\ UNCHANGED <<library, pools, mixing>>
    BY DEF Page
<1>2. /\ n \in Nat /\ Posts = 1..n /\ Limit \in Nat \ {0} /\ cursor \in 0..(n + 1)
      /\ present \subseteq Posts /\ stayed \subseteq present
    BY PostsCount DEF PagesInv, PagesTypeOK
<1> HIDE DEF n
<1>3. rows \subseteq 1..n /\ page \subseteq rows /\ rows \subseteq Posts
    BY <1>2
<1>4. \A p \in Posts : p \in present /\ ~Passed(p) <=> p \in rows
    BY <1>2 DEF Passed
<1>5. ASSUME NEW p \in page, NEW q \in rows, Sooner(q, p) PROVE q \in page
    <2> DEFINE P == {r \in rows : Sooner(r, p)}
               Q == {r \in rows : Sooner(r, q)}
    <2>1. Q \subseteq P
        BY <1>3, <1>5
    <2>2. IsFiniteSet(P)
        <3>1. IsFiniteSet(Posts) /\ P \subseteq Posts
            BY <1>3, PostsCount
        <3> QED BY <3>1, FS_Subset
    <2>3. Cardinality(Q) <= Cardinality(P) /\ Cardinality(P) \in Nat /\ Cardinality(Q) \in Nat
        BY <2>1, <2>2, FS_Subset, FS_CardinalityType
    <2>4. Cardinality(P) < Limit
        BY <1>5
    <2> QED BY <1>2, <2>3, <2>4
<1>6. rows # {} => page # {}
    <2> SUFFICES ASSUME rows # {} PROVE page # {}
        OBVIOUS
    <2>1. PICK p \in rows : \A q \in rows : ~Sooner(q, p)
        <3>1. (\E x \in rows : \A y \in rows : x <= y) /\ (\E x \in rows : \A y \in rows : y <= x)
            BY <1>2, <1>3, Extremes
        <3> QED BY <1>3, <3>1
    <2>2. {q \in rows : Sooner(q, p)} = {}
        BY <2>1
    <2>3. Cardinality({q \in rows : Sooner(q, p)}) = 0
        BY <2>2, FS_EmptySet
    <2>4. 0 < Limit
        BY <1>2
    <2>5. p \in page
        BY <2>3, <2>4
    <2> QED BY <2>5
<1>a. rows # page => \E p \in page : \A q \in page : ~Sooner(p, q)
    <2> SUFFICES ASSUME rows # page PROVE \E p \in page : \A q \in page : ~Sooner(p, q)
        OBVIOUS
    <2>1. page # {} /\ page \subseteq 1..n
        BY <1>3, <1>6
    <2> HIDE DEF page, rows
    <2>2. PICK x \in page : \A y \in page : x <= y
        BY <1>2, <2>1, Extremes
    <2>3. PICK z \in page : \A y \in page : y <= z
        BY <1>2, <2>1, Extremes
    <2>4. \A y \in page : y \in Nat
        BY <2>1
    <2>5. \A y \in page : IF mode = "oldest" THEN ~Sooner(z, y) ELSE ~Sooner(x, y)
        BY <2>2, <2>3, <2>4
    <2> QED BY <2>5
<1>b. /\ ended' \in BOOLEAN /\ (ended' = TRUE => rows = page)
      /\ ended' = FALSE => cursor' \in page /\ \A q \in page : ~Sooner(cursor', q)
      /\ ended' = TRUE => cursor' = cursor
    <2>1. ended' = FALSE => cursor' = CHOOSE p \in page : \A q \in page : ~Sooner(p, q)
        BY <1>1
    <2> HIDE DEF page, rows, Sooner
    <2> QED BY <1>1, <1>a, <2>1
<1>10. /\ given' \in [Posts -> 0..2]
       /\ \A p \in Posts : given[p] > 0 => given'[p] > 0
       /\ \A p \in page : given'[p] > 0
       /\ \A p \in Posts : p \notin page => given'[p] = given[p]
       /\ \A p \in page : given[p] = 0 => given'[p] = 1
    BY <1>1, <1>3, Given DEF PagesInv
<1>s. \A p, q : Sooner(p, q) <=> IF mode = "oldest" THEN p < q ELSE p > q
    OBVIOUS
<1>t. /\ mode # "foryou" /\ ~ended
      /\ UNCHANGED <<library, pools, mixing>>
    BY <1>1
<1> HIDE DEF page, rows, Sooner
<1>u. \A p \in page : p \in rows /\ p \in Posts /\ p \in Nat
    BY <1>2, <1>3
<1>9. cursor' \in 0..(n + 1)
    BY <1>2, <1>b, <1>u
<1>11. PagesTypeOK'
    BY <1>b, <1>t, <1>9, <1>10 DEF PagesInv, PagesTypeOK, library, n
<1>c. \A p \in Posts : given[p] \in 0..2 /\ p \in Nat
    BY <1>2 DEF PagesInv, PagesTypeOK
<1>12. \A p \in page : given[p] = 0
    <2>1. \A p \in page : p \in Posts /\ ~Passed(p)
        BY <1>4, <1>u
    <2> QED BY <1>c, <1>t, <2>1 DEF PagesInv, TimeWalk
<1>13. \A p \in Posts : given'[p] <= 1
    <2>1. \A p \in Posts : given[p] <= 1
        BY <1>t DEF PagesInv, TimeWalk
    <2> QED BY <1>10, <1>12, <2>1
<1>d. ASSUME NEW p \in stayed, Passed(p) \/ p \in page PROVE given'[p] > 0
    <2>1. p \in Posts
        BY <1>2
    <2>2. Passed(p) => given[p] > 0
        BY <1>t DEF PagesInv, TimeWalk
    <2> QED BY <1>d, <1>10, <2>1, <2>2
<1>14. ASSUME ended' = TRUE PROVE TimeWalk'
    <2>1. \A p \in stayed : Passed(p) \/ p \in page
        BY <1>2, <1>4, <1>b, <1>14
    <2>2. \A p \in stayed : given'[p] > 0
        BY <1>d, <2>1
    <2> QED BY <1>13, <1>14, <1>t, <2>2 DEF TimeWalk, library
<1>15. ASSUME ended' = FALSE PROVE TimeWalk'
    <2>1. cursor' \in page /\ cursor' \in rows /\ \A q \in page : ~Sooner(cursor', q)
        BY <1>3, <1>b, <1>15
    <2>2. \A p \in Posts : Passed(p)' <=> IF mode = "oldest" THEN p <= cursor' ELSE p >= cursor'
        BY <1>t DEF Passed, library
    <2>3. cursor \in Nat /\ cursor' \in Nat /\ (IF mode = "oldest" THEN cursor < cursor' ELSE cursor' < cursor)
        <3>1. ~Passed(cursor') /\ cursor' \in Nat
            BY <1>4, <1>u, <2>1
        <3>2. cursor \in Nat
            BY <1>2
        <3> QED BY <3>1, <3>2 DEF Passed
    <2>4. \A p \in Posts : Passed(p) => Passed(p)'
        BY <1>c, <2>2, <2>3 DEF Passed
    <2>5. \A p \in page : Passed(p)'
        BY <1>s, <1>u, <2>1, <2>2, <2>3
    <2>6. \A p \in Posts : given'[p] > 0 => Passed(p)'
        <3>1. \A p \in Posts : given[p] > 0 => Passed(p)
            BY <1>t DEF PagesInv, TimeWalk
        <3> QED BY <1>10, <2>4, <2>5, <3>1
    <2>7. ASSUME NEW p \in stayed, Passed(p)', ~Passed(p) PROVE p \in page
        <3>1. p \in rows /\ p \in Posts
            BY <1>2, <1>4, <2>7
        <3>2. p = cursor' \/ Sooner(p, cursor')
            BY <1>c, <1>s, <2>2, <2>3, <2>7, <3>1
        <3> QED BY <1>5, <2>1, <3>1, <3>2
    <2>8. \A p \in stayed : Passed(p)' => given'[p] > 0
        BY <1>d, <2>7
    <2> QED BY <1>13, <1>15, <1>t, <2>6, <2>8 DEF TimeWalk, library
<1>16. PoolWalk'
    BY <1>t DEF PagesInv, PoolWalk, library
<1> QED BY <1>b, <1>11, <1>14, <1>15, <1>16 DEF PagesInv

\* The next post of a walk, or the end of its way: what the walk has met then.
LEMMA Stepped ==
    ASSUME PagesInv, NEW pool \in Pools, ~pools[pool].done
    PROVE  LET w == pools[pool]
               s == Step(pool)
               meets(p) == Met(s.walk, p) /\ ~Met(w, p)
           IN  /\ s.walk \in Walk /\ s.post \in Posts \cup {0}
               /\ s.post # 0 => ~s.walk.done
               /\ w.done => w.wrapped
               /\ s.walk.done => s.walk.wrapped
               /\ special[pool] = Posts =>
                     \A p \in present : meets(p) => p = s.post
<1> DEFINE n == Cardinality(Posts)
           w == pools[pool]
           rows == {p \in present \cap special[pool] :
                       p > w.position /\ (w.wrapped => p <= w.start)}
           first == CHOOSE p \in rows : \A q \in rows : p <= q
           s == Step(pool)
<1>1. /\ n \in Nat /\ Posts = 1..n /\ 0 \notin Posts /\ present \subseteq Posts
      /\ w \in Walk
    BY PostsCount DEF PagesInv, PagesTypeOK
<1>2. s = IF rows # {} THEN [post |-> first, walk |-> [w EXCEPT !.position = first]]
          ELSE IF w.wrapped THEN [post |-> 0, walk |-> [w EXCEPT !.done = TRUE]]
          ELSE [post |-> 0, walk |-> [w EXCEPT !.wrapped = TRUE, !.position = 0]]
    BY DEF Step
<1>3. rows \subseteq 1..n
    BY <1>1
<1>4. rows # {} => first \in rows /\ \A q \in rows : first <= q
    <2> SUFFICES ASSUME rows # {} PROVE first \in rows /\ \A q \in rows : first <= q
        OBVIOUS
    <2>1. \E p \in rows : \A q \in rows : p <= q
        BY <1>1, <1>3, Extremes
    <2> HIDE DEF rows
    <2> QED BY <2>1
<1>5. \A p \in present : p \in Posts /\ p \in Nat
    BY <1>1
<1>r. \A p : p \in rows <=> /\ p \in present /\ p \in special[pool]
                            /\ p > w.position /\ (w.wrapped => p <= w.start)
    OBVIOUS
<1> HIDE DEF n, first, s, rows
<1>b. first \in rows => first \in 1..n /\ first \in Nat /\ first # 0 /\ first \in 0..n
    <2>1. \A x \in 1..n : x \in Nat /\ x # 0 /\ x \in 0..n
        BY <1>1
    <2> QED BY <1>3, <2>1
<1>6. /\ w.position \in Nat /\ w.start \in Nat /\ w.wrapped \in BOOLEAN /\ w.done = FALSE
      /\ w.position \in 0..n /\ w.start \in 0..n
    BY <1>1 DEF Walk, PagesInv, PagesTypeOK, n
<1>7. CASE rows # {}
    <2>1. /\ s.post = first /\ s.walk \in Walk /\ s.walk.position = first
          /\ s.walk.start = w.start /\ s.walk.wrapped = w.wrapped /\ s.walk.done = FALSE
        <3>1. first \in 0..Cardinality(Posts)
            BY <1>4, <1>7, <1>b DEF n
        <3> QED BY <1>1, <1>2, <1>6, <1>7, <3>1 DEF Walk
    <2>2. first \in Posts /\ first \in Nat /\ first # 0
        BY <1>1, <1>4, <1>7, <1>b
    <2>3. ASSUME special[pool] = Posts, NEW p \in present, Met(s.walk, p), ~Met(w, p)
          PROVE  p = first
        <3>1. p \in rows
            BY <1>5, <1>6, <1>r, <2>1, <2>3 DEF Met
        <3>2. p <= first
            BY <1>5, <1>6, <2>1, <2>2, <2>3 DEF Met
        <3>3. first <= p
            BY <1>4, <1>7, <3>1
        <3> QED BY <1>5, <2>2, <3>2, <3>3
    <2> QED BY <1>1, <1>6, <2>1, <2>2, <2>3 DEF s
<1>8. CASE rows = {} /\ w.wrapped
    <2>1. /\ s.post = 0 /\ s.walk \in Walk /\ s.walk.position = w.position
          /\ s.walk.start = w.start /\ s.walk.wrapped = TRUE /\ s.walk.done = TRUE
        BY <1>1, <1>2, <1>6, <1>8 DEF Walk
    <2>2. ASSUME special[pool] = Posts, NEW p \in present, Met(s.walk, p), ~Met(w, p)
          PROVE  FALSE
        <3>1. p \in rows
            BY <1>5, <1>6, <1>8, <1>r, <2>1, <2>2 DEF Met
        <3> QED BY <1>8, <3>1
    <2> QED BY <1>1, <1>6, <2>1, <2>2 DEF s
<1>9. CASE rows = {} /\ ~w.wrapped
    <2>1. /\ s.post = 0 /\ s.walk \in Walk /\ s.walk.position = 0
          /\ s.walk.start = w.start /\ s.walk.wrapped = TRUE /\ s.walk.done = FALSE
        <3>1. 0 \in 0..Cardinality(Posts)
            BY <1>1 DEF n
        <3> QED BY <1>1, <1>2, <1>6, <1>9, <3>1 DEF Walk
    <2>2. ASSUME special[pool] = Posts, NEW p \in present, Met(s.walk, p), ~Met(w, p)
          PROVE  FALSE
        <3>1. p > w.start
            <4>1. p # 0
                BY <1>1
            <4> QED BY <1>5, <1>6, <2>1, <2>2, <4>1 DEF Met
        <3>2. p \in rows
            BY <1>5, <1>6, <1>9, <1>r, <2>2, <3>1 DEF Met
        <3> QED BY <1>9, <3>2
    <2> QED BY <1>1, <1>6, <2>1, <2>2 DEF s
<1> QED BY <1>7, <1>8, <1>9

\* A query of the mix.
LEMMA TakeKeeps ==
    ASSUME PagesInv, Take PROVE PagesInv'
<1> DEFINE pool == Order[mixing.turn + 1]
           step == Step(pool)
           next == (mixing.turn + 1) % Len(Order)
           Mixes == [on : BOOLEAN, posts : SUBSET Posts, turn : 0..3, misses : 0..4]
<1>1. /\ mixing.on /\ mixing.misses < Len(Order) /\ mode = "foryou"
      /\ UNCHANGED <<library, cursor, ended>>
    BY DEF Take, PagesInv, PoolWalk
<1>2. /\ mixing \in Mixes /\ mixing.turn \in Nat /\ mixing.misses \in Nat
      /\ mixing.posts \subseteq Posts
    BY DEF PagesInv, PagesTypeOK
<1>3. /\ pool \in Pools /\ next \in 0..3 /\ next < Len(Order) /\ Len(Order) \in {3, 4}
    <2> DEFINE len == Len(Order)
    <2>a. len \in {3, 4} /\ mixing.turn < len
        BY <1>1, Turns DEF PagesInv, PoolWalk
    <2> HIDE DEF len
    <2>1. mixing.turn + 1 \in 1..len /\ mixing.turn + 1 \in Nat
        BY <1>2, <2>a
    <2> QED BY <2>1, Turns DEF len
<1>4. Order' = Order
    BY <1>1 DEF Order, library
<1>5. /\ special["all"] = Posts /\ (pools["all"].done => pools["all"].wrapped)
      /\ \A p \in stayed : Met(pools["all"], p) => given[p] > 0
      /\ (ended => pools["all"].done)
      /\ \A p \in mixing.posts : given[p] > 0
      /\ mixing.turn < Len(Order) /\ mixing.misses <= Len(Order)
    BY <1>1 DEF PagesInv, PoolWalk
<1>6. stayed \subseteq present /\ present \subseteq Posts
    BY DEF PagesInv, PagesTypeOK
<1> HIDE DEF pool, next
<1>7. ASSUME mixing' = [mixing EXCEPT !.turn = next, !.misses = @ + 1] \/ mixing' = mixing
      PROVE  /\ mixing' \in Mixes /\ mixing'.posts = mixing.posts /\ mixing'.on
             /\ mixing'.turn < Len(Order) /\ mixing'.misses <= Len(Order)
    <2>1. CASE mixing' = mixing
        BY <1>1, <1>2, <1>5, <2>1
    <2>2. CASE mixing' = [mixing EXCEPT !.turn = next, !.misses = @ + 1]
        <3> DEFINE len == Len(Order)
        <3>a. len \in {3, 4} /\ mixing.misses < len
            BY <1>1, <1>3
        <3> HIDE DEF len
        <3>b. mixing.misses + 1 \in 0..4 /\ mixing.misses + 1 <= len
            BY <1>2, <3>a
        <3>1. mixing.misses + 1 \in 0..4 /\ mixing.misses + 1 <= Len(Order)
            BY <3>b DEF len
        <3> QED BY <1>1, <1>2, <1>3, <2>2, <3>1
    <2> QED BY <1>7, <2>1, <2>2
<1>8. CASE pools[pool].done
    <2>1. /\ mixing' = [mixing EXCEPT !.turn = next, !.misses = @ + 1]
          /\ UNCHANGED <<pools, given>>
        BY <1>8 DEF Take, pool, next
    <2>2. PagesTypeOK'
        BY <1>1, <1>7, <2>1 DEF PagesInv, PagesTypeOK, library
    <2>3. TimeWalk'
        BY <1>1 DEF TimeWalk, library
    <2>4. PoolWalk'
        BY <1>1, <1>4, <1>5, <1>7, <2>1 DEF PoolWalk, Met, library
    <2> QED BY <2>2, <2>3, <2>4 DEF PagesInv
<1>9. CASE ~pools[pool].done
    <2>1. /\ pools' = [pools EXCEPT ![pool] = step.walk]
          /\ \/ /\ step.post # 0
                /\ mixing' = [mixing EXCEPT !.posts = @ \cup {step.post}, !.turn = next, !.misses = 0]
                /\ Give({step.post} \ mixing.posts)
             \/ /\ step.post = 0 /\ given' = given
                /\ mixing' = [mixing EXCEPT !.turn = next, !.misses = @ + 1] \/ mixing' = mixing
        BY <1>9 DEF Take, pool, next
    <2>2. /\ step.walk \in Walk /\ step.post \in Posts \cup {0}
          /\ (step.walk.done => step.walk.wrapped)
          /\ special[pool] = Posts =>
                \A p \in present : Met(step.walk, p) /\ ~Met(pools[pool], p) => p = step.post
        BY <1>3, <1>9, Stepped
    <2> HIDE DEF step
    <2>3. /\ pools' \in [Pools -> Walk]
          /\ \A q \in Pools : pools'[q] = IF q = pool THEN step.walk ELSE pools[q]
        BY <1>3, <2>1, <2>2 DEF PagesInv, PagesTypeOK
    <2>4. /\ mixing' \in Mixes /\ mixing'.on
          /\ mixing'.turn < Len(Order) /\ mixing'.misses <= Len(Order)
          /\ given' \in [Posts -> 0..2]
          /\ \A p \in Posts : given[p] > 0 => given'[p] > 0
          /\ step.post # 0 => given'[step.post] > 0
          /\ \A p \in mixing'.posts : given'[p] > 0
        <3>1. CASE step.post = 0
            BY <1>2, <1>5, <1>7, <2>1, <3>1 DEF PagesInv, PagesTypeOK
        <3>2. CASE step.post # 0
            <4>1. step.post \in Posts
                BY <2>2, <3>2
            <4>2. /\ mixing' = [mixing EXCEPT !.posts = @ \cup {step.post}, !.turn = next, !.misses = 0]
                  /\ Give({step.post} \ mixing.posts)
                BY <2>1, <3>2
            <4>3. /\ mixing' \in Mixes /\ mixing'.on /\ mixing'.turn = next /\ mixing'.misses = 0
                  /\ mixing'.posts = mixing.posts \cup {step.post}
                <5>1. mixing.posts \cup {step.post} \subseteq Posts /\ next \in 0..3
                    BY <1>2, <1>3, <4>1
                <5>2. mixing' = [mixing EXCEPT !.posts = mixing.posts \cup {step.post},
                                               !.turn = next, !.misses = 0]
                    BY <4>2
                <5>3. mixing.on = TRUE /\ mixing \in Mixes
                    BY <1>1, <1>2
                <5>4. mixing' = [on |-> TRUE, posts |-> mixing.posts \cup {step.post},
                                 turn |-> next, misses |-> 0]
                    BY <5>2, <5>3
                <5> QED BY <5>1, <5>4
            <4>4. /\ given' \in [Posts -> 0..2]
                  /\ \A p \in Posts : given[p] > 0 => given'[p] > 0
                  /\ \A p \in Posts : p \in {step.post} \ mixing.posts => given'[p] > 0
                BY <4>2, Given DEF PagesInv
            <4>5. given'[step.post] > 0
                BY <1>5, <4>1, <4>4
            <4> QED BY <1>2, <1>3, <1>5, <4>3, <4>4, <4>5
        <3> QED BY <3>1, <3>2
    <2>5. PagesTypeOK'
        BY <1>1, <2>3, <2>4 DEF PagesInv, PagesTypeOK, library
    <2>6. TimeWalk'
        BY <1>1 DEF TimeWalk, library
    <2>7. "all" \in Pools
        BY DEF Pools
    <2>8. CASE pool = "all"
        <3>1. pools'["all"] = step.walk
            BY <2>3, <2>7, <2>8
        <3>2. ASSUME NEW p \in stayed, Met(step.walk, p) PROVE given'[p] > 0
            <4>1. p \in Posts /\ p \in present
                BY <1>6
            <4>2. CASE Met(pools["all"], p)
                BY <1>5, <2>4, <4>1, <4>2
            <4>3. CASE ~Met(pools["all"], p)
                <5>1. p = step.post /\ p # 0
                    BY <1>5, <2>2, <2>8, <3>2, <4>1, <4>3, PostsCount
                <5> QED BY <2>4, <5>1
            <4> QED BY <4>2, <4>3
        <3>3. ~ended
            BY <1>5, <1>9, <2>8
        <3>4. PoolWalk'
            BY <1>1, <1>4, <1>5, <2>2, <2>4, <3>1, <3>2, <3>3 DEF PoolWalk, Met, library
        <3> QED BY <2>5, <2>6, <3>4 DEF PagesInv
    <2>9. CASE pool # "all"
        <3>1. pools'["all"] = pools["all"]
            BY <2>3, <2>7, <2>9
        <3>2. \A p \in stayed : Met(pools["all"], p) => given'[p] > 0
            BY <1>5, <1>6, <2>4
        <3>3. PoolWalk'
            BY <1>1, <1>4, <1>5, <2>4, <3>1, <3>2 DEF PoolWalk, Met, library
        <3> QED BY <2>5, <2>6, <3>3 DEF PagesInv
    <2> QED BY <2>8, <2>9
<1> QED BY <1>8, <1>9

-----------------------------------------------------------------------------
(* FeedPages: the theorems.                                                *)

LEMMA PagesInitHolds == PagesInit => PagesInv
<1> SUFFICES ASSUME PagesInit PROVE PagesInv
    OBVIOUS
<1> DEFINE n == Cardinality(Posts)
<1>1. /\ n \in Nat /\ Posts = 1..n /\ 0 \notin Posts
    BY PostsCount
<1>2. /\ mode \in {"latest", "oldest", "foryou"}
      /\ special \in [Pools -> SUBSET Posts] /\ special["all"] = Posts
      /\ present \in SUBSET Posts /\ stayed = present /\ gone = {}
      /\ cursor = IF mode = "oldest" THEN 0 ELSE n + 1
      /\ mixing = NoPage /\ given = [p \in Posts |-> 0] /\ ended = FALSE
    BY DEF PagesInit
<1>3. PICK start \in Posts :
        pools = [p \in Pools |-> LET s == IF p = "all" THEN start ELSE 0
                                 IN  [position |-> s, start |-> s, wrapped |-> FALSE, done |-> FALSE]]
    BY DEF PagesInit
<1> HIDE DEF n
<1>4. /\ pools \in [Pools -> Walk]
      /\ pools["all"] = [position |-> start, start |-> start, wrapped |-> FALSE, done |-> FALSE]
    <2>1. start \in 0..Cardinality(Posts) /\ 0 \in 0..Cardinality(Posts)
        BY <1>1 DEF n
    <2> QED BY <1>3, <2>1 DEF Pools, Walk
<1>5. cursor \in 0..(n + 1) /\ start \in Nat
    BY <1>1, <1>2
<1>6. special \in [Pools -> SUBSET Posts] /\ special["all"] = Posts
    BY <1>2
<1>7. mixing \in [on : BOOLEAN, posts : SUBSET Posts, turn : 0..3, misses : 0..4]
    BY <1>2 DEF NoPage
<1>a. given \in [Posts -> 0..2]
    BY <1>2
<1>8. PagesTypeOK
    BY <1>2, <1>4, <1>5, <1>6, <1>7, <1>a, Zenon DEF PagesTypeOK, n
<1>9. TimeWalk
    <2>1. ASSUME NEW p \in Posts, mode # "foryou" PROVE ~Passed(p)
        BY <1>1, <1>2, <2>1 DEF Passed
    <2> QED BY <1>1, <1>2, <2>1 DEF TimeWalk
<1>10. PoolWalk
    <2>1. \A p \in Posts : ~Met(pools["all"], p)
        BY <1>1, <1>4, <1>5 DEF Met
    <2>2. /\ mixing.on = FALSE /\ mixing.posts = {} /\ mixing.turn = 0 /\ mixing.misses = 0
          /\ pools["all"].done = FALSE
        BY <1>2, <1>4 DEF NoPage
    <2>3. 0 < Len(Order) /\ 0 <= Len(Order)
        BY Turns
    <2>4. \A p \in stayed : ~Met(pools["all"], p)
        BY <1>2, <2>1
    <2> QED BY <1>2, <1>6, <2>2, <2>3, <2>4 DEF PoolWalk
<1> QED BY <1>8, <1>9, <1>10 DEF PagesInv

LEMMA PagesStepsKeep == PagesInv /\ [PagesNext]_pagesVars => PagesInv'
<1> SUFFICES ASSUME PagesInv, [PagesNext]_pagesVars PROVE PagesInv'
    OBVIOUS
<1>1. CASE UNCHANGED pagesVars
    BY <1>1 DEF pagesVars, library, PagesInv, PagesTypeOK, TimeWalk, PoolWalk, Passed, Met, Order
<1> QED BY <1>1, PageKeeps, MixKeeps, TakeKeeps, PostsMove DEF PagesNext, ListPosts

LEMMA PagesInvariance == PagesSpec => []PagesInv
BY PagesInitHolds, PagesStepsKeep, PTL DEF PagesSpec

\* Every variable has its type (list_posts of feed_index.py).
THEOREM PagesTypeCorrect == PagesSpec => []PagesTypeOK
<1>1. PagesInv => PagesTypeOK
    BY DEF PagesInv
<1> QED BY <1>1, PagesInvariance, PTL

\* What the invariant says of a feed that has ended.
LEMMA InvLosesNothing == PagesInv => NothingLost
<1> SUFFICES ASSUME PagesInv PROVE NothingLost
    OBVIOUS
<1>1. CASE mode = "foryou"
    <2>1. ASSUME ended, NEW p \in stayed PROVE given[p] > 0
        <3>1. Met(pools["all"], p)
            BY <1>1, <2>1 DEF PagesInv, PoolWalk, Met
        <3> QED BY <1>1, <3>1 DEF PagesInv, PoolWalk
    <2> QED BY <1>1, <2>1 DEF NothingLost
<1>2. CASE mode # "foryou"
    BY <1>2 DEF PagesInv, TimeWalk, NothingLost
<1> QED BY <1>1, <1>2

\* Whatever is downloaded and deleted while somebody pages, at the end of the
\* feed they have been given every post that was there all the time, and by time
\* none of them twice (latest_posts, account_posts and foryou_page).
THEOREM PagesLoseNothing == PagesSpec => []NothingLost
BY InvLosesNothing, PagesInvariance, PTL
=============================================================================
