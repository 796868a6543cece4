----------------------------- MODULE FolderNames -----------------------------
(***************************************************************************)
(* The names under which the works of an account are kept.  They hold the  *)
(* nickname of the account and the mark the user gave it, and both change: *)
(* every visit (_batch_process_detail of main_terminal.py) compares them   *)
(* with those of the last one (mapping_data of manager/database.py), and   *)
(* renames the folder and, one by one, the files (manager/cache.py) before *)
(* it loads new works.                                                     *)
(*                                                                         *)
(* A file is renamed by replacing the first occurrence of the old nickname *)
(* or mark in the whole of its name, wherever that is: in its field, in    *)
(* another one that is the same, or inside a longer text.  What a longer   *)
(* text comes to by that may be any text.                                  *)
(*                                                                         *)
(* One account, with a folder for each tab of its page.  folder_mode,      *)
(* which puts each work into a folder of its own, renames these like files.*)
(***************************************************************************)
EXTENDS Naturals, FiniteSets, Functions

CONSTANTS Titles,     \* nicknames and marks
          NoTitle,    \* not part of the file names; no mark was given
          Tabs,       \* post, favorite: the suffix of the folder
          Items,      \* works, and the text that tells each from the others
          Visits      \* slots for visits that may overlap

ASSUME NamesAssumption ==
    NoTitle \notin Titles /\ Titles # {} /\ Tabs # {} /\ IsFiniteSet(Visits)

VARIABLES
    order,    \* name_format: the fields of a file's name
    mapping,  \* the row of mapping_data
    folders,  \* the folders there are: tab and mark
    files,    \* where they are and what they are called
    fetched,  \* download_data
    visit,    \* of each slot
    strayed,  \* history: a rename has hit another field than its own
    clean     \* history: none has; one tab, no overlap, no failed rename, no kill

namesVars == <<order, mapping, folders, files, fetched, visit, strayed, clean>>

NoRow == [name |-> NoTitle, mark |-> NoTitle]
NoVisit == [at |-> "rest", tab |-> CHOOSE t \in Tabs : TRUE, name |-> NoTitle, mark |-> NoTitle,
            todo |-> {}]
Folders == [tab : Tabs, mark : Titles]

\* "text" is the id or the time of a work, or whatever else tells works apart.
Formats ==
    {o \in UNION {[1..n -> {"text", "name", "mark"}] : n \in 1..3} :
        IsInjective(o) /\ "text" \in Range(o)}
Pieces == Titles \cup Items
Paths == [in : Folders, text : Pieces, name : Pieces \cup {NoTitle}, mark : Pieces \cup {NoTitle}]
Files == [at : Paths, item : Items]

NamesTypeOK ==
    /\ order \in Formats
    /\ mapping \in [name : Titles, mark : Titles] \cup {NoRow}
    /\ folders \subseteq Folders /\ files \subseteq Files
    /\ fetched \subseteq Items /\ strayed \in BOOLEAN /\ clean \in BOOLEAN
    /\ visit \in [Visits -> [at : {"rest", "extracted", "marking", "naming", "checked", "mapped"},
                            tab : Tabs, name : Titles \cup {NoTitle},
                            mark : Titles \cup {NoTitle}, todo : SUBSET Paths]]

NamesInit ==
    /\ order \in Formats
    /\ mapping = NoRow
    /\ folders = {} /\ files = {} /\ fetched = {}
    /\ visit = [v \in Visits |-> NoVisit]
    /\ strayed = FALSE /\ clean = TRUE

Carries(field) == field \in Range(order)

\* update_cache awaits nothing between the row and the last rename.
Scanning(v) == visit[v].at \in {"marking", "naming"}
Free == \A v \in Visits : ~Scanning(v)

-----------------------------------------------------------------------------
\* preprocessing_data: the nickname and the mark as they are now, which the
\* account and the user change as they like; without a mark the nickname is it.
BeginVisit(v, tab) ==
    /\ visit[v].at = "rest" /\ Free
    /\ \E name \in Titles, mark \in Titles \cup {NoTitle} :
          visit' = [visit EXCEPT ![v] =
              [at |-> "extracted", tab |-> tab, name |-> name,
               mark |-> IF mark = NoTitle THEN name ELSE mark, todo |-> {}]]
    /\ clean' = (/\ clean /\ \A u \in Visits : visit[u].at = "rest"
                 /\ \A f \in folders : f.tab = tab)
    /\ UNCHANGED <<order, mapping, folders, files, fetched, strayed>>

(* update_cache *)

\* __rename_folder: the folders and the files afterwards.  A folder that is
\* in use, or that has another in its way, stays.
Moved(d, e, fault) ==
    IF fault \/ \E f \in files : f.at.in = e THEN [folders |-> folders, files |-> files]
    ELSE [folders |-> (folders \ {d}) \cup {e},
          files |-> {IF f.at.in = d THEN [f EXCEPT !.at.in = e] ELSE f : f \in files}]

\* Mutant: the name is looked for in the folder that was renamed before.
RootOld(v) == [tab |-> visit[v].tab, mark |-> mapping.mark]

\* Where __scan_file looks.
Root(v) == [tab |-> visit[v].tab, mark |-> visit[v].mark]

PathsIn(F, d) == {f.at : f \in {g \in F : g.at.in = d}}
ToName(v) == mapping.name # visit[v].name /\ Carries("name")

\* __check_file: the folder is renamed, and its files are listed (iterdir) if
\* their names are to follow.
CheckNames(v) ==
    /\ visit[v].at = "extracted" /\ Free
    /\ \E fault \in BOOLEAN :
       LET old == [tab |-> visit[v].tab, mark |-> mapping.mark]
           new == Root(v)
           moves == mapping.mark # visit[v].mark
           m == IF moves THEN Moved(old, [old EXCEPT !.mark = visit[v].mark], fault)
                         ELSE [folders |-> folders, files |-> files]
           marks == moves /\ Carries("mark")
           goes == IF marks THEN "marking" ELSE IF ToName(v) THEN "naming" ELSE "checked"
       IN  IF mapping = NoRow \/ old \notin folders
           THEN /\ ~fault
                /\ visit' = [visit EXCEPT ![v].at = "checked"]
                /\ UNCHANGED <<folders, files, clean>>
           ELSE /\ folders' = m.folders /\ files' = m.files
                /\ clean' = (clean /\ ~fault)
                \* iterdir() of a folder that is not there ends the visit
                /\ visit' = [visit EXCEPT ![v] =
                      IF goes = "checked" THEN [@ EXCEPT !.at = goes]
                      ELSE IF new \notin m.folders THEN NoVisit
                      ELSE [@ EXCEPT !.at = goes, !.todo = PathsIn(m.files, new)]]
    /\ UNCHANGED <<order, mapping, fetched, strayed>>

\* __batch_rename, file by file, in the order of the directory.
Field(v) == IF visit[v].at = "marking" THEN "mark" ELSE "name"
OldName(v) == mapping[Field(v)]
Without(v, p) == visit' = [visit EXCEPT ![v].todo = @ \ {p}]

\* str.replace(old, new, 1): a field that is the old name becomes the new one;
\* a longer one, in which the old name occurs, becomes any text.
Replaced(v, text) == IF text = OldName(v) THEN {visit[v][Field(v)]} ELSE Pieces

\* A file that has the new name already is replaced.
Puts(f, q) == files' = {g \in files : g.at \notin {f.at, q}} \cup {[f EXCEPT !.at = q]}

RenameFile(v) ==
    /\ Scanning(v)
    /\ \E f \in files, place \in DOMAIN order :
          /\ f.at \in visit[v].todo
          /\ \A p \in DOMAIN order : p < place => f.at[order[p]] # OldName(v)
          /\ \E t \in Replaced(v, f.at[order[place]]) :
                Puts(f, [f.at EXCEPT ![order[place]] = t])
          /\ Without(v, f.at)
          /\ strayed' = (strayed \/ order[place] # Field(v))
          /\ clean' = (clean /\ order[place] = Field(v))
    /\ UNCHANGED <<order, mapping, folders, fetched>>

RenameFails(v) ==
    /\ Scanning(v) /\ \E p \in visit[v].todo : Without(v, p)
    /\ clean' = FALSE
    /\ UNCHANGED <<order, mapping, folders, files, fetched, strayed>>

\* The first file without the old name ends the loop.
ScanBreaks(v) ==
    /\ Scanning(v)
    /\ \E p \in visit[v].todo : \A place \in DOMAIN order : p[order[place]] # OldName(v)
    /\ visit' = [visit EXCEPT ![v].todo = {}]
    /\ UNCHANGED <<order, mapping, folders, files, fetched, strayed, clean>>

\* After the mark the nickname; after that the row.
ScanEnds(v) ==
    /\ Scanning(v) /\ visit[v].todo = {}
    /\ visit' = [visit EXCEPT ![v] =
          IF @.at = "marking" /\ ToName(v)
          THEN [@ EXCEPT !.at = "naming", !.todo = PathsIn(files, Root(v))]
          ELSE [@ EXCEPT !.at = "checked"]]
    /\ UNCHANGED <<order, mapping, folders, files, fetched, strayed, clean>>

\* update_mapping_data, whatever the renames came to.
WriteRow(v) ==
    /\ visit[v].at = "checked" /\ Free
    /\ mapping' = [name |-> visit[v].name, mark |-> visit[v].mark]
    /\ visit' = [visit EXCEPT ![v].at = "mapped"]
    /\ UNCHANGED <<order, folders, files, fetched, strayed, clean>>

\* download_detail_batch: works that are not recorded, under the names of
\* this visit.  One whose name a file has already is skipped, unrecorded.
PathOf(v, w) == [in |-> Root(v), text |-> w,
                 name |-> IF Carries("name") THEN visit[v].name ELSE NoTitle,
                 mark |-> IF Carries("mark") THEN visit[v].mark ELSE NoTitle]

LoadItems(v) ==
    /\ visit[v].at = "mapped" /\ Free
    /\ \E W \in SUBSET {w \in Items \ fetched : \A f \in files : f.at # PathOf(v, w)} :
          /\ fetched' = fetched \cup W
          /\ folders' = folders \cup (IF W = {} THEN {} ELSE {Root(v)})
          /\ files' = files \cup {[at |-> PathOf(v, w), item |-> w] : w \in W}
    /\ visit' = [visit EXCEPT ![v] = NoVisit]
    /\ UNCHANGED <<order, mapping, strayed, clean>>

\* The process ends between two steps, or between two renames.
KillVisits ==
    /\ \E v \in Visits : visit[v].at # "rest"
    /\ visit' = [v \in Visits |-> NoVisit]
    /\ clean' = (clean /\ Free /\ \A v \in Visits : visit[v].at # "checked")
    /\ UNCHANGED <<order, mapping, folders, files, fetched, strayed>>

NamesNext ==
    \/ KillVisits
    \/ \E v \in Visits :
          \/ \E tab \in Tabs : BeginVisit(v, tab)
          \/ CheckNames(v) \/ RenameFile(v) \/ RenameFails(v) \/ ScanBreaks(v) \/ ScanEnds(v)
          \/ WriteRow(v) \/ LoadItems(v)

NamesSpec == NamesInit /\ [][NamesNext]_namesVars

-----------------------------------------------------------------------------
(* Properties *)

\* Renaming loses no work, whatever fails and whenever the process ends,
\* unless the old nickname or mark was found in another field than its own
\* (strayed); and as long as that did not happen either, an account has one
\* tab and no rename failed, all its works are in one folder, whose name and
\* whose files' names are those of the last visit, however often nickname
\* and mark changed, together or in turn (manager/cache.py).
NamesFollow ==
    /\ ~strayed => \A w \in fetched : \E f \in files : f.item = w
    /\ (clean /\ Free /\ \A v \in Visits : visit[v].at # "checked") =>
          /\ \A d \in folders : d.mark = mapping.mark
          /\ \A f \in files :
                /\ f.at.in \in folders /\ f.at.text = f.item
                /\ Carries("name") => f.at.name = mapping.name
                /\ Carries("mark") => f.at.mark = mapping.mark
=============================================================================
