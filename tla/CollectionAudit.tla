---------------------------- MODULE CollectionAudit ----------------------------
(***************************************************************************)
(* The two command-line tools that compare a collection with the accounts  *)
(* of the settings file: the audit (src/tools/collection_audit.py), which  *)
(* walks the collection page by page, or through a browser when the direct *)
(* way fails, and the alignment (src/tools/collection_alignment.py) of its *)
(* report with the settings as they are later.                             *)
(*                                                                         *)
(* The user collects works, takes works out and edits the accounts while   *)
(* they run.  Works are numbered in the order in which they are collected; *)
(* the last one collected is the first of the shelf.                       *)
(***************************************************************************)
EXTENDS Naturals, Sequences, SequencesExt, FiniteSets

CONSTANTS Authors,
          NoAuthor,    \* a work without one, an account row without a user URL
          MaxWorks,    \* bound on the works the collection ever has
          MaxRows,     \* bound on accounts_urls
          NoReport

ASSUME AuditAssumption == NoAuthor \notin Authors /\ MaxWorks \in Nat \ {0} /\ MaxRows \in Nat

VARIABLES
    author,      \* of a work
    nameless,    \* works without aweme_id
    shelf,       \* the collection
    collected,   \* the works collected so far
    taken,       \* history: a work was taken out while the audit walked
    ask,         \* --limit, --page-size, --browser-only
    active,      \* accounts_urls: the key of each row
    deleted,     \* deleted_accounts
    step,        \* how far the audit is
    items,       \* what was fetched
    cursor,
    pageIndex,
    transport,
    cutShort,    \* history: the works come from a walk that ended before the
                 \* last page, or through the browser
    report,      \* the status and the count of each author
    edited,      \* history: the accounts were edited behind the report
    alignment    \* the status of each row, and some counts

auditVars == <<author, nameless, shelf, collected, taken, ask, active, deleted, step, items,
               cursor, pageIndex, transport, cutShort, report, edited, alignment>>
world == <<author, nameless, shelf, collected, taken, ask>>
walk == <<items, cursor, pageIndex, transport>>

Work == 1..MaxWorks
Statuses == {"active", "deleted", "missing"}

AuditTypeOK ==
    /\ author \in [Work -> Authors \cup {NoAuthor}] /\ nameless \subseteq Work
    /\ shelf \in Seq(Work) /\ collected \in 0..MaxWorks /\ taken \in BOOLEAN
    /\ ask \in [limit : Nat \ {0}, size : Nat \ {0}, browser : BOOLEAN]
    /\ active \in Seq(Authors \cup {NoAuthor}) /\ deleted \subseteq Authors
    /\ step \in {"direct", "browser", "fetched", "failed", "reported", "aligned"}
    /\ items \in Seq(Work) /\ cursor \in Nat /\ pageIndex \in Nat
    /\ transport \in {"direct", "browser"} /\ cutShort \in BOOLEAN /\ edited \in BOOLEAN
    /\ \/ report = NoReport
       \/ \E known \in SUBSET Authors : report \in [known -> [status : Statuses, works : Nat]]

AuditInit ==
    /\ author \in [Work -> Authors \cup {NoAuthor}] /\ nameless \in {{}, {1}}
    /\ collected = MaxWorks - 1
    /\ shelf = [p \in 1..collected |-> MaxWorks - p] /\ taken = FALSE
    /\ ask \in [limit : 2..MaxWorks, size : 1..2, browser : BOOLEAN]
    /\ active = <<>> /\ deleted = {}
    /\ step = IF ask.browser THEN "browser" ELSE "direct"
    /\ items = <<>> /\ cursor = 0 /\ pageIndex = 0 /\ transport = "direct"
    /\ cutShort = FALSE
    /\ report = NoReport /\ edited = FALSE /\ alignment = NoReport

\* The works that are there when the audit begins.
FirstShelf == 1..(MaxWorks - 1)

RowKeys == ToSet(active) \ {NoAuthor}
Smaller(a, b) == IF a < b THEN a ELSE b
Upto(s, n) == SubSeq(s, 1, Smaller(n, Len(s)))

-----------------------------------------------------------------------------
(* The user *)

\* (What the browser sees is a part of the collection anyhow.)
Walking == step = "direct"

CollectsWork ==
    /\ Walking /\ collected < MaxWorks
    /\ collected' = collected + 1 /\ shelf' = <<collected'>> \o shelf
    /\ UNCHANGED <<author, nameless, taken, ask, active, deleted, step, walk, cutShort, report,
                   edited, alignment>>

TakesOut ==
    /\ Walking
    /\ \E p \in DOMAIN shelf : shelf' = RemoveAt(shelf, p)
    /\ taken' = TRUE
    /\ UNCHANGED <<author, nameless, collected, ask, active, deleted, step, walk, cutShort,
                   report, edited, alignment>>

\* Nothing reads the accounts before the works are there.
\* A row of an account that is archived goes to deleted_accounts; one that
\* is restored or added twice leaves its entry there.
EditsAccounts ==
    /\ step \in {"fetched", "reported"}
    /\ \/ /\ Len(active) < MaxRows
          /\ \E a \in Authors \cup {NoAuthor} : active' = Append(active, a)
          /\ UNCHANGED deleted
       \/ \E p \in DOMAIN active :
             /\ active[p] # NoAuthor
             /\ active' = RemoveAt(active, p) /\ deleted' = deleted \cup {active[p]}
    /\ edited' = (step = "reported")
    /\ UNCHANGED <<world, step, walk, cutShort, report, alignment>>

-----------------------------------------------------------------------------
(* The audit *)

\* Three times the pages the limit needs.
PageBudget == 3 * ((ask.limit + ask.size - 1) \div ask.size)

\* Mutant: a work that comes again is counted again.
NeverSeen(got, w) == FALSE

\* seen_aweme_ids; what has no id cannot be recognised.
Seen(got, w) == w \notin nameless /\ w \in ToSet(got)

\* A page's works join in their order, until there are enough.
Joined(got, w) == IF Len(got) >= ask.limit \/ Seen(got, w) THEN got ELSE Append(got, w)
WithPage(got, page) == FoldLeft(Joined, got, page)

\* fetch_collection_items, and fetch_favorite_items for the favourites: one
\* page of CollectsDetail or Collection; the platform's cursor is a position,
\* and may stay where it was.  An answer whose has_more is false or absent
\* closes the walk, wherever it is.
PageComes ==
    /\ step = "direct"
    /\ LET page == SubSeq(shelf, cursor + 1, Smaller(cursor + ask.size, Len(shelf)))
           ends == cursor + ask.size >= Len(shelf)
       IN  \E next \in {cursor, cursor + ask.size}, closes \in BOOLEAN :
              /\ items' = WithPage(items, page)
              /\ step' = IF \/ Len(items') >= ask.limit \/ closes
                            \/ next = cursor \/ pageIndex + 1 >= PageBudget
                         THEN "fetched" ELSE "direct"
              /\ pageIndex' = IF step' = "direct" THEN pageIndex + 1 ELSE 0
              /\ cursor' = IF step' = "direct" THEN next ELSE 0
              /\ cutShort' = (step' = "fetched" /\ ~ends)
    /\ UNCHANGED <<world, active, deleted, transport, report, edited, alignment>>

\* An answer without items, or one that cannot be read, is no request error:
\* the collector is finished where it stands, and that is the end of the walk.
PageLost ==
    /\ step = "direct" /\ step' = "fetched"
    /\ pageIndex' = 0 /\ cursor' = 0
    /\ cutShort' = (cursor < Len(shelf))
    /\ UNCHANGED <<world, active, deleted, items, transport, report, edited, alignment>>

\* What came directly is dropped.
DirectFails ==
    /\ step = "direct" /\ step' = "browser"
    /\ items' = <<>> /\ cursor' = 0 /\ pageIndex' = 0
    /\ UNCHANGED <<world, active, deleted, transport, cutShort, report, edited, alignment>>

\* The browser begins again, and may see a part of the collection only.
BrowserFetches ==
    /\ step = "browser" /\ step' = "fetched"
    /\ \E n \in 0..Len(shelf) : items' = Upto(Upto(shelf, n), ask.limit)
    /\ transport' = "browser" /\ cutShort' = TRUE
    /\ UNCHANGED <<world, active, deleted, cursor, pageIndex, report, edited, alignment>>

AuditFails ==
    /\ step \in {"browser", "fetched"} /\ step' = "failed"
    /\ UNCHANGED <<world, active, deleted, walk, cutShort, report, edited, alignment>>

\* compare_collection_authors: a row counts before an entry of the deleted.
Status(a) == IF a \in RowKeys THEN "active" ELSE IF a \in deleted THEN "deleted" ELSE "missing"

\* extract_collection_authors
WorksOf(a) == Cardinality({p \in DOMAIN items : author[items[p]] = a})

\* The settings file is read when everything was fetched.
Reports ==
    /\ step = "fetched" /\ step' = "reported"
    /\ report' = [a \in {author[w] : w \in ToSet(items)} \ {NoAuthor} |->
                     [status |-> Status(a), works |-> WorksOf(a)]]
    /\ UNCHANGED <<world, active, deleted, walk, cutShort, edited, alignment>>

-----------------------------------------------------------------------------
(* The alignment *)

\* build_alignment: every author of the report and every configured account
\* has a row.
Aligns ==
    /\ step = "reported" /\ step' = "aligned"
    /\ alignment' =
          [rows |-> [k \in DOMAIN report \cup RowKeys |->
                        IF k \notin DOMAIN report THEN "configured_only"
                        ELSE IF k \in RowKeys THEN "both" ELSE "dk_only"],
           previouslyDeleted |-> Cardinality(DOMAIN report \cap deleted),
           invalid |-> Cardinality({p \in DOMAIN active : active[p] = NoAuthor}),
           duplicates |-> Cardinality({p \in DOMAIN active : active[p] # NoAuthor})
                              - Cardinality(RowKeys)]
    /\ UNCHANGED <<world, active, deleted, walk, cutShort, report, edited>>

AuditNext ==
    \/ CollectsWork \/ TakesOut \/ EditsAccounts
    \/ PageComes \/ PageLost \/ DirectFails \/ BrowserFetches \/ AuditFails \/ Reports \/ Aligns

AuditSpec == AuditInit /\ [][AuditNext]_auditVars

-----------------------------------------------------------------------------
(* Properties *)

Made == step \in {"reported", "aligned"}
RowsAre(status) == {k \in DOMAIN alignment.rows : alignment.rows[k] = status}

\* Whatever the user does to the collection and the accounts meanwhile, and
\* whichever way the works come: a work with an id is counted once; a walk
\* that came to the last page, and was not closed by an answer that only looked
\* like it, has missed no work that was there all the time; and
\* the alignment loses no row and agrees with the audit about every author
\* when the accounts are still the same (collection_audit.py:132-193,
\* collection_alignment.py:50-136).
AuditExact ==
    /\ Made =>
          /\ Len(items) <= ask.limit
          /\ \A p, r \in DOMAIN items :
                (p # r /\ items[p] = items[r]) =>
                    (items[p] \in nameless /\ transport = "direct")
          /\ (~taken /\ ~cutShort /\ Len(items) < ask.limit) => FirstShelf \subseteq ToSet(items)
    /\ step = "aligned" =>
          /\ Len(active) = Cardinality(RowsAre("both")) + Cardinality(RowsAre("configured_only"))
                               + alignment.invalid + alignment.duplicates
          /\ DOMAIN report = RowsAre("both") \cup RowsAre("dk_only")
          /\ ~edited =>
                 \A a \in DOMAIN report : alignment.rows[a] = "both" <=> report[a].status = "active"
=============================================================================
