---------------------------- MODULE CrawlProofs -----------------------------
(***************************************************************************)
(* A collection run, from what is listed of an account to what is on the   *)
(* disk: the window of an account (AccountCrawl), the verdict on an        *)
(* account (AccountVerdict) and the downloads (Downloader), for any works, *)
(* accounts, files and runs.                                               *)
(***************************************************************************)
EXTENDS AccountCrawl, AccountVerdict, Downloader, CollectionWalk, Routing, AccountBatch,
        SequenceTheorems,
        FiniteSetTheorems, NaturalsInduction, WellFoundedInduction, TLAPS

-----------------------------------------------------------------------------
(* AccountCrawl: the inductive invariant.                                  *)

\* The days of the works ascend, and none is after today.
History ==
    /\ \A w \in Works : works[w] <= today
    /\ \A v, w \in Works : v <= w => works[v] <= works[w]

\* The crawl began today or before, from the earliest date of now, unless the
\* user has changed it since.
Window ==
    /\ earliest <= today
    /\ fetch.at # "rest" =>
          /\ fetch.upTo <= today
          /\ ~fetch.edited => fetch.from = earliest

\* The walk has listed works, and all that is above its cursor, but for works that came after
\* it had begun; and when it is over without a failure, what is below the
\* cursor is from before the window.
ListedSoFar ==
    /\ fetch.items \subseteq Works
    /\ fetch.at \in {"page", "load"} =>
          \A w \in Works : w >= fetch.cursor /\ works[w] < fetch.upTo => w \in fetch.items
    /\ fetch.at = "load" /\ ~fetch.broken =>
          /\ fetch.cursor \in Works
          /\ \A w \in Works : w < fetch.cursor => works[w] < fetch.from

\* A crawl that went well has all works of its window.
WorksReported ==
    fetch.at = "report" /\ fetch.ok /\ ~fetch.broken =>
       \A w \in Works : fetch.from <= works[w] /\ works[w] < fetch.upTo => w \in saved

CrawlInv == CrawlTypeOK /\ History /\ Window /\ ListedSoFar /\ WorksReported /\ NothingLeftBehind

-----------------------------------------------------------------------------
(* The history of works *)

\* What the type invariant says of the history.
LEMMA HistoryTyped ==
    ASSUME CrawlTypeOK
    PROVE  /\ Len(works) \in Nat /\ Len(works) <= MaxWorks
           /\ works \in [1..Len(works) -> 0..MaxDay]
           /\ Works = 1..Len(works)
<1>1. PICK n \in 0..MaxWorks : works \in [1..n -> 0..MaxDay]
  BY DEF CrawlTypeOK
<1>2. n \in Nat /\ works \in Seq(0..MaxDay) /\ Len(works) = n
  BY <1>1, CrawlAssumption DEF CrawlAssumption
<1> QED
  BY <1>1, <1>2, CrawlAssumption DEF Works, CrawlAssumption

\* A published work is the last of the new history and leaves the others.
LEMMA Published ==
    ASSUME CrawlTypeOK, Publishes
    PROVE  /\ works' \in [1..(Len(works) + 1) -> 0..MaxDay]
           /\ Works' = 1..(Len(works) + 1)
           /\ \A w \in Works : works'[w] = works[w]
           /\ works'[Len(works) + 1] = today
           /\ Len(works) + 1 \in 0..MaxWorks
<1>1. Len(works) \in Nat /\ works \in [1..Len(works) -> 0..MaxDay] /\ Works = 1..Len(works)
  BY HistoryTyped
<1>2. works \in Seq(0..MaxDay)
  <2>1. PICK n \in 0..MaxWorks : works \in [1..n -> 0..MaxDay]
    BY DEF CrawlTypeOK
  <2> QED
    BY <2>1, CrawlAssumption DEF CrawlAssumption
<1>3. today \in 0..MaxDay
  BY DEF CrawlTypeOK
<1>4. works' = Append(works, today) /\ Len(works) < MaxWorks
  BY DEF Publishes
<1>5. works' \in Seq(0..MaxDay) /\ Len(works') = Len(works) + 1
  BY <1>2, <1>3, <1>4
<1>6. works' \in [1..(Len(works) + 1) -> 0..MaxDay]
  BY <1>5, LenProperties
<1>7. \A w \in 1..Len(works) : works'[w] = works[w]
  BY <1>1, <1>2, <1>3, <1>4
<1>8. works'[Len(works) + 1] = today
  BY <1>1, <1>2, <1>3, <1>4
<1> QED
  BY <1>1, <1>4, <1>5, <1>6, <1>7, <1>8, CrawlAssumption DEF Works, CrawlAssumption

-----------------------------------------------------------------------------
(* The steps *)

LEMMA FetchTyped ==
    ASSUME CrawlTypeOK
    PROVE  /\ AtRest \in [at : {"rest", "page", "load", "report"}, from : 0..MaxDay, upTo : 0..MaxDay,
                          cursor : 1..(MaxWorks + 1), items : SUBSET (1..MaxWorks),
                          ok : BOOLEAN, broken : BOOLEAN, edited : BOOLEAN]
           /\ today \in Nat /\ earliest \in Nat /\ Days \in Nat /\ MaxDay \in Nat /\ MaxWorks \in Nat
           /\ fetch.cursor \in Nat /\ fetch.from \in Nat /\ fetch.upTo \in Nat
           /\ \A w \in Works : works[w] \in Nat
<1>1. MaxDay \in Nat /\ MaxWorks \in Nat /\ Days \in Nat
  BY CrawlAssumption DEF CrawlAssumption
<1>2. \A w \in Works : works[w] \in 0..MaxDay
  BY HistoryTyped
<1> QED
  BY <1>1, <1>2 DEF CrawlTypeOK, AtRest

LEMMA CrawlInitHolds == CrawlInit => CrawlInv
<1> SUFFICES ASSUME CrawlInit PROVE CrawlInv
  OBVIOUS
<1>1. MaxDay \in Nat /\ MaxWorks \in Nat
  BY CrawlAssumption DEF CrawlAssumption
<1>2. works \in [1..0 -> 0..MaxDay] /\ Works = {} /\ 0 \in 0..MaxWorks
  BY <1>1 DEF CrawlInit, Works
<1>3. CrawlTypeOK
  BY SMTT(30), <1>1, <1>2 DEF CrawlInit, CrawlTypeOK, AtRest
<1> QED
  BY <1>1, <1>2, <1>3 DEF CrawlInit, CrawlInv, History, Window, ListedSoFar, WorksReported, NothingLeftBehind, AtRest

LEMMA PublishesKeeps == CrawlInv /\ Publishes => CrawlInv'
<1> SUFFICES ASSUME CrawlInv, Publishes PROVE CrawlInv'
  OBVIOUS
<1>t. CrawlTypeOK
  BY DEF CrawlInv
<1>1. /\ works' \in [1..(Len(works) + 1) -> 0..MaxDay]
      /\ Works' = 1..(Len(works) + 1)
      /\ \A w \in Works : works'[w] = works[w]
      /\ works'[Len(works) + 1] = today
      /\ Len(works) + 1 \in 0..MaxWorks
  BY <1>t, Published
<1>2. Len(works) \in Nat /\ Works = 1..Len(works)
  BY <1>t, HistoryTyped
<1>3. Works' = Works \cup {Len(works) + 1}
  BY <1>1, <1>2
<1>4. UNCHANGED <<today, saved, earliest, fetch, excused>>
  BY DEF Publishes
<1>5. /\ today \in Nat /\ earliest \in Nat /\ fetch.cursor \in Nat /\ fetch.from \in Nat
      /\ fetch.upTo \in Nat /\ \A w \in Works : works[w] \in Nat
  BY <1>t, FetchTyped
<1>6. CrawlTypeOK'
  BY <1>t, <1>1, <1>3, <1>4 DEF CrawlTypeOK
<1>7. History'
  <2>1. \A w \in Works' : works'[w] <= today'
    BY <1>1, <1>3, <1>4, <1>5 DEF CrawlInv, History
  <2>2. ASSUME NEW v \in Works', NEW w \in Works', v <= w PROVE works'[v] <= works'[w]
    <3>1. CASE w = Len(works) + 1
      BY <3>1, <2>1, <1>1, <1>4
    <3>2. CASE w \in Works
      <4>1. v \in Works
        BY <3>2, <2>2, <1>2, <1>3
      <4> QED
        BY <4>1, <3>2, <2>2, <1>1 DEF CrawlInv, History
    <3> QED
      BY <3>1, <3>2, <1>3
  <2> QED
    BY <2>1, <2>2 DEF History
<1>8. Window'
  BY <1>4 DEF CrawlInv, Window
<1>9. ListedSoFar'
  \* The new work is not from before the crawl's last day; when the walk is
  \* over it is above the cursor.
  <2>1. fetch.at # "rest" => ~(works'[Len(works) + 1] < fetch.upTo)
    BY <1>1, <1>5 DEF CrawlInv, Window
  <2>2. fetch.at = "load" /\ ~fetch.broken =>
           /\ fetch.cursor \in Works'
           /\ \A w \in Works' : w < fetch.cursor => works'[w] < fetch.from
    BY <1>1, <1>2, <1>3, <1>5 DEF CrawlInv, ListedSoFar
  <2> QED
    BY <2>1, <2>2, <1>1, <1>3, <1>4 DEF CrawlInv, ListedSoFar
<1>10. WorksReported'
  <2>1. fetch.at # "rest" => ~(works'[Len(works) + 1] < fetch.upTo)
    BY <1>1, <1>5 DEF CrawlInv, Window
  <2> QED
    BY <2>1, <1>1, <1>3, <1>4 DEF CrawlInv, WorksReported
<1>11. NothingLeftBehind'
  <2>1. ~(works'[Len(works) + 1] < earliest)
    BY <1>1, <1>5 DEF CrawlInv, Window
  <2> QED
    BY <2>1, <1>1, <1>3, <1>4 DEF CrawlInv, NothingLeftBehind
<1> QED
  BY <1>6, <1>7, <1>8, <1>9, <1>10, <1>11 DEF CrawlInv

LEMMA FetchBeginsKeeps == CrawlInv /\ FetchBegins => CrawlInv'
<1> SUFFICES ASSUME CrawlInv, FetchBegins PROVE CrawlInv'
  OBVIOUS
<1>t. CrawlTypeOK
  BY DEF CrawlInv
<1>1. UNCHANGED <<today, works, saved, earliest, excused>> /\ Works' = Works
  BY DEF FetchBegins, Works
<1>2. fetch' = [AtRest EXCEPT !.at = "page", !.from = earliest, !.upTo = today, !.edited = FALSE]
  BY DEF FetchBegins, Fetched
<1>3. /\ fetch'.at = "page" /\ fetch'.from = earliest /\ fetch'.upTo = today
      /\ fetch'.edited = FALSE /\ fetch'.cursor = MaxWorks + 1 /\ fetch'.items = {}
  BY <1>2 DEF AtRest
<1>4. CrawlTypeOK'
  BY <1>t, <1>1, <1>2, FetchTyped DEF CrawlTypeOK
<1>5. \A w \in Works : ~(w >= MaxWorks + 1)
  BY <1>t, HistoryTyped, FetchTyped
<1> QED
  BY <1>t, <1>1, <1>3, <1>4, <1>5, FetchTyped
  DEF CrawlInv, History, Window, ListedSoFar, WorksReported, NothingLeftBehind

LEMMA ListPageKeeps == CrawlInv /\ ListPage => CrawlInv'
<1> SUFFICES ASSUME CrawlInv, ListPage PROVE CrawlInv'
  OBVIOUS
<1>t. CrawlTypeOK
  BY DEF CrawlInv
<1>1. UNCHANGED <<today, works, saved, earliest, excused>> /\ Works' = Works
  BY DEF ListPage, Works
<1>2. PICK w : w = NextWork
  OBVIOUS
<1>3. /\ fetch.at = "page" /\ w > 0
      /\ fetch' = [fetch EXCEPT !.items = @ \cup {w}, !.cursor = w,
                                !.at = IF w = 1 \/ Early(w) THEN "load" ELSE "page"]
  BY <1>2 DEF ListPage
<1>4. /\ Len(works) \in Nat /\ Len(works) <= MaxWorks /\ Works = 1..Len(works)
      /\ MaxWorks \in Nat
  BY <1>t, HistoryTyped, FetchTyped
<1>5. w \in Works /\ (fetch.cursor <= Len(works) => w = fetch.cursor - 1)
                  /\ (fetch.cursor > Len(works) => w = Len(works))
  BY SMTT(30), <1>t, <1>2, <1>3, <1>4, FetchTyped DEF NextWork
<1>6. w \in 1..MaxWorks /\ w \in 1..(MaxWorks + 1)
  BY <1>4, <1>5
<1>7. /\ fetch'.at = (IF w = 1 \/ Early(w) THEN "load" ELSE "page")
      /\ fetch'.items = fetch.items \cup {w} /\ fetch'.cursor = w
      /\ fetch'.from = fetch.from /\ fetch'.upTo = fetch.upTo
      /\ fetch'.edited = fetch.edited /\ fetch'.broken = fetch.broken
  BY <1>t, <1>3 DEF CrawlTypeOK
<1>8. CrawlTypeOK'
  BY <1>t, <1>1, <1>3, <1>6 DEF CrawlTypeOK
<1>9. \A u \in Works : u >= w => u = w \/ u >= fetch.cursor
  <2>1. fetch.cursor \in Nat
    BY <1>t, FetchTyped
  <2> QED
    BY <2>1, <1>4, <1>5
<1>10. \A u \in Works : u >= w /\ works[u] < fetch.upTo => u \in fetch'.items
  BY <1>3, <1>7, <1>9 DEF CrawlInv, ListedSoFar
<1>11. w = 1 \/ Early(w) => \A u \in Works : u < w => works[u] < fetch.from
  <2> SUFFICES ASSUME w = 1 \/ Early(w), NEW u \in Works, u < w PROVE works[u] < fetch.from
    OBVIOUS
  <2>1. fetch.from > works[w] /\ works[u] <= works[w]
    BY <1>4, <1>5 DEF Early, CrawlInv, History
  <2>2. works[w] \in Nat /\ works[u] \in Nat /\ fetch.from \in Nat
    BY <1>t, <1>5, FetchTyped
  <2> QED
    BY <2>1, <2>2
<1>12. ListedSoFar'
  <2>1. fetch'.items \subseteq Works
    BY <1>5, <1>7 DEF CrawlInv, ListedSoFar
  <2> QED
    BY <1>1, <1>5, <1>7, <1>10, <1>11, <2>1 DEF ListedSoFar
<1>13. History' /\ Window' /\ WorksReported' /\ NothingLeftBehind'
  BY <1>1, <1>3, <1>7 DEF CrawlInv, History, Window, WorksReported, NothingLeftBehind
<1> QED
  BY <1>8, <1>12, <1>13 DEF CrawlInv

LEMMA ListBreaksKeeps == CrawlInv /\ ListBreaks => CrawlInv'
<1> SUFFICES ASSUME CrawlInv, ListBreaks PROVE CrawlInv'
  OBVIOUS
<1>t. CrawlTypeOK
  BY DEF CrawlInv
<1>1. UNCHANGED <<today, works, saved, earliest, excused>> /\ Works' = Works
  BY DEF ListBreaks, Works
<1>2. History' /\ NothingLeftBehind'
  BY <1>1 DEF CrawlInv, History, NothingLeftBehind
<1>3. CASE fetch' = AtRest
  BY <1>t, <1>1, <1>2, <1>3, FetchTyped DEF CrawlInv, CrawlTypeOK, Window, ListedSoFar, WorksReported, AtRest
<1>4. CASE fetch' = [fetch EXCEPT !.at = "load", !.broken = TRUE]
  <2>1. /\ fetch.at = "page" /\ fetch'.at = "load" /\ fetch'.broken = TRUE
        /\ fetch'.items = fetch.items /\ fetch'.cursor = fetch.cursor
        /\ fetch'.from = fetch.from /\ fetch'.upTo = fetch.upTo /\ fetch'.edited = fetch.edited
    BY <1>t, <1>4 DEF ListBreaks, CrawlTypeOK
  <2>2. CrawlTypeOK'
    BY <1>t, <1>1, <1>4 DEF CrawlTypeOK
  <2> QED
    BY <1>1, <1>2, <2>1, <2>2 DEF CrawlInv, Window, ListedSoFar, WorksReported
<1> QED
  BY <1>3, <1>4 DEF ListBreaks

LEMMA LoadKeeps == CrawlInv /\ Load => CrawlInv'
<1> SUFFICES ASSUME CrawlInv, Load PROVE CrawlInv'
  OBVIOUS
<1>t. CrawlTypeOK
  BY DEF CrawlInv
<1>1. UNCHANGED <<today, works, earliest, excused>> /\ Works' = Works /\ fetch.at = "load"
  BY DEF Load, Works
<1>2. PICK got \in SUBSET (Chosen \ saved) :
         /\ saved' = saved \cup got
         /\ fetch' = [fetch EXCEPT !.at = "report", !.ok = Chosen \subseteq saved']
  BY DEF Load
<1>3. /\ fetch'.at = "report" /\ fetch'.ok = (Chosen \subseteq saved')
      /\ fetch'.from = fetch.from /\ fetch'.upTo = fetch.upTo
      /\ fetch'.edited = fetch.edited /\ fetch'.broken = fetch.broken
  BY <1>t, <1>2 DEF CrawlTypeOK
<1>4. CrawlTypeOK'
  BY <1>t, <1>1, <1>2 DEF CrawlTypeOK, Chosen, CrawlInv, ListedSoFar
<1>5. History' /\ Window' /\ ListedSoFar' /\ NothingLeftBehind'
  <2>1. fetch'.items = fetch.items
    BY <1>t, <1>2 DEF CrawlTypeOK
  <2> QED
    BY <1>1, <1>2, <1>3, <2>1 DEF CrawlInv, History, Window, ListedSoFar, NothingLeftBehind
\* What is from within the window is chosen.
<1>6. ~fetch.broken => \A w \in Works : fetch.from <= works[w] /\ works[w] < fetch.upTo => w \in Chosen
  <2> SUFFICES ASSUME ~fetch.broken, NEW w \in Works, fetch.from <= works[w], works[w] < fetch.upTo
               PROVE  w \in Chosen
    OBVIOUS
  <2>1. /\ works[w] \in Nat /\ fetch.from \in Nat /\ fetch.upTo \in Nat /\ fetch.cursor \in Nat
        /\ Len(works) \in Nat /\ Works = 1..Len(works)
    BY <1>t, FetchTyped, HistoryTyped
  <2>2. ~(w < fetch.cursor)
    BY <1>1, <2>1 DEF CrawlInv, ListedSoFar
  <2>3. w >= fetch.cursor
    BY <2>1, <2>2
  <2>4. w \in fetch.items
    BY <1>1, <2>3 DEF CrawlInv, ListedSoFar
  <2> QED
    BY <2>1, <2>4 DEF Chosen
<1>7. WorksReported'
  BY <1>1, <1>3, <1>6 DEF WorksReported
<1> QED
  BY <1>4, <1>5, <1>7 DEF CrawlInv

LEMMA CrawlUpdateKeeps == CrawlInv /\ Update => CrawlInv'
<1> SUFFICES ASSUME CrawlInv, Update PROVE CrawlInv'
  OBVIOUS
<1>t. CrawlTypeOK
  BY DEF CrawlInv
<1>1. UNCHANGED <<today, works, saved>> /\ Works' = Works /\ fetch' = AtRest /\ fetch.at = "report"
  BY DEF Update, Works
<1>2. /\ today \in 0..MaxDay /\ earliest \in 0..MaxDay /\ Days \in Nat /\ MaxDay \in Nat
      /\ fetch.upTo \in Nat /\ fetch.from \in Nat /\ \A w \in Works : works[w] \in Nat
      /\ fetch.upTo <= today
  BY <1>t, <1>1, FetchTyped DEF CrawlTypeOK, CrawlInv, Window
<1>3. History'
  BY <1>1 DEF CrawlInv, History
<1>4. ListedSoFar' /\ WorksReported'
  BY <1>1 DEF ListedSoFar, WorksReported, AtRest
<1>5. CASE ~fetch.ok
  <2>1. UNCHANGED <<earliest, excused>>
    BY <1>5 DEF Update
  <2> QED
    BY <1>t, <1>1, <1>3, <1>4, <2>1, FetchTyped
    DEF CrawlInv, CrawlTypeOK, Window, NothingLeftBehind, AtRest
<1>6. CASE fetch.ok
  <2>1. /\ earliest' = (IF today > Days THEN today - Days ELSE 0)
        /\ excused' = (IF fetch.broken \/ fetch.edited \/ today > fetch.upTo + Days
                       THEN excused \cup (Works \ saved) ELSE excused)
    BY <1>6 DEF Update
  <2>2. earliest' \in 0..MaxDay /\ earliest' <= today
    BY <1>2, <2>1
  <2>3. CrawlTypeOK'
    BY <1>t, <1>1, <2>1, <2>2, FetchTyped DEF CrawlTypeOK
  <2>4. Window'
    BY <1>1, <2>2 DEF Window, AtRest
  <2>5. NothingLeftBehind'
    <3> SUFFICES ASSUME NEW w \in Works, works[w] < earliest' PROVE w \in saved \cup excused'
      BY <1>1 DEF NothingLeftBehind
    <3>1. CASE fetch.broken \/ fetch.edited \/ today > fetch.upTo + Days
      BY <2>1, <3>1
    <3>2. CASE ~(fetch.broken \/ fetch.edited \/ today > fetch.upTo + Days)
      \* The new date is not after the crawl's last day.
      <4>1. earliest' <= fetch.upTo
        BY <1>2, <2>1, <3>2
      <4>2. works[w] < fetch.upTo
        BY <1>2, <2>2, <4>1
      <4>3. CASE fetch.from <= works[w]
        BY <1>1, <1>6, <3>2, <4>2, <4>3 DEF CrawlInv, WorksReported
      <4>4. CASE works[w] < fetch.from
        <5>1. works[w] < earliest
          BY <1>1, <3>2, <4>4 DEF CrawlInv, Window
        <5> QED
          BY <2>1, <5>1 DEF CrawlInv, NothingLeftBehind
      <4> QED
        BY <1>2, <4>3, <4>4
    <3> QED
      BY <3>1, <3>2
  <2> QED
    BY <1>3, <1>4, <2>3, <2>4, <2>5 DEF CrawlInv
<1> QED
  BY <1>5, <1>6

LEMMA CrawlKilledKeeps == CrawlInv /\ CrawlKilled => CrawlInv'
<1> SUFFICES ASSUME CrawlInv, CrawlKilled PROVE CrawlInv'
  OBVIOUS
<1>t. CrawlTypeOK
  BY DEF CrawlInv
<1>1. UNCHANGED <<today, works, saved, earliest, excused>> /\ Works' = Works /\ fetch.at # "rest"
  BY DEF CrawlKilled, Works
<1>2. History' /\ NothingLeftBehind'
  BY <1>1 DEF CrawlInv, History, NothingLeftBehind
<1>3. CASE fetch' = AtRest
  BY <1>t, <1>1, <1>2, <1>3, FetchTyped DEF CrawlInv, CrawlTypeOK, Window, ListedSoFar, WorksReported, AtRest
<1>4. CASE Fetched(fetch.from, fetch.edited)
  <2>1. fetch' = [AtRest EXCEPT !.at = "page", !.from = fetch.from, !.upTo = today, !.edited = fetch.edited]
    BY <1>4 DEF Fetched
  <2>2. /\ fetch'.at = "page" /\ fetch'.from = fetch.from /\ fetch'.upTo = today
        /\ fetch'.edited = fetch.edited /\ fetch'.cursor = MaxWorks + 1 /\ fetch'.items = {}
    BY <2>1 DEF AtRest
  <2>3. CrawlTypeOK'
    BY <1>t, <1>1, <2>1, FetchTyped DEF CrawlTypeOK
  <2>4. \A w \in Works : ~(w >= MaxWorks + 1)
    BY <1>t, HistoryTyped, FetchTyped
  <2>5. Window' /\ ListedSoFar' /\ WorksReported'
    BY <1>t, <1>1, <2>2, <2>4, FetchTyped DEF CrawlInv, Window, ListedSoFar, WorksReported
  <2> QED
    BY <1>2, <2>3, <2>5 DEF CrawlInv
<1> QED
  BY <1>3, <1>4 DEF CrawlKilled

LEMMA MidnightKeeps == CrawlInv /\ Midnight => CrawlInv'
<1> SUFFICES ASSUME CrawlInv, Midnight PROVE CrawlInv'
  OBVIOUS
<1>t. CrawlTypeOK
  BY DEF CrawlInv
<1>1. UNCHANGED <<works, saved, earliest, fetch, excused>> /\ Works' = Works
  BY DEF Midnight, Works
<1>2. today \in Nat /\ MaxDay \in Nat /\ today' = today + 1 /\ today' <= MaxDay
  BY <1>t, FetchTyped DEF Midnight
<1>3. CrawlTypeOK'
  BY <1>t, <1>1, <1>2 DEF CrawlTypeOK
<1>4. History' /\ Window'
  BY <1>t, <1>1, <1>2, FetchTyped DEF CrawlInv, History, Window
<1>5. ListedSoFar' /\ WorksReported' /\ NothingLeftBehind'
  BY <1>1 DEF CrawlInv, ListedSoFar, WorksReported, NothingLeftBehind
<1> QED
  BY <1>3, <1>4, <1>5 DEF CrawlInv

LEMMA SetEarliestKeeps == ASSUME CrawlInv, NEW d \in 0..today, SetEarliest(d) PROVE CrawlInv'
<1>t. CrawlTypeOK
  BY DEF CrawlInv
<1>1. UNCHANGED <<today, works, saved>> /\ Works' = Works
  BY DEF SetEarliest, Works
<1>2. /\ earliest' = d /\ excused' = {w \in Works : works[w] < d}
      /\ fetch' = [fetch EXCEPT !.edited = fetch.at # "rest"]
  BY DEF SetEarliest
<1>3. /\ fetch'.at = fetch.at /\ fetch'.edited = (fetch.at # "rest")
      /\ fetch'.items = fetch.items /\ fetch'.cursor = fetch.cursor /\ fetch'.ok = fetch.ok
      /\ fetch'.from = fetch.from /\ fetch'.upTo = fetch.upTo /\ fetch'.broken = fetch.broken
  BY <1>t, <1>2 DEF CrawlTypeOK
<1>4. d \in 0..MaxDay /\ d <= today
  BY <1>t, FetchTyped DEF CrawlTypeOK
<1>5. CrawlTypeOK'
  BY <1>t, <1>1, <1>2, <1>4 DEF CrawlTypeOK
<1>6. History' /\ ListedSoFar' /\ WorksReported'
  BY <1>1, <1>3 DEF CrawlInv, History, ListedSoFar, WorksReported
<1>7. Window'
  BY <1>1, <1>2, <1>3, <1>4 DEF CrawlInv, Window
<1>8. NothingLeftBehind'
  BY <1>1, <1>2 DEF NothingLeftBehind
<1> QED
  BY <1>5, <1>6, <1>7, <1>8 DEF CrawlInv

LEMMA CrawlStepsKeep == CrawlInv /\ [CrawlNext]_crawlerVars => CrawlInv'
<1> SUFFICES ASSUME CrawlInv, [CrawlNext]_crawlerVars PROVE CrawlInv'
  OBVIOUS
<1>1. CASE UNCHANGED crawlerVars
  <2>1. UNCHANGED <<today, works, saved, earliest, fetch, excused>> /\ Works' = Works
    BY <1>1 DEF crawlerVars, Works
  <2> QED
    BY <2>1 DEF CrawlInv, CrawlTypeOK, History, Window, ListedSoFar, WorksReported, NothingLeftBehind
<1>2. ASSUME NEW d \in 0..today, SetEarliest(d) PROVE CrawlInv'
  BY <1>2, SetEarliestKeeps
<1> QED
  BY <1>1, <1>2, FetchBeginsKeeps, ListPageKeeps, ListBreaksKeeps, LoadKeeps, CrawlUpdateKeeps,
     CrawlKilledKeeps, PublishesKeeps, MidnightKeeps DEF CrawlNext

-----------------------------------------------------------------------------
(* The theorems *)

LEMMA CrawlInvariance == CrawlSpec => []CrawlInv
  BY CrawlInitHolds, CrawlStepsKeep, PTL DEF CrawlSpec

\* Every state of an account's crawls is well typed.
THEOREM CrawlTypeCorrect == CrawlSpec => []CrawlTypeOK
<1>1. CrawlInv => CrawlTypeOK
  BY DEF CrawlInv
<1> QED
  BY <1>1, CrawlInvariance, PTL

\* For any days, works and crawls, every work from before the account's
\* "earliest" is downloaded or excused.
THEOREM CrawlLeavesNothing == CrawlSpec => []NothingLeftBehind
<1>1. CrawlInv => NothingLeftBehind
  BY DEF CrawlInv
<1> QED
  BY <1>1, CrawlInvariance, PTL

-----------------------------------------------------------------------------
(* AccountVerdict: the inductive invariant.                                *)

\* A worker takes only restricted accounts for restricted.
Grounded == \A v \in Visitors : state[v] \in restricted \cup {NoHome}

\* A visit that has begun has an account.
Aimed == \A v \in Visitors : visit[v].at # "idle" => visit[v].home \in Homes

\* The answer that the worker's diagnostic of the account is about.
LastAsked(x) == IF x.info = Unasked THEN x.profile ELSE x.info

\* The works of the account are asked for, or loaded: the worker's diagnostics
\* are those of this visit, and the worker says of the account what its
\* profile said.
Crawling(x, s, ie, it) ==
    /\ ~x.verify /\ ~it
    /\ ie <=> LastAsked(x) = "error"
    /\ s = IF x.profile = "given" /\ x.home \in restricted THEN x.home ELSE NoHome
    /\ ~auto \/ s = NoHome

\* How visit x stands to the fields s, ie and it of its own worker.
InStep(x, s, ie, it) ==
    /\ x.at = "profile" =>
          x.profile = Unasked /\ x.info = Unasked /\ x.items = Unasked /\ (x.verify \/ ~it)
    /\ x.at = "info" =>
          /\ x.profile \in {"none", "error"} /\ x.info = Unasked /\ x.items = Unasked
          /\ s = NoHome /\ (x.verify \/ ~it)
    /\ x.at = "items" => Crawling(x, s, ie, it) /\ x.items = Unasked
    /\ x.at = "load" => Crawling(x, s, ie, it) /\ x.items = "given"
    /\ x.at = "done" => x.verdict \subseteq Own(x)

\* Every visit with a worker of its own is in step with it.
AllInStep ==
    ~shared => \A v \in Visitors : InStep(visit[v], state[v], infoError[v], itemsError[v])

ArchivedRight == archived \subseteq restricted

VerdictInv == VerdictTypeOK /\ Grounded /\ Aimed /\ ArchivedRight /\ AllInStep

Visits == [at : {"idle", "profile", "info", "items", "load", "done"},
           home : Homes \cup {NoHome}, verify : BOOLEAN,
           profile : Replies \cup {Unasked, "foreign"},
           info : Replies \cup {Unasked}, items : Replies \cup {Unasked},
           verdict : {{}} \cup {{x} : x \in Verdicts}]

VerdictsSettled == UNCHANGED <<restricted, auto, shared>>

-----------------------------------------------------------------------------
(* Lemmas *)

\* Somebody is the worker of every visitor, and with workers of their own it
\* is the visitor.
LEMMA WorkerIs ==
    ASSUME NEW v \in Visitors
    PROVE  Worker(v) \in Visitors /\ (~shared => Worker(v) = v)
  BY DEF Worker

\* A step of visitor v that writes the fields of its worker alone preserves
\* the invariant when it leaves the visit in step with the worker.
LEMMA VerdictFrame ==
    ASSUME VerdictInv, NEW v \in Visitors, NEW x \in Visits,
           NEW s \in restricted \cup {NoHome}, NEW ie \in BOOLEAN, NEW it \in BOOLEAN,
           VerdictsSettled, visits' \in 0..MaxVisits,
           visit' = [visit EXCEPT ![v] = x],
           state' = [state EXCEPT ![Worker(v)] = s],
           infoError' = [infoError EXCEPT ![Worker(v)] = ie],
           itemsError' = [itemsError EXCEPT ![Worker(v)] = it],
           x.at # "idle" => x.home \in Homes,
           archived' \subseteq restricted,
           ~shared => InStep(x, s, ie, it)
    PROVE  VerdictInv'
<1>1. Worker(v) \in Visitors /\ (~shared => Worker(v) = v)
  BY WorkerIs
<1>2. /\ restricted \subseteq Homes
      /\ state \in [Visitors -> Homes \cup {NoHome}]
      /\ infoError \in [Visitors -> BOOLEAN] /\ itemsError \in [Visitors -> BOOLEAN]
      /\ visit \in [Visitors -> Visits]
  BY DEF VerdictInv, VerdictTypeOK, Visits
<1>3. /\ state' \in [Visitors -> Homes \cup {NoHome}]
      /\ infoError' \in [Visitors -> BOOLEAN] /\ itemsError' \in [Visitors -> BOOLEAN]
      /\ visit' \in [Visitors -> Visits]
  BY <1>1, <1>2
<1>4. VerdictTypeOK'
  BY <1>2, <1>3 DEF VerdictInv, VerdictTypeOK, Visits, VerdictsSettled
<1>5. Grounded'
  BY <1>1, <1>2 DEF VerdictInv, Grounded, VerdictsSettled
<1>6. Aimed'
  BY <1>2 DEF VerdictInv, Aimed
<1>7. ArchivedRight'
  BY DEF ArchivedRight, VerdictsSettled
<1>8. AllInStep'
  <2> SUFFICES ASSUME ~shared, NEW u \in Visitors
               PROVE  InStep(visit[u], state[u], infoError[u], itemsError[u])'
    BY DEF AllInStep, VerdictsSettled
  <2>1. CASE u = v
    <3>1. visit'[u] = x /\ state'[u] = s /\ infoError'[u] = ie /\ itemsError'[u] = it
      BY <1>1, <1>2, <2>1
    <3>2. InStep(x, s, ie, it)
      OBVIOUS
    <3> QED
      BY <3>1, <3>2 DEF InStep, Crawling, LastAsked, Own, VerdictsSettled
  <2>2. CASE u # v
    <3>1. /\ visit'[u] = visit[u] /\ state'[u] = state[u]
          /\ infoError'[u] = infoError[u] /\ itemsError'[u] = itemsError[u]
      BY <1>1, <1>2, <2>2
    <3>2. InStep(visit[u], state[u], infoError[u], itemsError[u])
      BY DEF VerdictInv, AllInStep
    <3> QED
      BY <3>1, <3>2 DEF InStep, Crawling, LastAsked, Own, VerdictsSettled
  <2> QED
    BY <2>1, <2>2
<1> QED
  BY <1>4, <1>5, <1>6, <1>7, <1>8 DEF VerdictInv

\* What visitor v and its worker are before a step.
LEMMA Before ==
    ASSUME VerdictInv, NEW v \in Visitors
    PROVE  /\ visit[v] \in Visits
           /\ visit[v].at # "idle" => visit[v].home \in Homes /\ visit[v].home # NoHome
           /\ state[Worker(v)] \in restricted \cup {NoHome}
           /\ infoError[Worker(v)] \in BOOLEAN /\ itemsError[Worker(v)] \in BOOLEAN
           /\ state = [state EXCEPT ![Worker(v)] = state[Worker(v)]]
           /\ infoError = [infoError EXCEPT ![Worker(v)] = infoError[Worker(v)]]
           /\ itemsError = [itemsError EXCEPT ![Worker(v)] = itemsError[Worker(v)]]
           /\ ~shared => InStep(visit[v], state[Worker(v)], infoError[Worker(v)],
                                itemsError[Worker(v)])
<1>1. Worker(v) \in Visitors /\ (~shared => Worker(v) = v)
  BY WorkerIs
<1>2. /\ state \in [Visitors -> Homes \cup {NoHome}]
      /\ infoError \in [Visitors -> BOOLEAN] /\ itemsError \in [Visitors -> BOOLEAN]
      /\ visit \in [Visitors -> Visits]
  BY DEF VerdictInv, VerdictTypeOK, Visits
<1>3. visit[v].at # "idle" => visit[v].home \in Homes /\ visit[v].home # NoHome
  BY VerdictAssumption DEF VerdictInv, Aimed
<1>4. state[Worker(v)] \in restricted \cup {NoHome}
  BY <1>1 DEF VerdictInv, Grounded
<1>5. ~shared => InStep(visit[v], state[Worker(v)], infoError[Worker(v)], itemsError[Worker(v)])
  BY <1>1 DEF VerdictInv, AllInStep
<1> QED
  BY <1>1, <1>2, <1>3, <1>4, <1>5

\* The end of a visit preserves the invariant when its verdict is made of its
\* own answers: only a worker that says "restricted" of this account archives.
LEMMA VisitEndsKeeps ==
    ASSUME VerdictInv, NEW v \in Visitors, NEW x \in Visits, NEW verdict \in Verdicts,
           NEW s \in restricted \cup {NoHome}, NEW ie \in BOOLEAN, NEW it \in BOOLEAN,
           VerdictsSettled, visits' = visits,
           state' = [state EXCEPT ![Worker(v)] = s],
           infoError' = [infoError EXCEPT ![Worker(v)] = ie],
           itemsError' = [itemsError EXCEPT ![Worker(v)] = it],
           visit[v].at # "idle", x.home = visit[v].home,
           Ends(v, x, verdict),
           ~shared => verdict \in Own(x)
    PROVE  VerdictInv'
<1> DEFINE y == [x EXCEPT !.at = "done", !.verdict = {verdict}]
<1>1. y \in Visits /\ y.at = "done" /\ y.verdict = {verdict} /\ y.home = x.home
  BY DEF Visits
<1>2. y.home \in Homes /\ y.home # NoHome
  BY <1>1, Before
<1>3. state'[Worker(v)] = s
  BY WorkerIs DEF VerdictInv, VerdictTypeOK
<1>4. archived' \subseteq restricted
  BY <1>1, <1>2, <1>3 DEF Ends, Archives, Validates, VerdictInv, ArchivedRight
<1>5. Own(y) = Own(x)
  BY DEF Own, Visits
<1>6. ~shared => InStep(y, s, ie, it)
  BY <1>1, <1>5 DEF InStep
<1>7. visit' = [visit EXCEPT ![v] = y]
  BY DEF Ends
<1>8. visits' \in 0..MaxVisits
  BY DEF VerdictInv, VerdictTypeOK
<1> HIDE DEF y
<1> QED
  BY <1>1, <1>2, <1>4, <1>6, <1>7, <1>8, VerdictFrame

\* A visit that goes on preserves the invariant when it stays in step.
LEMMA VisitContinuesKeeps ==
    ASSUME VerdictInv, NEW v \in Visitors, NEW x \in Visits,
           NEW s \in restricted \cup {NoHome}, NEW ie \in BOOLEAN, NEW it \in BOOLEAN,
           VerdictsSettled, visits' = visits,
           state' = [state EXCEPT ![Worker(v)] = s],
           infoError' = [infoError EXCEPT ![Worker(v)] = ie],
           itemsError' = [itemsError EXCEPT ![Worker(v)] = it],
           x.at # "idle" => x.home \in Homes,
           Continues(v, x),
           ~shared => InStep(x, s, ie, it)
    PROVE  VerdictInv'
<1>1. visit' = [visit EXCEPT ![v] = x] /\ archived' \subseteq restricted
  BY DEF Continues, VerdictInv, ArchivedRight
<1>2. visits' \in 0..MaxVisits
  BY DEF VerdictInv, VerdictTypeOK
<1> QED
  BY <1>1, <1>2, VerdictFrame

\* What deal_account_detail and _verify_accounts make of the profile.
LEMMA VisitInformedKeeps ==
    ASSUME VerdictInv, NEW v \in Visitors, NEW x \in Visits, NEW found \in BOOLEAN,
           NEW s \in restricted \cup {NoHome}, NEW ie \in BOOLEAN, NEW it \in BOOLEAN,
           VerdictsSettled, visits' = visits,
           state' = [state EXCEPT ![Worker(v)] = s],
           infoError' = [infoError EXCEPT ![Worker(v)] = ie],
           itemsError' = [itemsError EXCEPT ![Worker(v)] = it],
           visit[v].at # "idle", x.home = visit[v].home, x.at # "idle",
           Informed(v, x, found),
           ~shared =>
              /\ x.items = Unasked
              /\ x.profile \in {"given", "foreign"} => x.info = Unasked
              /\ found <=> (x.profile \in {"given", "foreign"} \/ x.info = "given")
              /\ s = IF x.profile = "given" /\ x.home \in restricted THEN x.home ELSE NoHome
              /\ ie <=> LastAsked(x) = "error"
              /\ x.verify \/ ~it
    PROVE  VerdictInv'
<1>1. /\ state'[Worker(v)] = s
      /\ infoError'[Worker(v)] = ie /\ itemsError'[Worker(v)] = it
  BY WorkerIs DEF VerdictInv, VerdictTypeOK
<1>2. x.home \in Homes /\ x.home # NoHome
  BY Before
<1>3. CASE x.verify
  <2>1. PICK verdict \in Verdicts :
           /\ Ends(v, x, verdict)
           /\ verdict = IF s = x.home THEN "restricted"
                        ELSE IF found /\ x.profile # "foreign" THEN "success" ELSE "empty"
    BY <1>1, <1>3 DEF Informed, Validates, Verdicts
  <2>2. ~shared => verdict \in Own(x)
    BY <1>2, <1>3, <2>1 DEF Own, LastAsked, Replies, Unasked
  <2> QED
    BY <2>1, <2>2, VisitEndsKeeps
<1>4. CASE ~x.verify /\ ~found /\ Ends(v, x, EmptyVerdict(v))
  <2>1. PICK verdict \in Verdicts :
           /\ Ends(v, x, verdict)
           /\ verdict = IF s = x.home THEN "restricted"
                        ELSE IF it \/ ie THEN "request" ELSE "empty"
    BY <1>1, <1>4 DEF EmptyVerdict, RequestFailed, Verdicts
  <2>2. ~shared => verdict \in Own(x)
    BY <1>2, <1>4, <2>1 DEF Own, LastAsked, Replies, Unasked
  <2> QED
    BY <2>1, <2>2, VisitEndsKeeps
<1>5. CASE ~x.verify /\ auto /\ s # NoHome /\ Ends(v, x, "restricted")
  <2>1. "restricted" \in Verdicts
    BY DEF Verdicts
  <2>2. ~shared => "restricted" \in Own(x)
    BY <1>5 DEF Own
  <2> QED
    BY <1>5, <2>1, <2>2, VisitEndsKeeps
<1>6. CASE /\ ~x.verify /\ ~(auto /\ s # NoHome)
           /\ Continues(v, [x EXCEPT !.at = "items"])
  <2> DEFINE y == [x EXCEPT !.at = "items"]
  <2>1. y \in Visits /\ y.at = "items" /\ y.home = x.home
    BY DEF Visits
  <2>2. /\ y.verify = x.verify /\ y.profile = x.profile
        /\ y.info = x.info /\ y.items = x.items
    BY DEF Visits
  <2>3. ~shared => InStep(y, s, ie, it)
    BY <1>6, <2>1, <2>2 DEF InStep, Crawling, LastAsked, Replies, Unasked
  <2> HIDE DEF y
  <2>4. Continues(v, y)
    BY <1>6 DEF y
  <2> QED
    BY <1>2, <2>1, <2>3, <2>4, VisitContinuesKeeps
<1> QED
  BY <1>1, <1>3, <1>4, <1>5, <1>6 DEF Informed

-----------------------------------------------------------------------------
(* The steps *)

LEMMA VerdictInitHolds == VerdictInit => VerdictInv
<1> SUFFICES ASSUME VerdictInit PROVE VerdictInv
  OBVIOUS
<1>1. NoVisit \in Visits /\ NoVisit.at = "idle"
  BY DEF NoVisit, Visits
<1>2. VerdictTypeOK
  BY <1>1, VerdictAssumption DEF VerdictInit, VerdictTypeOK, Visits
<1>3. Grounded /\ Aimed /\ ArchivedRight /\ AllInStep
  BY <1>1 DEF VerdictInit, Grounded, Aimed, ArchivedRight, AllInStep, InStep
<1> QED
  BY <1>2, <1>3 DEF VerdictInv

LEMMA VisitBeginsKeeps ==
    ASSUME VerdictInv, NEW v \in Visitors, NEW h \in Homes, VisitBegins(v, h) \/ Verify(v, h)
    PROVE  VerdictInv'
<1>1. PICK x \in Visits, it \in BOOLEAN, ie \in BOOLEAN :
         /\ x = [NoVisit EXCEPT !.at = "profile", !.home = h, !.verify = x.verify]
         /\ visit' = [visit EXCEPT ![v] = x]
         /\ infoError' = [infoError EXCEPT ![Worker(v)] = ie]
         /\ itemsError' = [itemsError EXCEPT ![Worker(v)] = it]
         /\ x.verify \/ ~it
  <2>1. CASE VisitBegins(v, h)
    <3>1. [NoVisit EXCEPT !.at = "profile", !.home = h] \in Visits
      BY DEF NoVisit, Visits
    <3> QED
      BY <2>1, <3>1 DEF VisitBegins, NoVisit
  <2>2. CASE Verify(v, h)
    <3>1. [NoVisit EXCEPT !.at = "profile", !.home = h, !.verify = TRUE] \in Visits
      BY DEF NoVisit, Visits
    <3>2. /\ infoError' = [infoError EXCEPT ![Worker(v)] = infoError[Worker(v)]]
          /\ itemsError' = [itemsError EXCEPT ![Worker(v)] = itemsError[Worker(v)]]
          /\ infoError[Worker(v)] \in BOOLEAN /\ itemsError[Worker(v)] \in BOOLEAN
      BY <2>2, Before DEF Verify
    <3> QED
      BY <2>2, <3>1, <3>2 DEF Verify, NoVisit
  <2> QED
    BY <2>1, <2>2
<1>2. /\ x.at = "profile" /\ x.home = h
      /\ x.profile = Unasked /\ x.info = Unasked /\ x.items = Unasked
  BY <1>1 DEF NoVisit
<1>3. /\ state' = [state EXCEPT ![Worker(v)] = NoHome]
      /\ visits' \in 0..MaxVisits /\ VerdictsSettled /\ archived' \subseteq restricted
  BY VerdictAssumption
     DEF VisitBegins, Verify, VerdictsSettled, VerdictInv, VerdictTypeOK, ArchivedRight
<1>4. InStep(x, NoHome, ie, it)
  BY <1>1, <1>2 DEF InStep
<1> QED
  BY <1>1, <1>2, <1>3, <1>4, VerdictFrame

LEMMA ProfileComesKeeps ==
    ASSUME VerdictInv, NEW v \in Visitors, NEW a \in Replies \cup {"foreign"}, ProfileComes(v, a)
    PROVE  VerdictInv'
<1> DEFINE x == [visit[v] EXCEPT !.profile = a]
<1>1. PICK s \in restricted \cup {NoHome}, ie \in BOOLEAN, it \in BOOLEAN :
         /\ s = IF a = "given" /\ visit[v].home \in restricted THEN visit[v].home ELSE NoHome
         /\ ie = (a = "error")
         /\ it = itemsError[Worker(v)]
  BY Before
<1>2. /\ x \in Visits /\ x.at = "profile" /\ x.home = visit[v].home /\ x.profile = a
      /\ x.verify = visit[v].verify /\ x.info = visit[v].info /\ x.items = visit[v].items
  BY Before DEF Visits, ProfileComes
<1>3. /\ visit[v].at = "profile" /\ x.home \in Homes
      /\ state' = [state EXCEPT ![Worker(v)] = s]
      /\ infoError' = [infoError EXCEPT ![Worker(v)] = ie]
      /\ itemsError' = [itemsError EXCEPT ![Worker(v)] = it]
      /\ VerdictsSettled /\ visits' = visits
  BY <1>1, <1>2, Before DEF ProfileComes, Diagnosed, Confirms, VerdictsSettled
<1>4. ~shared => x.info = Unasked /\ x.items = Unasked /\ (x.verify \/ ~it)
  BY <1>1, <1>2, <1>3, Before DEF InStep
<1>5. CASE a \in {"given", "foreign"} /\ Informed(v, x, TRUE)
  <2>1. ~shared =>
           /\ x.items = Unasked
           /\ x.profile \in {"given", "foreign"} => x.info = Unasked
           /\ TRUE <=> (x.profile \in {"given", "foreign"} \/ x.info = "given")
           /\ s = IF x.profile = "given" /\ x.home \in restricted THEN x.home ELSE NoHome
           /\ ie <=> LastAsked(x) = "error"
           /\ x.verify \/ ~it
    BY <1>1, <1>2, <1>4, <1>5 DEF LastAsked
  <2> HIDE DEF x
  <2> QED
    BY <1>2, <1>3, <1>5, <2>1, VisitInformedKeeps
<1>6. CASE a \notin {"given", "foreign"} /\ Continues(v, [x EXCEPT !.at = "info"])
  <2> DEFINE y == [x EXCEPT !.at = "info"]
  <2>1. /\ y \in Visits /\ y.at = "info" /\ y.home = x.home /\ y.profile = a
        /\ y.verify = x.verify /\ y.info = x.info /\ y.items = x.items
    BY <1>2 DEF Visits
  <2>2. ~shared => InStep(y, s, ie, it)
    BY <1>1, <1>4, <1>6, <2>1 DEF InStep, Replies
  <2>3. Continues(v, y) /\ y.home \in Homes
    BY <1>3, <1>6, <2>1
  <2> HIDE DEF y
  <2> QED
    BY <1>3, <2>1, <2>2, <2>3, VisitContinuesKeeps
<1> QED
  BY <1>5, <1>6 DEF ProfileComes

LEMMA InfoComesKeeps ==
    ASSUME VerdictInv, NEW v \in Visitors, NEW a \in Replies, InfoComes(v, a)
    PROVE  VerdictInv'
<1> DEFINE x == [visit[v] EXCEPT !.info = a]
<1>1. PICK s \in restricted \cup {NoHome}, ie \in BOOLEAN, it \in BOOLEAN :
         s = state[Worker(v)] /\ ie = (a = "error") /\ it = itemsError[Worker(v)]
  BY Before
<1>2. /\ x \in Visits /\ x.at = "info" /\ x.home = visit[v].home /\ x.info = a
      /\ x.verify = visit[v].verify /\ x.profile = visit[v].profile
      /\ x.items = visit[v].items
  BY Before DEF Visits, InfoComes
<1>3. /\ visit[v].at = "info"
      /\ state' = [state EXCEPT ![Worker(v)] = s]
      /\ infoError' = [infoError EXCEPT ![Worker(v)] = ie]
      /\ itemsError' = [itemsError EXCEPT ![Worker(v)] = it]
      /\ VerdictsSettled /\ visits' = visits
  BY <1>1, Before DEF InfoComes, Diagnosed, VerdictsSettled
<1>4. PICK found \in BOOLEAN : found = (a = "given") /\ Informed(v, x, found)
  BY DEF InfoComes
<1>5. ~shared =>
         /\ x.items = Unasked
         /\ x.profile \in {"given", "foreign"} => x.info = Unasked
         /\ found <=> (x.profile \in {"given", "foreign"} \/ x.info = "given")
         /\ s = IF x.profile = "given" /\ x.home \in restricted THEN x.home ELSE NoHome
         /\ ie <=> LastAsked(x) = "error"
         /\ x.verify \/ ~it
  BY <1>1, <1>2, <1>3, <1>4, Before DEF InStep, LastAsked, Replies, Unasked
<1> HIDE DEF x
<1> QED
  BY <1>2, <1>3, <1>4, <1>5, VisitInformedKeeps

LEMMA ItemsComeKeeps ==
    ASSUME VerdictInv, NEW v \in Visitors, NEW a \in Replies, ItemsCome(v, a)
    PROVE  VerdictInv'
<1> DEFINE x == [visit[v] EXCEPT !.items = a]
<1>1. PICK s \in restricted \cup {NoHome}, ie \in BOOLEAN, it \in BOOLEAN :
         s = state[Worker(v)] /\ ie = infoError[Worker(v)] /\ it = (a = "error")
  BY Before
<1>2. /\ x \in Visits /\ x.at = "items" /\ x.home = visit[v].home /\ x.items = a
      /\ x.verify = visit[v].verify /\ x.profile = visit[v].profile
      /\ x.info = visit[v].info
  BY Before DEF Visits, ItemsCome
<1>3. /\ visit[v].at = "items" /\ x.home \in Homes /\ x.home # NoHome
      /\ state' = [state EXCEPT ![Worker(v)] = s]
      /\ infoError' = [infoError EXCEPT ![Worker(v)] = ie]
      /\ itemsError' = [itemsError EXCEPT ![Worker(v)] = it]
      /\ VerdictsSettled /\ visits' = visits
  BY <1>1, <1>2, Before DEF ItemsCome, Diagnosed, VerdictsSettled
<1>4. /\ state'[Worker(v)] = s
      /\ infoError'[Worker(v)] = ie /\ itemsError'[Worker(v)] = it
  BY <1>3, WorkerIs DEF VerdictInv, VerdictTypeOK
<1>5. ~shared => Crawling(visit[v], s, ie, FALSE)
  BY <1>1, <1>3, Before DEF InStep, Crawling
<1>6. CASE a = "given" /\ Continues(v, [x EXCEPT !.at = "load"])
  <2> DEFINE y == [x EXCEPT !.at = "load"]
  <2>1. /\ y \in Visits /\ y.at = "load" /\ y.home = x.home /\ y.items = a
        /\ y.verify = x.verify /\ y.info = x.info /\ y.profile = x.profile
    BY <1>2 DEF Visits
  <2>2. ~shared => InStep(y, s, ie, it)
    BY <1>1, <1>2, <1>5, <1>6, <2>1 DEF InStep, Crawling, LastAsked
  <2>3. Continues(v, y) /\ y.home \in Homes
    BY <1>3, <1>6, <2>1
  <2> HIDE DEF y
  <2> QED
    BY <1>3, <2>1, <2>2, <2>3, VisitContinuesKeeps
<1>7. CASE a # "given" /\ Ends(v, x, EmptyVerdict(v))
  <2>1. PICK verdict \in Verdicts :
           /\ Ends(v, x, verdict)
           /\ verdict = IF s = x.home THEN "restricted"
                        ELSE IF it \/ ie THEN "request" ELSE "empty"
    BY <1>2, <1>4, <1>7 DEF EmptyVerdict, RequestFailed, Verdicts
  <2>2. ~shared => verdict \in Own(x)
    BY <1>1, <1>2, <1>3, <1>5, <1>7, <2>1 DEF Own, Crawling, LastAsked, Replies, Unasked
  <2> HIDE DEF x
  <2> QED
    BY <1>2, <1>3, <2>1, <2>2, VisitEndsKeeps
<1> QED
  BY <1>6, <1>7 DEF ItemsCome

LEMMA VisitLoadedKeeps == ASSUME VerdictInv, NEW v \in Visitors, Loaded(v) PROVE VerdictInv'
<1>1. PICK verdict \in Verdicts :
         /\ verdict \in IF visit[v].profile = "foreign" THEN {"parse"} ELSE {"success", "download"}
         /\ Ends(v, visit[v], verdict)
  BY DEF Loaded, Verdicts
<1>2. visit[v] \in Visits /\ visit[v].at = "load" /\ VerdictsSettled /\ visits' = visits
  BY Before DEF Loaded, VerdictsSettled
<1>3. ~shared => verdict \in Own(visit[v])
  BY <1>1, <1>2, Before DEF InStep, Crawling, Own
<1>4. PICK s \in restricted \cup {NoHome}, ie \in BOOLEAN, it \in BOOLEAN :
         /\ state' = [state EXCEPT ![Worker(v)] = s]
         /\ infoError' = [infoError EXCEPT ![Worker(v)] = ie]
         /\ itemsError' = [itemsError EXCEPT ![Worker(v)] = it]
  BY Before DEF Loaded
<1> QED
  BY <1>1, <1>2, <1>3, <1>4, VisitEndsKeeps

LEMMA VisitBreaksKeeps == ASSUME VerdictInv, NEW v \in Visitors, VisitBreaks(v) PROVE VerdictInv'
<1>1. NoVisit \in Visits /\ NoVisit.at = "idle"
  BY DEF NoVisit, Visits
<1>2. PICK s \in restricted \cup {NoHome}, ie \in BOOLEAN, it \in BOOLEAN :
         /\ state' = [state EXCEPT ![Worker(v)] = s]
         /\ infoError' = [infoError EXCEPT ![Worker(v)] = ie]
         /\ itemsError' = [itemsError EXCEPT ![Worker(v)] = it]
  BY Before DEF VisitBreaks
<1>3. Continues(v, NoVisit) /\ VerdictsSettled /\ visits' = visits
  BY DEF VisitBreaks, VerdictsSettled
<1>4. InStep(NoVisit, s, ie, it)
  BY <1>1 DEF InStep
<1> QED
  BY <1>1, <1>2, <1>3, <1>4, VisitContinuesKeeps

LEMMA VerdictStepsKeep == VerdictInv /\ [VerdictNext]_verdictVars => VerdictInv'
<1> SUFFICES ASSUME VerdictInv, [VerdictNext]_verdictVars PROVE VerdictInv'
  OBVIOUS
<1>1. ASSUME NEW v \in Visitors, NEW h \in Homes, VisitBegins(v, h) \/ Verify(v, h) PROVE VerdictInv'
  BY <1>1, VisitBeginsKeeps
<1>2. ASSUME NEW v \in Visitors, NEW a \in Replies \cup {"foreign"}, ProfileComes(v, a) PROVE VerdictInv'
  BY <1>2, ProfileComesKeeps
<1>3. ASSUME NEW v \in Visitors, NEW a \in Replies, InfoComes(v, a) PROVE VerdictInv'
  BY <1>3, InfoComesKeeps
<1>4. ASSUME NEW v \in Visitors, NEW a \in Replies, ItemsCome(v, a) PROVE VerdictInv'
  BY <1>4, ItemsComeKeeps
<1>5. ASSUME NEW v \in Visitors, Loaded(v) PROVE VerdictInv'
  BY <1>5, VisitLoadedKeeps
<1>6. ASSUME NEW v \in Visitors, VisitBreaks(v) PROVE VerdictInv'
  BY <1>6, VisitBreaksKeeps
<1>7. CASE UNCHANGED verdictVars
  <2>1. VerdictTypeOK'
    BY <1>7 DEF verdictVars, VerdictInv, VerdictTypeOK
  <2>2. Grounded' /\ Aimed' /\ ArchivedRight'
    BY <1>7 DEF verdictVars, VerdictInv, Grounded, Aimed, ArchivedRight
  <2>3. AllInStep'
    BY <1>7 DEF verdictVars, VerdictInv, AllInStep, InStep, Crawling, LastAsked, Own
  <2> QED
    BY <2>1, <2>2, <2>3 DEF VerdictInv
<1> QED
  BY <1>1, <1>2, <1>3, <1>4, <1>5, <1>6, <1>7 DEF VerdictNext

-----------------------------------------------------------------------------
(* The theorems *)

LEMMA VerdictInvariance == VerdictSpec => []VerdictInv
<1>1. VerdictInit => VerdictInv
  BY VerdictInitHolds
<1>2. VerdictInv /\ [VerdictNext]_verdictVars => VerdictInv'
  BY VerdictStepsKeep
<1> QED
  BY <1>1, <1>2, PTL DEF VerdictSpec

\* The fields of the visits and of their workers have their types.
THEOREM VerdictTypeCorrect == VerdictSpec => []VerdictTypeOK
<1>1. VerdictInv => VerdictTypeOK
  BY DEF VerdictInv
<1> QED
  BY <1>1, VerdictInvariance, PTL

\* deal_account_detail archives no account but a restricted one, and with a
\* worker of its own a visit's verdict is made of its own answers.
THEOREM VerdictsAreSound == VerdictSpec => []VerdictsSound
<1>1. VerdictInv => VerdictsSound
  BY DEF VerdictInv, ArchivedRight, AllInStep, InStep, VerdictsSound
<1> QED
  BY <1>1, VerdictInvariance, PTL


-----------------------------------------------------------------------------
(* Downloader: the inductive invariant.                                    *)

\* A temporary file goes wrong only by an answer that does not fit its start.
MixedSpliced ==
    /\ mixed \subseteq spliced
    /\ \A f \in Files : actual[f] = "bad" => f \in spliced

\* What is recorded, or about to be, is in place.
RecordedPlaced ==
    /\ recorded => Missing # Files
    /\ \A f \in Files : job[f].at = "noting" => f \notin Missing

\* In a run that may fetch everything, a file that is not on its way, or is
\* done, is in place or too large.
FetchedPlaced ==
    run = "load" /\ outcome.address /\ ~outcome.known =>
       \A f \in Files : job[f].at \in {"none", "good"} => f \notin Missing \/ f \in outcome.large

\* Success is reported when the run is over.
RunReported ==
    /\ run # "rest" => ~outcome.ok
    /\ run = "rest" /\ outcome.ok /\ ~outcome.known => Missing \subseteq outcome.large

OnTheWay == {"queued", "writing", "refused", "streaming", "noting", "dropping"}

\* Only a run has files on their way, and each may still be tried.
Retrying ==
    \A f \in Files : job[f].at # "none" =>
        /\ run # "rest"
        /\ job[f].at \in OnTheWay => job[f].failures <= MaxRetry

DownloadInv == DownloadTypeOK /\ Retrying /\ MixedSpliced /\ RecordedPlaced /\ FetchedPlaced /\ RunReported

LEMMA DownloadInvImplies == DownloadInv => DownloadsHonest
  BY DEF DownloadInv, MixedSpliced, RecordedPlaced, RunReported, DownloadsHonest

-----------------------------------------------------------------------------
(* Small facts *)

LEMMA DownloadConstants == Chunks \in Nat \ {0} /\ MaxRetry \in Nat /\ MaxRuns \in Nat /\ 0 \in 0..Chunks
  BY DownloadAssumption DEF DownloadAssumption

JobType == [at : {"none", "queued", "writing", "refused", "streaming", "noting", "dropping", "good", "bad"},
            failures : 0..(MaxRetry + 1)]

LEMMA JobTyped ==
    ASSUME DownloadTypeOK
    PROVE  /\ NoJob \in JobType /\ [NoJob EXCEPT !.at = "queued"] \in JobType
           /\ job \in [Files -> JobType]
  BY DownloadConstants DEF DownloadTypeOK, NoJob, JobType

\* A job moves to another place.
LEMMA JobMoves ==
    ASSUME DownloadTypeOK, NEW f \in Files,
           NEW s \in {"none", "queued", "writing", "refused", "streaming", "noting", "dropping", "good", "bad"}, At(f, s)
    PROVE  /\ job' \in [Files -> JobType]
           /\ job'[f].at = s /\ job'[f].failures = job[f].failures
           /\ \A g \in Files : g # f => job'[g] = job[g]
  BY JobTyped DEF At, JobType

\* A job that fails is queued again or given up.
LEMMA Failing ==
    ASSUME DownloadTypeOK, Retrying, NEW f \in Files, Fails(f),
           job[f].at \in OnTheWay
    PROVE  /\ job' \in [Files -> JobType] /\ job'[f].at \in {"queued", "bad"}
           /\ job'[f].at = "queued" => job'[f].failures <= MaxRetry
           /\ \A g \in Files : g # f => job'[g] = job[g]
<1>1. job \in [Files -> JobType]
  BY JobTyped
<1>2. job' = [job EXCEPT ![f] = [at |-> IF job[f].failures = MaxRetry THEN "bad" ELSE "queued",
                                 failures |-> job[f].failures + 1]]
  BY DEF Fails
<1>3. job[f].failures \in 0..(MaxRetry + 1) /\ MaxRetry \in Nat
  BY <1>1, DownloadConstants DEF JobType
<1>4. job[f].failures + 1 \in 0..(MaxRetry + 1)
  BY <1>3 DEF Retrying, OnTheWay
<1>5. job[f].failures # MaxRetry => job[f].failures + 1 <= MaxRetry
  BY <1>3, <1>4
<1> QED
  BY <1>1, <1>2, <1>4, <1>5 DEF JobType

\* What a step at one file may do without harm: its job goes on, or ends in
\* "good" with the file in place or too large; what is in place stays.
LEMMA FileStep ==
    ASSUME DownloadInv, NEW f \in Files,
           UNCHANGED <<extras, run, runCount>>,
           job' \in [Files -> JobType], \A g \in Files : g # f => job'[g] = job[g],
           job[f].at \in OnTheWay,
           job'[f].at \in OnTheWay => job'[f].failures <= MaxRetry,
           job'[f].at \notin {"none", "good"} \/ f \notin Missing' \/ f \in outcome'.large,
           Missing' \subseteq Missing, outcome.large \subseteq outcome'.large,
           outcome'.ok = outcome.ok, outcome'.address = outcome.address,
           outcome'.known = outcome.known
    PROVE  Retrying' /\ FetchedPlaced' /\ RunReported'
<1>1. Retrying'
  <2>0. run' # "rest"
    BY DEF DownloadInv, Retrying, OnTheWay
  <2> SUFFICES ASSUME NEW g \in Files, job'[g].at \in OnTheWay
               PROVE  job'[g].failures <= MaxRetry
    BY <2>0 DEF Retrying
  <2>1. CASE g = f
    BY <2>1
  <2>2. CASE g # f
    <3>1. job[g] = job'[g] /\ job[g].at # "none"
      BY <2>2 DEF OnTheWay
    <3> QED
      BY <3>1 DEF DownloadInv, Retrying
  <2> QED
    BY <2>1, <2>2
<1>2. FetchedPlaced'
  <2> SUFFICES ASSUME run = "load", outcome.address, ~outcome.known, NEW g \in Files,
                      job'[g].at \in {"none", "good"}
               PROVE  g \notin Missing' \/ g \in outcome'.large
    BY DEF FetchedPlaced
  <2>1. CASE g = f
    BY <2>1
  <2>2. CASE g # f
    BY <2>2 DEF DownloadInv, FetchedPlaced
  <2> QED
    BY <2>1, <2>2
<1>3. RunReported'
  BY DEF DownloadInv, Retrying, RunReported, OnTheWay
<1> QED
  BY <1>1, <1>2, <1>3

-----------------------------------------------------------------------------
(* The steps *)

LEMMA DownloadInitHolds == DownloadInit => DownloadInv
<1> SUFFICES ASSUME DownloadInit PROVE DownloadInv
  OBVIOUS
<1>1. DownloadTypeOK
  <2>0. PICK file : file = CHOOSE f \in Files : TRUE
    OBVIOUS
  <2>1. file \in Files
    BY <2>0, DownloadAssumption DEF DownloadAssumption
  <2>2. extras \in {{}, {file}}
    BY <2>0 DEF DownloadInit
  <2>3. extras \subseteq Files
    BY <2>1, <2>2
  <2>4. NoJob \in JobType /\ NoOutcome \in [ok : BOOLEAN, address : BOOLEAN, known : BOOLEAN,
                                            large : SUBSET Files]
    BY DownloadConstants DEF NoJob, NoOutcome, JobType
  <2>5. /\ mixed \subseteq Files /\ spliced \subseteq Files /\ bridged \subseteq Files
        /\ recorded \in BOOLEAN
        /\ run \in {"rest", "load", "lost"} /\ actual \in [Files -> {"none", "whole", "bad"}]
    BY DEF DownloadInit
  <2>7. temp \in [Files -> 0..Chunks] /\ runCount \in 0..MaxRuns
    BY DownloadConstants DEF DownloadInit
  <2>6. job \in [Files -> JobType] /\ outcome = NoOutcome
    BY <2>4 DEF DownloadInit
  <2> QED
    BY <2>3, <2>4, <2>5, <2>6, <2>7 DEF DownloadTypeOK, JobType
<1> QED
  BY <1>1 DEF DownloadInit, DownloadInv, Retrying, MixedSpliced, RecordedPlaced, FetchedPlaced, RunReported,
     NoJob, NoOutcome

LEMMA SelectKeeps == ASSUME DownloadInv, NEW address \in BOOLEAN, Select(address) PROVE DownloadInv'
<1>t. DownloadTypeOK
  BY DEF DownloadInv
<1>1. /\ run = "rest" /\ run' = "load" /\ runCount < MaxRuns /\ runCount' = runCount + 1
      /\ outcome' = [NoOutcome EXCEPT !.address = address, !.known = recorded]
      /\ UNCHANGED <<extras, temp, mixed, actual, bridged, recorded, spliced>> /\ Missing' = Missing
  BY DEF Select, disk, Missing
<1>2. job' = [f \in Files |-> IF f \in Missing /\ (f \in extras \/ (address /\ ~recorded))
                              THEN [NoJob EXCEPT !.at = "queued"] ELSE NoJob]
  BY DEF Select
<1>3. /\ outcome'.address = address /\ outcome'.known = recorded /\ outcome'.ok = FALSE
      /\ outcome' \in [ok : BOOLEAN, address : BOOLEAN, known : BOOLEAN, large : SUBSET Files]
  BY <1>t, <1>1 DEF NoOutcome, DownloadTypeOK
<1>4. job' \in [Files -> JobType]
  BY <1>t, <1>2, JobTyped
<1>5. \A f \in Files : /\ job'[f].at \in {"queued", "none"} /\ job'[f].failures = 0
                       /\ job'[f].at = "none" /\ address /\ ~recorded => f \notin Missing
  BY <1>2 DEF NoJob
<1>6. DownloadTypeOK'
  BY <1>t, <1>1, <1>3, <1>4, DownloadConstants DEF DownloadTypeOK, JobType
<1>7. Retrying'
  BY <1>1, <1>5, DownloadConstants DEF Retrying, OnTheWay
<1>8. MixedSpliced' /\ RecordedPlaced' /\ FetchedPlaced' /\ RunReported'
  BY <1>1, <1>3, <1>5 DEF DownloadInv, MixedSpliced, RecordedPlaced, FetchedPlaced, RunReported
<1> QED
  BY <1>6, <1>7, <1>8 DEF DownloadInv

LEMMA RunEndsKeeps == ASSUME DownloadInv, RunEnds PROVE DownloadInv'
<1>t. DownloadTypeOK
  BY DEF DownloadInv
<1>1. /\ run # "rest" /\ run' = "rest" /\ \A f \in Files : job[f].at \in {"none", "good", "bad"}
      /\ outcome' = IF run = "lost" THEN NoOutcome
                    ELSE [outcome EXCEPT !.ok = outcome.address /\ \A f \in Files : job[f].at # "bad"]
      /\ job' = [f \in Files |-> NoJob]
      /\ UNCHANGED <<extras, temp, mixed, actual, bridged, recorded, runCount, spliced>> /\ Missing' = Missing
  BY DEF RunEnds, disk, Missing
<1>2. ASSUME run = "load" PROVE RunReported'
  <2>1. /\ outcome'.ok = (outcome.address /\ \A f \in Files : job[f].at # "bad")
        /\ outcome'.known = outcome.known /\ outcome'.large = outcome.large
    BY <1>t, <1>1, <1>2 DEF DownloadTypeOK
  <2>2. Missing \subseteq Files
    BY DEF Missing
  <2> QED
    BY <1>1, <1>2, <2>1, <2>2 DEF DownloadInv, FetchedPlaced, RunReported
<1>3. DownloadTypeOK'
  <2>1. outcome' \in [ok : BOOLEAN, address : BOOLEAN, known : BOOLEAN, large : SUBSET Files]
    BY <1>t, <1>1 DEF DownloadTypeOK, NoOutcome
  <2> QED
    BY <1>t, <1>1, <2>1, JobTyped DEF DownloadTypeOK, JobType
<1>4. ASSUME run = "lost" PROVE RunReported'
  BY <1>1, <1>4 DEF RunReported, NoOutcome
<1>5. RunReported'
  BY <1>t, <1>1, <1>2, <1>4 DEF DownloadTypeOK
<1>6. Retrying' /\ MixedSpliced' /\ RecordedPlaced' /\ FetchedPlaced'
  BY <1>1 DEF DownloadInv, Retrying, MixedSpliced, RecordedPlaced, FetchedPlaced, NoJob
<1> QED
  BY <1>3, <1>5, <1>6 DEF DownloadInv

LEMMA RunKilledKeeps == ASSUME DownloadInv, RunKilled PROVE DownloadInv'
<1>t. DownloadTypeOK
  BY DEF DownloadInv
<1>1. /\ run' = "rest" /\ outcome' = NoOutcome /\ job' = [f \in Files |-> NoJob]
      /\ UNCHANGED <<extras, temp, mixed, actual, bridged, recorded, runCount, spliced>> /\ Missing' = Missing
  BY DEF RunKilled, disk, Missing
<1>2. DownloadTypeOK'
  BY <1>t, <1>1, JobTyped DEF DownloadTypeOK, JobType, NoOutcome
<1> QED
  BY <1>1, <1>2
  DEF DownloadInv, Retrying, MixedSpliced, RecordedPlaced, FetchedPlaced, RunReported, NoJob, NoOutcome

LEMMA RequestKeeps == ASSUME DownloadInv, NEW f \in Files, Request(f) PROVE DownloadInv'
<1>t. DownloadTypeOK /\ Retrying /\ "queued" \in OnTheWay
  BY DEF DownloadInv, OnTheWay
<1>1. /\ job[f].at = "queued" /\ UNCHANGED <<extras, actual, recorded, run, runCount>>
      /\ Missing' = Missing /\ job[f].failures <= MaxRetry
  BY <1>t DEF Request, Missing, Retrying
<1>2. /\ job' \in [Files -> JobType] /\ \A g \in Files : g # f => job'[g] = job[g]
      /\ job'[f].at \in {"queued", "bad", "writing", "refused", "good"}
      /\ job'[f].at \in {"queued", "writing", "refused"} => job'[f].failures <= MaxRetry
  <2>1. CASE Fails(f)
    BY <1>t, <1>1, <2>1, Failing
  <2>2. CASE At(f, "writing")
    BY <1>t, <1>1, <2>2, JobMoves
  <2>3. CASE At(f, "good")
    BY <1>t, <1>1, <2>3, JobMoves
  <2>4. CASE At(f, "refused")
    BY <1>t, <1>1, <2>4, JobMoves
  <2> QED
    BY <2>1, <2>2, <2>3, <2>4 DEF Request
<1>3. /\ temp' \in [Files -> 0..Chunks] /\ mixed' \subseteq Files /\ spliced' \subseteq Files
      /\ bridged' \subseteq Files
      /\ spliced \subseteq spliced' /\ mixed' \subseteq mixed \cup (spliced' \ spliced) \cup (mixed' \cap spliced')
  BY <1>t, DownloadConstants DEF Request, DownloadTypeOK
<1>4. /\ outcome' \in [ok : BOOLEAN, address : BOOLEAN, known : BOOLEAN, large : SUBSET Files]
      /\ outcome'.ok = outcome.ok /\ outcome'.address = outcome.address
      /\ outcome'.known = outcome.known /\ outcome.large \subseteq outcome'.large
  BY <1>t DEF Request, DownloadTypeOK
<1>5. job'[f].at = "good" => f \in outcome'.large
  <2>1. CASE Fails(f)
    BY <1>t, <1>1, <2>1, Failing
  <2>2. CASE At(f, "writing")
    BY <1>t, <1>1, <2>2, JobMoves
  <2>3. CASE outcome' = [outcome EXCEPT !.large = @ \cup {f}]
    BY <1>t, <2>3 DEF DownloadTypeOK
  <2>4. CASE At(f, "refused")
    BY <1>t, <1>1, <2>4, JobMoves
  <2> QED
    BY <2>1, <2>2, <2>3, <2>4 DEF Request
<1>6. DownloadTypeOK'
  BY <1>t, <1>1, <1>2, <1>3, <1>4 DEF DownloadTypeOK, JobType
<1>7. MixedSpliced'
  BY <1>1 DEF DownloadInv, MixedSpliced, Request
<1>8. RecordedPlaced'
  BY <1>1, <1>2 DEF DownloadInv, RecordedPlaced
<1>9. Retrying' /\ FetchedPlaced' /\ RunReported'
  BY <1>1, <1>2, <1>4, <1>5, FileStep DEF OnTheWay
<1> QED
  BY <1>6, <1>7, <1>8, <1>9 DEF DownloadInv

LEMMA WriteKeeps == ASSUME DownloadInv, NEW f \in Files, Write(f) PROVE DownloadInv'
<1>t. DownloadTypeOK /\ temp[f] < Chunks
  BY DEF DownloadInv, Write
<1>1. /\ temp' = [temp EXCEPT ![f] = @ + 1] /\ Missing' = Missing
      /\ UNCHANGED <<extras, mixed, actual, bridged, recorded, job, run, runCount, outcome, spliced>>
  BY DEF Write, progress, Missing
<1>2. temp[f] \in 0..Chunks /\ Chunks \in Nat
  BY <1>t, DownloadConstants DEF DownloadTypeOK
<1>3. temp[f] + 1 \in 0..Chunks
  BY <1>t, <1>2
<1>4. DownloadTypeOK'
  BY <1>t, <1>1, <1>3 DEF DownloadTypeOK
<1> QED
  BY <1>1, <1>4 DEF DownloadInv, Retrying, MixedSpliced, RecordedPlaced, FetchedPlaced, RunReported

LEMMA JobBreaksKeeps == ASSUME DownloadInv, NEW f \in Files, Breaks(f) PROVE DownloadInv'
<1>t. DownloadTypeOK /\ Retrying /\ "writing" \in OnTheWay
  BY DEF DownloadInv, OnTheWay
<1>1. /\ job[f].at = "writing" /\ Missing' = Missing
      /\ UNCHANGED <<extras, temp, mixed, actual, bridged, recorded, run, runCount, outcome, spliced>>
  BY DEF Breaks, disk, progress, Missing
<1>2. /\ job' \in [Files -> JobType] /\ \A g \in Files : g # f => job'[g] = job[g]
      /\ job'[f].at \in {"queued", "bad", "dropping"}
      /\ job'[f].at \in {"queued", "dropping"} => job'[f].failures <= MaxRetry
  <2>1. CASE Fails(f)
    BY <1>t, <1>1, <2>1, Failing
  <2>2. CASE At(f, "dropping")
    BY <1>t, <1>1, <2>2, JobMoves DEF Retrying
  <2> QED
    BY <2>1, <2>2 DEF Breaks
<1>3. DownloadTypeOK'
  BY <1>t, <1>1, <1>2 DEF DownloadTypeOK, JobType
<1>4. MixedSpliced' /\ RecordedPlaced'
  BY <1>1, <1>2 DEF DownloadInv, MixedSpliced, RecordedPlaced
<1>5. Retrying' /\ FetchedPlaced' /\ RunReported'
  BY <1>1, <1>2, FileStep DEF OnTheWay
<1> QED
  BY <1>3, <1>4, <1>5 DEF DownloadInv

LEMMA DroppedKeeps == ASSUME DownloadInv, NEW f \in Files, Dropped(f) PROVE DownloadInv'
<1>t. DownloadTypeOK /\ Retrying /\ "dropping" \in OnTheWay
  BY DEF DownloadInv, OnTheWay
<1>1. /\ job[f].at = "dropping" /\ recorded' = FALSE /\ Missing' = Missing /\ Fails(f)
      /\ UNCHANGED <<extras, temp, mixed, actual, bridged, run, runCount, outcome, spliced>>
  BY DEF Dropped, disk, progress, Missing
<1>2. /\ job' \in [Files -> JobType] /\ \A g \in Files : g # f => job'[g] = job[g]
      /\ job'[f].at \in {"queued", "bad"}
      /\ job'[f].at = "queued" => job'[f].failures <= MaxRetry
  BY <1>t, <1>1, Failing
<1>3. DownloadTypeOK'
  BY <1>t, <1>1, <1>2 DEF DownloadTypeOK, JobType
<1>4. MixedSpliced' /\ RecordedPlaced'
  BY <1>1, <1>2 DEF DownloadInv, MixedSpliced, RecordedPlaced
<1>5. Retrying' /\ FetchedPlaced' /\ RunReported'
  BY <1>1, <1>2, FileStep DEF OnTheWay
<1> QED
  BY <1>3, <1>4, <1>5 DEF DownloadInv

LEMMA SavedKeeps == ASSUME DownloadInv, NEW f \in Files, Saved(f) PROVE DownloadInv'
<1>t. DownloadTypeOK /\ Retrying
  BY DEF DownloadInv
<1>1. /\ job[f].at \in OnTheWay /\ At(f, "noting")
      /\ actual' = [actual EXCEPT ![f] = IF f \in mixed THEN "bad" ELSE "whole"]
      /\ temp' = [temp EXCEPT ![f] = 0] /\ mixed' = mixed \ {f} /\ bridged' = bridged \ {f}
      /\ UNCHANGED <<extras, recorded, run, runCount, outcome, spliced>>
  BY DEF Saved, progress, OnTheWay
<1>2. /\ job' \in [Files -> JobType] /\ \A g \in Files : g # f => job'[g] = job[g]
      /\ job'[f].at = "noting" /\ job'[f].failures <= MaxRetry
  <2>1. /\ job' \in [Files -> JobType] /\ \A g \in Files : g # f => job'[g] = job[g]
        /\ job'[f].at = "noting" /\ job'[f].failures = job[f].failures
    BY <1>t, <1>1, JobMoves
  <2>2. job[f].failures <= MaxRetry
    BY <1>t, <1>1 DEF Retrying, OnTheWay
  <2> QED
    BY <2>1, <2>2
<1>3. Missing' = Missing \ {f} /\ Missing \subseteq Files
  BY <1>t, <1>1 DEF Missing, DownloadTypeOK
<1>4. DownloadTypeOK'
  BY <1>t, <1>1, <1>2, DownloadConstants DEF DownloadTypeOK, JobType
<1>5. MixedSpliced'
  BY <1>t, <1>1 DEF DownloadInv, MixedSpliced, DownloadTypeOK
<1>6. RecordedPlaced'
  BY <1>1, <1>2, <1>3 DEF DownloadInv, RecordedPlaced
<1>7. Retrying' /\ FetchedPlaced' /\ RunReported'
  BY <1>1, <1>2, <1>3, FileStep DEF OnTheWay
<1> QED
  BY <1>4, <1>5, <1>6, <1>7 DEF DownloadInv

LEMMA BridgeKeeps == ASSUME DownloadInv, NEW f \in Files, Bridge(f) PROVE DownloadInv'
<1>t. DownloadTypeOK /\ Retrying /\ "refused" \in OnTheWay
  BY DEF DownloadInv, OnTheWay
<1>1. /\ job[f].at = "refused" /\ Missing' = Missing
      /\ UNCHANGED <<extras, actual, recorded, run, runCount, outcome, spliced>>
  BY DEF Bridge, progress, Missing
<1>2. /\ job' \in [Files -> JobType] /\ \A g \in Files : g # f => job'[g] = job[g]
      /\ job'[f].at \in {"queued", "bad", "streaming"}
      /\ job'[f].at \in {"queued", "streaming"} => job'[f].failures <= MaxRetry
  <2>1. CASE Fails(f)
    BY <1>t, <1>1, <2>1, Failing
  <2>2. CASE At(f, "streaming")
    BY <1>t, <1>1, <2>2, JobMoves DEF Retrying
  <2> QED
    BY <2>1, <2>2 DEF Bridge
<1>3. /\ temp' \in [Files -> 0..Chunks] /\ bridged' \subseteq Files /\ mixed' \subseteq mixed
  BY <1>t, DownloadConstants DEF Bridge, DownloadTypeOK
<1>4. DownloadTypeOK'
  BY <1>t, <1>1, <1>2, <1>3 DEF DownloadTypeOK, JobType
<1>5. MixedSpliced' /\ RecordedPlaced'
  BY <1>1, <1>2, <1>3 DEF DownloadInv, MixedSpliced, RecordedPlaced
<1>6. Retrying' /\ FetchedPlaced' /\ RunReported'
  BY <1>1, <1>2, FileStep DEF OnTheWay
<1> QED
  BY <1>4, <1>5, <1>6 DEF DownloadInv

LEMMA BridgeBreaksKeeps == ASSUME DownloadInv, NEW f \in Files, BridgeBreaks(f) PROVE DownloadInv'
<1>t. DownloadTypeOK /\ Retrying /\ "streaming" \in OnTheWay
  BY DEF DownloadInv, OnTheWay
<1>1. /\ job[f].at = "streaming" /\ Missing' = Missing /\ Fails(f)
      /\ UNCHANGED <<extras, temp, mixed, actual, bridged, recorded, run, runCount, outcome, spliced>>
  BY DEF BridgeBreaks, disk, progress, Missing
<1>2. /\ job' \in [Files -> JobType] /\ \A g \in Files : g # f => job'[g] = job[g]
      /\ job'[f].at \in {"queued", "bad"}
      /\ job'[f].at = "queued" => job'[f].failures <= MaxRetry
  BY <1>t, <1>1, Failing
<1>3. DownloadTypeOK'
  BY <1>t, <1>1, <1>2 DEF DownloadTypeOK, JobType
<1>4. MixedSpliced' /\ RecordedPlaced'
  BY <1>1, <1>2 DEF DownloadInv, MixedSpliced, RecordedPlaced
<1>5. Retrying' /\ FetchedPlaced' /\ RunReported'
  BY <1>1, <1>2, FileStep DEF OnTheWay
<1> QED
  BY <1>3, <1>4, <1>5 DEF DownloadInv

\* A run that ended with an exception reports nothing.
LEMMA BridgeEscapesKeeps == ASSUME DownloadInv, NEW f \in Files, BridgeEscapes(f) PROVE DownloadInv'
<1>t. DownloadTypeOK /\ Retrying /\ "streaming" \in OnTheWay
  BY DEF DownloadInv, OnTheWay
<1>1. /\ job[f].at = "streaming" /\ Missing' = Missing /\ At(f, "bad") /\ run' = "lost"
      /\ UNCHANGED <<extras, temp, mixed, actual, bridged, recorded, runCount, outcome, spliced>>
  BY DEF BridgeEscapes, disk, Missing
<1>2. /\ job' \in [Files -> JobType] /\ \A g \in Files : g # f => job'[g] = job[g]
      /\ job'[f].at = "bad"
  BY <1>t, <1>1, JobMoves
<1>3. DownloadTypeOK'
  BY <1>t, <1>1, <1>2 DEF DownloadTypeOK, JobType
<1>4. MixedSpliced' /\ RecordedPlaced'
  BY <1>1, <1>2 DEF DownloadInv, MixedSpliced, RecordedPlaced
<1>5. ~outcome.ok
  BY <1>t, <1>1 DEF DownloadInv, RunReported, Retrying
<1>6. Retrying'
  BY <1>t, <1>1, <1>2 DEF Retrying, OnTheWay
<1>7. FetchedPlaced' /\ RunReported'
  BY <1>1, <1>5 DEF FetchedPlaced, RunReported
<1> QED
  BY <1>3, <1>4, <1>6, <1>7 DEF DownloadInv

LEMMA NotedKeeps == ASSUME DownloadInv, NEW f \in Files, Noted(f) PROVE DownloadInv'
<1>t. DownloadTypeOK /\ Retrying
  BY DEF DownloadInv
<1>1. /\ job[f].at = "noting" /\ At(f, "good") /\ recorded' = TRUE /\ Missing' = Missing
      /\ UNCHANGED <<extras, temp, mixed, actual, bridged, run, runCount, outcome, spliced>>
  BY DEF Noted, disk, progress, Missing
<1>2. /\ job' \in [Files -> JobType] /\ \A g \in Files : g # f => job'[g] = job[g]
      /\ job'[f].at = "good"
  BY <1>t, <1>1, JobMoves
<1>3. f \notin Missing
  BY <1>1 DEF DownloadInv, RecordedPlaced
<1>4. DownloadTypeOK'
  BY <1>t, <1>1, <1>2 DEF DownloadTypeOK, JobType
<1>5. MixedSpliced' /\ RecordedPlaced'
  BY <1>1, <1>2, <1>3 DEF DownloadInv, MixedSpliced, RecordedPlaced
<1>6. Retrying' /\ FetchedPlaced' /\ RunReported'
  BY <1>1, <1>2, <1>3, FileStep DEF OnTheWay
<1> QED
  BY <1>4, <1>5, <1>6 DEF DownloadInv

LEMMA DownloadStepsKeep == DownloadInv /\ [DownloadNext]_downloadVars => DownloadInv'
<1> SUFFICES ASSUME DownloadInv, [DownloadNext]_downloadVars PROVE DownloadInv'
  OBVIOUS
<1>1. CASE UNCHANGED downloadVars
  <2>1. /\ UNCHANGED <<extras, temp, mixed, actual, bridged, recorded, job, run, runCount, outcome, spliced>>
        /\ Missing' = Missing
    BY <1>1 DEF downloadVars, disk, progress, Missing
  <2> QED
    BY <2>1 DEF DownloadInv, DownloadTypeOK, Retrying, MixedSpliced, RecordedPlaced, FetchedPlaced, RunReported
<1>2. ASSUME NEW address \in BOOLEAN, Select(address) PROVE DownloadInv'
  BY <1>2, SelectKeeps
<1>3. ASSUME NEW f \in Files,
             Request(f) \/ Bridge(f) \/ BridgeBreaks(f) \/ BridgeEscapes(f) \/ Write(f) \/ Breaks(f) \/ Dropped(f) \/ Saved(f) \/ Noted(f)
      PROVE  DownloadInv'
  BY <1>3, RequestKeeps, BridgeKeeps, BridgeBreaksKeeps, BridgeEscapesKeeps, WriteKeeps, JobBreaksKeeps, DroppedKeeps, SavedKeeps, NotedKeeps
<1> QED
  BY <1>1, <1>2, <1>3, RunEndsKeeps, RunKilledKeeps DEF DownloadNext

-----------------------------------------------------------------------------
(* The theorems *)

LEMMA DownloadInvariance == DownloadSpec => []DownloadInv
  BY DownloadInitHolds, DownloadStepsKeep, PTL DEF DownloadSpec

\* Every state of the downloader is well typed; no file is tried more often
\* than max_retry allows.
THEOREM DownloadTypeCorrect == DownloadSpec => []DownloadTypeOK
<1>1. DownloadInv => DownloadTypeOK
  BY DEF DownloadInv
<1> QED
  BY <1>1, DownloadInvariance, PTL

\* For any files, chunks, retries and runs, with the fallback to a browser
\* session, what is in place is whole unless it was put together from answers
\* that do not fit (spliced), what is recorded is in place, and success means
\* that nothing is missing.
THEOREM DownloadHonest == DownloadSpec => []DownloadsHonest
  BY DownloadInvariance, DownloadInvImplies, PTL

-----------------------------------------------------------------------------
(* CollectionWalk: what is added to the works that are there.              *)

\* Induction over the natural numbers, for a set.
LEMMA SetInduction ==
    ASSUME NEW T, 0 \in T, \A n \in Nat : n \in T => n + 1 \in T
    PROVE  Nat \subseteq T
<1> SUFFICES ASSUME ~ (Nat \subseteq T) PROVE FALSE
    OBVIOUS
<1> DEFINE R == OpToRel(<, Nat)
           U == Nat \ T
<1>1. IsWellFoundedOn(R, Nat)
    BY Zenon, NatLessThanWellFounded
<1>2. \A x, y \in Nat : y < x => <<y, x>> \in R
    BY DEF OpToRel
<1>3. U \subseteq Nat /\ U # {}
    OBVIOUS
<1> HIDE DEF R
<1>4. PICK x \in U : \A y \in U : ~ (<<y, x>> \in R)
    BY <1>1, <1>3, WFMin
<1>5. x \in Nat /\ x # 0 /\ x \notin T
    BY <1>4
<1>6. x - 1 \in Nat /\ x - 1 < x /\ (x - 1) + 1 = x
    BY <1>5
<1>7. x - 1 \in T
    BY <1>2, <1>4, <1>5, <1>6
<1> QED BY <1>5, <1>6, <1>7

\* A work more.
LEMMA WithWorkIs ==
    ASSUME NEW S, NEW items \in Seq(S), NEW w \in S
    PROVE  /\ WithWork(items, w) \in Seq(S)
           /\ ToSet(WithWork(items, w)) = ToSet(items) \cup {w}
           /\ IsInjective(items) => IsInjective(WithWork(items, w))
           /\ Len(items) <= Len(WithWork(items, w)) /\ Len(WithWork(items, w)) <= Len(items) + 1
<1>1. CASE w \in ToSet(items)
    BY <1>1 DEF WithWork
<1>2. CASE w \notin ToSet(items)
    <2>1. WithWork(items, w) = Append(items, w)
        BY <1>2 DEF WithWork
    <2> DEFINE r == Append(items, w)
               n == Len(items)
    <2>2. /\ n \in Nat /\ DOMAIN items = 1..n
          /\ r \in Seq(S) /\ Len(r) = n + 1 /\ DOMAIN r = 1..(n + 1)
          /\ r[n + 1] = w /\ \A i \in 1..n : r[i] = items[i]
        OBVIOUS
    <2> HIDE DEF r, n
    <2>3. ToSet(r) = ToSet(items) \cup {w}
        BY <2>2 DEF ToSet
    <2>4. \A i \in 1..n : items[i] # w
        BY <1>2, <2>2 DEF ToSet
    <2>5. IsInjective(items) => IsInjective(r)
        <3> SUFFICES ASSUME IsInjective(items), NEW a \in 1..(n + 1), NEW b \in 1..(n + 1), r[a] = r[b]
                     PROVE  a = b
            BY <2>2 DEF IsInjective
        <3>1. a \in 1..n \/ a = n + 1
            BY <2>2
        <3>2. b \in 1..n \/ b = n + 1
            BY <2>2
        <3> QED BY <2>2, <2>4, <3>1, <3>2 DEF IsInjective
    <2> QED BY <2>1, <2>2, <2>3, <2>5 DEF r, n
<1> QED BY <1>1, <1>2

\* The recursive function exists.
LEMMA AddedUpToIs ==
    ASSUME NEW S, NEW items \in Seq(S), NEW new \in Seq(S)
    PROVE  /\ AddedUpTo(items, new)[0] = items
           /\ \A k \in 1..Len(new) : AddedUpTo(items, new)[k] = WithWork(AddedUpTo(items, new)[k - 1], new[k])
<1> DEFINE Is(f, n) == f = [k \in 0..n |-> IF k = 0 THEN items ELSE WithWork(f[k - 1], new[k])]
           T == {n \in Nat : \E f : Is(f, n)}
           c == AddedUpTo(items, new)
           l == Len(new)
<1>1. 0 \in T
    <2> DEFINE g == [k \in 0..0 |-> items]
    <2>1. Is(g, 0)
        OBVIOUS
    <2> QED BY <2>1
<1>2. ASSUME NEW n \in Nat, n \in T PROVE n + 1 \in T
    <2>1. PICK f : Is(f, n)
        BY <1>2
    <2> DEFINE g == [k \in 0..(n + 1) |-> IF k = n + 1 THEN WithWork(f[n], new[n + 1]) ELSE f[k]]
               h == [k \in 0..(n + 1) |-> IF k = 0 THEN items ELSE WithWork(g[k - 1], new[k])]
    <2>2. \A k \in 0..(n + 1) : g[k] = h[k]
        <3> SUFFICES ASSUME NEW k \in 0..(n + 1) PROVE g[k] = h[k]
            OBVIOUS
        <3>1. CASE k = 0
            <4>1. 0 \in 0..n /\ 0 \in 0..(n + 1) /\ 0 # n + 1
                OBVIOUS
            <4>2. f[0] = items
                BY <2>1, <4>1
            <4> QED BY <3>1, <4>1, <4>2
        <3>2. CASE k = n + 1
            <4>1. n \in 0..(n + 1) /\ n # n + 1 /\ k - 1 = n /\ k # 0
                BY <3>2
            <4>2. g[n] = f[n]
                BY <4>1
            <4> QED BY <3>2, <4>1, <4>2
        <3>3. CASE k \in 1..n
            <4>1. k - 1 \in 0..n /\ k \in 0..n /\ k # 0 /\ k # n + 1 /\ k - 1 # n + 1 /\ k - 1 \in 0..(n + 1)
                BY <3>3
            <4>2. f[k] = WithWork(f[k - 1], new[k])
                BY <2>1, <4>1
            <4>3. g[k - 1] = f[k - 1] /\ g[k] = f[k]
                BY <4>1
            <4> QED BY <4>1, <4>2, <4>3
        <3> QED BY <3>1, <3>2, <3>3
    <2>3. g = h
        <3> HIDE DEF Is
        <3> QED BY <2>2
    <2>4. Is(g, n + 1)
        BY <2>3
    <2> HIDE DEF g, h, Is
    <2> QED BY <2>4
<1>3. l \in Nat
    OBVIOUS
<1>4. l \in T
    <2> HIDE DEF T
    <2> QED BY <1>1, <1>2, <1>3, SetInduction
<1>5. \E f : f = [k \in 0..l |-> IF k = 0 THEN items ELSE WithWork(f[k - 1], new[k])]
    BY <1>4
<1>6. c = CHOOSE f : f = [k \in 0..l |-> IF k = 0 THEN items ELSE WithWork(f[k - 1], new[k])]
    BY Zenon DEF AddedUpTo
<1>7. c = [k \in 0..l |-> IF k = 0 THEN items ELSE WithWork(c[k - 1], new[k])]
    <2> HIDE DEF c
    <2> QED BY Zenon, <1>5, <1>6
<1> HIDE DEF c, Is, T
<1>8. 0 \in 0..l /\ \A k \in 1..l : k \in 0..l /\ k # 0
    BY <1>3
<1> HIDE DEF l
<1>9. c[0] = items /\ \A k \in 1..l : c[k] = WithWork(c[k - 1], new[k])
    BY <1>7, <1>8
<1> QED BY <1>9 DEF c, l

\* What is added: every work of the answer is there, and none twice.
LEMMA AddedIs ==
    ASSUME NEW S, NEW items \in Seq(S), NEW new \in Seq(S)
    PROVE  /\ Added(items, new) \in Seq(S)
           /\ ToSet(Added(items, new)) = ToSet(items) \cup ToSet(new)
           /\ IsInjective(items) => IsInjective(Added(items, new))
           /\ Len(items) <= Len(Added(items, new))
           /\ Len(Added(items, new)) <= Len(items) + Len(new)
<1> DEFINE c == AddedUpTo(items, new)
           l == Len(new)
           Good(k) == /\ c[k] \in Seq(S)
                      /\ ToSet(c[k]) = ToSet(items) \cup {new[j] : j \in 1..k}
                      /\ IsInjective(items) => IsInjective(c[k])
                      /\ Len(items) <= Len(c[k]) /\ Len(c[k]) <= Len(items) + k
           T == {k \in Nat : k <= l => Good(k)}
<1>1. l \in Nat /\ DOMAIN new = 1..l /\ Len(items) \in Nat /\ \A k \in 1..l : new[k] \in S
    OBVIOUS
<1>2. c[0] = items /\ \A k \in 1..l : c[k] = WithWork(c[k - 1], new[k])
    BY AddedUpToIs
<1> HIDE DEF c, l
<1>3. 0 \in T
    BY <1>1, <1>2
<1>4. ASSUME NEW n \in Nat, n \in T PROVE n + 1 \in T
    <2> HIDE DEF Good
    <2> SUFFICES ASSUME n + 1 <= l PROVE Good(n + 1)
        BY n + 1 \in Nat
    <2> USE DEF Good
    <2>1. n + 1 \in 1..l /\ (n + 1) - 1 = n /\ n <= l
        BY <1>1
    <2>2. Good(n)
        BY <1>4, <2>1
    <2>3. c[n + 1] = WithWork(c[n], new[n + 1]) /\ new[n + 1] \in S
        BY <1>1, <1>2, <2>1
    <2> DEFINE r == c[n]
               w == new[n + 1]
    <2>4. r \in Seq(S) /\ w \in S /\ c[n + 1] = WithWork(r, w)
        BY <2>2, <2>3
    <2>5. /\ c[n + 1] \in Seq(S)
          /\ ToSet(c[n + 1]) = ToSet(r) \cup {w}
          /\ IsInjective(r) => IsInjective(c[n + 1])
          /\ Len(r) <= Len(c[n + 1]) /\ Len(c[n + 1]) <= Len(r) + 1
        <3> HIDE DEF r, w
        <3> QED BY <2>4, WithWorkIs
    <2>6. {new[j] : j \in 1..(n + 1)} = {new[j] : j \in 1..n} \cup {w}
        <3>1. 1..(n + 1) = (1..n) \cup {n + 1}
            OBVIOUS
        <3> QED BY <3>1
    <2>7. ToSet(c[n + 1]) = ToSet(items) \cup {new[j] : j \in 1..(n + 1)}
        BY <2>2, <2>5, <2>6
    <2>8. Len(r) \in Nat /\ Len(c[n + 1]) \in Nat
        BY <2>4, <2>5
    <2>9. Len(items) <= Len(c[n + 1]) /\ Len(c[n + 1]) <= Len(items) + (n + 1)
        BY <1>1, <2>2, <2>5, <2>8
    <2> QED BY <2>2, <2>5, <2>7, <2>9
<1>5. l \in T
    <2> HIDE DEF T
    <2> QED BY <1>1, <1>3, <1>4, SetInduction
<1>6. Good(l)
    BY <1>1, <1>5
<1>7. ToSet(new) = {new[j] : j \in 1..l}
    BY <1>1 DEF ToSet
<1> QED BY <1>6, <1>7 DEF Added, c, l

-----------------------------------------------------------------------------
(* CollectionWalk: the inductive invariant.                                *)

Walks == [at : {"direct", "open", "scroll", "gather", "done", "failed"},
          first : 0..MaxFolder, items : Seq(1..MaxFolder), cursor : 0..MaxFolder,
          turns : Nat, more : BOOLEAN, declared : 0..MaxFolder,
          seen : BOOLEAN, failed : BOOLEAN, idle : 0..MaxIdle, before : 0..MaxFolder,
          waits : SUBSET Answers]

\* The walk has the work, or an answer that is being read has it.
Covered(w) ==
    \/ w \in ToSet(walk.items)
    \/ \E a \in pending : a.low <= w /\ w <= a.top

AllCovered == lacking # {} \/ \A w \in 1..walk.first : Covered(w)

\* An answer with one work: the preview, or the folder's end.
Single(a) == a.top = a.low

\* No work is there twice; the folder only grows; a walk that goes on has not
\* been idle for too long.
Walked ==
    /\ IsInjective(walk.items)
    /\ walk.first <= shelf /\ asked <= shelf
    /\ walk.at \in {"scroll", "gather"} => walk.idle < MaxIdle

\* The interface has given what is in front of the cursor.
ByInterface ==
    walk.at = "direct" =>
        /\ pending = {} /\ asked = 0 /\ walk.cursor <= shelf
        /\ lacking # {} \/ \A w \in 1..walk.first : w > shelf - walk.cursor => w \in ToSet(walk.items)

\* The page has shown what it was asked for; only an answer from the end of
\* the folder says that there are no more works, but for the preview, and the
\* preview is alone or comes after a page.
ByBrowser ==
    InBrowser =>
        /\ walk.seen \/ (walk.items = <<>> /\ pending = {} /\ asked = 0)
        /\ \A w \in 1..walk.first : w > shelf - asked => (lacking # {} \/ Covered(w))
        /\ \A a \in pending : a.low <= a.top /\ (Single(a) \/ a.more \/ AllCovered)
        /\ AllCovered \/ \A a \in pending : Single(a) => Len(walk.items) # 1
        /\ AllCovered \/ \A a, b \in pending : Single(a) /\ Single(b) => a = b
        /\ walk.more \/ AllCovered \/ Len(walk.items) <= 1
        /\ asked = 0 \/ Len(walk.items) >= 2 \/ AllCovered \/ \E a \in pending : ~Single(a)

WalkInv == WalkTypeOK /\ Walked /\ ByInterface /\ ByBrowser /\ WalkComplete

-----------------------------------------------------------------------------
(* CollectionWalk: lemmas.                                                 *)

LEMMA WalkTyped ==
    ASSUME WalkTypeOK
    PROVE  /\ walk \in Walks /\ MaxFolder \in Nat /\ Target \in Nat \ {0} /\ MaxIdle \in Nat \ {0}
           /\ shelf \in 0..MaxFolder /\ asked \in 0..MaxFolder
           /\ pending \subseteq Answers /\ lacking \subseteq Reasons
           /\ walk.first \in 0..MaxFolder /\ walk.items \in Seq(1..MaxFolder)
           /\ walk.cursor \in 0..MaxFolder /\ walk.turns \in Nat /\ walk.more \in BOOLEAN
           /\ walk.declared \in 0..MaxFolder /\ walk.seen \in BOOLEAN /\ walk.failed \in BOOLEAN
           /\ walk.idle \in 0..MaxIdle /\ walk.before \in 0..MaxFolder
           /\ walk.waits \subseteq Answers /\ Len(walk.items) \in Nat
<1>1. walk \in Walks /\ shelf \in 0..MaxFolder /\ asked \in 0..MaxFolder
      /\ pending \subseteq Answers /\ lacking \subseteq Reasons
    BY DEF WalkTypeOK, Walks
<1>2. MaxFolder \in Nat /\ Target \in Nat \ {0} /\ MaxIdle \in Nat \ {0}
    BY WalkAssumption
<1>3. /\ walk.first \in 0..MaxFolder /\ walk.items \in Seq(1..MaxFolder)
      /\ walk.cursor \in 0..MaxFolder /\ walk.turns \in Nat /\ walk.more \in BOOLEAN
      /\ walk.declared \in 0..MaxFolder /\ walk.seen \in BOOLEAN /\ walk.failed \in BOOLEAN
      /\ walk.idle \in 0..MaxIdle /\ walk.before \in 0..MaxFolder
      /\ walk.waits \subseteq Answers
    BY <1>1 DEF Walks
<1>4. Len(walk.items) \in Nat
    BY <1>3
<1> QED BY <1>1, <1>2, <1>3, <1>4

\* The walks of the type, one field at a time.
LEMMA WalkRetyped ==
    ASSUME walk' \in Walks, shelf' \in 0..MaxFolder, asked' \in 0..MaxFolder,
           pending' \subseteq Answers, lacking' \subseteq Reasons
    PROVE  WalkTypeOK'
BY DEF WalkTypeOK, Walks

LEMMA AnswerTyped ==
    ASSUME WalkTypeOK, NEW a \in pending
    PROVE  a \in Answers /\ a.top \in 1..MaxFolder /\ a.low \in 1..MaxFolder /\ a.more \in BOOLEAN
<1>1. a \in Answers
    BY WalkTyped
<1> QED BY <1>1 DEF Answers

\* The works of an answer.
LEMMA ShownIs ==
    ASSUME MaxFolder \in Nat, NEW top \in 1..MaxFolder, NEW low \in 1..MaxFolder, low <= top
    PROVE  /\ Shown(top, low) \in Seq(1..MaxFolder)
           /\ Len(Shown(top, low)) = top + 1 - low
           /\ ToSet(Shown(top, low)) = low..top
<1> DEFINE n == top + 1 - low
           s == [k \in 1..n |-> top + 1 - k]
<1>1. n \in Nat /\ \A k \in 1..n : top + 1 - k \in low..top
    OBVIOUS
<1>2. \A k \in 1..n : top + 1 - k \in 1..MaxFolder
    OBVIOUS
<1>3. s \in Seq(1..MaxFolder) /\ Len(s) = n /\ DOMAIN s = 1..n
    <2> HIDE DEF n
    <2>1. s \in [1..n -> 1..MaxFolder]
        BY <1>2
    <2> QED BY <1>1, <2>1
<1>4. \A w \in low..top : top + 1 - w \in 1..n /\ top + 1 - (top + 1 - w) = w
    OBVIOUS
<1>5. {s[k] : k \in 1..n} = low..top
    <2> HIDE DEF n
    <2>1. \A k \in 1..n : s[k] = top + 1 - k
        OBVIOUS
    <2> HIDE DEF s
    <2>2. \A w \in low..top : \E k \in 1..n : s[k] = w
        BY <1>4, <2>1
    <2> QED BY <1>1, <2>1, <2>2
<1> QED BY <1>3, <1>5 DEF Shown, ToSet

\* A list without repetition is as long as its works are many.
LEMMA InjectiveLen ==
    ASSUME NEW n \in Nat, NEW s \in Seq(1..n), IsInjective(s)
    PROVE  Len(s) <= n
<1>1. Len(s) \in Nat /\ s \in [1..Len(s) -> 1..n]
    OBVIOUS
<1> DEFINE l == Len(s)
<1> HIDE DEF l
<1>2. s \in Injection(1..l, 1..n)
    BY <1>1 DEF Injection, l
<1>3. IsFiniteSet(1..n) /\ Cardinality(1..n) = n /\ Cardinality(1..l) = l
    <2>1. l \in Nat
        BY <1>1 DEF l
    <2>2. 1 \in Int /\ n \in Int /\ l \in Int
        BY <2>1
    <2>3. IsFiniteSet(1..n) /\ Cardinality(1..n) = IF 1 > n THEN 0 ELSE n - 1 + 1
        BY <2>2, FS_Interval
    <2>4. Cardinality(1..l) = IF 1 > l THEN 0 ELSE l - 1 + 1
        BY <2>2, FS_Interval
    <2> QED BY <2>1, <2>3, <2>4
<1>4. Cardinality(1..l) <= Cardinality(1..n)
    BY <1>2, <1>3, FS_Injection
<1> QED BY <1>3, <1>4 DEF l

\* The walk that begins anew in the browser.
LEMMA AtStartTyped ==
    ASSUME NEW n \in 0..MaxFolder, MaxFolder \in Nat, MaxIdle \in Nat
    PROVE  /\ AtStart(n) \in Walks
           /\ AtStart(n).at = "direct" /\ AtStart(n).first = n /\ AtStart(n).items = <<>>
           /\ AtStart(n).cursor = 0 /\ AtStart(n).more = TRUE /\ AtStart(n).seen = FALSE
<1>1. 0 \in 0..MaxFolder /\ 0 \in 0..MaxIdle /\ 0 \in Nat /\ <<>> \in Seq(1..MaxFolder)
      /\ {} \subseteq Answers
    OBVIOUS
<1>2. "direct" \in {"direct", "open", "scroll", "gather", "done", "failed"}
    OBVIOUS
<1>3. TRUE \in BOOLEAN /\ FALSE \in BOOLEAN
    OBVIOUS
<1> QED BY <1>1, <1>2, <1>3 DEF AtStart, Walks

LEMMA WalkInitHolds == WalkInit => WalkInv
<1> SUFFICES ASSUME WalkInit PROVE WalkInv
    OBVIOUS
<1>1. MaxFolder \in Nat /\ MaxIdle \in Nat /\ Target \in Nat
    BY WalkAssumption
<1>2. shelf \in 0..MaxFolder /\ walk = AtStart(shelf) /\ asked = 0 /\ pending = {} /\ lacking = {}
    BY DEF WalkInit
<1>3. /\ walk \in Walks /\ walk.at = "direct" /\ walk.first = shelf /\ walk.items = <<>>
      /\ walk.cursor = 0
    BY <1>1, <1>2, AtStartTyped
<1>4. WalkTypeOK
    BY <1>1, <1>2, <1>3 DEF WalkTypeOK, Walks
<1>5. IsInjective(walk.items)
    BY <1>3 DEF IsInjective
<1>6. Walked
    BY <1>1, <1>2, <1>3, <1>5 DEF Walked
<1>7. \A w \in 1..walk.first : ~ (w > shelf - 0)
    BY <1>1, <1>2, <1>3
<1>8. ByInterface
    BY <1>1, <1>2, <1>3, <1>7 DEF ByInterface
<1>9. ByBrowser /\ WalkComplete
    BY <1>3 DEF ByBrowser, InBrowser, WalkComplete
<1> QED BY <1>4, <1>6, <1>8, <1>9 DEF WalkInv

-----------------------------------------------------------------------------
(* CollectionWalk: the steps.                                              *)

\* What is covered stays covered.
LEMMA CoverKept ==
    ASSUME ToSet(walk.items) \subseteq ToSet(walk'.items), pending \subseteq pending',
           lacking \subseteq lacking', walk'.first = walk.first
    PROVE  /\ \A w : Covered(w) => Covered(w)'
           /\ AllCovered => AllCovered'
<1>1. \A w : Covered(w) => Covered(w)'
    BY DEF Covered
<1>2. lacking # {} => lacking' # {}
    OBVIOUS
<1> QED BY <1>1, <1>2 DEF AllCovered

LEMMA DirectPageKeeps ==
    ASSUME WalkInv, NEW size \in 1..Target, DirectPage(size) PROVE WalkInv'
<1> DEFINE top == shelf - walk.cursor
           low == shelf + 1 - walk.cursor - size
           items == Added(walk.items, Shown(top, low))
           n == IF Len(items) > Target THEN Target ELSE Len(items)
           over == Len(items) >= Target \/ low = 1
           turns == walk.turns + 1
           cut == SubSeq(items, 1, n)
           at == IF over \/ turns = MaxPages THEN "done" ELSE walk.at
<1>1. WalkTypeOK /\ Walked /\ ByInterface
    BY DEF WalkInv
<1>2. /\ walk \in Walks /\ MaxFolder \in Nat /\ Target \in Nat \ {0}
      /\ shelf \in 0..MaxFolder /\ asked \in 0..MaxFolder
      /\ pending \subseteq Answers /\ lacking \subseteq Reasons
      /\ walk.first \in 0..MaxFolder /\ walk.items \in Seq(1..MaxFolder)
      /\ walk.cursor \in 0..MaxFolder /\ walk.turns \in Nat
    BY <1>1, WalkTyped
<1>3. /\ walk.at = "direct" /\ size <= shelf - walk.cursor
      /\ walk' = [walk EXCEPT !.items = cut, !.cursor = walk.cursor + size, !.turns = turns, !.at = at]
      /\ lacking' = IF turns = MaxPages /\ ~over THEN lacking \cup {"pages"} ELSE lacking
      /\ shelf' = shelf /\ asked' = asked /\ pending' = pending
    BY DEF DirectPage
<1>4. /\ IsInjective(walk.items) /\ walk.first <= shelf /\ asked <= shelf
      /\ pending = {} /\ asked = 0 /\ walk.cursor <= shelf
      /\ lacking # {} \/ \A w \in 1..walk.first : w > shelf - walk.cursor => w \in ToSet(walk.items)
    BY <1>1, <1>3 DEF Walked, ByInterface
<1>5. /\ top \in 1..MaxFolder /\ low \in 1..MaxFolder /\ low <= top
      /\ walk.cursor + size \in 0..MaxFolder /\ walk.cursor + size <= shelf
      /\ shelf - (walk.cursor + size) = low - 1
    <2> DEFINE c == walk.cursor
    <2>1. c \in 0..MaxFolder /\ size <= shelf - c /\ size \in 1..Target
        BY <1>2, <1>3
    <2> HIDE DEF c
    <2> SUFFICES /\ shelf - c \in 1..MaxFolder /\ shelf + 1 - c - size \in 1..MaxFolder
                 /\ shelf + 1 - c - size <= shelf - c
                 /\ c + size \in 0..MaxFolder /\ c + size <= shelf
                 /\ shelf - (c + size) = (shelf + 1 - c - size) - 1
        BY DEF c
    <2>2. MaxFolder \in Nat /\ shelf \in 0..MaxFolder /\ Target \in Nat
        BY <1>2
    <2> QED BY <2>1, <2>2
<1>6. Shown(top, low) \in Seq(1..MaxFolder) /\ ToSet(Shown(top, low)) = low..top
    <2> HIDE DEF top, low
    <2> QED BY <1>2, <1>5, ShownIs
<1>7. /\ items \in Seq(1..MaxFolder) /\ ToSet(items) = ToSet(walk.items) \cup (low..top)
      /\ IsInjective(items) /\ Len(items) \in Nat
    <2> DEFINE shown == Shown(top, low)
               old == walk.items
               S == 1..MaxFolder
    <2>1. /\ old \in Seq(S) /\ shown \in Seq(S) /\ ToSet(shown) = low..top
          /\ items = Added(old, shown) /\ IsInjective(old)
        BY <1>2, <1>4, <1>6
    <2> HIDE DEF items, shown, old, S
    <2>2. /\ Added(old, shown) \in Seq(S)
          /\ ToSet(Added(old, shown)) = ToSet(old) \cup ToSet(shown)
          /\ IsInjective(old) => IsInjective(Added(old, shown))
        BY ZenonT(30), <2>1, AddedIs
    <2>3. /\ items \in Seq(S) /\ ToSet(items) = ToSet(old) \cup ToSet(shown)
          /\ IsInjective(items)
        BY <2>1, <2>2
    <2> QED BY <2>1, <2>3 DEF old, S
<1> HIDE DEF items
<1>8. /\ n \in 0..Len(items) /\ (Len(items) < Target => n = Len(items))
      /\ (Len(items) >= Target => n = Target)
    BY <1>2, <1>7
<1> HIDE DEF n, low
<1>9. /\ cut \in Seq(1..MaxFolder) /\ Len(cut) = n /\ DOMAIN cut = 1..n
      /\ \A i \in 1..n : cut[i] = items[i]
    <2>a. \A i \in 1..n : i \in 1..Len(items)
        <3> DEFINE l == Len(items)
        <3>1. l \in Nat /\ n \in 0..l
            BY <1>7, <1>8
        <3> HIDE DEF l
        <3>2. \A i \in 1..n : i \in 1..l
            BY <3>1
        <3> QED BY <3>2 DEF l
    <2>b. items \in Seq(1..MaxFolder)
        BY <1>7
    <2>c. \A i \in 1..Len(items) : items[i] \in 1..MaxFolder
        BY <2>b, ElementOfSeq
    <2>1. \A i \in 1..n : i \in 1..Len(items) /\ items[i] \in 1..MaxFolder
        BY Zenon, <2>a, <2>c
    <2>2. cut = [i \in 1..n |-> items[1 + i - 1]]
        BY <1>7, <1>8
    <2>3. \A i \in 1..n : 1 + i - 1 = i
        BY <1>8
    <2>4. cut = [i \in 1..n |-> items[i]]
        BY <2>2, <2>3
    <2>5. n \in Nat
        BY <1>8
    <2> QED BY <2>1, <2>4, <2>5
<1>10. IsInjective(cut)
    <2>1. DOMAIN items = 1..Len(items) /\ \A i \in 1..n : i \in 1..Len(items)
        BY <1>7, <1>8
    <2> QED BY <1>7, <1>9, <2>1 DEF IsInjective
<1>11. Len(items) < Target => ToSet(cut) = ToSet(items)
    <2> SUFFICES ASSUME Len(items) < Target PROVE ToSet(cut) = ToSet(items)
        OBVIOUS
    <2>1. n = Len(items) /\ DOMAIN items = 1..n
        BY <1>7, <1>8
    <2> QED BY <1>9, <2>1 DEF ToSet
<1>12. turns \in Nat /\ at \in {"direct", "done"}
    BY <1>2, <1>3
<1> HIDE DEF cut, at, turns
<1>13. /\ walk' \in Walks /\ walk'.items = cut /\ walk'.cursor = walk.cursor + size
       /\ walk'.turns = turns /\ walk'.at = at /\ walk'.first = walk.first
    BY <1>2, <1>3, <1>5, <1>9, <1>12 DEF Walks
<1>14. WalkTypeOK'
    <2>1. lacking' \subseteq Reasons
        BY <1>2, <1>3 DEF Reasons
    <2> QED BY <1>2, <1>3, <1>13, <2>1, WalkRetyped
<1>15. Walked'
    BY <1>3, <1>4, <1>10, <1>12, <1>13 DEF Walked
<1>16. lacking' # {} \/ Len(items) >= Target
          \/ \A w \in 1..walk.first : w > low - 1 => w \in ToSet(cut)
    <2> SUFFICES ASSUME lacking' = {}, ~ (Len(items) >= Target), NEW w \in 1..walk.first, w > low - 1
                 PROVE  w \in ToSet(cut)
        OBVIOUS
    <2>1. lacking = {} /\ Len(items) < Target
        BY <1>3, <1>7, <1>2
    <2>2. w \in low..top \/ w > shelf - walk.cursor
        BY SMTT(30), <1>2, <1>5
    <2> QED BY <1>4, <1>7, <1>11, <2>1, <2>2
<1>17. ByInterface'
    <2> SUFFICES ASSUME at = "direct" PROVE ByInterface'
        BY <1>13 DEF ByInterface
    <2>1. ~ (Len(items) >= Target)
        BY DEF at
    <2> QED BY <1>3, <1>4, <1>5, <1>13, <1>16, <2>1 DEF ByInterface
<1>18. ByBrowser'
    BY <1>12, <1>13 DEF ByBrowser, InBrowser
<1>19. WalkComplete'
    <2> SUFFICES ASSUME at = "done"
                 PROVE  IsInjective(cut) /\ (Len(cut) >= Target \/ 1..walk.first \subseteq ToSet(cut) \/ lacking' # {})
        BY <1>13 DEF WalkComplete
    <2>1. CASE Len(items) >= Target
        BY <1>2, <1>8, <1>9, <1>10, <2>1
    <2>2. CASE ~ (Len(items) >= Target) /\ low = 1
        <3>1. \A w \in 1..walk.first : w > low - 1
            BY <1>2, <2>2
        <3> QED BY <1>10, <1>16, <2>2, <3>1
    <2>3. CASE ~over
        <3>1. turns = MaxPages
            BY <1>3, <2>3 DEF at
        <3> QED BY <1>3, <1>10, <2>3, <3>1
    <2> QED BY <2>1, <2>2, <2>3
<1> QED BY <1>14, <1>15, <1>17, <1>18, <1>19 DEF WalkInv

LEMMA DirectEmptyKeeps == WalkInv /\ DirectEmpty => WalkInv'
<1> SUFFICES ASSUME WalkInv, DirectEmpty PROVE WalkInv'
    OBVIOUS
<1>1. WalkTypeOK /\ Walked
    BY DEF WalkInv
<1>2. /\ walk' = [walk EXCEPT !.at = "done"] /\ lacking' = lacking \cup {"refused"}
      /\ shelf' = shelf /\ asked' = asked /\ pending' = pending
    BY DEF DirectEmpty
<1>3. walk \in Walks /\ shelf \in 0..MaxFolder /\ asked \in 0..MaxFolder
      /\ pending \subseteq Answers /\ lacking \subseteq Reasons
    BY <1>1, WalkTyped
<1>4. walk' \in Walks /\ walk'.items = walk.items /\ walk'.first = walk.first /\ walk'.at = "done"
    BY <1>2, <1>3 DEF Walks
<1>5. lacking' \subseteq Reasons /\ lacking' # {}
    BY <1>2, <1>3 DEF Reasons
<1>6. WalkTypeOK'
    BY <1>2, <1>3, <1>4, <1>5, WalkRetyped
<1>7. Walked' /\ ByInterface' /\ ByBrowser' /\ WalkComplete'
    BY <1>1, <1>2, <1>4, <1>5 DEF Walked, ByInterface, ByBrowser, InBrowser, WalkComplete
<1> QED BY <1>6, <1>7 DEF WalkInv

LEMMA DirectFailsKeeps == WalkInv /\ DirectFails => WalkInv'
<1> SUFFICES ASSUME WalkInv, DirectFails PROVE WalkInv'
    OBVIOUS
<1>1. WalkTypeOK /\ Walked /\ ByInterface
    BY DEF WalkInv
<1>2. walk.at = "direct" /\ shelf' = shelf /\ asked' = asked /\ pending' = pending /\ lacking' = lacking
    BY DEF DirectFails
<1>3. /\ walk \in Walks /\ shelf \in 0..MaxFolder /\ asked \in 0..MaxFolder /\ pending \subseteq Answers
      /\ lacking \subseteq Reasons /\ walk.first \in 0..MaxFolder /\ MaxFolder \in Nat /\ MaxIdle \in Nat
    BY <1>1, WalkTyped
<1>4. IsInjective(walk.items) /\ walk.first <= shelf /\ pending = {} /\ asked = 0
    BY <1>1, <1>2 DEF Walked, ByInterface
<1>5. CASE walk' = [walk EXCEPT !.at = "failed"]
    <2>1. walk' \in Walks /\ walk'.items = walk.items /\ walk'.first = walk.first /\ walk'.at = "failed"
        BY <1>3, <1>5 DEF Walks
    <2>2. WalkTypeOK'
        BY <1>2, <1>3, <2>1, WalkRetyped
    <2>3. Walked' /\ ByInterface' /\ ByBrowser' /\ WalkComplete'
        BY <1>1, <1>2, <2>1 DEF Walked, ByInterface, ByBrowser, InBrowser, WalkComplete
    <2> QED BY <2>2, <2>3 DEF WalkInv
<1>6. ASSUME NEW d \in {0, shelf}, walk' = [AtStart(walk.first) EXCEPT !.at = "open", !.declared = d]
      PROVE  WalkInv'
    <2> DEFINE s == AtStart(walk.first)
    <2>1. s \in Walks /\ s.first = walk.first /\ s.items = <<>> /\ s.more = TRUE /\ s.seen = FALSE
        BY <1>3, AtStartTyped
    <2> HIDE DEF s
    <2>2. walk' = [s EXCEPT !.at = "open", !.declared = d]
        BY <1>6 DEF s
    <2>3. d \in 0..MaxFolder
        BY <1>3
    <2>4. /\ walk' \in Walks /\ walk'.items = <<>> /\ walk'.first = walk.first /\ walk'.at = "open"
          /\ walk'.more = TRUE /\ walk'.seen = FALSE
        BY <2>1, <2>2, <2>3 DEF Walks
    <2>5. WalkTypeOK'
        BY <1>2, <1>3, <2>4, WalkRetyped
    <2>6. IsInjective(walk'.items)
        BY <2>4 DEF IsInjective
    <2>7. Walked' /\ ByInterface' /\ WalkComplete'
        BY <1>1, <1>2, <2>4, <2>6 DEF Walked, ByInterface, WalkComplete
    <2>8. \A w \in 1..walk.first : ~ (w > shelf - 0)
        BY <1>3, <1>4
    <2>9. ByBrowser'
        BY <1>2, <1>4, <2>4, <2>8 DEF ByBrowser
    <2> QED BY <2>5, <2>7, <2>9 DEF WalkInv
<1> QED BY <1>5, <1>6 DEF DirectFails

LEMMA PreviewKeeps == WalkInv /\ Preview => WalkInv'
<1> SUFFICES ASSUME WalkInv, Preview PROVE WalkInv'
    OBVIOUS
<1>1. WalkTypeOK /\ Walked /\ ByBrowser
    BY DEF WalkInv
<1>2. /\ walk \in Walks /\ shelf \in 0..MaxFolder /\ asked \in 0..MaxFolder /\ lacking \subseteq Reasons
      /\ walk.first \in 0..MaxFolder /\ MaxFolder \in Nat
    BY <1>1, WalkTyped
<1>3. PICK more \in BOOLEAN : AnswerComes(shelf, shelf, more)
    BY DEF Preview
<1>4. /\ walk.at = "open" /\ shelf > 0 /\ asked = 0 /\ ~walk.seen
      /\ shelf' = shelf /\ asked' = asked /\ lacking' = lacking
    BY DEF Preview
<1>5. walk.items = <<>> /\ pending = {} /\ walk.first <= shelf
    BY <1>1, <1>4 DEF ByBrowser, InBrowser, Walked
<1> DEFINE a == [top |-> shelf, low |-> shelf, more |-> more]
<1>6. pending' = {a} /\ walk' = [walk EXCEPT !.seen = TRUE]
    BY <1>3, <1>5 DEF AnswerComes
<1>7. a.top = shelf /\ a.low = shelf
    OBVIOUS
<1>8. a \in Answers
    <2>1. shelf \in 1..MaxFolder
        BY <1>2, <1>4
    <2> QED BY <2>1 DEF Answers
<1> HIDE DEF a
<1>9. /\ walk' \in Walks /\ walk'.items = <<>> /\ walk'.first = walk.first /\ walk'.at = "open"
      /\ walk'.seen = TRUE /\ Len(walk'.items) = 0
    BY <1>2, <1>4, <1>5, <1>6 DEF Walks
<1>10. WalkTypeOK'
    BY <1>2, <1>4, <1>6, <1>8, <1>9, WalkRetyped
<1>11. IsInjective(walk'.items)
    BY <1>9 DEF IsInjective
<1>12. Walked' /\ ByInterface' /\ WalkComplete'
    BY <1>1, <1>4, <1>9, <1>11 DEF Walked, ByInterface, WalkComplete
<1>13. \A w \in 1..walk.first : ~ (w > shelf - 0)
    BY <1>2, <1>5
<1>14. \A b \in pending' : b = a
    BY <1>6
<1>15. Single(a) /\ a.low <= a.top
    BY <1>2, <1>7 DEF Single
<1>16. ByBrowser'
    BY <1>4, <1>9, <1>13, <1>14, <1>15 DEF ByBrowser
<1> QED BY <1>10, <1>12, <1>16 DEF WalkInv

LEMMA NextPageKeeps == WalkInv /\ NextPage => WalkInv'
<1> SUFFICES ASSUME WalkInv, NextPage PROVE WalkInv'
    OBVIOUS
<1>1. WalkTypeOK /\ Walked /\ ByBrowser
    BY DEF WalkInv
<1>2. /\ walk \in Walks /\ shelf \in 0..MaxFolder /\ asked \in 0..MaxFolder /\ lacking \subseteq Reasons
      /\ pending \subseteq Answers /\ walk.first \in 0..MaxFolder /\ MaxFolder \in Nat
    BY <1>1, WalkTyped
<1> DEFINE size == IF shelf - asked < 2 THEN shelf - asked ELSE 2
           rest == asked' < shelf
           a == [top |-> shelf - asked, low |-> shelf + 1 - asked', more |-> rest]
<1>3. /\ InBrowser /\ size > 0 /\ asked' = asked + size /\ shelf' = shelf /\ lacking' = lacking
      /\ pending' = pending \cup {a} /\ walk' = [walk EXCEPT !.seen = TRUE]
    BY DEF NextPage, PageWorks, AnswerComes
<1>4. size \in {1, 2} /\ asked' \in 0..MaxFolder /\ asked' <= shelf /\ asked' > 0
    BY <1>1, <1>2, <1>3 DEF Walked
<1>5. size = 1 => asked' = shelf
    BY <1>2, <1>3, <1>4
<1>a. rest \in BOOLEAN /\ (rest \/ asked' = shelf)
    BY <1>2, <1>4
<1> HIDE DEF rest
<1>b. a.top = shelf - asked /\ a.low = shelf + 1 - asked' /\ a.more = rest
    OBVIOUS
<1>c. /\ shelf - asked \in 1..MaxFolder /\ shelf + 1 - asked' \in 1..MaxFolder
      /\ shelf + 1 - asked' <= shelf - asked
      /\ (shelf + 1 - asked' = shelf - asked => size = 1)
    BY <1>2, <1>3, <1>4
<1>7. a \in Answers
    BY <1>a, <1>c DEF Answers
<1> HIDE DEF a, size
<1>6. /\ a.top \in 1..MaxFolder /\ a.low \in 1..MaxFolder
      /\ a.low <= a.top /\ a.top = shelf - asked /\ a.low = shelf + 1 - asked'
      /\ (a.low = a.top => size = 1)
    BY <1>b, <1>c
<1>8. /\ walk' \in Walks /\ walk'.items = walk.items /\ walk'.first = walk.first /\ walk'.at = walk.at
      /\ walk'.seen = TRUE /\ walk'.more = walk.more /\ walk'.idle = walk.idle
    BY <1>2, <1>3 DEF Walks
<1>9. WalkTypeOK'
    BY <1>2, <1>3, <1>4, <1>7, <1>8, WalkRetyped
<1>10. Walked' /\ ByInterface' /\ WalkComplete'
    BY <1>1, <1>3, <1>4, <1>8 DEF Walked, ByInterface, WalkComplete, InBrowser
<1>11. (\A w : Covered(w) => Covered(w)') /\ (AllCovered => AllCovered')
    BY <1>3, <1>8, CoverKept
<1>12. /\ \A w \in 1..walk.first : w > shelf - asked => (lacking # {} \/ Covered(w))
       /\ \A b \in pending : b.low <= b.top /\ (Single(b) \/ b.more \/ AllCovered)
       /\ AllCovered \/ \A b \in pending : Single(b) => Len(walk.items) # 1
       /\ AllCovered \/ \A b, c \in pending : Single(b) /\ Single(c) => b = c
       /\ walk.more \/ AllCovered \/ Len(walk.items) <= 1
    BY <1>1, <1>3 DEF ByBrowser
<1>13. ASSUME NEW w \in 1..walk.first, w > shelf - asked' PROVE lacking' # {} \/ Covered(w)'
    <2>1. w > shelf - asked \/ (a.low <= w /\ w <= a.top)
        <3>1. w \in Nat
            BY <1>2
        <3> HIDE DEF a
        <3>2. shelf \in Nat /\ asked \in Nat /\ asked' \in Nat
            BY <1>2, <1>4
        <3>a. \A x, s, p, q \in Nat : x > s - q => x > s - p \/ (s + 1 - q <= x /\ x <= s - p)
            OBVIOUS
        <3>3. w > shelf - asked \/ (shelf + 1 - asked' <= w /\ w <= shelf - asked)
            BY Zenon, <1>13, <3>1, <3>2, <3>a
        <3> QED BY <1>b, <3>3
    <2>2. CASE w > shelf - asked
        BY <1>3, <1>11, <1>12, <2>2
    <2>3. CASE a.low <= w /\ w <= a.top
        BY <1>3, <2>3 DEF Covered
    <2> QED BY <2>1, <2>2, <2>3
<1>14. asked' = shelf => AllCovered'
    <2> SUFFICES ASSUME asked' = shelf PROVE AllCovered'
        OBVIOUS
    <2>1. \A w \in 1..walk.first : w > shelf - asked'
        BY <1>2
    <2> QED BY <1>8, <1>13, <2>1 DEF AllCovered
<1>15. (Single(a) => AllCovered') /\ (Single(a) \/ a.more \/ AllCovered')
    <2>1. Single(a) => AllCovered'
        BY <1>5, <1>6, <1>14 DEF Single
    <2>2. a.more \/ asked' = shelf
        BY Zenon, <1>a, <1>b
    <2> QED BY <1>14, <2>1, <2>2
<1>16. \A b \in pending' : b \in pending \/ b = a
    BY <1>3
<1>17. \A b \in pending' : b.low <= b.top /\ (Single(b) \/ b.more \/ AllCovered')
    BY <1>6, <1>11, <1>12, <1>15, <1>16
<1>18. AllCovered' \/ \A b \in pending' : Single(b) => Len(walk'.items) # 1
    BY <1>8, <1>11, <1>12, <1>15, <1>16
<1>19. AllCovered' \/ \A b, c \in pending' : Single(b) /\ Single(c) => b = c
    BY <1>11, <1>12, <1>15, <1>16
<1>20. AllCovered' \/ \E b \in pending' : ~Single(b)
    BY <1>3, <1>15
<1>21. \A w \in 1..walk'.first : w > shelf' - asked' => (lacking' # {} \/ Covered(w)')
    BY <1>3, <1>8, <1>13
<1>22. ByBrowser'
    BY <1>8, <1>11, <1>12, <1>17, <1>18, <1>19, <1>20, <1>21 DEF ByBrowser
<1> QED BY <1>9, <1>10, <1>22 DEF WalkInv

LEMMA BareAnswerKeeps == WalkInv /\ BareAnswer => WalkInv'
<1> SUFFICES ASSUME WalkInv, BareAnswer PROVE WalkInv'
    OBVIOUS
<1>1. WalkTypeOK /\ Walked /\ ByBrowser
    BY DEF WalkInv
<1>2. /\ walk \in Walks /\ shelf \in 0..MaxFolder /\ asked \in 0..MaxFolder /\ lacking \subseteq Reasons
      /\ pending \subseteq Answers /\ walk.first \in 0..MaxFolder /\ MaxFolder \in Nat
      /\ walk.more \in BOOLEAN
    BY <1>1, WalkTyped
<1> DEFINE more == IF shelf = 0 THEN FALSE ELSE walk.more
<1>3. /\ InBrowser /\ ~walk.seen /\ shelf' = shelf /\ asked' = asked /\ pending' = pending
      /\ lacking' = lacking
      /\ walk' = [walk EXCEPT !.seen = TRUE, !.failed = shelf > 0, !.more = more]
    BY DEF BareAnswer
<1>4. walk.items = <<>> /\ pending = {} /\ asked = 0 /\ walk.first <= shelf
    BY <1>1, <1>3 DEF ByBrowser, Walked
<1> DEFINE filled == shelf > 0
<1>5. more \in BOOLEAN /\ filled \in BOOLEAN
    <2>1. more \in BOOLEAN
        BY <1>2
    <2>2. filled \in BOOLEAN
        OBVIOUS
    <2> QED BY <2>1, <2>2
<1>a. walk' = [walk EXCEPT !.seen = TRUE, !.failed = filled, !.more = more]
    BY <1>3
<1> HIDE DEF more, filled
<1>6. /\ walk' \in Walks /\ walk'.items = <<>> /\ walk'.first = walk.first /\ walk'.at = walk.at
      /\ walk'.seen = TRUE /\ Len(walk'.items) = 0 /\ walk'.idle = walk.idle
    BY <1>2, <1>a, <1>4, <1>5 DEF Walks
<1>7. WalkTypeOK'
    BY <1>2, <1>3, <1>6, WalkRetyped
<1>8. IsInjective(walk'.items)
    BY <1>6 DEF IsInjective
<1>9. Walked' /\ ByInterface' /\ WalkComplete'
    BY <1>1, <1>3, <1>6, <1>8 DEF Walked, ByInterface, WalkComplete, InBrowser
<1>10. \A w \in 1..walk.first : ~ (w > shelf - 0)
    BY <1>2, <1>4
<1>11. ByBrowser'
    BY <1>3, <1>4, <1>6, <1>10 DEF ByBrowser
<1> QED BY <1>7, <1>9, <1>11 DEF WalkInv

\* Two works take two places.
LEMMA TwoWorks ==
    ASSUME NEW S, NEW s \in Seq(S), NEW x \in ToSet(s), NEW y \in ToSet(s), x # y
    PROVE  Len(s) >= 2
<1>1. PICK i \in DOMAIN s : s[i] = x
    BY DEF ToSet
<1>2. PICK j \in DOMAIN s : s[j] = y
    BY DEF ToSet
<1>3. DOMAIN s = 1..Len(s) /\ Len(s) \in Nat /\ i # j
    BY <1>1, <1>2
<1> QED BY <1>1, <1>2, <1>3

LEMMA CaptureKeeps ==
    ASSUME WalkInv, NEW a \in pending, Capture(a) PROVE WalkInv'
<1>1. WalkTypeOK /\ Walked /\ ByBrowser
    BY DEF WalkInv
<1>2. /\ walk \in Walks /\ shelf \in 0..MaxFolder /\ asked \in 0..MaxFolder /\ lacking \subseteq Reasons
      /\ pending \subseteq Answers /\ walk.first \in 0..MaxFolder /\ MaxFolder \in Nat
      /\ walk.more \in BOOLEAN /\ walk.items \in Seq(1..MaxFolder) /\ walk.waits \subseteq Answers
      /\ Len(walk.items) \in Nat
    BY <1>1, WalkTyped
<1> DEFINE new == Shown(a.top, a.low)
           items == Added(walk.items, new)
           more == IF UpdatesMore(Len(walk.items), Len(new)) THEN a.more ELSE walk.more
           waits == walk.waits \ {a}
<1>3. /\ InBrowser /\ pending' = pending \ {a} /\ shelf' = shelf /\ asked' = asked /\ lacking' = lacking
      /\ walk' = [walk EXCEPT !.items = items, !.waits = waits, !.more = more]
    BY DEF Capture, Finished
<1>4. a.top \in 1..MaxFolder /\ a.low \in 1..MaxFolder /\ a.more \in BOOLEAN
    BY <1>1, AnswerTyped
<1>5. /\ walk.seen
      /\ \A w \in 1..walk.first : w > shelf - asked => (lacking # {} \/ Covered(w))
      /\ \A b \in pending : b.low <= b.top /\ (Single(b) \/ b.more \/ AllCovered)
      /\ AllCovered \/ \A b \in pending : Single(b) => Len(walk.items) # 1
      /\ AllCovered \/ \A b, c \in pending : Single(b) /\ Single(c) => b = c
      /\ walk.more \/ AllCovered \/ Len(walk.items) <= 1
      /\ asked = 0 \/ Len(walk.items) >= 2 \/ AllCovered \/ \E b \in pending : ~Single(b)
    BY <1>1, <1>3 DEF ByBrowser
<1>6. /\ new \in Seq(1..MaxFolder) /\ Len(new) = a.top + 1 - a.low /\ ToSet(new) = a.low..a.top
      /\ a.low <= a.top
    BY <1>2, <1>4, <1>5, ShownIs
<1>7. /\ items \in Seq(1..MaxFolder) /\ ToSet(items) = ToSet(walk.items) \cup ToSet(new)
      /\ IsInjective(items) /\ Len(walk.items) <= Len(items)
      /\ Len(items) <= Len(walk.items) + Len(new) /\ Len(items) \in Nat
    <2> DEFINE old == walk.items
    <2>1. old \in Seq(1..MaxFolder) /\ IsInjective(old) /\ new \in Seq(1..MaxFolder)
        BY <1>1, <1>2, <1>6 DEF Walked
    <2> HIDE DEF old, new
    <2>2. /\ Added(old, new) \in Seq(1..MaxFolder) /\ ToSet(Added(old, new)) = ToSet(old) \cup ToSet(new)
          /\ IsInjective(Added(old, new)) /\ Len(old) <= Len(Added(old, new))
          /\ Len(Added(old, new)) <= Len(old) + Len(new)
        BY <2>1, AddedIs
    <2> QED BY <2>2 DEF old
<1>8. ~Single(a) => Len(items) >= 2
    <2> SUFFICES ASSUME ~Single(a) PROVE Len(items) >= 2
        OBVIOUS
    <2>1. a.low \in ToSet(items) /\ a.top \in ToSet(items) /\ a.low # a.top
        BY <1>4, <1>6, <1>7 DEF Single
    <2> HIDE DEF items
    <2> QED BY <1>7, <2>1, TwoWorks
<1>9. more \in BOOLEAN /\ waits \subseteq Answers
    BY <1>2, <1>4
<1>10. Single(a) => Len(new) = 1
    BY <1>4, <1>6 DEF Single
<1>11. /\ UpdatesMore(Len(walk.items), Len(new)) => (more = a.more)
       /\ ~UpdatesMore(Len(walk.items), Len(new)) => (more = walk.more)
    OBVIOUS
<1> HIDE DEF items, more, waits, new
<1>12. /\ walk' \in Walks /\ walk'.items = items /\ walk'.first = walk.first /\ walk'.at = walk.at
       /\ walk'.seen = walk.seen /\ walk'.more = more /\ walk'.idle = walk.idle
    BY <1>2, <1>3, <1>7, <1>9 DEF Walks
<1>13. WalkTypeOK'
    BY <1>2, <1>3, <1>12, WalkRetyped
<1>14. Walked' /\ ByInterface' /\ WalkComplete'
    BY <1>1, <1>3, <1>7, <1>12 DEF Walked, ByInterface, WalkComplete, InBrowser
<1>15. ASSUME NEW w \in 1..walk.first, Covered(w) PROVE Covered(w)'
    <2>1. CASE w \in ToSet(walk.items)
        BY <1>7, <1>12, <2>1 DEF Covered
    <2>2. ASSUME NEW b \in pending, b.low <= w, w <= b.top PROVE Covered(w)'
        <3>1. CASE b = a
            <4>1. w \in a.low..a.top
                BY <1>2, <1>4, <2>2, <3>1
            <4> QED BY <1>6, <1>7, <1>12, <4>1 DEF Covered
        <3>2. CASE b # a
            BY <1>3, <2>2, <3>2 DEF Covered
        <3> QED BY <3>1, <3>2
    <2> QED BY <1>15, <2>1, <2>2 DEF Covered
<1>16. AllCovered => AllCovered'
    BY <1>3, <1>12, <1>15 DEF AllCovered
<1>17. \A b \in pending' : b \in pending /\ b # a
    BY <1>3
<1>18. \A w \in 1..walk'.first : w > shelf' - asked' => (lacking' # {} \/ Covered(w)')
    BY <1>3, <1>5, <1>12, <1>15
<1>19. AllCovered' \/ \A b \in pending' : Single(b) => Len(walk'.items) # 1
    <2> SUFFICES ASSUME ~AllCovered, NEW b \in pending', Single(b) PROVE Len(items) # 1
        BY Zenon, <1>12, <1>16
    <2>1. b \in pending /\ b # a
        BY <1>17
    <2>2. ~Single(a)
        BY Zenon, <1>5, <2>1
    <2>3. \A l \in Nat : l >= 2 => l # 1
        OBVIOUS
    <2> QED BY Zenon, <1>7, <1>8, <2>2, <2>3
<1>20. walk'.more \/ AllCovered' \/ Len(walk'.items) <= 1
    <2> SUFFICES ASSUME ~more, ~AllCovered PROVE Len(items) <= 1
        BY <1>12, <1>16
    <2>1. CASE ~UpdatesMore(Len(walk.items), Len(new))
        BY <1>2, <1>5, <1>11, <2>1 DEF UpdatesMore
    <2>2. CASE UpdatesMore(Len(walk.items), Len(new))
        <3>1. Single(a)
            BY <1>5, <1>11, <2>2
        <3>2. Len(walk.items) # 1
            BY Zenon, <1>5, <3>1
        <3>3. ~ (Len(walk.items) > 1)
            <4>1. 1 <= 1
                OBVIOUS
            <4> QED BY Zenon, <1>10, <2>2, <3>1, <4>1 DEF UpdatesMore
        <3>4. \A l, m \in Nat : l # 1 /\ ~ (l > 1) /\ m <= l + 1 => m <= 1
            OBVIOUS
        <3> QED BY Zenon, <1>2, <1>7, <1>10, <3>1, <3>2, <3>3, <3>4
    <2> QED BY <2>1, <2>2
<1>21. asked' = 0 \/ Len(walk'.items) >= 2 \/ AllCovered' \/ \E b \in pending' : ~Single(b)
    <2> SUFFICES ASSUME asked # 0, ~AllCovered PROVE Len(items) >= 2 \/ \E b \in pending' : ~Single(b)
        BY <1>3, <1>12, <1>16
    <2>1. CASE Len(walk.items) >= 2
        BY <1>2, <1>7, <2>1
    <2>2. ASSUME NEW b \in pending, ~Single(b) PROVE Len(items) >= 2 \/ \E c \in pending' : ~Single(c)
        BY <1>3, <1>8, <2>2
    <2> QED BY <1>5, <2>1, <2>2
<1>22. \A b \in pending' : b.low <= b.top /\ (Single(b) \/ b.more \/ AllCovered')
    BY <1>5, <1>16, <1>17
<1>23. AllCovered' \/ \A b, c \in pending' : Single(b) /\ Single(c) => b = c
    BY <1>5, <1>16, <1>17
<1>24. ByBrowser'
    BY <1>5, <1>12, <1>18, <1>19, <1>20, <1>21, <1>22, <1>23 DEF ByBrowser
<1> QED BY <1>13, <1>14, <1>24 DEF WalkInv

LEMMA CaptureFailsKeeps ==
    ASSUME WalkInv, NEW a \in pending, CaptureFails(a) PROVE WalkInv'
<1>1. WalkTypeOK /\ Walked /\ ByBrowser
    BY DEF WalkInv
<1>2. /\ walk \in Walks /\ shelf \in 0..MaxFolder /\ asked \in 0..MaxFolder /\ lacking \subseteq Reasons
      /\ pending \subseteq Answers /\ walk.waits \subseteq Answers
    BY <1>1, WalkTyped
<1> DEFINE waits == walk.waits \ {a}
<1>3. /\ InBrowser /\ pending' = pending \ {a} /\ shelf' = shelf /\ asked' = asked
      /\ lacking' = lacking \cup {"unread"}
      /\ walk' = [walk EXCEPT !.waits = waits, !.failed = TRUE]
    BY DEF CaptureFails, Finished
<1>4. waits \subseteq Answers /\ lacking' \subseteq Reasons /\ lacking' # {} /\ pending' \subseteq Answers
    BY <1>2, <1>3 DEF Reasons
<1> HIDE DEF waits
<1>5. /\ walk' \in Walks /\ walk'.items = walk.items /\ walk'.first = walk.first /\ walk'.at = walk.at
      /\ walk'.seen = walk.seen /\ walk'.idle = walk.idle
    BY <1>2, <1>3, <1>4 DEF Walks
<1>6. WalkTypeOK'
    BY <1>2, <1>3, <1>4, <1>5, WalkRetyped
<1>7. Walked' /\ ByInterface' /\ WalkComplete'
    BY <1>1, <1>3, <1>5 DEF Walked, ByInterface, WalkComplete, InBrowser
<1>8. AllCovered'
    BY <1>4 DEF AllCovered
<1>9. walk.seen /\ \A b \in pending' : b.low <= b.top
    BY <1>1, <1>3 DEF ByBrowser
<1>10. ByBrowser'
    BY <1>4, <1>5, <1>8, <1>9 DEF ByBrowser
<1> QED BY <1>6, <1>7, <1>10 DEF WalkInv

\* The end of a round, or of the walk.
LEMMA ProceedsKeeps ==
    ASSUME WalkInv, InBrowser, NEW w \in Walks, Proceeds(w),
           w.items = walk.items, w.first = walk.first, w.more = walk.more, w.seen = walk.seen
    PROVE  WalkInv'
<1> DEFINE idle == IF asked = 0 \/ (w.idle = MaxIdle /\ asked < shelf) THEN {"idle"} ELSE {}
           late == IF pending # {} THEN {"late"} ELSE {}
           at == IF GoesOn(w) THEN "scroll" ELSE "done"
<1>1. WalkTypeOK /\ Walked /\ ByBrowser
    BY DEF WalkInv
<1>2. /\ shelf \in 0..MaxFolder /\ asked \in 0..MaxFolder /\ lacking \subseteq Reasons
      /\ pending \subseteq Answers /\ walk.first \in 0..MaxFolder /\ MaxFolder \in Nat
      /\ MaxIdle \in Nat /\ Len(walk.items) \in Nat /\ Target \in Nat
    BY <1>1, WalkTyped
<1>3. /\ walk' = [w EXCEPT !.at = at] /\ shelf' = shelf /\ asked' = asked /\ pending' = pending
      /\ lacking' = IF GoesOn(w) THEN lacking ELSE lacking \cup idle \cup late
    BY DEF Proceeds
<1>4. at \in {"scroll", "done"} /\ (at = "scroll" => GoesOn(w)) /\ (at = "done" => ~GoesOn(w))
    OBVIOUS
<1>5. idle \subseteq {"idle"} /\ late \subseteq {"late"}
    OBVIOUS
<1>6. lacking \subseteq lacking' /\ lacking' \subseteq Reasons
    BY <1>2, <1>3, <1>5 DEF Reasons
<1>7. ~GoesOn(w) /\ lacking' = {} => pending = {} /\ asked # 0 /\ ~ (w.idle = MaxIdle /\ asked < shelf)
    BY <1>3
<1> HIDE DEF at, idle, late
<1>8. /\ walk' \in Walks /\ walk'.items = walk.items /\ walk'.first = walk.first /\ walk'.at = at
      /\ walk'.more = walk.more /\ walk'.seen = walk.seen /\ walk'.idle = w.idle
      /\ w.idle \in 0..MaxIdle
    BY <1>3, <1>4 DEF Walks
<1>9. WalkTypeOK'
    BY <1>2, <1>3, <1>6, <1>8, WalkRetyped
<1>10. GoesOn(w) => w.idle < MaxIdle
    BY DEF GoesOn
<1>11. Walked' /\ ByInterface'
    BY <1>1, <1>3, <1>4, <1>8, <1>10 DEF Walked, ByInterface
<1>12. (\A x : Covered(x) => Covered(x)') /\ (AllCovered => AllCovered')
    BY <1>3, <1>6, <1>8, CoverKept
<1>13. /\ walk.seen \/ (walk.items = <<>> /\ pending = {} /\ asked = 0)
       /\ \A x \in 1..walk.first : x > shelf - asked => (lacking # {} \/ Covered(x))
       /\ \A a \in pending : a.low <= a.top /\ (Single(a) \/ a.more \/ AllCovered)
       /\ AllCovered \/ \A a \in pending : Single(a) => Len(walk.items) # 1
       /\ AllCovered \/ \A a, b \in pending : Single(a) /\ Single(b) => a = b
       /\ walk.more \/ AllCovered \/ Len(walk.items) <= 1
       /\ asked = 0 \/ Len(walk.items) >= 2 \/ AllCovered \/ \E a \in pending : ~Single(a)
    BY <1>1 DEF ByBrowser
<1>14. ByBrowser'
    <2>1. \A x \in 1..walk'.first : x > shelf' - asked' => (lacking' # {} \/ Covered(x)')
        BY <1>3, <1>6, <1>8, <1>12, <1>13
    <2>2. \A a \in pending' : a.low <= a.top /\ (Single(a) \/ a.more \/ AllCovered')
        BY <1>3, <1>12, <1>13
    <2>3. AllCovered' \/ \A a \in pending' : Single(a) => Len(walk'.items) # 1
        BY <1>3, <1>8, <1>12, <1>13
    <2>4. AllCovered' \/ \A a, b \in pending' : Single(a) /\ Single(b) => a = b
        BY <1>3, <1>12, <1>13
    <2>5. walk'.more \/ AllCovered' \/ Len(walk'.items) <= 1
        BY <1>8, <1>12, <1>13
    <2>6. asked' = 0 \/ Len(walk'.items) >= 2 \/ AllCovered' \/ \E a \in pending' : ~Single(a)
        BY <1>3, <1>8, <1>12, <1>13
    <2>7. walk'.seen \/ (walk'.items = <<>> /\ pending' = {} /\ asked' = 0)
        BY <1>3, <1>8, <1>13
    <2> QED BY <2>1, <2>2, <2>3, <2>4, <2>5, <2>6, <2>7 DEF ByBrowser
<1>15. WalkComplete'
    <2> SUFFICES ASSUME at = "done"
                 PROVE  \/ Len(walk.items) >= Target \/ 1..walk.first \subseteq ToSet(walk.items)
                        \/ lacking' # {}
        BY <1>1, <1>8 DEF WalkComplete, Walked
    <2> SUFFICES ASSUME Len(walk.items) < Target, lacking' = {}
                 PROVE  1..walk.first \subseteq ToSet(walk.items)
        BY <1>2
    <2>1. ~GoesOn(w) /\ pending = {} /\ asked # 0 /\ lacking = {}
          /\ ~ (w.idle = MaxIdle /\ asked < shelf)
        BY <1>4, <1>6, <1>7
    <2>2. w.idle < MaxIdle => ~walk.more
        BY <2>1 DEF GoesOn
    <2>3. AllCovered => 1..walk.first \subseteq ToSet(walk.items)
        BY <2>1 DEF AllCovered, Covered
    <2>4. CASE w.idle < MaxIdle
        <3>1. \A l \in Nat : ~ (l <= 1 /\ l >= 2)
            OBVIOUS
        <3>2. AllCovered
            BY Zenon, <1>2, <1>13, <2>1, <2>2, <2>4, <3>1
        <3> QED BY <2>3, <3>2
    <2>5. CASE ~ (w.idle < MaxIdle)
        <3>1. w.idle = MaxIdle
            BY <1>2, <1>8, <2>5
        <3>2. asked = shelf
            BY <1>1, <1>2, <2>1, <3>1 DEF Walked
        <3>3. \A x \in 1..walk.first : x > shelf - asked
            BY <1>2, <3>2
        <3>4. AllCovered
            BY <1>13, <3>3 DEF AllCovered
        <3> QED BY <2>3, <3>4
    <2> QED BY <2>4, <2>5
<1> QED BY <1>9, <1>11, <1>14, <1>15 DEF WalkInv

LEMMA OpenEndsKeeps == WalkInv /\ OpenEnds => WalkInv'
<1> SUFFICES ASSUME WalkInv, OpenEnds PROVE WalkInv'
    OBVIOUS
<1>1. WalkTypeOK /\ Walked
    BY DEF WalkInv
<1>2. walk \in Walks /\ walk.items \in Seq(1..MaxFolder) /\ MaxFolder \in Nat
    BY <1>1, WalkTyped
<1> DEFINE n == Len(walk.items)
           w == [walk EXCEPT !.before = n]
<1>3. n \in 0..MaxFolder
    <2>1. n <= MaxFolder /\ n \in Nat
        BY <1>1, <1>2, InjectiveLen DEF Walked
    <2> QED BY <1>2, <2>1
<1>4. InBrowser /\ Proceeds(w)
    BY DEF OpenEnds, InBrowser
<1> HIDE DEF n
<1>5. /\ w \in Walks /\ w.items = walk.items /\ w.first = walk.first /\ w.more = walk.more
      /\ w.seen = walk.seen
    BY <1>2, <1>3 DEF Walks
<1> HIDE DEF w
<1> QED BY <1>4, <1>5, ProceedsKeeps

LEMMA RoundEndsKeeps == WalkInv /\ RoundEnds => WalkInv'
<1> SUFFICES ASSUME WalkInv, RoundEnds PROVE WalkInv'
    OBVIOUS
<1>1. WalkTypeOK /\ Walked
    BY DEF WalkInv
<1>2. /\ walk \in Walks /\ walk.items \in Seq(1..MaxFolder) /\ MaxFolder \in Nat /\ MaxIdle \in Nat
      /\ walk.turns \in Nat /\ walk.idle \in 0..MaxIdle
    BY <1>1, WalkTyped
<1> DEFINE n == Len(walk.items)
           turns == IF walk.turns < MinRounds THEN walk.turns + 1 ELSE walk.turns
           idle == IF n = walk.before THEN walk.idle + 1 ELSE 0
           w == [walk EXCEPT !.turns = turns, !.idle = idle, !.before = n]
<1>3. n \in 0..MaxFolder
    <2>1. n <= MaxFolder /\ n \in Nat
        BY <1>1, <1>2, InjectiveLen DEF Walked
    <2> QED BY <1>2, <2>1
<1>4. InBrowser /\ Proceeds(w) /\ walk.at \in {"scroll", "gather"}
    BY DEF RoundEnds, InBrowser
<1>5. walk.idle < MaxIdle
    BY <1>1, <1>4 DEF Walked
<1> HIDE DEF n
<1>6. turns \in Nat /\ idle \in 0..MaxIdle
    BY <1>2, <1>5
<1> HIDE DEF turns, idle
<1>7. /\ w \in Walks /\ w.items = walk.items /\ w.first = walk.first /\ w.more = walk.more
      /\ w.seen = walk.seen
    BY <1>2, <1>3, <1>6 DEF Walks
<1> HIDE DEF w
<1> QED BY <1>4, <1>7, ProceedsKeeps

LEMMA OpenFailsKeeps == WalkInv /\ OpenFails => WalkInv'
<1> SUFFICES ASSUME WalkInv, OpenFails PROVE WalkInv'
    OBVIOUS
<1>1. WalkTypeOK /\ Walked
    BY DEF WalkInv
<1>2. /\ walk \in Walks /\ shelf \in 0..MaxFolder /\ asked \in 0..MaxFolder /\ lacking \subseteq Reasons
      /\ pending \subseteq Answers
    BY <1>1, WalkTyped
<1>3. /\ walk' = [walk EXCEPT !.at = "failed"] /\ shelf' = shelf /\ asked' = asked
      /\ pending' = pending /\ lacking' = lacking
    BY DEF OpenFails
<1>4. walk' \in Walks /\ walk'.items = walk.items /\ walk'.first = walk.first /\ walk'.at = "failed"
    BY <1>2, <1>3 DEF Walks
<1>5. WalkTypeOK'
    BY <1>2, <1>3, <1>4, WalkRetyped
<1>6. Walked' /\ ByInterface' /\ ByBrowser' /\ WalkComplete'
    BY <1>1, <1>3, <1>4 DEF Walked, ByInterface, ByBrowser, InBrowser, WalkComplete
<1> QED BY <1>5, <1>6 DEF WalkInv

LEMMA GathersKeeps == WalkInv /\ Gathers => WalkInv'
<1> SUFFICES ASSUME WalkInv, Gathers PROVE WalkInv'
    OBVIOUS
<1>1. WalkTypeOK /\ Walked /\ ByBrowser
    BY DEF WalkInv
<1>2. /\ walk \in Walks /\ shelf \in 0..MaxFolder /\ asked \in 0..MaxFolder /\ lacking \subseteq Reasons
      /\ pending \subseteq Answers
    BY <1>1, WalkTyped
<1>3. /\ walk.at = "scroll" /\ walk' = [walk EXCEPT !.at = "gather", !.waits = pending]
      /\ shelf' = shelf /\ asked' = asked /\ pending' = pending /\ lacking' = lacking
    BY DEF Gathers
<1>4. /\ walk' \in Walks /\ walk'.items = walk.items /\ walk'.first = walk.first /\ walk'.at = "gather"
      /\ walk'.more = walk.more /\ walk'.seen = walk.seen /\ walk'.idle = walk.idle
    BY <1>2, <1>3 DEF Walks
<1>5. WalkTypeOK'
    BY <1>2, <1>3, <1>4, WalkRetyped
<1>6. Walked' /\ ByInterface' /\ WalkComplete'
    BY <1>1, <1>3, <1>4 DEF Walked, ByInterface, WalkComplete
<1>7. (\A x : Covered(x) <=> Covered(x)') /\ (AllCovered <=> AllCovered')
    BY <1>3, <1>4 DEF Covered, AllCovered
<1>8. ByBrowser'
    BY <1>1, <1>3, <1>4, <1>7 DEF ByBrowser, InBrowser
<1> QED BY <1>5, <1>6, <1>8 DEF WalkInv

LEMMA CollectsKeeps == WalkInv /\ Collects => WalkInv'
<1> SUFFICES ASSUME WalkInv, Collects PROVE WalkInv'
    OBVIOUS
<1>1. WalkTypeOK /\ Walked /\ ByBrowser /\ ByInterface /\ WalkComplete
    BY DEF WalkInv
<1>2. /\ walk \in Walks /\ shelf \in 0..MaxFolder /\ asked \in 0..MaxFolder /\ lacking \subseteq Reasons
      /\ pending \subseteq Answers /\ walk.first \in 0..MaxFolder /\ MaxFolder \in Nat
      /\ walk.cursor \in 0..MaxFolder
    BY <1>1, WalkTyped
<1>3. /\ shelf < MaxFolder /\ shelf' = shelf + 1 /\ walk' = walk /\ asked' = asked
      /\ pending' = pending /\ lacking' = lacking
    BY DEF Collects
<1>4. WalkTypeOK'
    <2>1. shelf' \in 0..MaxFolder
        BY <1>2, <1>3
    <2> QED BY <1>2, <1>3, <2>1, WalkRetyped
<1>5. (\A x : Covered(x) <=> Covered(x)') /\ (AllCovered <=> AllCovered')
    BY <1>3 DEF Covered, AllCovered
<1>6. Walked' /\ WalkComplete'
    <2>1. walk.first <= shelf => walk.first <= shelf + 1
        BY <1>2
    <2>2. asked <= shelf => asked <= shelf + 1
        BY <1>2
    <2> QED BY <1>1, <1>3, <2>1, <2>2 DEF Walked, WalkComplete
<1>7. \A c \in 0..MaxFolder : c <= shelf => c <= shelf + 1
    BY <1>2
<1>8. \A c \in 0..MaxFolder : \A w \in 1..walk.first : w > (shelf + 1) - c => w > shelf - c
    BY <1>2
<1>9. ByInterface'
    BY <1>1, <1>2, <1>3, <1>7, <1>8 DEF ByInterface
<1>10. ByBrowser'
    <2> SUFFICES ASSUME InBrowser PROVE ByBrowser'
        BY <1>3 DEF ByBrowser, InBrowser
    <2>1. \A w \in 1..walk.first : w > shelf - asked => (lacking # {} \/ Covered(w))
        BY <1>1 DEF ByBrowser
    <2>2. \A w \in 1..walk.first : w > (shelf + 1) - asked => (lacking # {} \/ Covered(w))
        BY Zenon, <1>2, <1>8, <2>1
    <2>3. \A w \in 1..walk'.first : w > shelf' - asked' => (lacking' # {} \/ Covered(w)')
        BY <1>3, <1>5, <2>2
    <2> QED BY <1>1, <1>3, <1>5, <2>3 DEF ByBrowser
<1> QED BY <1>4, <1>6, <1>9, <1>10 DEF WalkInv

LEMMA WalkStepsKeep == WalkInv /\ [WalkNext]_walkVars => WalkInv'
<1> SUFFICES ASSUME WalkInv, [WalkNext]_walkVars PROVE WalkInv'
    OBVIOUS
<1>1. CASE UNCHANGED walkVars
    BY <1>1 DEF walkVars, WalkInv, WalkTypeOK, Walked, ByInterface, ByBrowser, InBrowser, WalkComplete,
                Covered, AllCovered
<1>2. CASE \E size \in 1..Target : DirectPage(size)
    BY <1>2, DirectPageKeeps
<1>3. CASE \E a \in pending : Capture(a) \/ CaptureFails(a)
    BY <1>3, CaptureKeeps, CaptureFailsKeeps
<1> QED BY <1>1, <1>2, <1>3, DirectEmptyKeeps, DirectFailsKeeps, PreviewKeeps, NextPageKeeps,
           BareAnswerKeeps, OpenEndsKeeps, OpenFailsKeeps, GathersKeeps, RoundEndsKeeps, CollectsKeeps
        DEF WalkNext

LEMMA WalkInvariance == WalkSpec => []WalkInv
BY WalkInitHolds, WalkStepsKeep, PTL DEF WalkSpec

\* The state of a walk over a folder has its type.
THEOREM WalkTypeCorrect == WalkSpec => []WalkTypeOK
<1>1. WalkInv => WalkTypeOK
    BY DEF WalkInv
<1> QED BY <1>1, WalkInvariance, PTL

\* A walk that ends well returns no work twice, and has reached its limit or
\* every work that was in the folder when it began, in whatever order the
\* answers of the page are read, or it names why not.
THEOREM WalkIsComplete == WalkSpec => []WalkComplete
<1>1. WalkInv => WalkComplete
    BY DEF WalkInv
<1> QED BY <1>1, WalkInvariance, PTL

-----------------------------------------------------------------------------
(* Routing: the planner.                                                   *)

\* A set of natural numbers has a smallest one.
LEMMA SmallestOf ==
    ASSUME NEW T, T \subseteq Nat, T # {}
    PROVE  \E x \in T : \A y \in T : x <= y
<1> DEFINE R == OpToRel(<, Nat)
<1>1. IsWellFoundedOn(R, Nat)
    BY Zenon, NatLessThanWellFounded
<1>2. \A x, y \in Nat : y < x => <<y, x>> \in R
    BY DEF OpToRel
<1> HIDE DEF R
<1>3. PICK x \in T : \A y \in T : ~ (<<y, x>> \in R)
    BY <1>1, WFMin
<1>4. ASSUME NEW y \in T PROVE x <= y
    <2>1. x \in Nat /\ y \in Nat /\ ~ (y < x)
        BY <1>2, <1>3
    <2> QED BY <2>1
<1> QED BY <1>4

\* The identities and the accounts are numbered.
LEMMA RoutingNumbers ==
    /\ Cardinality(Ids) \in Nat \ {0} /\ Ids = 1..Cardinality(Ids) /\ NoId \notin Ids
    /\ Ids \subseteq Nat /\ 1 \in Ids
    /\ Cardinality(Targets) \in Nat /\ Targets = 1..Cardinality(Targets)
<1> DEFINE n == Cardinality(Ids)
           m == Cardinality(Targets)
<1>1. n \in Nat /\ m \in Nat /\ Ids = 1..n /\ Targets = 1..m /\ Ids # {}
    BY RoutingAssumption, FS_CardinalityType
<1> HIDE DEF n, m
<1>2. n # 0 /\ 0 \notin Ids /\ Ids \subseteq Nat /\ 1 \in Ids
    BY <1>1
<1> QED BY <1>1, <1>2 DEF n, m, NoId

\* The order under the hash of an account is strict.
LEMMA RankIs ==
    ASSUME NEW t \in Targets, NEW i \in Ids
    PROVE  Rank(t, i) \in Nat
<1> DEFINE n == Cardinality(Ids)
<1>1. n \in Nat \ {0} /\ i \in Nat /\ t \in Nat
    BY RoutingNumbers
<1> HIDE DEF n
<1>2. (t + i) % n \in Nat
    BY <1>1
<1> QED BY <1>2 DEF Rank, n

LEMMA RankStrict ==
    ASSUME NEW t \in Targets, NEW i \in Ids, NEW j \in Ids, Rank(t, i) = Rank(t, j)
    PROVE  i = j
<1> DEFINE n == Cardinality(Ids)
<1>1. n \in Nat \ {0} /\ i \in 1..n /\ j \in 1..n /\ t \in Nat
    BY RoutingNumbers
<1>2. (t + i) % n = (t + j) % n
    BY DEF Rank
<1> HIDE DEF n
<1> DEFINE p == (t + i) \div n
           q == (t + j) \div n
           r == (t + i) % n
<1>3. p \in Int /\ q \in Int /\ r \in Int
    BY <1>1
<1>4. t + i = n * p + r /\ t + j = n * q + r
    BY <1>1, <1>2
<1> HIDE DEF p, q, r
<1>5. i - j = n * (p - q)
    BY <1>1, <1>3, <1>4
<1>6. p = q
    <2>1. CASE p > q
        <3>1. p - q >= 1
            BY <1>3, <2>1
        <3>2. n * (p - q) >= n
            BY <1>1, <1>3, <3>1
        <3> QED BY <1>1, <1>5, <3>2
    <2>2. CASE q > p
        <3>1. q - p >= 1
            BY <1>3, <2>2
        <3>2. n * (q - p) >= n
            BY <1>1, <1>3, <3>1
        <3>3. j - i = n * (q - p)
            BY <1>1, <1>3, <1>5
        <3> QED BY <1>1, <3>2, <3>3
    <2> QED BY <1>3, <2>1, <2>2
<1> QED BY <1>1, <1>3, <1>5, <1>6

\* Some number of a set of numbers below a bound is the greatest.
LEMMA GreatestRank ==
    ASSUME NEW t \in Targets, NEW E, E \subseteq Ids, E # {}
    PROVE  \E i \in E : \A j \in E : Rank(t, j) <= Rank(t, i)
<1> DEFINE n == Cardinality(Ids)
           T == {n - Rank(t, i) : i \in E}
<1>1. n \in Nat
    BY RoutingNumbers
<1>2. \A i \in E : Rank(t, i) \in Nat /\ Rank(t, i) <= n
    <2> SUFFICES ASSUME NEW i \in E PROVE Rank(t, i) \in Nat /\ Rank(t, i) <= n
        OBVIOUS
    <2>1. n \in Nat \ {0} /\ i \in Nat /\ t \in Nat
        BY RoutingNumbers
    <2> HIDE DEF n
    <2>2. (t + i) % n \in Nat /\ (t + i) % n < n
        BY <2>1
    <2> QED BY <2>1, <2>2 DEF Rank, n
<1> HIDE DEF n
<1>3. T \subseteq Nat /\ T # {}
    BY <1>1, <1>2
<1>4. PICK x \in T : \A y \in T : x <= y
    <2> HIDE DEF T
    <2> QED BY <1>3, SmallestOf
<1>5. PICK i \in E : x = n - Rank(t, i)
    OBVIOUS
<1>6. ASSUME NEW j \in E PROVE Rank(t, j) <= Rank(t, i)
    <2>1. n - Rank(t, i) <= n - Rank(t, j)
        BY <1>4, <1>5
    <2> QED BY <1>1, <1>2, <2>1
<1> QED BY <1>6

LEMMA RendezvousIs ==
    ASSUME NEW t \in Targets, NEW E, E \subseteq Ids, E # {}
    PROVE  Rendezvous(t, E) \in E /\ \A j \in E : Rank(t, j) <= Rank(t, Rendezvous(t, E))
<1>1. \E i \in E : \A j \in E : Rank(t, j) <= Rank(t, i)
    BY GreatestRank
<1> QED BY Zenon, <1>1 DEF Rendezvous

\* Whoever loses cannot be missed: the choice without it is the same.
LEMMA RendezvousStands ==
    ASSUME NEW t \in Targets, NEW E, E \subseteq Ids, NEW lost, Rendezvous(t, E) # lost, E # {}
    PROVE  Rendezvous(t, E \ {lost}) = Rendezvous(t, E)
<1> DEFINE i == Rendezvous(t, E)
           k == Rendezvous(t, E \ {lost})
<1>1. i \in E /\ \A j \in E : Rank(t, j) <= Rank(t, i)
    BY RendezvousIs
<1>2. i \in E \ {lost}
    BY <1>1
<1>3. k \in E \ {lost} /\ \A j \in E \ {lost} : Rank(t, j) <= Rank(t, k)
    <2> DEFINE F == E \ {lost}
    <2>1. F \subseteq Ids /\ F # {}
        BY <1>2
    <2> HIDE DEF F
    <2>2. Rendezvous(t, F) \in F /\ \A j \in F : Rank(t, j) <= Rank(t, Rendezvous(t, F))
        BY <2>1, RendezvousIs
    <2> QED BY <2>2 DEF F
<1> HIDE DEF i, k
<1>4. Rank(t, i) <= Rank(t, k) /\ Rank(t, k) <= Rank(t, i)
    BY <1>1, <1>2, <1>3
<1>5. Rank(t, i) = Rank(t, k)
    BY <1>1, <1>3, <1>4, RankIs
<1>6. i = k
    BY <1>1, <1>3, <1>5, RankStrict
<1> QED BY <1>6 DEF i, k

LEMMA LeastLoadedIs ==
    ASSUME NEW t \in Targets, NEW E, E \subseteq Ids, E # {}, NEW load \in [Ids -> Nat]
    PROVE  LeastLoaded(t, E, load) \in E
<1> DEFINE L == {load[i] : i \in E}
<1>1. L \subseteq Nat /\ L # {}
    OBVIOUS
<1>2. PICK l \in L : \A y \in L : l <= y
    <2> HIDE DEF L
    <2> QED BY <1>1, SmallestOf
<1> DEFINE F == {i \in E : load[i] = l}
           R == {Rank(t, i) : i \in F}
<1>3. R \subseteq Nat /\ R # {}
    BY RankIs
<1>4. PICK r \in R : \A y \in R : r <= y
    <2> HIDE DEF R
    <2> QED BY <1>3, SmallestOf
<1>5. PICK i \in F : Rank(t, i) = r
    OBVIOUS
<1>6. ASSUME NEW j \in E PROVE load[i] < load[j] \/ (load[i] = load[j] /\ Rank(t, i) <= Rank(t, j))
    <2>1. load[i] = l /\ l <= load[j] /\ l \in Nat /\ load[j] \in Nat
        BY <1>2
    <2>2. CASE load[j] = l
        BY <1>4, <1>5, <2>1, <2>2
    <2>3. CASE load[j] # l
        BY <2>1, <2>3
    <2> QED BY <2>2, <2>3
<1>7. \E x \in E : \A j \in E : load[x] < load[j] \/ (load[x] = load[j] /\ Rank(t, x) <= Rank(t, j))
    BY <1>6
<1> QED BY Zenon, <1>7 DEF LeastLoaded

\* The identity of an account is one that is eligible, or there is none.
LEMMA ChoiceIs ==
    ASSUME NEW t \in Targets, NEW E, E \subseteq Ids, NEW load \in [Ids -> Nat]
    PROVE  Choice(t, E, load) \in E \cup {NoId}
<1>1. CASE E = {}
    BY <1>1 DEF Choice
<1>2. CASE E # {}
    <2>1. Rendezvous(t, E) \in E /\ LeastLoaded(t, E, load) \in E
        BY <1>2, RendezvousIs, LeastLoadedIs
    <2> QED BY <2>1 DEF Choice
<1> QED BY <1>1, <1>2

\* The loads that the accounts before t leave.
After(load, plan, t) == [i \in Ids |-> load[i] + Cardinality({u \in 1..(t - 1) : plan[u] = i})]

LEMMA AfterIs ==
    ASSUME NEW load \in [Ids -> Nat], NEW plan, NEW t \in Nat
    PROVE  After(load, plan, t) \in [Ids -> Nat]
<1> SUFFICES ASSUME NEW i \in Ids PROVE load[i] + Cardinality({u \in 1..(t - 1) : plan[u] = i}) \in Nat
    BY DEF After
<1>1. IsFiniteSet(1..(t - 1))
    BY FS_Interval
<1>2. Cardinality({u \in 1..(t - 1) : plan[u] = i}) \in Nat
    BY <1>1, FS_Subset, FS_CardinalityType
<1> QED BY <1>2

\* The plan exists: an account's identity depends on the accounts before it.
LEMMA PlannedIs ==
    ASSUME NEW E, NEW load
    PROVE  Planned(E, load) = [t \in Targets |-> Choice(t, E, After(load, Planned(E, load), t))]
<1> DEFINE m == Cardinality(Targets)
           Is(f, n) == f = [t \in 1..n |-> Choice(t, E, After(load, f, t))]
           T == {n \in Nat : \E f : Is(f, n)}
           c == Planned(E, load)
<1>1. 0 \in T
    <2> DEFINE g == [t \in 1..0 |-> 0]
    <2>1. g = [t \in 1..0 |-> Choice(t, E, After(load, g, t))]
        <3>1. \A t : t \notin 1..0
            OBVIOUS
        <3> HIDE DEF Is
        <3> QED BY <3>1
    <2> QED BY <2>1
<1>2. ASSUME NEW n \in Nat, n \in T PROVE n + 1 \in T
    <2>1. PICK f : Is(f, n)
        BY <1>2
    <2> DEFINE g == [t \in 1..(n + 1) |-> IF t = n + 1 THEN Choice(n + 1, E, After(load, f, n + 1)) ELSE f[t]]
    <2>2. \A t \in 1..n : t \in 1..(n + 1) /\ t # n + 1 /\ g[t] = f[t]
        OBVIOUS
    <2>3. n + 1 \in 1..(n + 1) /\ g[n + 1] = Choice(n + 1, E, After(load, f, n + 1))
        OBVIOUS
    <2> HIDE DEF g
    <2>4. ASSUME NEW t \in 1..(n + 1) PROVE After(load, g, t) = After(load, f, t)
        <3>1. \A u \in 1..(t - 1) : u \in 1..n
            OBVIOUS
        <3>2. \A i : {u \in 1..(t - 1) : g[u] = i} = {u \in 1..(t - 1) : f[u] = i}
            BY <2>2, <3>1
        <3> QED BY <3>2 DEF After
    <2>5. ASSUME NEW t \in 1..(n + 1) PROVE g[t] = Choice(t, E, After(load, g, t))
        <3>1. CASE t = n + 1
            BY <2>3, <2>4, <3>1
        <3>2. CASE t # n + 1
            <4>1. t \in 1..n
                BY <3>2
            <4>2. f[t] = Choice(t, E, After(load, f, t))
                BY <2>1, <4>1
            <4> QED BY <2>2, <2>4, <4>1, <4>2
        <3> QED BY <3>1, <3>2
    <2>6. g = [t \in 1..(n + 1) |-> g[t]]
        BY DEF g
    <2>7. Is(g, n + 1)
        BY <2>5, <2>6
    <2> HIDE DEF Is
    <2> QED BY <2>7
<1>3. m \in Nat /\ Targets = 1..m
    BY RoutingNumbers
<1>4. m \in T
    <2> HIDE DEF T, m
    <2> QED BY <1>1, <1>2, <1>3, SetInduction
<1>5. \E f : f = [t \in Targets |-> Choice(t, E, After(load, f, t))]
    BY <1>3, <1>4
<1>6. c = CHOOSE f : f = [t \in Targets |-> Choice(t, E, After(load, f, t))]
    BY Zenon DEF Planned, After
<1>7. c = [t \in Targets |-> Choice(t, E, After(load, c, t))]
    <2> HIDE DEF c
    <2> QED BY Zenon, <1>5, <1>6
<1> QED BY <1>7 DEF c

LEMMA PlannedTyped ==
    ASSUME NEW E, E \subseteq Ids, NEW load \in [Ids -> Nat]
    PROVE  /\ Planned(E, load) \in [Targets -> E \cup {NoId}]
           /\ Planned(E, load) \in [Targets -> Ids \cup {NoId}]
<1> DEFINE c == Planned(E, load)
<1>1. c = [t \in Targets |-> Choice(t, E, After(load, c, t))]
    BY PlannedIs
<1> HIDE DEF c
<1>2. ASSUME NEW t \in Targets PROVE Choice(t, E, After(load, c, t)) \in E \cup {NoId}
    <2>1. t \in Nat
        BY RoutingNumbers
    <2> QED BY <2>1, AfterIs, ChoiceIs
<1>3. c \in [Targets -> E \cup {NoId}]
    BY <1>1, <1>2
<1> QED BY <1>3 DEF c

-----------------------------------------------------------------------------
(* Routing: the inductive invariant.                                       *)

RoutingInv == RoutingTypeOK /\ NamesExist

LEMMA RulesTyped ==
    ASSUME RoutingTypeOK
    PROVE  /\ rules.least \in BOOLEAN /\ rules.strict \in BOOLEAN
           /\ rules.default \in Ids \cup {NoId} /\ rules.fallback \in Ids \cup {NoId}
BY DEF RoutingTypeOK, Policies

LEMMA BindingTyped ==
    ASSUME RoutingTypeOK, NEW t \in Targets
    PROVE  /\ binding[t].id \in Ids \cup {NoId} /\ binding[t].explicit \in BOOLEAN
           /\ binding[t].explicit => binding[t].id # NoId
<1>1. binding[t] \in Bindings
    BY DEF RoutingTypeOK
<1>2. CASE binding[t] = Unbound
    BY <1>2 DEF Unbound
<1>3. CASE binding[t] \in [id : Ids, explicit : BOOLEAN]
    BY <1>3, RoutingNumbers
<1> QED BY <1>1, <1>2, <1>3 DEF Bindings

LEMMA EligibleIs == Eligible \subseteq Ids /\ \A i \in Eligible : health[i] = "ok"
BY DEF Eligible

\* The fallback, for one identity less.
LEMMA FallbackStands ==
    ASSUME NEW x, NEW E, NEW lost
    PROVE  /\ Fallback(x, E) \in (E \ {x}) \cup {NoId}
           /\ Fallback(x, E) # lost => Fallback(x, E \ {lost}) = Fallback(x, E)
BY DEF Fallback

\* What is fixed for an account stays fixed without another identity.
LEMMA FixedStands ==
    ASSUME RoutingTypeOK, ~rules.least, NEW t \in Targets, NEW E, E \subseteq Ids, NEW lost \in Ids
    PROVE  Fixed(t, E) # lost => Fixed(t, E \ {lost}) = Fixed(t, E)
<1> DEFINE b == binding[t]
           F == E \ {lost}
<1> SUFFICES ASSUME Fixed(t, E) # lost PROVE Fixed(t, F) = Fixed(t, E)
    OBVIOUS
<1>1. b.explicit => b.id # NoId
    BY BindingTyped
<1>2. NoId \notin E /\ NoId # lost
    BY RoutingNumbers
<1>3. /\ Fallback(b.id, E) # lost => Fallback(b.id, F) = Fallback(b.id, E)
      /\ Fallback(rules.default, E) # lost => Fallback(rules.default, F) = Fallback(rules.default, E)
    BY FallbackStands
<1>4. CASE b.explicit
    BY <1>3, <1>4 DEF Fixed
<1>5. CASE ~b.explicit /\ b.id # NoId
    BY <1>3, <1>5 DEF Fixed
<1>6. CASE ~b.explicit /\ b.id = NoId
    <2>1. CASE rules.default \in E
        BY <1>6, <2>1 DEF Fixed
    <2>2. CASE rules.default \notin E
        BY <1>3, <1>6, <2>2 DEF Fixed
    <2> QED BY <2>1, <2>2
<1> QED BY <1>4, <1>5, <1>6

LEMMA ChoiceStands ==
    ASSUME RoutingTypeOK, ~rules.least, NEW t \in Targets, NEW E, E \subseteq Ids, NEW lost \in Ids,
           NEW old, NEW new, Choice(t, E, old) \notin {lost, NoId}
    PROVE  Choice(t, E \ {lost}, new) = Choice(t, E, old)
<1> DEFINE F == E \ {lost}
<1>1. CASE Fixed(t, E) # NoId
    <2>1. Choice(t, E, old) = Fixed(t, E) /\ Fixed(t, E) \in E
        BY <1>1 DEF Choice
    <2>2. Fixed(t, F) = Fixed(t, E) /\ Fixed(t, E) \in F
        BY <2>1, FixedStands
    <2> QED BY <1>1, <2>1, <2>2 DEF Choice
<1>2. CASE Fixed(t, E) = NoId
    <2>1. E # {} /\ Choice(t, E, old) = Rendezvous(t, E)
        BY <1>2 DEF Choice
    <2>2. Rendezvous(t, F) = Rendezvous(t, E) /\ Rendezvous(t, E) \in E
        BY <2>1, RendezvousStands, RendezvousIs
    <2>3. lost # NoId
        BY RoutingNumbers
    <2>4. Fixed(t, F) = NoId
        BY <1>2, <2>3, FixedStands
    <2>5. F # {}
        BY <2>1, <2>2
    <2> HIDE DEF F
    <2>6. Choice(t, F, new) = Rendezvous(t, F)
        BY <2>4, <2>5 DEF Choice
    <2> QED BY <2>1, <2>2, <2>6 DEF F
<1> QED BY <1>1, <1>2

\* An identity that drops out moves no account of another one, whatever the
\* bindings, the rules and the health of the others.
LEMMA TypedLostMovesItsOwn == RoutingTypeOK => LostMovesItsOwn
<1> SUFFICES ASSUME RoutingTypeOK PROVE LostMovesItsOwn
    OBVIOUS
<1> DEFINE idle == [i \in Ids |-> 0]
           before == Planned(Eligible, idle)
<1> SUFFICES ASSUME ~rules.least, NEW lost \in Eligible, NEW t \in Targets, before[t] \notin {lost, NoId}
             PROVE  Planned(Eligible \ {lost}, idle)[t] = before[t]
    BY DEF LostMovesItsOwn
<1> DEFINE after == Planned(Eligible \ {lost}, idle)
<1>1. before[t] = Choice(t, Eligible, After(idle, before, t))
    BY PlannedIs
<1>2. after[t] = Choice(t, Eligible \ {lost}, After(idle, after, t))
    BY PlannedIs
<1>3. Eligible \subseteq Ids /\ lost \in Ids
    BY EligibleIs
<1> HIDE DEF before, after, idle
<1>4. Choice(t, Eligible, After(idle, before, t)) \notin {lost, NoId}
    BY <1>1
<1>5. after[t] = before[t]
    BY <1>1, <1>2, <1>3, <1>4, ChoiceStands
<1> QED BY <1>5 DEF after

LEMMA RoutingInitHolds == RoutingInit => RoutingInv
<1> SUFFICES ASSUME RoutingInit PROVE RoutingInv
    OBVIOUS
<1>1. Cardinality(Ids) \in Ids
    BY RoutingNumbers
<1>2. rules \in Policies /\ rules.default = NoId /\ rules.fallback \in Ids
    BY <1>1 DEF RoutingInit, Policies
<1>3. RoutingTypeOK
    BY <1>2 DEF RoutingInit, RoutingTypeOK, Healths, Bindings
<1>4. \A t \in Targets : binding[t].id = NoId
    BY DEF RoutingInit, Unbound
<1>5. \A i \in Ids : health[i] # "deleted"
    BY DEF RoutingInit
<1>6. NamesExist
    BY <1>2, <1>4, <1>5 DEF NamesExist
<1> QED BY <1>3, <1>6 DEF RoutingInv

\* The bindings after a step, an account at a time.
LEMMA BindingsKept ==
    ASSUME RoutingInv, rules' = rules, health' = health, flight' = flight \/ flight' \in [Targets -> Ids \cup {NoId}],
           DOMAIN binding' = Targets, binding' = [t \in Targets |-> binding'[t]],
           \A t \in Targets : \/ binding'[t] = binding[t] \/ binding'[t] = Unbound
                              \/ \E i \in Ids, e \in BOOLEAN :
                                    /\ health[i] # "deleted"
                                    /\ binding'[t] = [id |-> i, explicit |-> e]
    PROVE  RoutingInv'
<1>1. RoutingTypeOK /\ NamesExist
    BY DEF RoutingInv
<1>2. ASSUME NEW t \in Targets
      PROVE  binding'[t] \in Bindings /\ (binding'[t].id # NoId => health[binding'[t].id] # "deleted")
    <2>1. CASE binding'[t] = binding[t]
        BY <1>1, <2>1 DEF RoutingTypeOK, NamesExist
    <2>2. CASE binding'[t] = Unbound
        BY <2>2 DEF Unbound, Bindings
    <2>3. ASSUME NEW i \in Ids, NEW e \in BOOLEAN, health[i] # "deleted",
                 binding'[t] = [id |-> i, explicit |-> e]
          PROVE  binding'[t] \in Bindings /\ (binding'[t].id # NoId => health[binding'[t].id] # "deleted")
        BY <2>3 DEF Bindings
    <2> QED BY <2>1, <2>2, <2>3
<1>3. RoutingTypeOK'
    BY <1>1, <1>2 DEF RoutingTypeOK
<1>4. NamesExist'
    BY <1>1, <1>2 DEF NamesExist
<1> QED BY <1>3, <1>4 DEF RoutingInv

\* A plan for the loads that the leases leave.
LEMMA RoutePlanned ==
    ASSUME NEW load \in Loads
    PROVE  /\ Planned(Eligible, load) \in [Targets -> Ids \cup {NoId}]
           /\ \A t \in Targets : Planned(Eligible, load)[t] # NoId => Planned(Eligible, load)[t] \in Eligible
<1>1. load \in [Ids -> Nat]
    BY DEF Loads
<1>2. Eligible \subseteq Ids
    BY EligibleIs
<1>3. /\ Planned(Eligible, load) \in [Targets -> Eligible \cup {NoId}]
      /\ Planned(Eligible, load) \in [Targets -> Ids \cup {NoId}]
    BY <1>1, <1>2, PlannedTyped
<1> QED BY <1>3

LEMMA PlanAndPersistKeeps == RoutingInv /\ PlanAndPersist => RoutingInv'
<1> SUFFICES ASSUME RoutingInv, PlanAndPersist PROVE RoutingInv'
    OBVIOUS
<1>1. PICK load \in Loads :
         /\ Routed(Planned(Eligible, load))
         /\ binding' = [t \in Targets |->
               IF Sticky(t, Eligible) THEN [id |-> Planned(Eligible, load)[t], explicit |-> FALSE]
               ELSE binding[t]]
         /\ UNCHANGED <<health, rules, flight>>
    BY DEF PlanAndPersist
<1> DEFINE p == Planned(Eligible, load)
<1>2. \A t \in Targets : p[t] \in Eligible
    BY <1>1, RoutePlanned DEF Routed
<1>3. \A i \in Eligible : i \in Ids /\ health[i] # "deleted"
    BY EligibleIs
<1> HIDE DEF p
<1>4. binding' = [t \in Targets |-> IF Sticky(t, Eligible) THEN [id |-> p[t], explicit |-> FALSE]
                                    ELSE binding[t]]
    BY <1>1 DEF p
<1>5. ASSUME NEW t \in Targets
      PROVE  \/ binding'[t] = binding[t] \/ binding'[t] = Unbound
             \/ \E i \in Ids, e \in BOOLEAN : health[i] # "deleted" /\ binding'[t] = [id |-> i, explicit |-> e]
    <2>1. p[t] \in Ids /\ health[p[t]] # "deleted" /\ FALSE \in BOOLEAN
        BY <1>2, <1>3
    <2> QED BY <1>4, <2>1
<1> QED BY <1>1, <1>4, <1>5, BindingsKept

LEMMA PlanBatchKeeps == RoutingInv /\ PlanBatch => RoutingInv'
<1> SUFFICES ASSUME RoutingInv, PlanBatch PROVE RoutingInv'
    OBVIOUS
<1>1. PICK load \in Loads, t \in Targets :
         /\ flight' = [u \in Targets |-> IF u = t THEN Planned(Eligible, load)[u] ELSE NoId]
         /\ UNCHANGED <<health, rules, binding>>
    BY DEF PlanBatch
<1>2. \A u \in Targets : Planned(Eligible, load)[u] \in Ids \cup {NoId}
    BY RoutePlanned
<1>3. flight' \in [Targets -> Ids \cup {NoId}]
    BY <1>1, <1>2
<1> QED BY <1>1, <1>3 DEF RoutingInv, RoutingTypeOK, NamesExist

LEMMA RecoverKeeps == ASSUME RoutingInv, NEW t \in Targets, Recover(t) PROVE RoutingInv'
<1>1. PICK i \in Eligible : flight' = [flight EXCEPT ![t] = i]
    BY DEF Recover
<1>2. flight \in [Targets -> Ids \cup {NoId}] /\ i \in Ids
    BY EligibleIs DEF RoutingInv, RoutingTypeOK
<1>3. flight' \in [Targets -> Ids \cup {NoId}]
    BY <1>1, <1>2
<1> QED BY <1>3 DEF Recover, RoutingInv, RoutingTypeOK, NamesExist

LEMMA FailAllKeeps == ASSUME RoutingInv, NEW t \in Targets, FailAll(t) PROVE RoutingInv'
<1>1. flight' \in [Targets -> Ids \cup {NoId}]
    BY DEF FailAll, RoutingInv, RoutingTypeOK
<1> QED BY <1>1 DEF FailAll, RoutingInv, RoutingTypeOK, NamesExist

LEMMA SucceedKeeps == ASSUME RoutingInv, NEW t \in Targets, Succeed(t) PROVE RoutingInv'
<1>1. flight \in [Targets -> Ids \cup {NoId}] /\ binding \in [Targets -> Bindings]
    BY DEF RoutingInv, RoutingTypeOK
<1>2. /\ flight[t] # NoId /\ flight' = [flight EXCEPT ![t] = NoId] /\ health' = health /\ rules' = rules
      /\ \/ binding' = binding
         \/ /\ health[flight[t]] # "deleted"
            /\ binding' = [binding EXCEPT ![t] = [id |-> flight[t], explicit |-> FALSE]]
    BY DEF Succeed
<1>3. flight[t] \in Ids /\ flight' \in [Targets -> Ids \cup {NoId}] /\ FALSE \in BOOLEAN
    BY <1>1, <1>2
<1>4. DOMAIN binding' = Targets /\ binding' = [u \in Targets |-> binding'[u]]
    BY <1>1, <1>2
<1>5. \A u \in Targets : \/ binding'[u] = binding[u]
                         \/ \E i \in Ids, e \in BOOLEAN :
                               health[i] # "deleted" /\ binding'[u] = [id |-> i, explicit |-> e]
    BY <1>1, <1>2, <1>3
<1> QED BY <1>2, <1>3, <1>4, <1>5, BindingsKept

LEMMA BindKeeps == ASSUME RoutingInv, NEW t \in Targets, Bind(t) PROVE RoutingInv'
<1>1. binding \in [Targets -> Bindings]
    BY DEF RoutingInv, RoutingTypeOK
<1>2. /\ flight' = flight /\ health' = health /\ rules' = rules
      /\ \/ \E i \in Ids : /\ health[i] # "deleted"
                           /\ binding' = [binding EXCEPT ![t] = [id |-> i, explicit |-> TRUE]]
         \/ binding' = [binding EXCEPT ![t] = Unbound]
    BY DEF Bind
<1>3. DOMAIN binding' = Targets /\ binding' = [u \in Targets |-> binding'[u]]
    BY <1>1, <1>2
<1>4. TRUE \in BOOLEAN
    OBVIOUS
<1>5. \A u \in Targets : \/ binding'[u] = binding[u] \/ binding'[u] = Unbound
                         \/ \E i \in Ids, e \in BOOLEAN :
                               health[i] # "deleted" /\ binding'[u] = [id |-> i, explicit |-> e]
    BY <1>1, <1>2, <1>4
<1> QED BY <1>2, <1>3, <1>5, BindingsKept

LEMMA HealthChangesKeeps == ASSUME RoutingInv, NEW i \in Ids, HealthChanges(i) PROVE RoutingInv'
<1>1. /\ health \in [Ids -> Healths] /\ health[i] # "deleted" /\ UNCHANGED <<rules, binding, flight>>
      /\ health' = [health EXCEPT ![i] = IF health[i] = "ok" THEN "off" ELSE "ok"]
    BY DEF RoutingInv, RoutingTypeOK, HealthChanges
<1>2. health' \in [Ids -> Healths]
    BY <1>1 DEF Healths
<1>3. \A j \in Ids : health[j] # "deleted" => health'[j] # "deleted"
    BY <1>1
<1>4. \A j \in {binding[t].id : t \in Targets} \cup {rules.default, rules.fallback} : j # NoId => j \in Ids
    BY BindingTyped, RulesTyped DEF RoutingInv
<1>5. NamesExist'
    BY <1>1, <1>3, <1>4 DEF NamesExist, RoutingInv
<1> QED BY <1>1, <1>2, <1>5 DEF RoutingInv, RoutingTypeOK

LEMMA ConfigureKeeps == RoutingInv /\ Configure => RoutingInv'
<1> SUFFICES ASSUME RoutingInv, Configure PROVE RoutingInv'
    OBVIOUS
<1>1. /\ rules \in Policies /\ UNCHANGED <<health, binding, flight>>
      /\ rules' \in {[rules EXCEPT !.least = ~rules.least], [rules EXCEPT !.strict = ~rules.strict]}
                    \cup {[rules EXCEPT !.default = i] : i \in {NoId, 1}}
      /\ \A i \in {rules'.default, rules'.fallback} \ {NoId} : health[i] # "deleted"
    BY DEF RoutingInv, RoutingTypeOK, Configure
<1>2. 1 \in Ids
    BY RoutingNumbers
<1>3. rules' \in Policies
    <2>1. CASE rules' = [rules EXCEPT !.least = ~rules.least]
        BY <1>1, <2>1 DEF Policies
    <2>2. CASE rules' = [rules EXCEPT !.strict = ~rules.strict]
        BY <1>1, <2>2 DEF Policies
    <2>3. ASSUME NEW i \in {NoId, 1}, rules' = [rules EXCEPT !.default = i] PROVE rules' \in Policies
        BY <1>1, <1>2, <2>3 DEF Policies
    <2> QED BY <1>1, <2>1, <2>2, <2>3
<1>4. NamesExist'
    BY <1>1 DEF NamesExist, RoutingInv
<1> QED BY <1>1, <1>3, <1>4 DEF RoutingInv, RoutingTypeOK

LEMMA ForgetKeeps == ASSUME RoutingInv, NEW i \in Ids, Forget(i) PROVE RoutingInv'
<1>1. /\ health \in [Ids -> Healths] /\ ~Referenced(i) /\ UNCHANGED <<rules, binding, flight>>
      /\ health' = [health EXCEPT ![i] = "deleted"]
    BY DEF RoutingInv, RoutingTypeOK, Forget
<1>2. health' \in [Ids -> Healths]
    BY <1>1 DEF Healths
<1>3. \A j \in {binding[t].id : t \in Targets} \cup {rules.default, rules.fallback} : j # i
    BY <1>1 DEF Referenced
<1>4. NamesExist'
    BY <1>1, <1>3 DEF NamesExist, RoutingInv
<1> QED BY <1>1, <1>2, <1>4 DEF RoutingInv, RoutingTypeOK

LEMMA RoutingStepsKeep == RoutingInv /\ [RoutingNext]_routingVars => RoutingInv'
<1> SUFFICES ASSUME RoutingInv, [RoutingNext]_routingVars PROVE RoutingInv'
    OBVIOUS
<1>1. CASE UNCHANGED routingVars
    BY <1>1 DEF routingVars, RoutingInv, RoutingTypeOK, NamesExist
<1>2. ASSUME NEW t \in Targets, Recover(t) \/ Succeed(t) \/ FailAll(t) \/ Bind(t) PROVE RoutingInv'
    BY <1>2, RecoverKeeps, SucceedKeeps, FailAllKeeps, BindKeeps
<1>3. ASSUME NEW i \in Ids, HealthChanges(i) \/ Forget(i) PROVE RoutingInv'
    BY <1>3, HealthChangesKeeps, ForgetKeeps
<1> QED BY <1>1, <1>2, <1>3, PlanAndPersistKeeps, PlanBatchKeeps, ConfigureKeeps DEF RoutingNext

\* Only the user changes what the user has bound.
LEMMA RoutingStepsBind == RoutingTypeOK /\ [RoutingNext]_routingVars => [BoundByUser]_routingVars
<1> SUFFICES ASSUME RoutingTypeOK, RoutingNext, NEW t \in Targets, binding[t].explicit, binding'[t] # binding[t]
             PROVE  Bind(t)
    BY DEF BoundByUser
<1>1. binding \in [Targets -> Bindings]
    BY DEF RoutingTypeOK
<1>2. ~Sticky(t, Eligible)
    BY DEF Sticky
<1>3. ~PlanAndPersist
    <2> SUFFICES ASSUME PlanAndPersist PROVE FALSE
        OBVIOUS
    <2>1. PICK load \in Loads :
             binding' = [u \in Targets |->
               IF Sticky(u, Eligible) THEN [id |-> Planned(Eligible, load)[u], explicit |-> FALSE]
               ELSE binding[u]]
        BY DEF PlanAndPersist
    <2> QED BY <1>2, <2>1
<1>4. ~PlanBatch /\ ~Configure
    BY DEF PlanBatch, Configure
<1>5. ASSUME NEW u \in Targets, Recover(u) \/ Succeed(u) \/ FailAll(u) PROVE FALSE
    BY <1>1, <1>5 DEF Recover, Succeed, FailAll
<1>6. ASSUME NEW u \in Targets, Bind(u) PROVE u = t
    BY <1>1, <1>6 DEF Bind
<1>7. ASSUME NEW i \in Ids, HealthChanges(i) \/ Forget(i) PROVE FALSE
    BY <1>7 DEF HealthChanges, Forget
<1> QED BY <1>3, <1>4, <1>5, <1>6, <1>7 DEF RoutingNext

LEMMA RoutingInvariance == RoutingSpec => []RoutingInv
BY RoutingInitHolds, RoutingStepsKeep, PTL DEF RoutingSpec

\* The state of the planner has its type.
THEOREM RoutingTypeCorrect == RoutingSpec => []RoutingTypeOK
<1>1. RoutingInv => RoutingTypeOK
    BY DEF RoutingInv
<1> QED BY <1>1, RoutingInvariance, PTL

\* An identity that drops out moves no account of another one, what is bound
\* or configured exists, and nothing but the user changes what the user bound.
THEOREM RoutingStands == RoutingSpec => RoutesStand
<1>1. RoutingInv => LostMovesItsOwn /\ NamesExist
    BY TypedLostMovesItsOwn DEF RoutingInv
<1>2. RoutingInv /\ [RoutingNext]_routingVars => [BoundByUser]_routingVars
    BY RoutingStepsBind DEF RoutingInv
<1> QED BY <1>1, <1>2, RoutingInvariance, PTL DEF RoutingSpec, RoutesStand

-----------------------------------------------------------------------------
(* AccountBatch: the inductive invariant.                                  *)

LaneStates == [chunk : SUBSET Positions, todo : SUBSET Positions, rest : SUBSET Positions,
               step : {"ready", "unit", "over"}]
Probes == [account : Positions \cup {0}, with : SUBSET Lanes, busy : BOOLEAN]

BatchTyped ==
    /\ phase \in {"plan", "run", "probe", "settle", "done", "raised"}
    /\ route \in [Positions -> Lanes]
    /\ row \in [Positions -> RowStatus]
    /\ queued \subseteq Positions /\ unproved \subseteq Positions
    /\ lane \in [Lanes -> LaneStates]
    /\ result \in [Positions -> Terminal \cup {"none"}]
    /\ best \in [Positions -> Terminal \cup {"none"}]
    /\ tally \in Tallies /\ base \in Tallies /\ report \in Tallies
    /\ probe \in Probes
    /\ recounted \in BOOLEAN /\ mishaps \in 0..MaxMishaps

\* What a lane has still to do.
Open(i) == lane[i].todo \cup lane[i].rest

\* A lane has accounts of its own only, and has still to do every account that
\* has no outcome.
LanesRight ==
    /\ \A i \in Lanes :
          /\ lane[i].todo \subseteq lane[i].chunk
          /\ lane[i].chunk \cap lane[i].rest = {}
          /\ lane[i].step = "unit" => lane[i].todo # {}
          /\ phase = "run" =>
                /\ \A a \in lane[i].chunk \cup lane[i].rest : a \in queued /\ route[a] = i
                /\ lane[i].step = "over" => lane[i].chunk = {} /\ lane[i].rest = {}
    /\ phase = "run" => \A a \in queued : result[a] = "none" => a \in Open(route[a])

\* Only an account that failed is tried elsewhere, and only it ends otherwise.
ProbesRight ==
    /\ phase = "plan" => \A a \in Positions : result[a] = "none"
    /\ probe.busy => probe.with # {}
    /\ probe.with # {} =>
          phase = "probe" /\ probe.account \in queued /\ result[probe.account] = "failed"
    /\ phase = "probe" => \A a \in unproved : a \in queued /\ result[a] = "failed"
    /\ phase = "settle" => unproved \subseteq queued
    /\ phase \in {"probe", "settle"} =>
          \A a \in queued :
             /\ result[a] \in Terminal /\ best[a] \in Terminal
             /\ result[a] # "failed" => best[a] = result[a]

\* The journal: an account without an outcome has not been done, one with an
\* outcome has it in its row, unless it is tried again or was settled.
RowsRight ==
    /\ phase \in {"run", "probe", "settle", "done"} => \A a \in Positions \ queued : row[a] \in Terminal
    /\ phase = "run" =>
          \A a \in queued :
             /\ result[a] = "none" => row[a] \notin Terminal
             /\ result[a] # "none" => row[a] = result[a] /\ a \notin Open(route[a])
    /\ phase = "probe" =>
          \A a \in queued : row[a] = result[a] \/ (row[a] = "running" /\ result[a] = "failed")
    /\ phase = "settle" =>
          \A a \in queued :
             IF a \in unproved THEN row[a] = result[a] \/ (row[a] = "running" /\ result[a] = "failed")
             ELSE row[a] = best[a]

Number(s) == Cardinality(Rows(s))

\* The progress is what the rows say, and what it began with is what the rows
\* of the other accounts say.
TallyRight ==
    phase \in {"run", "probe", "settle"} =>
        /\ tally.success = Number("success") /\ tally.skipped = Number("skipped")
        /\ tally.failed = Number("failed") + (IF phase = "run" THEN 0 ELSE Number("running"))
        /\ tally.current = tally.success + tally.failed + tally.skipped
        /\ base.success = Cardinality({a \in Positions \ queued : row[a] = "success"})
        /\ base.failed = Cardinality({a \in Positions \ queued : row[a] = "failed"})

\* The response.
DoneRight ==
    phase = "done" =>
        /\ Counted = Cardinality(Positions)
        /\ tally = Tallied
        /\ report = [Tallied EXCEPT !.current = 0]

BatchInv ==
    /\ BatchTyped /\ LanesRight /\ ProbesRight
    /\ ~recounted => RowsRight /\ TallyRight /\ DoneRight

-----------------------------------------------------------------------------
(* AccountBatch: lemmas.                                                   *)

LEMMA BatchNumbers ==
    /\ Positions \subseteq Nat /\ IsFiniteSet(Positions) /\ 0 \notin Positions
    /\ \A S : S \subseteq Positions => IsFiniteSet(S) /\ Cardinality(S) \in Nat
<1> DEFINE n == Cardinality(Positions)
<1>1. IsFiniteSet(Positions) /\ Positions = 1..n /\ n \in Nat
    BY BatchAssumption, FS_CardinalityType
<1>2. ASSUME NEW S, S \subseteq Positions PROVE IsFiniteSet(S) /\ Cardinality(S) \in Nat
    BY <1>1, <1>2, FS_Subset, FS_CardinalityType
<1> HIDE DEF n
<1>3. Positions \subseteq Nat /\ 0 \notin Positions
    BY <1>1
<1> QED BY <1>1, <1>2, <1>3

LEMMA FirstIs ==
    ASSUME NEW S, S \subseteq Positions, S # {}
    PROVE  First(S) \in S
<1>1. S \subseteq Nat
    BY BatchNumbers
<1>2. \E a \in S : \A b \in S : a <= b
    BY <1>1, SmallestOf
<1> QED BY Zenon, <1>2 DEF First

LEMMA IdleIs ==
    /\ Idle \in LaneStates /\ Idle.todo = {} /\ Idle.rest = {} /\ Idle.chunk = {} /\ Idle.step = "over"
<1>1. "over" \in {"ready", "unit", "over"} /\ {} \in SUBSET Positions
    OBVIOUS
<1> QED BY <1>1 DEF Idle, LaneStates

LEMMA ChunkedIs ==
    ASSUME NEW S, S \subseteq Positions
    PROVE  /\ Chunked(S) \in LaneStates
           /\ Chunked(S).todo = Chunked(S).chunk
           /\ Chunked(S).chunk \cup Chunked(S).rest = S
           /\ Chunked(S).chunk \cap Chunked(S).rest = {}
           /\ Chunked(S).step \in {"ready", "over"}
           /\ Chunked(S).step = "over" => S = {}
<1>1. CASE S = {}
    BY <1>1, IdleIs DEF Chunked
<1>2. CASE S # {}
    <2> DEFINE c == {a \in S : Cardinality({b \in S : b < a}) < Chunk}
    <2>1. c \subseteq S
        OBVIOUS
    <2>2. Chunked(S) = [chunk |-> c, todo |-> c, rest |-> S \ c, step |-> "ready"]
        BY <1>2 DEF Chunked
    <2> HIDE DEF c
    <2>3. "ready" \in {"ready", "unit", "over"} /\ c \subseteq Positions /\ S \ c \subseteq Positions
        BY <2>1
    <2> DEFINE l == [chunk |-> c, todo |-> c, rest |-> S \ c, step |-> "ready"]
    <2>4. l \in LaneStates /\ l.todo = c /\ l.chunk = c /\ l.rest = S \ c /\ l.step = "ready"
        BY <2>3 DEF LaneStates
    <2> HIDE DEF l
    <2>5. Chunked(S) = l
        BY <2>2 DEF l
    <2> QED BY <2>1, <2>4, <2>5
<1> QED BY <1>1, <1>2

\* One row goes from one status to another.
LEMMA OneMoves ==
    ASSUME BatchTyped, NEW a \in Positions, NEW s, NEW old, row[a] = old, old # s,
           row' = [row EXCEPT ![a] = s]
    PROVE  /\ Number(s)' = Number(s) + 1
           /\ Number(old) = Number(old)' + 1
           /\ \A x : x # s /\ x # old => Number(x)' = Number(x)
           /\ \A x : Number(x) \in Nat /\ Number(x)' \in Nat
<1>1. row \in [Positions -> RowStatus]
    BY DEF BatchTyped
<1>2. \A x : Rows(x) \subseteq Positions /\ Rows(x)' \subseteq Positions
    BY DEF Rows
<1>3. \A x : IsFiniteSet(Rows(x)) /\ IsFiniteSet(Rows(x)') /\ Number(x) \in Nat /\ Number(x)' \in Nat
    BY <1>2, BatchNumbers DEF Number
<1>4. Rows(s)' = Rows(s) \cup {a} /\ a \notin Rows(s)
    BY <1>1 DEF Rows
<1>5. Rows(old) = Rows(old)' \cup {a} /\ a \notin Rows(old)'
    BY <1>1 DEF Rows
<1>6. \A x : x # s /\ x # old => Rows(x)' = Rows(x)
    BY <1>1 DEF Rows
<1>7. Number(s)' = Number(s) + 1
    BY <1>3, <1>4, FS_AddElement DEF Number
<1>8. Number(old) = Number(old)' + 1
    BY <1>3, <1>5, FS_AddElement DEF Number
<1> QED BY <1>3, <1>6, <1>7, <1>8 DEF Number

\* Accounts that have not been done get an outcome.
LEMMA CompletedIs ==
    ASSUME BatchTyped, NEW S, S \subseteq Positions, NEW s \in Terminal, Completed(S, s)
    PROVE  /\ row' \in [Positions -> RowStatus] /\ result' \in [Positions -> Terminal \cup {"none"}]
           /\ tally' \in Tallies
           /\ \A a \in Positions : /\ row'[a] = IF a \in S THEN s ELSE row[a]
                                   /\ result'[a] = IF a \in S THEN s ELSE result[a]
           /\ tally'.current = tally.current + Cardinality(S)
           /\ tally'.success = IF s = "success" THEN tally.success + Cardinality(S) ELSE tally.success
           /\ tally'.failed = IF s = "failed" THEN tally.failed + Cardinality(S) ELSE tally.failed
           /\ tally'.skipped = IF s = "skipped" THEN tally.skipped + Cardinality(S) ELSE tally.skipped
<1> DEFINE n == Cardinality(S)
           x == tally.current + n
           y == IF s = "success" THEN tally.success + n ELSE tally.success
           z == IF s = "failed" THEN tally.failed + n ELSE tally.failed
           w == IF s = "skipped" THEN tally.skipped + n ELSE tally.skipped
<1>1. n \in Nat
    BY BatchNumbers
<1>2. /\ row' = [a \in Positions |-> IF a \in S THEN s ELSE row[a]]
      /\ result' = [a \in Positions |-> IF a \in S THEN s ELSE result[a]]
      /\ tally' = [tally EXCEPT !.current = x, !.success = y, !.failed = z, !.skipped = w]
    BY DEF Completed
<1> HIDE DEF n
<1>3. tally \in Tallies /\ row \in [Positions -> RowStatus] /\ result \in [Positions -> Terminal \cup {"none"}]
    BY DEF BatchTyped
<1>4. tally.current \in Nat /\ tally.success \in Nat /\ tally.failed \in Nat /\ tally.skipped \in Nat
    BY <1>3 DEF Tallies
<1>5. x \in Nat /\ y \in Nat /\ z \in Nat /\ w \in Nat
    BY <1>1, <1>4
<1> HIDE DEF x, y, z, w
<1>6. /\ tally' \in Tallies /\ tally'.current = x /\ tally'.success = y /\ tally'.failed = z
      /\ tally'.skipped = w
    BY <1>2, <1>3, <1>5 DEF Tallies
<1>7. s \in RowStatus
    BY DEF RowStatus
<1>8. row' \in [Positions -> RowStatus] /\ result' \in [Positions -> Terminal \cup {"none"}]
    BY <1>2, <1>3, <1>7
<1>9. \A a \in Positions : /\ row'[a] = IF a \in S THEN s ELSE row[a]
                           /\ result'[a] = IF a \in S THEN s ELSE result[a]
    BY <1>2
<1> QED BY <1>6, <1>8, <1>9 DEF n, x, y, z, w

LEMMA CompletedCounts ==
    ASSUME BatchTyped, NEW S, S \subseteq Positions, NEW s \in Terminal, Completed(S, s),
           \A a \in S : row[a] \notin Terminal
    PROVE  \A x \in Terminal : /\ Number(x) \in Nat
                               /\ Number(x)' = IF x = s THEN Number(x) + Cardinality(S) ELSE Number(x)
<1>1. row' = [a \in Positions |-> IF a \in S THEN s ELSE row[a]]
    BY DEF Completed
<1>2. ASSUME NEW x \in Terminal, x # s PROVE Rows(x)' = Rows(x)
    BY <1>1, <1>2 DEF Rows
<1>3. Rows(s)' = Rows(s) \cup S /\ Rows(s) \cap S = {}
    BY <1>1 DEF Rows
<1>4. \A x : Rows(x) \subseteq Positions
    BY DEF Rows
<1>5. \A x : IsFiniteSet(Rows(x)) /\ Number(x) \in Nat
    BY <1>4, BatchNumbers DEF Number
<1>6. IsFiniteSet(S) /\ Cardinality(S) \in Nat
    BY BatchNumbers
<1>7. Number(s)' = Number(s) + Cardinality(S)
    <2>1. Cardinality(Rows(s) \cup S) = Cardinality(Rows(s)) + Cardinality(S) - Cardinality(Rows(s) \cap S)
        BY <1>5, <1>6, FS_Union
    <2>2. Cardinality({}) = 0
        BY FS_EmptySet
    <2> QED BY <1>3, <1>5, <1>6, <2>1, <2>2 DEF Number
<1> QED BY <1>2, <1>5, <1>7 DEF Number

\* A tally is four numbers.
LEMMA TallyIs ==
    ASSUME NEW c \in Nat, NEW s \in Nat, NEW f \in Nat, NEW k \in Nat
    PROVE  [current |-> c, success |-> s, failed |-> f, skipped |-> k] \in Tallies
BY DEF Tallies

LEMMA BatchInitHolds == ASSUME BatchInit PROVE BatchInv
<1>1. None \in Tallies
    BY TallyIs DEF None
<1>2. lane \in [Lanes -> LaneStates] /\ \A i \in Lanes : lane[i] = Idle
    BY IdleIs DEF BatchInit
<1>3. row \in [Positions -> RowStatus]
    BY DEF BatchInit, RowStatus
<1>4. Nobody \in Probes /\ Nobody.with = {} /\ Nobody.busy = FALSE
    <2>1. 0 \in Positions \cup {0} /\ {} \in SUBSET Lanes
        OBVIOUS
    <2> QED BY <2>1 DEF Nobody, Probes
<1>5. 0 \in 0..MaxMishaps
    BY BatchAssumption
<1>6. phase = "plan" /\ probe = Nobody /\ \A a \in Positions : result[a] = "none"
    BY DEF BatchInit
<1>7. result \in [Positions -> Terminal \cup {"none"}] /\ best \in [Positions -> Terminal \cup {"none"}]
    BY DEF BatchInit
<1>8. BatchTyped
    BY <1>1, <1>2, <1>3, <1>4, <1>5, <1>6, <1>7 DEF BatchInit, BatchTyped
<1>9. LanesRight
    BY <1>2, <1>6, IdleIs DEF LanesRight
<1>10. ProbesRight
    BY <1>4, <1>6 DEF ProbesRight
<1>11. RowsRight /\ TallyRight /\ DoneRight
    BY <1>6 DEF RowsRight, TallyRight, DoneRight
<1> QED BY <1>8, <1>9, <1>10, <1>11 DEF BatchInv

LEMMA PlanKeeps == ASSUME BatchInv, Plan PROVE BatchInv'
<1> USE DEF BatchInv
<1>1. /\ phase = "plan" /\ phase' \in {"run", "raised"} /\ queued' = OpenRows
      /\ tally' = Tallied /\ base' = Tallied
      /\ route' = route /\ row' = row /\ result' = result /\ best' = best /\ probe' = probe
      /\ unproved' = unproved /\ report' = report /\ recounted' = recounted /\ mishaps' = mishaps
    BY DEF Plan, proving
<1>2. queued' \subseteq Positions
    BY <1>1 DEF OpenRows
<1>3. \A s : Rows(s) \subseteq Positions
    BY DEF Rows
<1>4. \A s : Number(s) \in Nat
    BY <1>3, BatchNumbers DEF Number
<1>5. /\ Tallied \in Tallies
      /\ Tallied.success = Number("success") /\ Tallied.skipped = Number("skipped")
      /\ Tallied.failed = Number("failed")
      /\ Tallied.current = Number("success") + Number("failed") + Number("skipped")
    <2> DEFINE x == Number("success") + Number("failed") + Number("skipped")
    <2>1. x \in Nat
        BY <1>4
    <2>2. Tallied = [current |-> x, success |-> Number("success"), failed |-> Number("failed"),
                     skipped |-> Number("skipped")]
        BY DEF Tallied, Number
    <2> QED BY <1>4, <2>1, <2>2, TallyIs
<1>6. \A i \in Lanes :
          /\ lane'[i] \in LaneStates
          /\ lane'[i].todo \subseteq lane'[i].chunk
          /\ lane'[i].chunk \cap lane'[i].rest = {}
          /\ lane'[i].step = "unit" => lane'[i].todo # {}
          /\ phase' = "run" =>
                /\ lane'[i].todo = lane'[i].chunk
                /\ lane'[i].chunk \cup lane'[i].rest = {a \in queued' : route[a] = i}
                /\ lane'[i].step = "over" => lane'[i].chunk = {} /\ lane'[i].rest = {}
    <2>1. CASE phase' = "run" /\ lane' = [i \in Lanes |-> Chunked({a \in queued' : route[a] = i})]
        <3> SUFFICES ASSUME NEW i \in Lanes
            PROVE /\ lane'[i] \in LaneStates
                  /\ lane'[i].todo \subseteq lane'[i].chunk
                  /\ lane'[i].chunk \cap lane'[i].rest = {}
                  /\ lane'[i].step = "unit" => lane'[i].todo # {}
                  /\ lane'[i].todo = lane'[i].chunk
                  /\ lane'[i].chunk \cup lane'[i].rest = {a \in queued' : route[a] = i}
                  /\ lane'[i].step = "over" => lane'[i].chunk = {} /\ lane'[i].rest = {}
            OBVIOUS
        <3> DEFINE S == {a \in queued' : route[a] = i}
        <3>1. lane'[i] = Chunked(S)
            BY <2>1
        <3>2. S \subseteq Positions
            BY <1>2
        <3>3. /\ Chunked(S) \in LaneStates
              /\ Chunked(S).todo = Chunked(S).chunk
              /\ Chunked(S).chunk \cup Chunked(S).rest = S
              /\ Chunked(S).chunk \cap Chunked(S).rest = {}
              /\ Chunked(S).step \in {"ready", "over"}
              /\ Chunked(S).step = "over" => S = {}
            BY <3>2, ChunkedIs
        <3> HIDE DEF S
        <3>4. /\ lane'[i] \in LaneStates
              /\ lane'[i].todo = lane'[i].chunk
              /\ lane'[i].chunk \cup lane'[i].rest = S
              /\ lane'[i].chunk \cap lane'[i].rest = {}
              /\ lane'[i].step # "unit"
              /\ lane'[i].step = "over" => lane'[i].chunk \cup lane'[i].rest = {}
            BY <3>1, <3>3
        <3> HIDE <3>1, <3>3
        <3> QED BY <3>4 DEF S
    <2>2. CASE phase' = "raised" /\ lane' = lane
        BY <2>2 DEF LanesRight, BatchTyped
    <2> QED BY <2>1, <2>2 DEF Plan
<1>7. lane' \in [Lanes -> LaneStates]
    <2>1. CASE lane' = lane
        BY <2>1 DEF BatchTyped
    <2>2. CASE lane' = [i \in Lanes |-> Chunked({a \in queued' : route[a] = i})]
        <3>1. \A i \in Lanes : lane'[i] = Chunked({a \in queued' : route[a] = i})
            BY <2>2
        <3>2. \A i \in Lanes : Chunked({a \in queued' : route[a] = i}) \in LaneStates
            BY <1>6, <3>1
        <3> QED BY <2>2, <3>2
    <2> QED BY <2>1, <2>2 DEF Plan
<1>8. BatchTyped'
    BY <1>1, <1>2, <1>5, <1>7 DEF BatchTyped
<1>9. LanesRight'
    <2>1. \A a \in queued' : phase' = "run" => a \in lane'[route[a]].todo \cup lane'[route[a]].rest
        BY <1>2, <1>6 DEF BatchTyped
    <2> QED BY <1>1, <1>6, <2>1 DEF LanesRight, Open
<1>10. ProbesRight'
    BY <1>1 DEF ProbesRight
<1>11. RowsRight'
    BY <1>1, <1>2 DEF RowsRight, ProbesRight, OpenRows
<1>12. TallyRight'
    <2>1. \A s : Number(s)' = Number(s)
        BY <1>1 DEF Number, Rows
    <2>2. \A s \in Terminal : {a \in Positions \ queued' : row'[a] = s} = Rows(s)
        BY <1>1 DEF OpenRows, Rows
    <2>3. /\ Cardinality({a \in Positions \ queued' : row'[a] = "success"}) = Number("success")
          /\ Cardinality({a \in Positions \ queued' : row'[a] = "failed"}) = Number("failed")
        BY <2>2 DEF Terminal, Number
    <2> QED BY <1>1, <1>4, <1>5, <2>1, <2>3 DEF TallyRight
<1>13. DoneRight'
    BY <1>1 DEF DoneRight
<1> QED BY <1>8, <1>9, <1>10, <1>11, <1>12, <1>13

LEMMA LaneMoves ==
    ASSUME BatchTyped, NEW i \in Lanes, NEW l \in LaneStates, lane' = [lane EXCEPT ![i] = l]
    PROVE  /\ lane' \in [Lanes -> LaneStates] /\ lane'[i] = l
           /\ \A j \in Lanes \ {i} : lane'[j] = lane[j]
BY DEF BatchTyped

\* The rows that are not queued stand.
LEMMA BaseStands ==
    ASSUME queued' = queued, \A a \in Positions \ queued : row'[a] = row[a]
    PROVE  \A s : Cardinality({a \in Positions \ queued : row[a] = s})'
                    = Cardinality({a \in Positions \ queued : row[a] = s})
<1>1. \A s : {a \in Positions \ queued' : row'[a] = s} = {a \in Positions \ queued : row[a] = s}
    OBVIOUS
<1> QED BY <1>1

\* What is open in a lane has not been done.
LEMMA OpenIs ==
    ASSUME BatchInv, phase = "run", NEW i \in Lanes
    PROVE  /\ Open(i) \subseteq queued /\ Open(i) \subseteq Positions
           /\ \A a \in Open(i) : route[a] = i
           /\ ~recounted => \A a \in Open(i) : result[a] = "none" /\ row[a] \notin Terminal
<1> USE DEF BatchInv
<1>1. \A a \in Open(i) : a \in queued /\ route[a] = i
    BY DEF LanesRight, Open
<1>2. Open(i) \subseteq Positions
    BY <1>1 DEF BatchTyped
<1>3. ASSUME ~recounted, NEW a \in Open(i) PROVE result[a] = "none" /\ row[a] \notin Terminal
    BY <1>1, <1>3 DEF RowsRight
<1> QED BY <1>1, <1>2, <1>3

LEMMA StartUnitKeeps == ASSUME BatchInv, NEW i \in Lanes, StartUnit(i) PROVE BatchInv'
<1> USE DEF BatchInv
<1> DEFINE a == First(lane[i].todo)
           l == [lane[i] EXCEPT !.step = "unit"]
<1>1. /\ phase = "run" /\ lane[i].step = "ready" /\ lane[i].todo # {}
      /\ row' = [row EXCEPT ![a] = "running"] /\ lane' = [lane EXCEPT ![i] = l]
      /\ phase' = phase /\ queued' = queued /\ base' = base
      /\ route' = route /\ tally' = tally /\ result' = result /\ best' = best /\ probe' = probe
      /\ unproved' = unproved /\ report' = report /\ recounted' = recounted /\ mishaps' = mishaps
    BY DEF StartUnit, proving
<1>2. lane[i] \in LaneStates
    BY DEF BatchTyped
<1>3. a \in lane[i].todo /\ a \in Open(i)
    BY <1>1, <1>2, FirstIs DEF Open, LaneStates
<1> HIDE DEF a
<1>4. "unit" \in {"ready", "unit", "over"}
    OBVIOUS
<1>5. /\ l \in LaneStates /\ l.chunk = lane[i].chunk /\ l.todo = lane[i].todo /\ l.rest = lane[i].rest
      /\ l.step = "unit"
    BY <1>2, <1>4 DEF LaneStates
<1> HIDE DEF l
<1>6. /\ lane' \in [Lanes -> LaneStates] /\ lane'[i] = l
      /\ \A j \in Lanes \ {i} : lane'[j] = lane[j]
    BY <1>1, <1>5, LaneMoves
<1>7. /\ a \in Positions /\ a \in queued /\ route[a] = i
      /\ ~recounted => result[a] = "none" /\ row[a] \notin Terminal
    BY <1>1, <1>3, OpenIs
<1>8. row' \in [Positions -> RowStatus]
    BY <1>1 DEF BatchTyped, RowStatus
<1>9. BatchTyped'
    BY <1>1, <1>6, <1>8 DEF BatchTyped
<1>10. \A j \in Lanes : /\ lane'[j].chunk = lane[j].chunk /\ lane'[j].todo = lane[j].todo
                        /\ lane'[j].rest = lane[j].rest /\ Open(j)' = Open(j)
                        /\ lane'[j].step = lane[j].step \/ (j = i /\ lane'[j].step = "unit")
    BY <1>5, <1>6 DEF Open
<1>11. LanesRight'
    <2>1. \A b \in queued : route[b] \in Lanes
        BY DEF BatchTyped
    <2> QED BY <1>1, <1>10, <2>1 DEF LanesRight
<1>12. ProbesRight'
    BY <1>1 DEF ProbesRight
<1>13. ~recounted' => RowsRight' /\ TallyRight' /\ DoneRight'
    <2> SUFFICES ASSUME ~recounted' PROVE RowsRight' /\ TallyRight' /\ DoneRight'
        OBVIOUS
    <2>1. ~recounted /\ row[a] \notin Terminal /\ result[a] = "none"
        BY <1>1, <1>7
    <2>2. \A b \in Positions : row'[b] = IF b = a THEN "running" ELSE row[b]
        BY <1>1 DEF BatchTyped
    <2>3. \A b \in queued : lane'[route[b]].todo \cup lane'[route[b]].rest = Open(route[b])
        BY <1>10 DEF BatchTyped, Open
    <2>4. "running" \notin Terminal
        BY DEF Terminal
    <2>5. queued \subseteq Positions
        BY DEF BatchTyped
    <2>6. RowsRight'
        BY <1>1, <1>7, <2>1, <2>2, <2>3, <2>4, <2>5 DEF RowsRight, Open
    <2>7. \A s \in Terminal : Number(s)' = Number(s)
        <3> SUFFICES ASSUME NEW s \in Terminal PROVE Rows(s)' = Rows(s)
            BY DEF Number
        <3> QED BY <2>1, <2>2, <2>4 DEF Rows
    <2>8. \A s : Cardinality({b \in Positions \ queued : row[b] = s})'
                    = Cardinality({b \in Positions \ queued : row[b] = s})
        BY <1>1, <1>7, <2>2, BaseStands
    <2>9. TallyRight'
        BY <1>1, <2>1, <2>7, <2>8 DEF TallyRight, Terminal
    <2> QED BY <1>1, <2>6, <2>9 DEF DoneRight
<1> QED BY <1>9, <1>11, <1>12, <1>13

LEMMA EndUnitKeeps == ASSUME BatchInv, NEW i \in Lanes, EndUnit(i) PROVE BatchInv'
<1> USE DEF BatchInv
<1> DEFINE a == First(lane[i].todo)
           l == [lane[i] EXCEPT !.step = "ready", !.todo = @ \ {a}]
<1>1. /\ phase = "run" /\ lane[i].step = "unit"
      /\ lane' = [lane EXCEPT ![i] = l]
      /\ phase' = phase /\ queued' = queued /\ base' = base
      /\ route' = route /\ best' = best /\ probe' = probe
      /\ unproved' = unproved /\ report' = report /\ recounted' = recounted /\ mishaps' = mishaps
    BY DEF EndUnit, proving
<1>2. lane[i] \in LaneStates
    BY DEF BatchTyped
<1>3. lane[i].todo # {}
    BY <1>1 DEF LanesRight
<1>4. a \in lane[i].todo /\ a \in Open(i) /\ a \notin lane[i].rest
    BY <1>2, <1>3, FirstIs DEF Open, LaneStates, LanesRight
<1>5. PICK s \in Terminal : Completed({a}, s)
    BY DEF EndUnit
<1> HIDE DEF a
<1>6. "ready" \in {"ready", "unit", "over"}
    OBVIOUS
<1>7. /\ l \in LaneStates /\ l.chunk = lane[i].chunk /\ l.todo = lane[i].todo \ {a}
      /\ l.rest = lane[i].rest /\ l.step = "ready"
    BY <1>2, <1>6 DEF LaneStates
<1> HIDE DEF l
<1>8. /\ lane' \in [Lanes -> LaneStates] /\ lane'[i] = l
      /\ \A j \in Lanes \ {i} : lane'[j] = lane[j]
    BY <1>1, <1>7, LaneMoves
<1>9. /\ a \in Positions /\ a \in queued /\ route[a] = i
      /\ ~recounted => result[a] = "none" /\ row[a] \notin Terminal
    BY <1>1, <1>4, OpenIs
<1>10. /\ row' \in [Positions -> RowStatus] /\ result' \in [Positions -> Terminal \cup {"none"}]
       /\ tally' \in Tallies
       /\ \A b \in Positions : /\ row'[b] = IF b = a THEN s ELSE row[b]
                               /\ result'[b] = IF b = a THEN s ELSE result[b]
       /\ tally'.current = tally.current + Cardinality({a})
       /\ tally'.success = IF s = "success" THEN tally.success + Cardinality({a}) ELSE tally.success
       /\ tally'.failed = IF s = "failed" THEN tally.failed + Cardinality({a}) ELSE tally.failed
       /\ tally'.skipped = IF s = "skipped" THEN tally.skipped + Cardinality({a}) ELSE tally.skipped
    BY <1>5, <1>9, CompletedIs
<1>11. BatchTyped'
    BY <1>1, <1>8, <1>10 DEF BatchTyped
<1>12. /\ \A j \in Lanes : lane'[j].chunk = lane[j].chunk /\ lane'[j].rest = lane[j].rest
       /\ \A j \in Lanes \ {i} : lane'[j] = lane[j] /\ Open(j)' = Open(j)
       /\ lane'[i].todo = lane[i].todo \ {a} /\ Open(i)' = Open(i) \ {a} /\ lane'[i].step = "ready"
    BY <1>4, <1>7, <1>8 DEF Open
<1>13. s # "none"
    BY DEF Terminal
<1>14. queued \subseteq Positions /\ \A b \in queued : route[b] \in Lanes
    BY DEF BatchTyped
<1>15. LanesRight'
    <2>1. \A j \in Lanes :
             /\ lane'[j].todo \subseteq lane'[j].chunk
             /\ lane'[j].chunk \cap lane'[j].rest = {}
             /\ lane'[j].step = "unit" => lane'[j].todo # {}
             /\ \A b \in lane'[j].chunk \cup lane'[j].rest : b \in queued' /\ route'[b] = j
             /\ lane'[j].step = "over" => lane'[j].chunk = {} /\ lane'[j].rest = {}
        BY <1>1, <1>12 DEF LanesRight
    <2>2. \A b \in queued' : result'[b] = "none" => b \in lane'[route[b]].todo \cup lane'[route[b]].rest
        <3> SUFFICES ASSUME NEW b \in queued, result'[b] = "none" PROVE b \in lane'[route[b]].todo \cup lane'[route[b]].rest
            BY <1>1
        <3>1. b # a /\ result[b] = "none"
            BY <1>10, <1>13, <1>14
        <3>2. b \in Open(route[b])
            BY <1>1, <3>1 DEF LanesRight
        <3> QED BY <1>12, <1>14, <3>1, <3>2 DEF Open
    <2> QED BY <1>1, <2>1, <2>2 DEF LanesRight, Open
<1>16. ProbesRight'
    BY <1>1 DEF ProbesRight
<1>17. ~recounted' => RowsRight' /\ TallyRight' /\ DoneRight'
    <2> SUFFICES ASSUME ~recounted' PROVE RowsRight' /\ TallyRight' /\ DoneRight'
        OBVIOUS
    <2>1. ~recounted /\ row[a] \notin Terminal
        BY <1>1, <1>9
    <2>2. \A b \in Positions \ queued : row'[b] \in Terminal
        BY <1>1, <1>9, <1>10, <2>1 DEF RowsRight
    <2>3. ASSUME NEW b \in queued
          PROVE  /\ result'[b] = "none" => row'[b] \notin Terminal
                 /\ result'[b] # "none" => row'[b] = result'[b] /\ b \notin lane'[route[b]].todo \cup lane'[route[b]].rest
        <3>1. CASE b = a
            BY <1>4, <1>9, <1>10, <1>12, <1>13, <3>1
        <3>2. CASE b # a
            <4>1. row'[b] = row[b] /\ result'[b] = result[b]
                BY <1>10, <1>14, <3>2
            <4>2. b \in lane'[route[b]].todo \cup lane'[route[b]].rest => b \in Open(route[b])
                BY <1>12, <1>14 DEF Open
            <4> QED BY <1>1, <2>1, <4>1, <4>2 DEF RowsRight
        <3> QED BY <3>1, <3>2
    <2>4. RowsRight'
        BY <1>1, <2>2, <2>3 DEF RowsRight, Open
    <2>5. \A x \in Terminal : /\ Number(x) \in Nat
                              /\ Number(x)' = IF x = s THEN Number(x) + Cardinality({a}) ELSE Number(x)
        BY <1>5, <1>9, <2>1, CompletedCounts
    <2>6. Cardinality({a}) \in Nat
        BY <1>9, BatchNumbers
    <2>7. \A x : Cardinality({b \in Positions \ queued : row[b] = x})'
                    = Cardinality({b \in Positions \ queued : row[b] = x})
        BY <1>1, <1>9, <1>10, BaseStands
    <2>8. TallyRight'
        <3> DEFINE n == Cardinality({a})
        <3>0. n \in Nat
            BY <2>6
        <3>1. /\ tally'.current = tally.current + n
              /\ tally'.success = IF s = "success" THEN tally.success + n ELSE tally.success
              /\ tally'.failed = IF s = "failed" THEN tally.failed + n ELSE tally.failed
              /\ tally'.skipped = IF s = "skipped" THEN tally.skipped + n ELSE tally.skipped
            BY <1>10
        <3>2. \A x \in Terminal : /\ Number(x) \in Nat
                                  /\ Number(x)' = IF x = s THEN Number(x) + n ELSE Number(x)
            BY <2>5
        <3> HIDE DEF n
        <3>3. /\ tally.success = Number("success") /\ tally.skipped = Number("skipped")
              /\ tally.failed = Number("failed") + 0
              /\ tally.current = tally.success + tally.failed + tally.skipped
            BY <1>1, <2>1 DEF TallyRight
        <3>4. /\ tally'.success = Number("success")' /\ tally'.skipped = Number("skipped")'
              /\ tally'.failed = Number("failed")' + 0
              /\ tally'.current = tally'.success + tally'.failed + tally'.skipped
            <4>1. CASE s = "success"
                BY <3>0, <3>1, <3>2, <3>3, <4>1 DEF Terminal
            <4>2. CASE s = "failed"
                BY <3>0, <3>1, <3>2, <3>3, <4>2 DEF Terminal
            <4>3. CASE s = "skipped"
                BY <3>0, <3>1, <3>2, <3>3, <4>3 DEF Terminal
            <4> QED BY <4>1, <4>2, <4>3 DEF Terminal
        <3> QED BY <1>1, <2>1, <2>7, <3>4 DEF TallyRight
    <2> QED BY <1>1, <2>4, <2>8 DEF DoneRight
<1> QED BY <1>11, <1>15, <1>16, <1>17

LEMMA ChunkDoneKeeps == ASSUME BatchInv, NEW i \in Lanes, ChunkDone(i) PROVE BatchInv'
<1> USE DEF BatchInv
<1> DEFINE S == lane[i].rest
           l == Chunked(S)
<1>1. /\ phase = "run" /\ lane[i].todo = {}
      /\ lane' = [lane EXCEPT ![i] = l]
      /\ phase' = phase /\ queued' = queued /\ base' = base /\ row' = row /\ result' = result
      /\ route' = route /\ best' = best /\ probe' = probe /\ tally' = tally
      /\ unproved' = unproved /\ report' = report /\ recounted' = recounted /\ mishaps' = mishaps
    BY DEF ChunkDone, proving
<1>2. lane[i] \in LaneStates /\ S \subseteq Positions /\ S \subseteq queued /\ \A a \in S : route[a] = i
    BY <1>1 DEF BatchTyped, LaneStates, LanesRight
<1> HIDE DEF S
<1>3. /\ l \in LaneStates /\ l.todo = l.chunk /\ l.chunk \cup l.rest = S /\ l.chunk \cap l.rest = {}
      /\ l.step \in {"ready", "over"}
      /\ l.step = "over" => S = {}
    BY <1>2, ChunkedIs
<1> HIDE DEF l
<1>4. /\ lane' \in [Lanes -> LaneStates] /\ lane'[i] = l
      /\ \A j \in Lanes \ {i} : lane'[j] = lane[j]
    BY <1>1, <1>3, LaneMoves
<1>5. BatchTyped'
    BY <1>1, <1>4 DEF BatchTyped
<1>6. \A j \in Lanes : lane'[j].todo \cup lane'[j].rest = Open(j)
    BY <1>1, <1>3, <1>4 DEF Open, S
<1>7. LanesRight'
    <2>1. \A j \in Lanes :
             /\ lane'[j].todo \subseteq lane'[j].chunk
             /\ lane'[j].chunk \cap lane'[j].rest = {}
             /\ lane'[j].step = "unit" => lane'[j].todo # {}
             /\ \A b \in lane'[j].chunk \cup lane'[j].rest : b \in queued /\ route[b] = j
             /\ lane'[j].step = "over" => lane'[j].chunk = {} /\ lane'[j].rest = {}
        BY <1>1, <1>2, <1>3, <1>4 DEF LanesRight
    <2>2. \A b \in queued : route[b] \in Lanes
        BY DEF BatchTyped
    <2> QED BY <1>1, <1>6, <2>1, <2>2 DEF LanesRight, Open
<1>8. ProbesRight'
    BY <1>1 DEF ProbesRight
<1>9. ASSUME ~recounted' PROVE RowsRight' /\ TallyRight' /\ DoneRight'
    <2>1. \A b \in queued : route[b] \in Lanes
        BY DEF BatchTyped
    <2>2. RowsRight'
        BY <1>1, <1>6, <1>9, <2>1 DEF RowsRight, Open
    <2>3. TallyRight' /\ DoneRight'
        <3>1. ~recounted
            BY <1>1, <1>9
        <3>2. \A s : Number(s)' = Number(s)
            BY <1>1 DEF Number, Rows
        <3>3. \A s : Cardinality({b \in Positions \ queued : row[b] = s})'
                        = Cardinality({b \in Positions \ queued : row[b] = s})
            BY <1>1
        <3> QED BY <1>1, <3>1, <3>2, <3>3 DEF TallyRight, DoneRight
    <2> QED BY <2>2, <2>3
<1> QED BY <1>5, <1>7, <1>8, <1>9

\* When the lanes change and nothing else does.
LEMMA LanesFollow ==
    ASSUME phase' = phase, queued' = queued, route' = route, result' = result,
           \A j \in Lanes :
              /\ lane'[j].todo \subseteq lane'[j].chunk
              /\ lane'[j].chunk \cap lane'[j].rest = {}
              /\ lane'[j].step = "unit" => lane'[j].todo # {}
              /\ \A b \in lane'[j].chunk \cup lane'[j].rest : b \in queued /\ route[b] = j
              /\ lane'[j].step = "over" => lane'[j].chunk = {} /\ lane'[j].rest = {},
           \A b \in queued : result[b] = "none" => b \in lane'[route[b]].todo \cup lane'[route[b]].rest
    PROVE  LanesRight'
BY DEF LanesRight, Open

\* Once more, in a task that pauses.
LEMMA LaneRepeats ==
    ASSUME BatchInv, NEW i \in Lanes, LaneFails(i),
           lane' = [lane EXCEPT ![i].todo = lane[i].chunk, ![i].step = "ready"],
           UNCHANGED <<row, tally, result>>
    PROVE  BatchInv'
<1> USE DEF BatchInv
<1> DEFINE l == [lane[i] EXCEPT !.todo = lane[i].chunk, !.step = "ready"]
<1>1. /\ phase = "run" /\ mishaps < MaxMishaps /\ mishaps' = mishaps + 1
      /\ lane' = [lane EXCEPT ![i] = l]
      /\ recounted' = (recounted \/ lane[i].todo # lane[i].chunk)
      /\ phase' = phase /\ queued' = queued /\ base' = base /\ row' = row /\ result' = result
      /\ route' = route /\ best' = best /\ probe' = probe /\ tally' = tally
      /\ unproved' = unproved /\ report' = report
    BY DEF LaneFails, Mishap, proving
<1>2. lane[i] \in LaneStates
    BY DEF BatchTyped
<1>3. "ready" \in {"ready", "unit", "over"}
    OBVIOUS
<1>4. /\ l \in LaneStates /\ l.chunk = lane[i].chunk /\ l.todo = lane[i].chunk
      /\ l.rest = lane[i].rest /\ l.step = "ready"
    BY <1>2, <1>3 DEF LaneStates
<1> HIDE DEF l
<1>5. /\ lane' \in [Lanes -> LaneStates] /\ lane'[i] = l
      /\ \A j \in Lanes \ {i} : lane'[j] = lane[j]
    BY <1>1, <1>4, LaneMoves
<1>6. BatchTyped'
    <2>1. recounted' \in BOOLEAN
        BY <1>1 DEF BatchTyped
    <2>2. mishaps' \in 0..MaxMishaps
        BY <1>1, BatchAssumption DEF BatchTyped
    <2> QED BY <1>1, <1>5, <2>1, <2>2 DEF BatchTyped
<1>7. queued \subseteq Positions /\ \A b \in queued : route[b] \in Lanes
    BY DEF BatchTyped
<1>8. \A j \in Lanes : Open(j) \subseteq lane'[j].todo \cup lane'[j].rest
    BY <1>4, <1>5 DEF Open, LanesRight
<1>9. LanesRight'
    <2>1. \A j \in Lanes :
             /\ lane'[j].todo \subseteq lane'[j].chunk
             /\ lane'[j].chunk \cap lane'[j].rest = {}
             /\ lane'[j].step = "unit" => lane'[j].todo # {}
             /\ \A b \in lane'[j].chunk \cup lane'[j].rest : b \in queued /\ route[b] = j
             /\ lane'[j].step = "over" => lane'[j].chunk = {} /\ lane'[j].rest = {}
        BY <1>1, <1>4, <1>5 DEF LanesRight
    <2>2. ASSUME NEW b \in queued, result[b] = "none"
          PROVE  b \in lane'[route[b]].todo \cup lane'[route[b]].rest
        <3>1. b \in Open(route[b])
            BY <1>1, <2>2 DEF LanesRight
        <3> QED BY <1>7, <1>8, <3>1
    <2>3. \A b \in queued : result[b] = "none" => b \in lane'[route[b]].todo \cup lane'[route[b]].rest
        BY <2>2
    <2> HIDE <2>2
    <2>4. phase' = phase /\ queued' = queued /\ route' = route /\ result' = result
        BY <1>1
    <2> HIDE DEF BatchInv
    <2> QED BY Zenon, <2>1, <2>3, <2>4, LanesFollow
<1>10. ProbesRight'
    BY <1>1 DEF ProbesRight
<1>11. ASSUME ~recounted' PROVE RowsRight' /\ TallyRight' /\ DoneRight'
    <2>1. ~recounted /\ lane[i].todo = lane[i].chunk
        BY <1>1, <1>11
    <2>2. \A j \in Lanes : lane'[j].todo \cup lane'[j].rest = Open(j)
        BY <1>4, <1>5, <2>1 DEF Open
    <2>3. RowsRight'
        BY <1>1, <1>7, <2>1, <2>2 DEF RowsRight, Open
    <2>4. TallyRight' /\ DoneRight'
        <3>1. \A s : Number(s)' = Number(s)
            BY <1>1 DEF Number, Rows
        <3>2. \A s : Cardinality({b \in Positions \ queued : row[b] = s})'
                        = Cardinality({b \in Positions \ queued : row[b] = s})
            BY <1>1
        <3> QED BY <1>1, <2>1, <3>1, <3>2 DEF TallyRight, DoneRight
    <2> QED BY <2>3, <2>4
<1> QED BY <1>6, <1>9, <1>10, <1>11

\* The rest of the lane has failed.
LEMMA LaneGivesUp ==
    ASSUME BatchInv, NEW i \in Lanes, LaneFails(i),
           lane' = [lane EXCEPT ![i] = Idle],
           Completed(lane[i].chunk \cup lane[i].rest, "failed")
    PROVE  BatchInv'
<1> USE DEF BatchInv
<1> DEFINE S == lane[i].chunk \cup lane[i].rest
<1>1. /\ phase = "run" /\ mishaps < MaxMishaps /\ mishaps' = mishaps + 1
      /\ recounted' = (recounted \/ lane[i].todo # lane[i].chunk)
      /\ phase' = phase /\ queued' = queued /\ base' = base
      /\ route' = route /\ best' = best /\ probe' = probe
      /\ unproved' = unproved /\ report' = report
    BY DEF LaneFails, Mishap, proving
<1>2. /\ S \subseteq Positions /\ Open(i) \subseteq S /\ S \subseteq queued /\ \A a \in S : route[a] = i
      /\ lane[i].todo = lane[i].chunk => S = Open(i)
    BY <1>1 DEF BatchTyped, LaneStates, LanesRight, Open
<1>3. Completed(S, "failed")
    OBVIOUS
<1>4. "failed" \in Terminal
    BY DEF Terminal
<1> HIDE DEF S
<1>5. /\ lane' \in [Lanes -> LaneStates] /\ lane'[i] = Idle
      /\ \A j \in Lanes \ {i} : lane'[j] = lane[j]
    BY IdleIs, LaneMoves
<1>6. /\ row' \in [Positions -> RowStatus] /\ result' \in [Positions -> Terminal \cup {"none"}]
      /\ tally' \in Tallies
      /\ \A a \in Positions : /\ row'[a] = IF a \in S THEN "failed" ELSE row[a]
                              /\ result'[a] = IF a \in S THEN "failed" ELSE result[a]
      /\ tally'.current = tally.current + Cardinality(S)
      /\ tally'.success = tally.success
      /\ tally'.failed = tally.failed + Cardinality(S)
      /\ tally'.skipped = tally.skipped
    BY <1>2, <1>3, <1>4, CompletedIs
<1>7. BatchTyped'
    <2>1. recounted' \in BOOLEAN
        BY <1>1 DEF BatchTyped
    <2>2. mishaps' \in 0..MaxMishaps
        BY <1>1, BatchAssumption DEF BatchTyped
    <2> QED BY <1>1, <1>5, <1>6, <2>1, <2>2 DEF BatchTyped
<1>8. queued \subseteq Positions /\ \A b \in queued : route[b] \in Lanes
    BY DEF BatchTyped
<1>9. LanesRight'
    <2>1. \A j \in Lanes :
             /\ lane'[j].todo \subseteq lane'[j].chunk
             /\ lane'[j].chunk \cap lane'[j].rest = {}
             /\ lane'[j].step = "unit" => lane'[j].todo # {}
             /\ \A b \in lane'[j].chunk \cup lane'[j].rest : b \in queued /\ route[b] = j
             /\ lane'[j].step = "over" => lane'[j].chunk = {} /\ lane'[j].rest = {}
        BY <1>1, <1>5, IdleIs DEF LanesRight
    <2>2. ASSUME NEW b \in queued, result'[b] = "none"
          PROVE  b \in lane'[route[b]].todo \cup lane'[route[b]].rest
        <3>1. b \notin S /\ result[b] = "none"
            BY <1>6, <1>8, <2>2
        <3>2. b \in Open(route[b])
            BY <1>1, <3>1 DEF LanesRight
        <3> QED BY <1>2, <1>5, <1>8, <3>1, <3>2 DEF Open
    <2> QED BY <1>1, <2>1, <2>2 DEF LanesRight, Open
<1>10. ProbesRight'
    BY <1>1 DEF ProbesRight
<1>11. ASSUME ~recounted' PROVE RowsRight' /\ TallyRight' /\ DoneRight'
    <2>1. ~recounted /\ S = Open(i)
        BY <1>1, <1>2, <1>11
    <2>2. \A a \in S : row[a] \notin Terminal
        BY <1>1, <2>1, OpenIs
    <2>3. \A b \in Positions \ queued : row'[b] \in Terminal
        BY <1>1, <1>2, <1>6, <2>1 DEF RowsRight
    <2>4. ASSUME NEW b \in queued
          PROVE  /\ result'[b] = "none" => row'[b] \notin Terminal
                 /\ result'[b] # "none" =>
                       row'[b] = result'[b] /\ b \notin lane'[route[b]].todo \cup lane'[route[b]].rest
        <3>1. CASE b \in S
            BY <1>2, <1>5, <1>6, <1>8, <3>1, IdleIs
        <3>2. CASE b \notin S
            <4>1. row'[b] = row[b] /\ result'[b] = result[b]
                BY <1>6, <1>8, <3>2
            <4>2. b \in lane'[route[b]].todo \cup lane'[route[b]].rest => b \in Open(route[b])
                BY <1>5, <1>8, IdleIs DEF Open
            <4> QED BY <1>1, <2>1, <4>1, <4>2 DEF RowsRight
        <3> QED BY <3>1, <3>2
    <2>5. RowsRight'
        BY <1>1, <2>3, <2>4 DEF RowsRight, Open
    <2>6. \A x \in Terminal : /\ Number(x) \in Nat
                              /\ Number(x)' = IF x = "failed" THEN Number(x) + Cardinality(S) ELSE Number(x)
        BY <1>2, <1>3, <1>4, <2>2, CompletedCounts
    <2>7. \A x : Cardinality({b \in Positions \ queued : row[b] = x})'
                    = Cardinality({b \in Positions \ queued : row[b] = x})
        BY <1>1, <1>2, <1>6, BaseStands
    <2>8. TallyRight'
        <3> DEFINE n == Cardinality(S)
        <3>0. n \in Nat
            BY <1>2, BatchNumbers
        <3>1. /\ tally'.current = tally.current + n
              /\ tally'.success = tally.success
              /\ tally'.failed = tally.failed + n
              /\ tally'.skipped = tally.skipped
            BY <1>6
        <3>2. \A x \in Terminal : /\ Number(x) \in Nat
                                  /\ Number(x)' = IF x = "failed" THEN Number(x) + n ELSE Number(x)
            BY <2>6
        <3> HIDE DEF n
        <3>3. /\ tally.success = Number("success") /\ tally.skipped = Number("skipped")
              /\ tally.failed = Number("failed") + 0
              /\ tally.current = tally.success + tally.failed + tally.skipped
            BY <1>1, <2>1 DEF TallyRight
        <3>4. /\ tally'.success = Number("success")' /\ tally'.skipped = Number("skipped")'
              /\ tally'.failed = Number("failed")' + 0
              /\ tally'.current = tally'.success + tally'.failed + tally'.skipped
            BY <3>0, <3>1, <3>2, <3>3 DEF Terminal
        <3> QED BY <1>1, <2>1, <2>7, <3>4 DEF TallyRight
    <2> QED BY <1>1, <2>5, <2>8 DEF DoneRight
<1> QED BY <1>7, <1>9, <1>10, <1>11

LEMMA LaneFailsKeeps == ASSUME BatchInv, NEW i \in Lanes, LaneFails(i) PROVE BatchInv'
BY LaneRepeats, LaneGivesUp DEF LaneFails

LEMMA GatheredKeeps == ASSUME BatchInv, Gathered PROVE BatchInv'
<1> USE DEF BatchInv
<1>1. /\ phase = "run" /\ phase' = "probe" /\ best' = result
      /\ unproved' = {a \in queued : result[a] = "failed"} /\ lane' = lane
      /\ queued' = queued /\ base' = base /\ row' = row /\ result' = result
      /\ route' = route /\ probe' = probe /\ tally' = tally
      /\ report' = report /\ recounted' = recounted /\ mishaps' = mishaps
    BY DEF Gathered, crawlVars
<1>2. \A i \in Lanes : lane[i].chunk = {} /\ lane[i].rest = {} /\ Open(i) = {}
    BY <1>1 DEF Gathered, LanesRight, Open
<1>3. queued \subseteq Positions /\ \A b \in queued : route[b] \in Lanes
    BY DEF BatchTyped
<1>4. \A a \in queued : result[a] \in Terminal
    BY <1>1, <1>2, <1>3 DEF LanesRight, BatchTyped
<1>5. BatchTyped'
    BY <1>1, <1>3 DEF BatchTyped
<1>6. LanesRight'
    BY <1>1 DEF LanesRight
<1>7. ProbesRight'
    BY <1>1, <1>4 DEF ProbesRight
<1>8. ASSUME ~recounted' PROVE RowsRight' /\ TallyRight' /\ DoneRight'
    <2>1. ~recounted /\ "none" \notin Terminal /\ "running" \notin Terminal
        BY <1>1, <1>8 DEF Terminal
    <2>2. \A a \in queued : row[a] = result[a]
        BY <1>1, <1>4, <2>1 DEF RowsRight
    <2>3. RowsRight'
        BY <1>1, <2>1, <2>2 DEF RowsRight
    <2>4. Rows("running") = {}
        BY <1>1, <1>4, <2>1, <2>2 DEF RowsRight, Rows
    <2>5. Number("running")' = 0
        BY <1>1, <2>4, FS_EmptySet DEF Number, Rows
    <2>6. \A s : Number(s)' = Number(s)
        BY <1>1 DEF Number, Rows
    <2>7. TallyRight'
        BY <1>1, <2>1, <2>5, <2>6 DEF TallyRight
    <2> QED BY <1>1, <2>3, <2>7 DEF DoneRight
<1> QED BY <1>5, <1>6, <1>7, <1>8

LEMMA ProbeBeginsKeeps == ASSUME BatchInv, ProbeBegins PROVE BatchInv'
<1> USE DEF BatchInv
<1> DEFINE a == First(unproved)
<1>1. /\ phase = "probe" /\ probe.with = {} /\ unproved # {} /\ unproved' = unproved \ {a}
      /\ phase' = phase /\ best' = best /\ lane' = lane
      /\ queued' = queued /\ base' = base /\ row' = row /\ result' = result
      /\ route' = route /\ tally' = tally
      /\ report' = report /\ recounted' = recounted /\ mishaps' = mishaps
    BY DEF ProbeBegins, crawlVars
<1>2. PICK ids \in SUBSET (Lanes \ {route[a]}) : probe' = [account |-> a, with |-> ids, busy |-> FALSE]
    BY DEF ProbeBegins
<1>3. a \in unproved /\ unproved \subseteq Positions
    BY <1>1, FirstIs DEF BatchTyped
<1> HIDE DEF a
<1>4. a \in Positions /\ a \in queued /\ result[a] = "failed"
    BY <1>1, <1>3 DEF ProbesRight
<1>5. probe' \in Probes /\ probe'.account = a /\ probe'.busy = FALSE
    <2>1. a \in Positions \cup {0} /\ ids \in SUBSET Lanes /\ FALSE \in BOOLEAN
        BY <1>2, <1>4
    <2> QED BY <1>2, <2>1 DEF Probes
<1>6. BatchTyped'
    BY <1>1, <1>3, <1>5 DEF BatchTyped
<1>7. LanesRight'
    BY <1>1 DEF LanesRight
<1>8. ProbesRight'
    BY <1>1, <1>3, <1>4, <1>5 DEF ProbesRight
<1>9. ASSUME ~recounted' PROVE RowsRight' /\ TallyRight' /\ DoneRight'
    <2>1. \A s : Number(s)' = Number(s)
        BY <1>1 DEF Number, Rows
    <2> QED BY <1>1, <1>9, <2>1 DEF RowsRight, TallyRight, DoneRight
<1> QED BY <1>6, <1>7, <1>8, <1>9

LEMMA ProbeStartsKeeps == ASSUME BatchInv, ProbeStarts PROVE BatchInv'
<1> USE DEF BatchInv
<1> DEFINE a == probe.account
<1>1. /\ probe.with # {} /\ row' = [row EXCEPT ![a] = "running"]
      /\ probe' = [probe EXCEPT !.busy = TRUE] /\ unproved' = unproved
      /\ phase' = phase /\ best' = best /\ lane' = lane
      /\ queued' = queued /\ base' = base /\ result' = result
      /\ route' = route /\ tally' = tally
      /\ report' = report /\ recounted' = recounted /\ mishaps' = mishaps
    BY DEF ProbeStarts
<1>2. phase = "probe" /\ a \in queued /\ result[a] = "failed" /\ a \in Positions
    BY <1>1 DEF ProbesRight, BatchTyped
<1>3. probe' \in Probes /\ probe'.account = a /\ probe'.with = probe.with
    BY <1>1 DEF BatchTyped, Probes
<1> HIDE DEF a
<1>4. \A b \in Positions : row'[b] = IF b = a THEN "running" ELSE row[b]
    BY <1>1 DEF BatchTyped
<1>5. row' \in [Positions -> RowStatus]
    BY <1>1, <1>2 DEF BatchTyped, RowStatus
<1>6. BatchTyped'
    BY <1>1, <1>3, <1>5 DEF BatchTyped
<1>7. LanesRight'
    BY <1>1, <1>2 DEF LanesRight
<1>8. ProbesRight'
    BY <1>1, <1>2, <1>3 DEF ProbesRight, a
<1>9. ASSUME ~recounted' PROVE RowsRight' /\ TallyRight' /\ DoneRight'
    <2>1. ~recounted
        BY <1>1, <1>9
    <2>2. queued \subseteq Positions
        BY DEF BatchTyped
    <2>3. RowsRight'
        BY <1>1, <1>2, <1>4, <2>1, <2>2 DEF RowsRight
    <2>4. /\ Number("success")' = Number("success") /\ Number("skipped")' = Number("skipped")
          /\ Number("failed")' + Number("running")' = Number("failed") + Number("running")
        <3>1. CASE row[a] = "running"
            <4>1. row' = row
                BY <1>1, <1>2, <1>5, <3>1 DEF BatchTyped
            <4> QED BY <4>1 DEF Number, Rows
        <3>2. CASE row[a] # "running"
            <4>1. row[a] = "failed"
                BY <1>2, <2>1, <3>2 DEF RowsRight
            <4>2. \A old : row[a] = old /\ old # "running" =>
                     /\ Number("running")' = Number("running") + 1
                     /\ Number(old) = Number(old)' + 1
                     /\ \A x : x # "running" /\ x # old => Number(x)' = Number(x)
                     /\ \A x : Number(x) \in Nat /\ Number(x)' \in Nat
                BY <1>1, <1>2, OneMoves
            <4>3. /\ Number("running")' = Number("running") + 1
                  /\ Number("failed") = Number("failed")' + 1
                  /\ \A x : x # "running" /\ x # "failed" => Number(x)' = Number(x)
                  /\ \A x : Number(x) \in Nat /\ Number(x)' \in Nat
                BY <4>1, <4>2
            <4>4. Number("success")' = Number("success") /\ Number("skipped")' = Number("skipped")
                BY <4>3
            <4>5. Number("failed") \in Nat /\ Number("failed")' \in Nat
                  /\ Number("running") \in Nat /\ Number("running")' \in Nat
                BY <4>3
            <4>6. Number("failed")' + Number("running")' = Number("failed") + Number("running")
                BY <4>3, <4>5
            <4> QED BY <4>4, <4>6
        <3> QED BY <3>1, <3>2
    <2>5. \A s : Cardinality({b \in Positions \ queued : row[b] = s})'
                    = Cardinality({b \in Positions \ queued : row[b] = s})
        BY <1>1, <1>2, <1>4, BaseStands
    <2>6. TallyRight'
        BY <1>1, <1>2, <2>1, <2>4, <2>5 DEF TallyRight
    <2> QED BY <1>1, <1>2, <2>3, <2>6 DEF DoneRight
<1> QED BY <1>6, <1>7, <1>8, <1>9

LEMMA ProbeEndsKeeps == ASSUME BatchInv, ProbeEnds PROVE BatchInv'
<1> USE DEF BatchInv
<1> DEFINE a == probe.account
<1>1. /\ probe.busy /\ row' = row /\ unproved' = unproved
      /\ phase' = phase /\ lane' = lane
      /\ queued' = queued /\ base' = base /\ result' = result
      /\ route' = route /\ tally' = tally
      /\ report' = report /\ recounted' = recounted /\ mishaps' = mishaps
    BY DEF ProbeEnds, crawlVars
<1>2. PICK s \in Terminal, i \in probe.with :
         /\ best' = [best EXCEPT ![a] = s]
         /\ probe' = [probe EXCEPT !.busy = FALSE, !.with = IF s = "failed" THEN @ \ {i} ELSE {}]
    BY DEF ProbeEnds
<1>3. phase = "probe" /\ a \in queued /\ result[a] = "failed" /\ a \in Positions
    BY <1>1 DEF ProbesRight, BatchTyped
<1> DEFINE w == IF s = "failed" THEN probe.with \ {i} ELSE {}
<1>4. w \in SUBSET Lanes /\ probe \in Probes /\ FALSE \in BOOLEAN
    BY DEF BatchTyped, Probes
<1>5. probe' = [probe EXCEPT !.busy = FALSE, !.with = w]
    BY <1>2
<1> HIDE DEF w
<1>6. probe' \in Probes /\ probe'.account = a /\ probe'.busy = FALSE
    BY <1>4, <1>5 DEF Probes
<1> HIDE DEF a
<1>7. /\ best' \in [Positions -> Terminal \cup {"none"}]
      /\ \A b \in Positions : best'[b] = IF b = a THEN s ELSE best[b]
    BY <1>2 DEF BatchTyped
<1>8. BatchTyped'
    BY <1>1, <1>6, <1>7 DEF BatchTyped
<1>9. LanesRight'
    BY <1>1, <1>3 DEF LanesRight
<1>10. ProbesRight'
    <2>1. queued \subseteq Positions
        BY DEF BatchTyped
    <2> QED BY <1>1, <1>3, <1>6, <1>7, <2>1 DEF ProbesRight
<1>11. ASSUME ~recounted' PROVE RowsRight' /\ TallyRight' /\ DoneRight'
    <2>1. \A x : Number(x)' = Number(x)
        BY <1>1 DEF Number, Rows
    <2> QED BY <1>1, <1>3, <1>11, <2>1 DEF RowsRight, TallyRight, DoneRight
<1> QED BY <1>8, <1>9, <1>10, <1>11

LEMMA SettledKeeps == ASSUME BatchInv, Settled PROVE BatchInv'
<1> USE DEF BatchInv
<1>1. /\ phase = "probe" /\ probe.with = {} /\ phase' = "settle" /\ unproved' = queued
      /\ probe' = Nobody /\ best' = best /\ lane' = lane /\ row' = row
      /\ queued' = queued /\ base' = base /\ result' = result
      /\ route' = route /\ tally' = tally
      /\ report' = report /\ recounted' = recounted /\ mishaps' = mishaps
    BY DEF Settled, crawlVars
<1>2. Nobody \in Probes /\ Nobody.with = {} /\ Nobody.busy = FALSE
    <2>1. 0 \in Positions \cup {0} /\ {} \in SUBSET Lanes
        OBVIOUS
    <2> QED BY <2>1 DEF Nobody, Probes
<1>3. BatchTyped'
    BY <1>1, <1>2 DEF BatchTyped
<1>4. LanesRight'
    BY <1>1 DEF LanesRight
<1>5. ProbesRight'
    BY <1>1, <1>2 DEF ProbesRight
<1>6. ASSUME ~recounted' PROVE RowsRight' /\ TallyRight' /\ DoneRight'
    <2>1. \A x : Number(x)' = Number(x)
        BY <1>1 DEF Number, Rows
    <2>2. RowsRight'
        BY <1>1, <1>6 DEF RowsRight
    <2>3. TallyRight'
        BY <1>1, <1>6, <2>1 DEF TallyRight
    <2> QED BY <1>1, <2>2, <2>3 DEF DoneRight
<1> QED BY <1>3, <1>4, <1>5, <1>6

LEMMA SettleKeeps == ASSUME BatchInv, NEW a \in Positions, Settle(a) PROVE BatchInv'
<1> USE DEF BatchInv
<1>1. /\ phase = "settle" /\ a = First(unproved) /\ unproved # {} /\ unproved' = unproved \ {a}
      /\ row' = [row EXCEPT ![a] = best[a]]
      /\ phase' = phase /\ best' = best /\ lane' = lane /\ probe' = probe
      /\ queued' = queued /\ base' = base /\ result' = result /\ route' = route
      /\ report' = report /\ recounted' = recounted /\ mishaps' = mishaps
    BY DEF Settle
<1>2. a \in unproved /\ a \in queued
    BY <1>1, FirstIs DEF BatchTyped, ProbesRight
<1>3. /\ result[a] \in Terminal /\ best[a] \in Terminal
      /\ result[a] # "failed" => best[a] = result[a]
    BY <1>1, <1>2 DEF ProbesRight
<1>4. tally \in Tallies /\ tally.current \in Nat /\ tally.success \in Nat /\ tally.failed \in Nat
      /\ tally.skipped \in Nat
    BY DEF BatchTyped, Tallies
<1> DEFINE f == IF tally.failed > 0 THEN tally.failed - 1 ELSE 0
           s == IF best[a] = "success" THEN tally.success + 1 ELSE tally.success
           k == IF best[a] = "skipped" THEN tally.skipped + 1 ELSE tally.skipped
<1>5. tally' = IF best[a] = result[a] THEN tally
               ELSE [tally EXCEPT !.failed = f, !.success = s, !.skipped = k]
    BY DEF Settle
<1>6. f \in Nat /\ s \in Nat /\ k \in Nat
    BY <1>4
<1> HIDE DEF f, s, k
<1>7. /\ tally' \in Tallies /\ tally'.current = tally.current
      /\ best[a] = result[a] => tally' = tally
      /\ best[a] # result[a] => tally'.failed = f /\ tally'.success = s /\ tally'.skipped = k
    BY <1>4, <1>5, <1>6 DEF Tallies
<1>8. row' \in [Positions -> RowStatus] /\ \A b \in Positions : row'[b] = IF b = a THEN best[a] ELSE row[b]
    BY <1>1, <1>3 DEF BatchTyped, RowStatus
<1>9. BatchTyped'
    BY <1>1, <1>7, <1>8 DEF BatchTyped
<1>10. LanesRight'
    BY <1>1 DEF LanesRight
<1>11. ProbesRight'
    BY <1>1 DEF ProbesRight
<1>12. ASSUME ~recounted' PROVE RowsRight' /\ TallyRight' /\ DoneRight'
    <2>1. ~recounted
        BY <1>1, <1>12
    <2>2. queued \subseteq Positions
        BY DEF BatchTyped
    <2>3. RowsRight'
        <3>1. \A b \in Positions \ queued : row'[b] \in Terminal
            BY <1>1, <1>2, <1>8, <2>1 DEF RowsRight
        <3>2. \A b \in queued :
                 IF b \in unproved' THEN row'[b] = result[b] \/ (row'[b] = "running" /\ result[b] = "failed")
                 ELSE row'[b] = best[b]
            BY <1>1, <1>2, <1>8, <2>1, <2>2 DEF RowsRight
        <3> QED BY <1>1, <3>1, <3>2 DEF RowsRight
    <2>4. row[a] = result[a] \/ (row[a] = "running" /\ result[a] = "failed")
        BY <1>1, <1>2, <2>1 DEF RowsRight
    <2>5. /\ tally.success = Number("success") /\ tally.skipped = Number("skipped")
          /\ tally.failed = Number("failed") + Number("running")
          /\ tally.current = tally.success + tally.failed + tally.skipped
        BY <1>1, <2>1 DEF TallyRight
    <2>6. ASSUME NEW new, NEW old, row[a] = old, best[a] = new, old # new
          PROVE  /\ Number(new)' = Number(new) + 1
                 /\ Number(old) = Number(old)' + 1
                 /\ \A x : x # new /\ x # old => Number(x)' = Number(x)
                 /\ \A x : Number(x) \in Nat /\ Number(x)' \in Nat
        <3>1. row' = [row EXCEPT ![a] = new]
            BY <1>1, <2>6
        <3>2. BatchTyped /\ row[a] = old /\ old # new
            BY <2>6
        <3>3. \A o : row[a] = o /\ o # new =>
                 /\ Number(new)' = Number(new) + 1
                 /\ Number(o) = Number(o)' + 1
                 /\ \A x : x # new /\ x # o => Number(x)' = Number(x)
                 /\ \A x : Number(x) \in Nat /\ Number(x)' \in Nat
            BY <3>1, <3>2, OneMoves
        <3> HIDE DEF BatchInv
        <3> QED BY <3>2, <3>3
    <2>7. /\ tally'.success = Number("success")' /\ tally'.skipped = Number("skipped")'
          /\ tally'.failed = Number("failed")' + Number("running")'
          /\ tally'.current = tally'.success + tally'.failed + tally'.skipped
        <3>1. CASE row[a] = best[a]
            <4>1. best[a] = result[a]
                BY <1>3, <2>4, <3>1 DEF Terminal
            <4>2. row' = row
                BY <1>1, <1>8, <3>1 DEF BatchTyped
            <4> QED BY <1>7, <2>5, <4>1, <4>2 DEF Number, Rows
        <3>2. CASE row[a] # best[a] /\ best[a] = result[a]
            <4>1. row[a] = "running" /\ best[a] = "failed"
                BY <2>4, <3>2
            <4>2. /\ Number("failed")' = Number("failed") + 1
                  /\ Number("running") = Number("running")' + 1
                  /\ \A x : x # "failed" /\ x # "running" => Number(x)' = Number(x)
                  /\ \A x : Number(x) \in Nat /\ Number(x)' \in Nat
                BY <2>6, <3>2, <4>1
            <4>3. Number("success")' = Number("success") /\ Number("skipped")' = Number("skipped")
                BY <4>2
            <4>4. Number("failed") \in Nat /\ Number("failed")' \in Nat
                  /\ Number("running") \in Nat /\ Number("running")' \in Nat
                BY <4>2
            <4>5. Number("failed")' + Number("running")' = Number("failed") + Number("running")
                BY <4>2, <4>4
            <4> QED BY <1>7, <2>5, <3>2, <4>3, <4>5
        <3>3. CASE row[a] # best[a] /\ best[a] # result[a]
            <4>1. result[a] = "failed" /\ best[a] \in {"success", "skipped"} /\ row[a] \in {"failed", "running"}
                BY <1>3, <2>4, <3>3 DEF Terminal
            <4>2. /\ tally'.failed = f /\ tally'.success = s /\ tally'.skipped = k
                BY <1>7, <3>3
            <4> DEFINE nf == Number("failed")
                       nr == Number("running")
                       mf == Number("failed")'
                       mr == Number("running")'
            <4>3. /\ nf \in Nat /\ nr \in Nat /\ mf \in Nat /\ mr \in Nat
                  /\ mf + mr + 1 = nf + nr
                <5>1. CASE row[a] = "failed"
                    <6>1. nf = mf + 1 /\ mr = nr /\ \A x : Number(x) \in Nat /\ Number(x)' \in Nat
                        BY <2>6, <4>1, <5>1
                    <6> HIDE DEF nf, nr, mf, mr
                    <6>2. nf \in Nat /\ nr \in Nat /\ mf \in Nat /\ mr \in Nat
                        BY <6>1 DEF nf, nr, mf, mr
                    <6> QED BY <6>1, <6>2
                <5>2. CASE row[a] = "running"
                    <6>1. nr = mr + 1 /\ mf = nf /\ \A x : Number(x) \in Nat /\ Number(x)' \in Nat
                        BY <2>6, <4>1, <5>2
                    <6> HIDE DEF nf, nr, mf, mr
                    <6>2. nf \in Nat /\ nr \in Nat /\ mf \in Nat /\ mr \in Nat
                        BY <6>1 DEF nf, nr, mf, mr
                    <6> QED BY <6>1, <6>2
                <5> QED BY <4>1, <5>1, <5>2
            <4>4. /\ Number("success")' = IF best[a] = "success" THEN Number("success") + 1 ELSE Number("success")
                  /\ Number("skipped")' = IF best[a] = "skipped" THEN Number("skipped") + 1 ELSE Number("skipped")
                <5>1. CASE best[a] = "success"
                    <6>1. Number("success")' = Number("success") + 1 /\ Number("skipped")' = Number("skipped")
                        BY <2>6, <3>3, <4>1, <5>1
                    <6> QED BY <5>1, <6>1
                <5>2. CASE best[a] = "skipped"
                    <6>1. Number("skipped")' = Number("skipped") + 1 /\ Number("success")' = Number("success")
                        BY <2>6, <3>3, <4>1, <5>2
                    <6> QED BY <5>2, <6>1
                <5> QED BY <4>1, <5>1, <5>2
            <4>5. /\ tally'.success = Number("success")' /\ tally'.skipped = Number("skipped")'
                BY <2>5, <4>2, <4>4 DEF s, k
            <4>6. tally.failed = nf + nr
                BY <2>5
            <4> HIDE DEF nf, nr, mf, mr
            <4>7. tally'.failed = mf + mr /\ tally.failed = tally'.failed + 1
                BY <1>4, <4>2, <4>3, <4>6 DEF f
            <4>8. tally'.current = tally'.success + tally'.failed + tally'.skipped
                <5>1. tally'.failed \in Nat
                    BY <4>3, <4>7
                <5>2. CASE best[a] = "success"
                    <6>1. s = tally.success + 1 /\ k = tally.skipped
                        BY <5>2 DEF s, k
                    <6> QED BY <1>4, <1>7, <2>5, <4>2, <4>7, <5>1, <6>1
                <5>3. CASE best[a] = "skipped"
                    <6>1. s = tally.success /\ k = tally.skipped + 1
                        BY <5>3 DEF s, k
                    <6> QED BY <1>4, <1>7, <2>5, <4>2, <4>7, <5>1, <6>1
                <5> QED BY <4>1, <5>2, <5>3
            <4> QED BY <4>5, <4>7, <4>8 DEF mf, mr
        <3> QED BY <3>1, <3>2, <3>3
    <2>8. \A x : Cardinality({b \in Positions \ queued : row[b] = x})'
                    = Cardinality({b \in Positions \ queued : row[b] = x})
        BY <1>1, <1>2, <1>8, BaseStands
    <2>9. TallyRight'
        BY <1>1, <2>1, <2>7, <2>8 DEF TallyRight
    <2> QED BY <1>1, <2>3, <2>9 DEF DoneRight
<1> QED BY <1>9, <1>10, <1>11, <1>12

\* When no row is open or running, the statuses part the accounts.
LEMMA TerminalRows ==
    ASSUME \A a \in Positions : row[a] \in Terminal
    PROVE  Counted = Cardinality(Positions)
<1> DEFINE S == Rows("success")
           F == Rows("failed")
           K == Rows("skipped")
<1>1. /\ S \cup F \cup K = Positions /\ S \cap F = {} /\ (S \cup F) \cap K = {}
      /\ S \subseteq Positions /\ F \subseteq Positions /\ K \subseteq Positions
    BY DEF Rows, Terminal
<1>2. Counted = Cardinality(S) + Cardinality(F) + Cardinality(K)
    BY DEF Counted
<1> HIDE DEF S, F, K
<1>3. \A A : A \subseteq Positions => IsFiniteSet(A) /\ Cardinality(A) \in Nat
    BY BatchNumbers
<1>4. /\ IsFiniteSet(S) /\ IsFiniteSet(F) /\ IsFiniteSet(K) /\ IsFiniteSet(S \cup F)
      /\ Cardinality(S) \in Nat /\ Cardinality(F) \in Nat /\ Cardinality(K) \in Nat
    BY <1>1, <1>3
<1>5. Cardinality({}) = 0
    BY FS_EmptySet
<1>6. Cardinality(S \cup F) = Cardinality(S) + Cardinality(F) - Cardinality(S \cap F)
    BY <1>4, FS_Union
<1>7. Cardinality((S \cup F) \cup K) = Cardinality(S \cup F) + Cardinality(K) - Cardinality((S \cup F) \cap K)
    BY <1>4, FS_Union
<1>8. Cardinality(S \cap F) = 0 /\ Cardinality((S \cup F) \cap K) = 0
    BY <1>1, <1>5
<1>9. Cardinality(S \cup F) = Cardinality(S) + Cardinality(F)
    BY <1>4, <1>6, <1>8
<1>10. Cardinality((S \cup F) \cup K) = Cardinality(S) + Cardinality(F) + Cardinality(K)
    BY <1>4, <1>7, <1>8, <1>9
<1> QED BY <1>1, <1>2, <1>10

\* The rows of a status are those that are queued and those that are not.
LEMMA RowsParted ==
    ASSUME queued \subseteq Positions, NEW s
    PROVE  Number(s) = Cardinality({a \in Positions \ queued : row[a] = s})
                          + Cardinality({a \in queued : row[a] = s})
<1> DEFINE A == {a \in Positions \ queued : row[a] = s}
           B == {a \in queued : row[a] = s}
<1>1. Rows(s) = A \cup B /\ A \cap B = {} /\ A \subseteq Positions /\ B \subseteq Positions
    BY DEF Rows
<1> HIDE DEF A, B
<1>2. IsFiniteSet(A) /\ IsFiniteSet(B) /\ Cardinality(A) \in Nat /\ Cardinality(B) \in Nat
    BY <1>1, BatchNumbers
<1>3. Cardinality(A \cup B) = Cardinality(A) + Cardinality(B) - Cardinality(A \cap B)
    BY <1>2, FS_Union
<1>4. Cardinality({}) = 0
    BY FS_EmptySet
<1>5. Cardinality(A \cup B) = Cardinality(A) + Cardinality(B)
    <2>1. Cardinality(A \cap B) = 0
        BY <1>1, <1>4
    <2> QED BY <1>2, <1>3, <2>1
<1> QED BY <1>1, <1>5 DEF Number, A, B

LEMMA ReportKeeps == ASSUME BatchInv, Report PROVE BatchInv'
<1> USE DEF BatchInv
<1> DEFINE s == base.success + Cardinality({a \in queued : best[a] = "success"})
           f == base.failed + Cardinality({a \in queued : best[a] = "failed"})
<1>1. /\ phase = "settle" /\ unproved = {} /\ phase' = "done"
      /\ report' = [current |-> 0, success |-> s, failed |-> f, skipped |-> tally.skipped]
      /\ row' = row /\ tally' = tally /\ probe' = probe /\ unproved' = unproved
      /\ best' = best /\ lane' = lane /\ queued' = queued /\ base' = base /\ result' = result
      /\ route' = route /\ recounted' = recounted /\ mishaps' = mishaps
    BY DEF Report, crawlVars, proving
<1>2. /\ tally.success \in Nat /\ tally.failed \in Nat /\ tally.skipped \in Nat
      /\ base.success \in Nat /\ base.failed \in Nat
    BY DEF BatchTyped, Tallies
<1>3. s \in Nat /\ f \in Nat
    <2>1. {a \in queued : best[a] = "success"} \subseteq Positions
          /\ {a \in queued : best[a] = "failed"} \subseteq Positions
        BY DEF BatchTyped
    <2>2. Cardinality({a \in queued : best[a] = "success"}) \in Nat
          /\ Cardinality({a \in queued : best[a] = "failed"}) \in Nat
        BY <2>1, BatchNumbers
    <2> QED BY <1>2, <2>2
<1>4. report' \in Tallies
    <2> HIDE DEF s, f
    <2> QED BY <1>1, <1>2, <1>3, TallyIs
<1>5. BatchTyped'
    BY <1>1, <1>4 DEF BatchTyped
<1>6. LanesRight'
    BY <1>1 DEF LanesRight
<1>7. ProbesRight'
    BY <1>1 DEF ProbesRight
<1>8. ASSUME ~recounted' PROVE RowsRight' /\ TallyRight' /\ DoneRight'
    <2>1. ~recounted /\ queued \subseteq Positions
        BY <1>1, <1>8 DEF BatchTyped
    <2>2. /\ \A a \in queued : row[a] = best[a] /\ best[a] \in Terminal
          /\ \A a \in Positions \ queued : row[a] \in Terminal
        BY <1>1, <2>1 DEF RowsRight, ProbesRight
    <2>3. \A a \in Positions : row[a] \in Terminal
        BY <2>2
    <2>4. Counted = Cardinality(Positions)
        BY <2>3, TerminalRows
    <2>5. Number("running") = 0
        <3>1. Rows("running") = {}
            BY <2>3 DEF Rows, Terminal
        <3> QED BY <3>1, FS_EmptySet DEF Number
    <2>6. Number("success") \in Nat /\ Number("failed") \in Nat /\ Number("skipped") \in Nat
        <3>1. \A x : Rows(x) \subseteq Positions
            BY DEF Rows
        <3> QED BY <3>1, BatchNumbers DEF Number
    <2>7. /\ tally.success = Number("success") /\ tally.skipped = Number("skipped")
          /\ tally.failed = Number("failed") + Number("running")
          /\ tally.current = tally.success + tally.failed + tally.skipped
          /\ base.success = Cardinality({a \in Positions \ queued : row[a] = "success"})
          /\ base.failed = Cardinality({a \in Positions \ queued : row[a] = "failed"})
        BY <1>1, <2>1 DEF TallyRight
    <2>8. /\ tally.failed = Number("failed")
          /\ tally.current = Number("success") + Number("failed") + Number("skipped")
        BY <2>5, <2>6, <2>7
    <2>9. tally = [current |-> tally.current, success |-> tally.success, failed |-> tally.failed,
                   skipped |-> tally.skipped]
        BY DEF BatchTyped, Tallies
    <2>10. Tallied = [current |-> Number("success") + Number("failed") + Number("skipped"),
                      success |-> Number("success"), failed |-> Number("failed"),
                      skipped |-> Number("skipped")]
        BY DEF Tallied, Number
    <2>11. tally = Tallied
        BY Zenon, <2>7, <2>8, <2>9, <2>10
    <2>12. s = Number("success") /\ f = Number("failed")
        <3>1. {a \in queued : best[a] = "success"} = {a \in queued : row[a] = "success"}
              /\ {a \in queued : best[a] = "failed"} = {a \in queued : row[a] = "failed"}
            BY <2>2
        <3>2. Number("success") = Cardinality({a \in Positions \ queued : row[a] = "success"})
                                     + Cardinality({a \in queued : row[a] = "success"})
            BY <2>1, RowsParted
        <3>3. Number("failed") = Cardinality({a \in Positions \ queued : row[a] = "failed"})
                                    + Cardinality({a \in queued : row[a] = "failed"})
            BY <2>1, RowsParted
        <3> QED BY Zenon, <2>7, <3>1, <3>2, <3>3
    <2> HIDE DEF s, f
    <2>13. report' = [Tallied EXCEPT !.current = 0]
        <3>1. report' = [current |-> 0, success |-> Number("success"), failed |-> Number("failed"),
                         skipped |-> Number("skipped")]
            BY <1>1, <2>7, <2>12
        <3> QED BY <2>10, <3>1
    <2>14. /\ Counted' = Counted /\ Tallied' = Tallied
        BY <1>1 DEF Counted, Tallied, Rows
    <2>15. DoneRight'
        BY <1>1, <2>4, <2>11, <2>13, <2>14 DEF DoneRight
    <2>16. RowsRight' /\ TallyRight'
        BY <1>1, <2>2 DEF RowsRight, TallyRight
    <2> QED BY <2>15, <2>16
<1> QED BY <1>5, <1>6, <1>7, <1>8

LEMMA KillKeeps == ASSUME BatchInv, Kill PROVE BatchInv'
<1> USE DEF BatchInv
<1>1. /\ phase' = "plan" /\ mishaps < MaxMishaps /\ mishaps' = mishaps + 1
      /\ row' = [a \in Positions |-> IF row[a] = "running" THEN "pending" ELSE row[a]]
      /\ queued' = {} /\ lane' = [i \in Lanes |-> Idle]
      /\ result' = [a \in Positions |-> "none"] /\ best' = [a \in Positions |-> "none"]
      /\ tally' = None /\ base' = None /\ probe' = Nobody /\ unproved' = {}
      /\ route' = route /\ report' = report /\ recounted' = recounted
    BY DEF Kill, Mishap, Recovered
<1>2. None \in Tallies
    BY TallyIs DEF None
<1>3. lane' \in [Lanes -> LaneStates] /\ \A i \in Lanes : lane'[i] = Idle
    BY <1>1, IdleIs
<1>4. Nobody \in Probes /\ Nobody.with = {} /\ Nobody.busy = FALSE
    <2>1. 0 \in Positions \cup {0} /\ {} \in SUBSET Lanes
        OBVIOUS
    <2> QED BY <2>1 DEF Nobody, Probes
<1>5. row' \in [Positions -> RowStatus]
    BY <1>1 DEF BatchTyped, RowStatus
<1>6. mishaps' \in 0..MaxMishaps
    BY <1>1, BatchAssumption DEF BatchTyped
<1>7. BatchTyped'
    BY <1>1, <1>2, <1>3, <1>4, <1>5, <1>6 DEF BatchTyped
<1>8. LanesRight'
    BY <1>1, <1>3, IdleIs DEF LanesRight
<1>9. ProbesRight'
    BY <1>1, <1>4 DEF ProbesRight
<1>10. RowsRight' /\ TallyRight' /\ DoneRight'
    BY <1>1 DEF RowsRight, TallyRight, DoneRight
<1> QED BY <1>7, <1>8, <1>9, <1>10

LEMMA BatchStepsKeep == BatchInv /\ [BatchNext]_batchVars => BatchInv'
<1>1. ASSUME BatchInv, UNCHANGED batchVars PROVE BatchInv'
    <2>1. /\ phase' = phase /\ route' = route /\ queued' = queued /\ row' = row /\ lane' = lane
          /\ result' = result /\ tally' = tally /\ best' = best /\ probe' = probe
          /\ unproved' = unproved /\ base' = base /\ report' = report /\ recounted' = recounted
          /\ mishaps' = mishaps
        BY <1>1 DEF batchVars, crawlVars, proving
    <2>2. BatchTyped' /\ LanesRight' /\ ProbesRight'
        BY <1>1, <2>1 DEF BatchInv, BatchTyped, LanesRight, Open, ProbesRight
    <2>3. RowsRight' = RowsRight
        BY <2>1 DEF RowsRight, Open
    <2>4. TallyRight' = TallyRight
        BY <2>1 DEF TallyRight, Number, Rows
    <2>5. DoneRight' = DoneRight
        BY <2>1 DEF DoneRight, Counted, Tallied, Rows
    <2> QED BY <1>1, <2>1, <2>2, <2>3, <2>4, <2>5 DEF BatchInv
<1>2. ASSUME BatchInv, BatchNext PROVE BatchInv'
    BY <1>2, PlanKeeps, StartUnitKeeps, EndUnitKeeps, ChunkDoneKeeps, LaneFailsKeeps, GatheredKeeps,
       ProbeBeginsKeeps, ProbeStartsKeeps, ProbeEndsKeeps, SettledKeeps, SettleKeeps, ReportKeeps,
       KillKeeps DEF BatchNext
<1> QED BY <1>1, <1>2

\* No step takes a success or a skip from the journal.
LEMMA DoneStands ==
    ASSUME BatchInv, BatchNext, NEW a \in Positions, row[a] \in {"success", "skipped"}, ~recounted'
    PROVE  row'[a] = row[a]
<1>1. ~recounted
    BY DEF BatchNext, StartUnit, EndUnit, ChunkDone, LaneFails, Plan, Gathered, ProbeBegins,
           ProbeStarts, ProbeEnds, Settled, Settle, Report, Kill
<1>2. RowsRight /\ LanesRight /\ ProbesRight /\ BatchTyped
    BY <1>1 DEF BatchInv
<1>3. row \in [Positions -> RowStatus] /\ row[a] \in Terminal
    BY <1>2 DEF BatchTyped, Terminal
<1>4. ASSUME NEW i \in Lanes, StartUnit(i) PROVE row'[a] = row[a]
    <2>1. /\ phase = "run" /\ lane[i].todo # {} /\ row' = [row EXCEPT ![First(lane[i].todo)] = "running"]
        BY <1>4 DEF StartUnit
    <2>2. lane[i].todo \subseteq Positions
        BY <1>2 DEF BatchTyped, LaneStates
    <2>3. First(lane[i].todo) \in Open(i)
        BY <2>1, <2>2, FirstIs DEF Open
    <2>4. row[First(lane[i].todo)] \notin Terminal
        BY <1>1, <2>1, <2>3, OpenIs
    <2> QED BY <1>3, <2>1, <2>4
<1>5. ASSUME NEW i \in Lanes, EndUnit(i) PROVE row'[a] = row[a]
    <2>1. phase = "run" /\ lane[i].todo # {}
        BY <1>2, <1>5 DEF EndUnit, LanesRight
    <2>2. lane[i].todo \subseteq Positions
        BY <1>2 DEF BatchTyped, LaneStates
    <2>3. First(lane[i].todo) \in Open(i)
        BY <2>1, <2>2, FirstIs DEF Open
    <2>4. row[First(lane[i].todo)] \notin Terminal
        BY <1>1, <2>1, <2>3, OpenIs
    <2>5. PICK s \in Terminal : row' = [b \in Positions |-> IF b \in {First(lane[i].todo)} THEN s ELSE row[b]]
        BY <1>5 DEF EndUnit, Completed
    <2> QED BY <1>3, <2>4, <2>5
<1>6. ASSUME NEW i \in Lanes, LaneFails(i) PROVE row'[a] = row[a]
    <2>1. phase = "run" /\ lane[i].todo = lane[i].chunk
        BY <1>6 DEF LaneFails
    <2>2. \A b \in lane[i].chunk \cup lane[i].rest : row[b] \notin Terminal
        BY <1>1, <2>1, OpenIs DEF Open
    <2>3. CASE row' = row
        BY <2>3
    <2>4. CASE row' = [b \in Positions |-> IF b \in lane[i].chunk \cup lane[i].rest THEN "failed" ELSE row[b]]
        BY <1>3, <2>2, <2>4
    <2> QED BY <1>6, <2>3, <2>4 DEF LaneFails, Completed
<1>7. ASSUME ProbeStarts PROVE row'[a] = row[a]
    <2>1. probe.with # {} /\ row' = [row EXCEPT ![probe.account] = "running"]
        BY <1>7 DEF ProbeStarts
    <2>2. phase = "probe" /\ probe.account \in queued /\ result[probe.account] = "failed"
        BY <1>2, <2>1 DEF ProbesRight
    <2>3. row[probe.account] \in {"failed", "running"}
        BY <1>2, <2>2 DEF RowsRight
    <2> QED BY <1>3, <2>1, <2>3
<1>8. ASSUME NEW b \in Positions, Settle(b) PROVE row'[a] = row[a]
    <2>1. phase = "settle" /\ b = First(unproved) /\ unproved # {} /\ row' = [row EXCEPT ![b] = best[b]]
        BY <1>8 DEF Settle
    <2>2. b \in unproved /\ b \in queued
        BY <1>2, <2>1, FirstIs DEF BatchTyped, ProbesRight
    <2>3. row[b] = result[b] \/ (row[b] = "running" /\ result[b] = "failed")
        BY <1>2, <2>1, <2>2 DEF RowsRight
    <2>4. result[b] # "failed" => best[b] = result[b]
        BY <1>2, <2>1, <2>2 DEF ProbesRight
    <2> QED BY <1>3, <2>1, <2>3, <2>4
<1>9. ASSUME Kill PROVE row'[a] = row[a]
    BY <1>3, <1>9 DEF Kill, Recovered
<1>10. ASSUME \/ Plan \/ Gathered \/ ProbeBegins \/ ProbeEnds \/ Settled \/ Report
              \/ \E i \in Lanes : ChunkDone(i)
       PROVE  row'[a] = row[a]
    BY <1>10 DEF Plan, Gathered, ProbeBegins, ProbeEnds, Settled, Report, ChunkDone, crawlVars
<1> QED BY <1>4, <1>5, <1>6, <1>7, <1>8, <1>9, <1>10 DEF BatchNext

LEMMA BatchIsRight ==
    ASSUME BatchInv, ~recounted
    PROVE  /\ phase \in {"run", "probe"} =>
                  /\ tally.success = Cardinality(Rows("success"))
                  /\ tally.skipped = Cardinality(Rows("skipped"))
                  /\ tally.failed = Cardinality(Rows("failed"))
                        + (IF phase = "run" THEN 0 ELSE Cardinality(Rows("running")))
                  /\ tally.current = tally.success + tally.failed + tally.skipped
           /\ phase = "done" =>
                  /\ Counted = Cardinality(Positions)
                  /\ tally = Tallied
                  /\ report = [Tallied EXCEPT !.current = 0]
<1>1. TallyRight /\ DoneRight
    BY DEF BatchInv
<1> QED BY <1>1 DEF TallyRight, DoneRight, Number

LEMMA BatchInvariance == BatchSpec => []BatchInv
<1>1. BatchInit => BatchInv
    BY BatchInitHolds
<1>2. BatchInv /\ [BatchNext]_batchVars => BatchInv'
    BY BatchStepsKeep
<1> QED BY <1>1, <1>2, PTL DEF BatchSpec

LEMMA BatchTypes == BatchInv => BatchTypeOK
<1> SUFFICES ASSUME BatchInv PROVE BatchTypeOK
    OBVIOUS
<1>1. BatchTyped /\ LanesRight
    BY DEF BatchInv
<1>2. \A i \in Lanes :
          /\ lane[i].chunk \subseteq Positions /\ lane[i].todo \subseteq lane[i].chunk
          /\ lane[i].rest \subseteq Positions
          /\ lane[i].step \in {"ready", "unit", "over"}
    BY <1>1 DEF BatchTyped, LaneStates, LanesRight
<1>3. probe.account \in Positions \cup {0} /\ probe.with \subseteq Lanes
    BY <1>1 DEF BatchTyped, Probes
<1> QED BY <1>1, <1>2, <1>3 DEF BatchTyped, BatchTypeOK

\* In every state of a batch the variables have their types
\* (_run_ui_account_batch, main_server.py).
THEOREM BatchTypeCorrect == BatchSpec => []BatchTypeOK
BY BatchInvariance, BatchTypes, PTL

\* For any accounts, lanes and chunks: however lanes, failed operations, probes
\* and kills interleave, the progress is what the journal's rows say, the
\* response counts every account once, and no step takes a success or a skip
\* from the journal, unless an operation raised after accounts of its chunk
\* were done.
THEOREM BatchCountsOnce == BatchSpec => EveryAccountOnce
<1> DEFINE P == ~recounted =>
                   /\ phase \in {"run", "probe"} =>
                         /\ tally.success = Cardinality(Rows("success"))
                         /\ tally.skipped = Cardinality(Rows("skipped"))
                         /\ tally.failed = Cardinality(Rows("failed"))
                               + (IF phase = "run" THEN 0 ELSE Cardinality(Rows("running")))
                         /\ tally.current = tally.success + tally.failed + tally.skipped
                   /\ phase = "done" =>
                         /\ Counted = Cardinality(Positions)
                         /\ tally = Tallied
                         /\ report = [Tallied EXCEPT !.current = 0]
           A == \A a \in Positions :
                   row[a] \in {"success", "skipped"} /\ ~recounted' => row'[a] = row[a]
<1>1. BatchInv => P
    BY BatchIsRight
<1>2. BatchInv /\ BatchNext => A
    BY DoneStands
<1>3. EveryAccountOnce <=> []P /\ [][A]_batchVars
    BY DEF EveryAccountOnce
<1> HIDE DEF P, A
<1> QED BY <1>1, <1>2, <1>3, BatchInvariance, PTL DEF BatchSpec
=============================================================================
