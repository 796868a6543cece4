------------------------------- MODULE MCParts -------------------------------
(***************************************************************************)
(* The parts that share no state, side by side for TLC: the first state    *)
(* chooses one of them, and only that one runs.                            *)
(***************************************************************************)
EXTENDS LoginBrowser, ScheduleRunner, AccountBatch, Routing, Downloader, FeedIndex,
        FeedPages, AccountCrawl, SettingsFile, SharedSession, CollectionWalk, AccountVerdict

VARIABLE part
vars == <<part, browserVars, scheduleVars, batchVars, routingVars, downloadVars, feedVars,
          pagesVars, crawlerVars, settingsVars, sessionVars, walkVars, verdictVars>>

Parts == {"browser", "schedule", "batch", "routing", "download", "feed", "pages", "crawl",
          "settings", "session", "walk", "verdict"}

\* A part that does not run has one first state; in the part "verdict" the
\* accounts that are restricted are one.
Init ==
    /\ part \in Parts
    /\ BrowserInit /\ RoutingInit /\ FeedInit /\ CrawlInit /\ SettingsInit /\ SessionInit
    /\ ScheduleInit /\ (part # "schedule" => kind = "monitor")
    /\ BatchInit    /\ (part # "batch" => route = [a \in Positions |-> AnyLane])
    /\ DownloadInit /\ (part # "download" => extras = {})
    /\ PagesInit    /\ (part # "pages" => mode = "latest" /\ present = {})
    /\ WalkInit     /\ (part # "walk" => shelf = 0)
    /\ VerdictInit  /\ (part # "verdict" => ~auto /\ ~shared)
                    /\ restricted = {CHOOSE h \in Homes : TRUE}

Next ==
    \/ /\ part = "browser" /\ BrowserNext
       /\ UNCHANGED <<part, scheduleVars, batchVars, routingVars, downloadVars, feedVars,
                   pagesVars, crawlerVars, settingsVars, sessionVars, walkVars,
                   verdictVars>>
    \/ /\ part = "schedule" /\ ScheduleNext
       /\ UNCHANGED <<part, browserVars, batchVars, routingVars, downloadVars, feedVars,
                   pagesVars, crawlerVars, settingsVars, sessionVars, walkVars,
                   verdictVars>>
    \/ /\ part = "batch" /\ BatchNext
       /\ UNCHANGED <<part, browserVars, scheduleVars, routingVars, downloadVars, feedVars,
                   pagesVars, crawlerVars, settingsVars, sessionVars, walkVars,
                   verdictVars>>
    \/ /\ part = "routing" /\ RoutingNext
       /\ UNCHANGED <<part, browserVars, scheduleVars, batchVars, downloadVars, feedVars,
                   pagesVars, crawlerVars, settingsVars, sessionVars, walkVars,
                   verdictVars>>
    \/ /\ part = "download" /\ DownloadNext
       /\ UNCHANGED <<part, browserVars, scheduleVars, batchVars, routingVars, feedVars,
                   pagesVars, crawlerVars, settingsVars, sessionVars, walkVars,
                   verdictVars>>
    \/ /\ part = "feed" /\ FeedNext
       /\ UNCHANGED <<part, browserVars, scheduleVars, batchVars, routingVars, downloadVars,
                   pagesVars, crawlerVars, settingsVars, sessionVars, walkVars,
                   verdictVars>>
    \/ /\ part = "pages" /\ PagesNext
       /\ UNCHANGED <<part, browserVars, scheduleVars, batchVars, routingVars, downloadVars,
                   feedVars, crawlerVars, settingsVars, sessionVars, walkVars,
                   verdictVars>>
    \/ /\ part = "crawl" /\ CrawlNext
       /\ UNCHANGED <<part, browserVars, scheduleVars, batchVars, routingVars, downloadVars,
                   feedVars, pagesVars, settingsVars, sessionVars, walkVars, verdictVars>>
    \/ /\ part = "settings" /\ SettingsNext
       /\ UNCHANGED <<part, browserVars, scheduleVars, batchVars, routingVars, downloadVars,
                   feedVars, pagesVars, crawlerVars, sessionVars, walkVars, verdictVars>>
    \/ /\ part = "session" /\ SessionNext
       /\ UNCHANGED <<part, browserVars, scheduleVars, batchVars, routingVars, downloadVars,
                   feedVars, pagesVars, crawlerVars, settingsVars, walkVars, verdictVars>>
    \/ /\ part = "walk" /\ WalkNext
       /\ UNCHANGED <<part, browserVars, scheduleVars, batchVars, routingVars, downloadVars,
                   feedVars, pagesVars, crawlerVars, settingsVars, sessionVars,
                   verdictVars>>
    \/ /\ part = "verdict" /\ VerdictNext
       /\ UNCHANGED <<part, browserVars, scheduleVars, batchVars, routingVars, downloadVars,
                   feedVars, pagesVars, crawlerVars, settingsVars, sessionVars, walkVars>>

\* In the first state of a part that does not run, none of the actions its
\* fairness names is enabled.
Spec == Init /\ [][Next]_vars /\ BrowserFairness /\ ScheduleFairness

\* Every variable of the parts has its type.
TypeOK ==
    /\ BrowserTypeOK /\ ScheduleTypeOK /\ BatchTypeOK /\ RoutingTypeOK /\ DownloadTypeOK
    /\ FeedTypeOK /\ PagesTypeOK /\ CrawlTypeOK /\ SettingsTypeOK /\ SessionTypeOK
    /\ WalkTypeOK /\ VerdictTypeOK

-----------------------------------------------------------------------------
(* Properties to which two parts contribute *)

\* An identity has one user at a time: its profile, its viewer, its credentials
\* and its account are not used by two at once, and the browser session that
\* its runtimes share is closed when they are gone.
IdentityExclusive == OneUserAtATime /\ SessionsClosed

\* The feed leaves nothing out: a row of the index that looks current is, and
\* who pages through the feed meets every post that was there all the time.
FeedKept == IndexFaithful /\ NothingLost

\* A batch settles: every account is counted once over kills and restarts, and
\* the routes it is planned on and writes back stand.
BatchSettles == EveryAccountOnce /\ RoutesStand

\* What is to happen of itself does: a login browser ends, and a schedule that
\* stays enabled runs.
NothingStalls == BrowsersEnd /\ EnabledRuns
=============================================================================
