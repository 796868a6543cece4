----------------------------- MODULE PartsProofs -----------------------------
(***************************************************************************)
(* The parts of MCParts side by side: the composition is one of the        *)
(* behaviours of every part, so that what is proved of a part holds in it, *)
(* and the properties to which two parts contribute hold.                  *)
(***************************************************************************)
EXTENDS MCParts, CrawlProofs, ServerProofs, FeedProofs

\* No part starts or steps otherwise than its own specification says.
LEMMA PartsBegin ==
    Init => /\ BrowserInit /\ ScheduleInit /\ BatchInit /\ RoutingInit
            /\ DownloadInit /\ FeedInit /\ PagesInit /\ CrawlInit
            /\ SettingsInit /\ SessionInit /\ WalkInit /\ VerdictInit
BY DEF Init

LEMMA PartsStep ==
    [Next]_vars =>
        /\ [BrowserNext]_browserVars
        /\ [ScheduleNext]_scheduleVars
        /\ [BatchNext]_batchVars
        /\ [RoutingNext]_routingVars
        /\ [DownloadNext]_downloadVars
        /\ [FeedNext]_feedVars
        /\ [PagesNext]_pagesVars
        /\ [CrawlNext]_crawlerVars
        /\ [SettingsNext]_settingsVars
        /\ [SessionNext]_sessionVars
        /\ [WalkNext]_walkVars
        /\ [VerdictNext]_verdictVars
<1>1. ASSUME UNCHANGED vars
      PROVE  UNCHANGED <<browserVars, scheduleVars, batchVars, routingVars, downloadVars, feedVars, pagesVars,
                         crawlerVars, settingsVars, sessionVars, walkVars, verdictVars>>
    BY <1>1 DEF vars
<1>2. ASSUME Next PROVE [BrowserNext]_browserVars
    BY <1>2 DEF Next
<1>3. ASSUME Next PROVE [ScheduleNext]_scheduleVars
    BY <1>3 DEF Next
<1>4. ASSUME Next PROVE [BatchNext]_batchVars
    BY <1>4 DEF Next
<1>5. ASSUME Next PROVE [RoutingNext]_routingVars
    BY <1>5 DEF Next
<1>6. ASSUME Next PROVE [DownloadNext]_downloadVars
    BY <1>6 DEF Next
<1>7. ASSUME Next PROVE [FeedNext]_feedVars
    BY <1>7 DEF Next
<1>8. ASSUME Next PROVE [PagesNext]_pagesVars
    BY <1>8 DEF Next
<1>9. ASSUME Next PROVE [CrawlNext]_crawlerVars
    BY <1>9 DEF Next
<1>10. ASSUME Next PROVE [SettingsNext]_settingsVars
    BY <1>10 DEF Next
<1>11. ASSUME Next PROVE [SessionNext]_sessionVars
    BY <1>11 DEF Next
<1>12. ASSUME Next PROVE [WalkNext]_walkVars
    BY <1>12 DEF Next
<1>13. ASSUME Next PROVE [VerdictNext]_verdictVars
    BY <1>13 DEF Next
<1> QED BY <1>1, <1>2, <1>3, <1>4, <1>5, <1>6, <1>7, <1>8, <1>9, <1>10, <1>11, <1>12, <1>13

\* The parts side by side do nothing that is not a behaviour of each of them.
THEOREM PartsImplement ==
    Spec => /\ BrowserSpec /\ ScheduleSpec /\ BatchSpec /\ RoutingSpec
            /\ DownloadSpec /\ FeedSpec /\ PagesSpec /\ CrawlSpec
            /\ SettingsSpec /\ SessionSpec /\ WalkSpec /\ VerdictSpec
<1>1. Spec => Init /\ [][Next]_vars
    BY PTL DEF Spec
<1>2. Spec => BrowserSpec
    BY <1>1, PartsBegin, PartsStep, PTL DEF BrowserSpec
<1>3. Spec => ScheduleSpec
    BY <1>1, PartsBegin, PartsStep, PTL DEF ScheduleSpec
<1>4. Spec => BatchSpec
    BY <1>1, PartsBegin, PartsStep, PTL DEF BatchSpec
<1>5. Spec => RoutingSpec
    BY <1>1, PartsBegin, PartsStep, PTL DEF RoutingSpec
<1>6. Spec => DownloadSpec
    BY <1>1, PartsBegin, PartsStep, PTL DEF DownloadSpec
<1>7. Spec => FeedSpec
    BY <1>1, PartsBegin, PartsStep, PTL DEF FeedSpec
<1>8. Spec => PagesSpec
    BY <1>1, PartsBegin, PartsStep, PTL DEF PagesSpec
<1>9. Spec => CrawlSpec
    BY <1>1, PartsBegin, PartsStep, PTL DEF CrawlSpec
<1>10. Spec => SettingsSpec
    BY <1>1, PartsBegin, PartsStep, PTL DEF SettingsSpec
<1>11. Spec => SessionSpec
    BY <1>1, PartsBegin, PartsStep, PTL DEF SessionSpec
<1>12. Spec => WalkSpec
    BY <1>1, PartsBegin, PartsStep, PTL DEF WalkSpec
<1>13. Spec => VerdictSpec
    BY <1>1, PartsBegin, PartsStep, PTL DEF VerdictSpec
<1> QED BY <1>2, <1>3, <1>4, <1>5, <1>6, <1>7, <1>8, <1>9, <1>10, <1>11, <1>12, <1>13, PTL

\* Every variable of every part has its type in every state.
THEOREM PartsTypeCorrect == Spec => []TypeOK
<1>1. /\ BrowserTypeOK /\ ScheduleTypeOK /\ BatchTypeOK /\ RoutingTypeOK
      /\ DownloadTypeOK /\ FeedTypeOK /\ PagesTypeOK /\ CrawlTypeOK
      /\ SettingsTypeOK /\ SessionTypeOK /\ WalkTypeOK /\ VerdictTypeOK
      => TypeOK
    BY DEF TypeOK
<1> QED BY <1>1, PartsImplement, BrowserTypeCorrect, ScheduleTypeCorrect, BatchTypeCorrect, RoutingTypeCorrect,
           DownloadTypeCorrect, FeedTypeCorrect, PagesTypeCorrect, CrawlTypeCorrect,
           SettingsTypeCorrect, SessionTypeCorrect, WalkTypeCorrect, VerdictTypeCorrect, PTL

\* An identity has one user at a time: its profile, its viewer, its credentials
\* and its account (LoginBrowser), and the browser session that its runtimes
\* share is closed when they are gone (SharedSession).
THEOREM IdentitiesAreExclusive == Spec => []IdentityExclusive
<1>1. OneUserAtATime /\ SessionsClosed => IdentityExclusive
    BY DEF IdentityExclusive
<1> QED BY <1>1, PartsImplement, BrowserOneUser, SessionClosedOnce, PTL

\* The feed leaves nothing out: a row of the index that looks current is, and
\* who pages through the feed meets every post that was there all the time.
THEOREM FeedIsKept == Spec => []FeedKept
<1>1. IndexFaithful /\ NothingLost => FeedKept
    BY DEF FeedKept
<1> QED BY <1>1, PartsImplement, FeedFaithful, PagesLoseNothing, PTL

\* A batch settles: every account is counted once over lanes, failed operations,
\* probes, kills and restarts, and the routes it is planned on and writes back
\* stand.
THEOREM BatchesSettle == Spec => BatchSettles
BY PartsImplement, BatchCountsOnce, RoutingStands DEF BatchSettles

\* Where any part runs, the schedules are served once, the downloads are honest,
\* no account or work is lost, and every walk and verdict is complete.
THEOREM PartsAreSafe ==
    Spec => [](SchedulesKept /\ DownloadsHonest /\ NothingLeftBehind /\ SettingsHold
               /\ WalkComplete /\ VerdictsSound)
BY PartsImplement, ScheduleKept, DownloadHonest, CrawlLeavesNothing, SettingsKept, WalkIsComplete,
   VerdictsAreSound, PTL
=============================================================================
