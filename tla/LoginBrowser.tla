----------------------------- MODULE LoginBrowser -----------------------------
(***************************************************************************)
(* CollectorLoginBrowserManager (src/collector/login_browser.py) and the   *)
(* routes around it: one interactive browser at a time, on one X display,  *)
(* one VNC port and the profile directory of its identity; while it is up, *)
(* its identity is neither crawled with nor edited.                        *)
(*                                                                         *)
(* An attempt is one call of the start route; if it launches a browser it  *)
(* is that session, too.  start() and capture() hold the manager's lock    *)
(* over their awaits, stop() only to take the session away: its cleanup    *)
(* runs beside whatever comes next.                                        *)
(***************************************************************************)
EXTENDS Naturals, FiniteSets

CONSTANTS Accounts,   \* identity ids
          Attempts,   \* 1..n: the calls of the start route, in their order
          MaxEdits    \* bound on the edits of an identity

ASSUME BrowserAssumption ==
    /\ Accounts # {}
    /\ Attempts = 1..Cardinality(Attempts) /\ IsFiniteSet(Attempts)
    /\ MaxEdits \in Nat

VARIABLES
    session,    \* manager._session: an attempt, or 0
    stage,      \* where an attempt stands
    whose,      \* the identity of an attempt
    opener,     \* the attempt that holds the lock in start(), or 0
    xvfb,       \* the attempts whose Xvfb runs
    vnc,        \* ... whose x11vnc runs
    browser,    \* ... whose Chromium runs
    late,       \* the sessions past expires_monotonic
    capture,    \* the capture route of a session: none, asked, reading
    seen,       \* the edit of the identity that a capture route has read
    edits,      \* how often an identity and its credentials were edited
    overwritten, \* auxiliary: the sessions whose identity the create route has
                \* overwritten since their capture read it
    tickets,    \* valid viewer tickets of a session
    viewer,     \* session.viewer_connected
    relays,     \* websockets that relay the session's VNC stream
    crawling,   \* the identities with a crawl in or waiting for their lease
    raced       \* of them, those whose crawl began during a start

manager == <<session, stage, whose, opener>>
processes == <<xvfb, vnc, browser>>
capturing == <<capture, seen, edits, overwritten>>
viewing == <<tickets, viewer, relays>>
crawl == <<crawling, raced>>
browserVars == <<manager, processes, late, capturing, viewing, crawl>>

\* asked      past the route's check, waits for the lock
\* reaping    cleans the expired session up, inside the lock
\* xvfb, vnc, launching   the three processes of a start
\* up         the session
\* closing, reaped   its processes are being ended, outside and inside the lock
\* over       nothing is left
Launch == {"reaping", "xvfb", "vnc", "launching"}
Starting == {"asked"} \cup Launch
BrowserStages == {"none", "up", "closing", "reaped", "over"} \cup Starting

BrowserTypeOK ==
    /\ session \in Attempts \cup {0}
    /\ stage \in [Attempts -> BrowserStages]
    /\ whose \in [Attempts -> Accounts]
    /\ opener \in Attempts \cup {0}
    /\ xvfb \subseteq Attempts /\ vnc \subseteq Attempts /\ browser \subseteq Attempts
    /\ late \subseteq Attempts
    /\ capture \in [Attempts -> {"none", "asked", "reading"}]
    /\ seen \in [Attempts -> 0..MaxEdits]
    /\ edits \in [Accounts -> 0..MaxEdits]
    /\ overwritten \subseteq Attempts
    /\ tickets \in [Attempts -> 0..1]
    /\ viewer \in [Attempts -> BOOLEAN]
    /\ relays \in [Attempts -> 0..2]
    /\ crawling \subseteq Accounts /\ raced \subseteq crawling

BrowserInit ==
    /\ session = 0 /\ opener = 0
    /\ stage = [a \in Attempts |-> "none"]
    /\ whose = [a \in Attempts |-> CHOOSE i \in Accounts : TRUE]
    /\ xvfb = {} /\ vnc = {} /\ browser = {} /\ late = {}
    /\ capture = [a \in Attempts |-> "none"]
    /\ seen = [a \in Attempts |-> 0]
    /\ edits = [i \in Accounts |-> 0]
    /\ overwritten = {}
    /\ tickets = [a \in Attempts |-> 0]
    /\ viewer = [a \in Attempts |-> FALSE]
    /\ relays = [a \in Attempts |-> 0]
    /\ crawling = {} /\ raced = {}

\* manager._lock: start() and capture() await inside it.
LockFree == opener = 0 /\ \A a \in Attempts : capture[a] # "reading"

Locked(i) == session # 0 /\ whose[session] = i      \* is_identity_locked
Current(i) == Locked(i) /\ session \notin late      \* session_for

-----------------------------------------------------------------------------
(* start                                                                   *)

\* The route: a crawl that is active or waiting refuses a new browser.
Ask(a, i) ==
    /\ stage[a] = "none" /\ \A b \in Attempts : b < a => stage[b] # "none"
    /\ Current(i) \/ i \notin crawling
    /\ stage' = [stage EXCEPT ![a] = "asked"]
    /\ whose' = [whose EXCEPT ![a] = i]
    /\ UNCHANGED <<session, opener, processes, late, capturing, viewing, crawl>>

\* Xvfb ends at once when the display is taken.
SpawnXvfb(a) == xvfb' = IF xvfb = {} THEN {a} ELSE xvfb

\* The lock is free: the current session is returned or refuses, an expired
\* one is cleaned up first, and without one the launch begins.
Enter(a) ==
    /\ stage[a] = "asked" /\ LockFree
    /\ \/ /\ session # 0 /\ session \notin late
          /\ stage' = [stage EXCEPT ![a] = "over"]
          /\ UNCHANGED <<session, opener, xvfb>>
       \/ /\ session # 0 /\ session \in late
          /\ stage' = [stage EXCEPT ![a] = "reaping", ![session] = "reaped"]
          /\ session' = 0 /\ opener' = a
          /\ UNCHANGED xvfb
       \/ /\ session = 0
          /\ stage' = [stage EXCEPT ![a] = "xvfb"]
          /\ opener' = a
          /\ SpawnXvfb(a)
          /\ UNCHANGED session
    /\ UNCHANGED <<whose, vnc, browser, late, capturing, viewing, crawl>>

Reaped(a) ==
    /\ stage[a] = "reaping"
    /\ \A b \in Attempts : stage[b] # "reaped"
    /\ stage' = [stage EXCEPT ![a] = "xvfb"]
    /\ SpawnXvfb(a)
    /\ UNCHANGED <<session, whose, opener, vnc, browser, late, capturing, viewing, crawl>>

\* Each step of a launch may fail, and fails when its process is gone: what
\* was started is ended again, still inside the lock.
Launched(a) ==
    /\ stage[a] \in {"xvfb", "vnc", "launching"}
    /\ \/ /\ stage[a] = "xvfb" /\ a \in xvfb
          /\ stage' = [stage EXCEPT ![a] = "vnc"]
          /\ vnc' = vnc \cup {a}
          /\ UNCHANGED <<session, opener, browser>>
       \/ /\ stage[a] = "vnc"
          /\ stage' = [stage EXCEPT ![a] = "launching"]
          /\ browser' = browser \cup {a}
          /\ UNCHANGED <<session, opener, vnc>>
       \/ /\ stage[a] = "launching"
          /\ stage' = [stage EXCEPT ![a] = "up"]
          /\ session' = a /\ opener' = 0
          /\ UNCHANGED <<vnc, browser>>
       \/ /\ stage' = [stage EXCEPT ![a] = "closing"]
          /\ UNCHANGED <<session, opener, vnc, browser>>
    /\ UNCHANGED <<whose, xvfb, late, capturing, viewing, crawl>>

-----------------------------------------------------------------------------
(* stop                                                                    *)

TakeSession(s) ==
    /\ s # 0 /\ session = s /\ LockFree
    /\ session' = 0
    /\ stage' = [stage EXCEPT ![s] = "closing"]
    /\ UNCHANGED <<whose, opener, processes, late, capturing, viewing, crawl>>

\* The stop route, the end of a capture and the browser's close event.
StopBrowser(s) == TakeSession(s)

\* Mutant: the cleanup cancels the task it runs in, too.
ExpireCancelled(s) ==
    /\ s # 0 /\ session = s /\ LockFree
    /\ s \in late
    /\ session' = 0
    /\ UNCHANGED <<stage, whose, opener, processes, late, capturing, viewing, crawl>>

\* _expire_session
Expire(s) == s \in late /\ TakeSession(s)

TimePasses(s) ==
    /\ s # 0 /\ session = s /\ s \notin late
    /\ late' = late \cup {s}
    /\ UNCHANGED <<manager, processes, capturing, viewing, crawl>>

\* Mutant: the display is given up first.
CleanUpXvfbFirst(a) ==
    /\ stage[a] \in {"closing", "reaped"}
    /\ IF a \in xvfb THEN xvfb' = xvfb \ {a} /\ UNCHANGED <<vnc, browser, stage, opener>>
       ELSE IF a \in vnc THEN vnc' = vnc \ {a} /\ UNCHANGED <<xvfb, browser, stage, opener>>
       ELSE /\ browser' = browser \ {a}
            /\ stage' = [stage EXCEPT ![a] = "over"]
            /\ opener' = IF opener = a THEN 0 ELSE opener
            /\ UNCHANGED <<xvfb, vnc>>
    /\ UNCHANGED <<session, whose, late, capturing, viewing, crawl>>

\* _cleanup_resources, one await at a time: the browser, x11vnc, Xvfb.  A
\* failed start leaves the lock when it is through.
CleanUp(a) ==
    /\ stage[a] \in {"closing", "reaped"}
    /\ IF a \in browser THEN browser' = browser \ {a} /\ UNCHANGED <<xvfb, vnc, stage, opener>>
       ELSE IF a \in vnc THEN vnc' = vnc \ {a} /\ UNCHANGED <<xvfb, browser, stage, opener>>
       ELSE /\ xvfb' = xvfb \ {a}
            /\ stage' = [stage EXCEPT ![a] = "over"]
            /\ opener' = IF opener = a THEN 0 ELSE opener
            /\ UNCHANGED <<vnc, browser>>
    /\ UNCHANGED <<session, whose, late, capturing, viewing, crawl>>

-----------------------------------------------------------------------------
(* The capture route, and the routes that edit an identity.                *)

\* It reads the identity's row and waits for the lock.
AskCapture(s) ==
    /\ s # 0 /\ session = s /\ capture[s] = "none"
    /\ capture' = [capture EXCEPT ![s] = "asked"]
    /\ seen' = [seen EXCEPT ![s] = edits[whose[s]]]
    /\ overwritten' = overwritten \ {s}
    /\ UNCHANGED <<edits, manager, processes, late, viewing, crawl>>

\* _require_session, then the awaits on the browser.
Read(s) ==
    /\ capture[s] = "asked" /\ LockFree
    /\ capture' = [capture EXCEPT ![s] = IF session = s /\ s \notin late THEN "reading" ELSE "none"]
    /\ UNCHANGED <<seen, edits, overwritten, manager, processes, late, viewing, crawl>>

\* Nobody is logged in yet, or the cookies go into the credentials and the
\* row that was read goes back with them, without a further await.
Captured(s) ==
    /\ capture[s] = "reading"
    /\ capture' = [capture EXCEPT ![s] = "none"]
    /\ overwritten' = overwritten \ {s}
    /\ UNCHANGED <<seen, edits, manager, processes, late, viewing, crawl>>

\* PATCH of an identity, PUT and DELETE of its credentials.
Edit(i) ==
    /\ edits[i] < MaxEdits
    /\ ~Locked(i)
    /\ edits' = [edits EXCEPT ![i] = @ + 1]
    /\ UNCHANGED <<capture, seen, overwritten, manager, processes, late, viewing, crawl>>

\* POST of an identity, whose body may name one that exists: its row is
\* overwritten, and nobody asks for the login browser.
Overwrite(i) ==
    /\ edits[i] < MaxEdits
    /\ edits' = [edits EXCEPT ![i] = @ + 1]
    /\ overwritten' = overwritten \cup {a \in Attempts : capture[a] # "none" /\ whose[a] = i}
    /\ UNCHANGED <<capture, seen, manager, processes, late, viewing, crawl>>

-----------------------------------------------------------------------------
(* Viewers.                                                                *)

IssueTicket(s) ==
    /\ s # 0 /\ session = s /\ s \notin late /\ LockFree
    /\ tickets' = [tickets EXCEPT ![s] = 1]
    /\ UNCHANGED <<viewer, relays, manager, processes, late, capturing, crawl>>

TicketExpires(s) ==
    /\ tickets[s] > 0
    /\ tickets' = [tickets EXCEPT ![s] = 0]
    /\ UNCHANGED <<viewer, relays, manager, processes, late, capturing, crawl>>

\* Mutant: a second viewer is let in.
BeginViewerShared(s) ==
    /\ session = s /\ s \notin late /\ LockFree
    /\ tickets[s] > 0
    /\ tickets' = [tickets EXCEPT ![s] = 0]
    /\ viewer' = [viewer EXCEPT ![s] = TRUE]
    /\ relays' = [relays EXCEPT ![s] = @ + 1]
    /\ UNCHANGED <<manager, processes, late, capturing, crawl>>

\* A ticket is spent even when the session has its viewer already.
BeginViewer(s) ==
    /\ session = s /\ s \notin late /\ LockFree
    /\ tickets[s] > 0
    /\ tickets' = [tickets EXCEPT ![s] = 0]
    /\ viewer' = [viewer EXCEPT ![s] = TRUE]
    /\ relays' = [relays EXCEPT ![s] = IF viewer[s] THEN @ ELSE @ + 1]
    /\ UNCHANGED <<manager, processes, late, capturing, crawl>>

\* The relay ends (its VNC stream ends with x11vnc), then end_viewer.
EndViewer(s) ==
    /\ relays[s] > 0 /\ LockFree
    /\ relays' = [relays EXCEPT ![s] = @ - 1]
    /\ viewer' = [viewer EXCEPT ![s] = @ /\ session # s]
    /\ UNCHANGED <<tickets, manager, processes, late, capturing, crawl>>

-----------------------------------------------------------------------------
(* Crawls: _execute_collector_identity_operation asks the manager and takes *)
(* or joins the lease in one step.                                         *)

BeginCrawl(i) ==
    /\ i \notin crawling /\ ~Locked(i)
    /\ crawling' = crawling \cup {i}
    /\ raced' = IF \E a \in Attempts : whose[a] = i /\ stage[a] \in Starting
                THEN raced \cup {i} ELSE raced
    /\ UNCHANGED <<manager, processes, late, capturing, viewing>>

EndCrawl(i) ==
    /\ i \in crawling
    /\ crawling' = crawling \ {i}
    /\ raced' = raced \ {i}
    /\ UNCHANGED <<manager, processes, late, capturing, viewing>>

-----------------------------------------------------------------------------
Manager(a) == Enter(a) \/ Reaped(a) \/ Launched(a) \/ CleanUp(a) \/ Expire(a)
                 \/ Read(a) \/ Captured(a)

BrowserNext ==
    \/ \E a \in Attempts :
          \/ \E i \in Accounts : Ask(a, i)
          \/ Manager(a) \/ StopBrowser(a) \/ TimePasses(a) \/ AskCapture(a)
          \/ IssueTicket(a) \/ TicketExpires(a) \/ BeginViewer(a) \/ EndViewer(a)
    \/ \E i \in Accounts : Edit(i) \/ Overwrite(i) \/ BeginCrawl(i) \/ EndCrawl(i)

BrowserSpec == BrowserInit /\ [][BrowserNext]_browserVars

\* The event loop runs what is scheduled, processes end when they are told
\* to (or are killed after three seconds), time passes, and asyncio.Lock
\* serves its waiters in order: the expiry gets it in the end.
BrowserFairness ==
    \A a \in Attempts :
        /\ WF_browserVars(Reaped(a) \/ Launched(a) \/ CleanUp(a))
        /\ WF_browserVars(Captured(a))
        /\ WF_browserVars(TimePasses(a)) /\ SF_browserVars(Expire(a))

-----------------------------------------------------------------------------
(* Properties *)

\* However starts, stops, expiries and failed launches overlap, at most one
\* browser runs on the one display, so that no two share a profile directory
\* or are seen through each other's VNC port; and a session is relayed to one
\* viewer at a time.
OneBrowserOneViewer ==
    /\ Cardinality(browser) <= 1 /\ Cardinality(vnc) <= 1
    /\ \A a \in Attempts : relays[a] <= 1

\* What a capture writes back is what the user's last edit left: no edit that
\* was answered between its first read and its write is undone, but one by the
\* create route, which does not ask whether the browser is up.
CaptureLosesNoEdit ==
    \A a \in Attempts : capture[a] = "reading" => seen[a] = edits[whose[a]] \/ a \in overwritten

\* An identity whose login browser is up is not crawled with, except by a
\* crawl that began while the browser was being started: the start route
\* looks at the lease before the launch, and a crawl sees no session until
\* after it.
BrowserExcludesCrawl ==
    session # 0 /\ whose[session] \in crawling => whose[session] \in raced

\* A browser profile, a viewer's session, an identity's credentials and its
\* account each have one user at a time.
OneUserAtATime == OneBrowserOneViewer /\ CaptureLosesNoEdit /\ BrowserExcludesCrawl

\* Every login browser ends, at the latest by its time to live, and leaves no
\* process behind.
BrowsersEnd ==
    \A a \in Attempts : stage[a] = "up" ~>
        stage[a] = "over" /\ a \notin xvfb \cup vnc \cup browser
=============================================================================
