----------------------------- MODULE DetailLinks -----------------------------
(***************************************************************************)
(* The requests that collect single things.  _run_ui_detail_links of       *)
(* main_server.py spreads a list of links over the identities of a         *)
(* platform, one group for each, the groups side by side; the handlers for *)
(* a search, a detail, a live room, comments and replies run one operation *)
(* (_execute_collector_operation).                                         *)
(*                                                                         *)
(* The choice of an identity is Routing.tla's, the lease below which a     *)
(* group runs CollectorOperation.tla's: here a route may name any          *)
(* identity, and a group may fail at any step.                             *)
(***************************************************************************)
EXTENDS Naturals, FiniteSets, FiniteSetsExt, Sequences, SequencesExt

CONSTANTS Links,   \* 1..n, in the order of the payload
          Works,   \* what links name
          Urls,    \* the addresses under which TikTok's links name them
          NoUrl,   \* Douyin's name ids only, and so do some of TikTok's
          Routes,  \* identities of the platform
          Own      \* the collector of the process itself: no identity

ASSUME LinksAssumption ==
    /\ Links = 1..Cardinality(Links) /\ IsFiniteSet(Links) /\ Links # {}
    /\ IsFiniteSet(Works) /\ IsFiniteSet(Routes) /\ Own \notin Routes
    /\ NoUrl \notin Urls

VARIABLES
    names,   \* the targets each link names, in their order
    asks,    \* what the request asks for and where it stands
    route,   \* who serves a link
    group,   \* what each of them does: execute_group
    reply    \* the DataResponse

linksVars == <<names, asks, route, group, reply>>

Servers == Routes \cup {Own}

\* One work can have two addresses: of a video or photo, or of an account
\* before and after it was renamed.
DetailTargets == [id : Works, url : Urls \cup {NoUrl}]
Texts == {<<>>} \cup {<<t>> : t \in DetailTargets} \cup {<<t, u>> : t, u \in DetailTargets}

\* waiting  for the lease    parsing   its links, one by one
\* details  work after work  loading   in downloader.run
\* done, failed, cancelled   the outputs of gather
Idle == [at |-> "none", next |-> 1, parsed |-> <<>>, got |-> {}, loaded |-> {}]
Ended == {"none", "done", "failed", "cancelled"}
NoReply == [message |-> "none", downloaded |-> 0, parsed |-> 0, invalid |-> {}, rows |-> <<>>,
            by |-> Own]

LinksTypeOK ==
    /\ names \in [Links -> Texts]
    /\ asks.what \in {"links", "one"}
    /\ asks.at \in {"new", "running", "answered", "refused", "raised", "cancelled"}
    /\ route \in [Links -> Servers]
    /\ \A s \in Servers :
          /\ group[s].at \in Ended \cup {"waiting", "parsing", "details", "loading"}
          /\ group[s].next \in Nat
          /\ group[s].parsed \in Seq(DetailTargets)
          /\ group[s].loaded \subseteq group[s].got /\ group[s].got \subseteq DetailTargets

LinksInit ==
    /\ names \in [Links -> Texts]
    /\ asks = [what |-> "links", at |-> "new"]
    /\ route = [l \in Links |-> Own]
    /\ group = [s \in Servers |-> Idle]
    /\ reply = NoReply

-----------------------------------------------------------------------------
(* The plan *)

Asked == IF asks.what = "one" THEN {1} ELSE Links

\* setdefault(identity, []).append(route): a group takes its links in order.
Mine(s) == {l \in Asked : route[l] = s}
ToParse(s) == {l \in Mine(s) : l >= group[s].next}

Runs(what, r) ==
    /\ asks' = [what |-> what, at |-> "running"]
    /\ route' = r
    /\ group' = [s \in Servers |->
          IF \E l \in Links : r[l] = s THEN [Idle EXCEPT !.at = "waiting"] ELSE Idle]
    /\ UNCHANGED <<names, reply>>

\* _plan_collector_routes found an identity for each link.
Planned(what) ==
    /\ asks.at = "new"
    /\ \E r \in [Links -> Routes] :
          Runs(what, IF what = "one" THEN [l \in Links |-> r[1]] ELSE r)

\* legacy_override: a cookie or a proxy in the payload, and no identity.
\* global_fallback: no candidate, and no identity of the platform has a route.
OnOwn(what) == asks.at = "new" /\ Runs(what, [l \in Links |-> Own])

\* 404 or 409: a named identity that is gone, of the other platform or not
\* available; configured identities and no candidate; no link in the text.
Refuse(what) ==
    /\ asks.at = "new"
    /\ asks' = [what |-> what, at |-> "refused"]
    /\ UNCHANGED <<names, route, group, reply>>

-----------------------------------------------------------------------------
(* run_group *)

Turns(s, g) == group' = [group EXCEPT ![s] = g] /\ UNCHANGED <<names, asks, route, reply>>

BeginGroup(s) == group[s].at = "waiting" /\ Turns(s, [group[s] EXCEPT !.at = "parsing"])

\* Mutant: "seen" is left out.
AddAll(parsed, items) == parsed \o items

\* The targets of a link that no link of the group named before: the same id
\* and the same address.
AddOne(parsed, t) == IF Contains(parsed, t) THEN parsed ELSE Append(parsed, t)
AddNew(parsed, items) == FoldLeft(AddOne, parsed, items)

ParseLink(s) ==
    /\ asks.what = "links" /\ group[s].at = "parsing" /\ ToParse(s) # {}
    /\ LET l == Min(ToParse(s)) IN
       Turns(s, [group[s] EXCEPT !.next = l + 1, !.parsed = AddNew(@, names[l])])

\* The handler of a single thing asks for what it was given.
ParseOne(s) ==
    /\ asks.what = "one" /\ group[s].at = "parsing" /\ names[1] # <<>>
    /\ Turns(s, [group[s] EXCEPT !.at = "details", !.next = 2, !.parsed = <<Head(names[1])>>])

Parsed(s) ==
    /\ asks.what = "links" /\ group[s].at = "parsing" /\ ToParse(s) = {}
    /\ Turns(s, [group[s] EXCEPT !.next = 1,
                    !.at = IF group[s].parsed = <<>> THEN "done" ELSE "details"])

\* handle_detail_single: what fails is left out of the data.
Detail(s) ==
    LET g == group[s] IN
    /\ g.at = "details" /\ (g.next <= Len(g.parsed) /\ asks.what = "links")
    /\ \E ok \in BOOLEAN :
          Turns(s, [g EXCEPT !.next = @ + 1, !.got = IF ok THEN @ \cup {g.parsed[g.next]} ELSE @])

DetailsDone(s) ==
    /\ group[s].at = "details" /\ (group[s].next > Len(group[s].parsed) /\ asks.what = "links")
    /\ Turns(s, [group[s] EXCEPT !.at = IF group[s].got = {} THEN "done" ELSE "loading"])

Load(s) ==
    /\ group[s].at = "loading"
    /\ Turns(s, [group[s] EXCEPT !.at = "done", !.loaded = group[s].got])

\* operation() of a single thing: data, or none.
OneDone(s) ==
    /\ group[s].at = "details" /\ asks.what = "one"
    /\ \E ok \in BOOLEAN :
          Turns(s, [group[s] EXCEPT !.at = "done", !.got = IF ok THEN {group[s].parsed[1]} ELSE {}])

\* The lease is refused, a step raises, or the runtime is not closed.
Fail(s) ==
    /\ group[s].at \notin Ended \cup {"waiting"} \/ (group[s].at = "waiting" /\ s # Own)
    /\ Turns(s, [group[s] EXCEPT !.at = "failed"])
CloseFails(s) ==
    /\ s # Own /\ group[s].at = "done" /\ asks.at = "running"
    /\ Turns(s, [group[s] EXCEPT !.at = "failed"])

\* The task is cancelled: gather cancels the groups and waits for them.
Cancel ==
    /\ asks.at = "running"
    /\ \E s \in Servers : group[s].at \notin Ended
    /\ group' = [s \in Servers |-> IF group[s].at \in Ended THEN group[s]
                                   ELSE [group[s] EXCEPT !.at = "cancelled"]]
    /\ UNCHANGED <<names, asks, route, reply>>

-----------------------------------------------------------------------------
(* The summaries of the groups *)

Groups == {s \in Servers : group[s].at # "none"}
AllEnded == asks.at = "running" /\ \A s \in Servers : group[s].at \in Ended
Delivered == {s \in Groups : group[s].at = "done"}

InvalidOf(s) ==
    {l \in Mine(s) : group[s].at = "failed" \/ names[l] = <<>>}

Row(l) == [link |-> l, to |-> route[l],
           parsed |-> IF group[route[l]].at = "failed" THEN 0 ELSE Len(names[l])]

\* Mutant: the rows of one group after those of another.
RowsByGroup ==
    LET links == FlattenSeq([i \in 1..Cardinality(Groups) |->
                      SetToSortSeq(Mine(SetToSeq(Groups)[i]), <)])
    IN  [i \in 1..Len(links) |-> Row(links[i])]

\* The routes of all groups, sorted by the index of their link.
Rows == [l \in Links |-> Row(l)]

Total(count, servers) == MapThenSumSet(LAMBDA s : count[s], servers)
NamedBy == [s \in Servers |-> Len(group[s].parsed)]
LoadedBy == [s \in Servers |-> Cardinality(group[s].loaded)]

Answer ==
    LET parsed == Total(NamedBy, Delivered)
        loaded == Total(LoadedBy, Delivered)
        invalid == UNION {InvalidOf(s) : s \in Groups}
    IN  /\ AllEnded /\ asks.what = "links" /\ \A s \in Groups : group[s].at # "cancelled"
        /\ asks' = [asks EXCEPT !.at = "answered"]
        /\ reply' = [message |-> IF loaded = 0 THEN IF parsed > 0 THEN "failed" ELSE "unparsed"
                                 ELSE IF invalid # {} THEN "partly" ELSE "complete",
                     downloaded |-> loaded, parsed |-> parsed, invalid |-> invalid,
                     rows |-> Rows,
                     by |-> IF Cardinality(Groups) = 1 THEN CHOOSE s \in Groups : TRUE ELSE Own]
        /\ UNCHANGED <<names, route, group>>

\* success_response or failed_response; what the operation raises is raised.
AnswerOne ==
    /\ AllEnded /\ asks.what = "one" /\ group[route[1]].at = "done"
    /\ asks' = [asks EXCEPT !.at = "answered"]
    /\ reply' = [NoReply EXCEPT !.by = route[1],
                    !.message = IF group[route[1]].got # {} THEN "complete" ELSE "failed"]
    /\ UNCHANGED <<names, route, group>>

RaiseOne ==
    /\ AllEnded /\ asks.what = "one" /\ group[route[1]].at = "failed"
    /\ asks' = [asks EXCEPT !.at = "raised"]
    /\ UNCHANGED <<names, route, group, reply>>

\* raise output
RaiseCancelled ==
    /\ AllEnded /\ \E s \in Groups : group[s].at = "cancelled"
    /\ asks' = [asks EXCEPT !.at = "cancelled"]
    /\ UNCHANGED <<names, route, group, reply>>

\* _execute_ui_endpoint
Endpoint == \E what \in {"links", "one"} : OnOwn(what) \/ Planned(what) \/ Refuse(what)

LinksNext ==
    \/ Endpoint
    \/ \E s \in Servers :
          \/ BeginGroup(s) \/ ParseLink(s) \/ ParseOne(s) \/ Parsed(s) \/ Detail(s)
          \/ DetailsDone(s) \/ Load(s) \/ OneDone(s) \/ Fail(s) \/ CloseFails(s)
    \/ Cancel \/ Answer \/ AnswerOne \/ RaiseOne \/ RaiseCancelled

LinksSpec == LinksInit /\ [][LinksNext]_linksVars

-----------------------------------------------------------------------------
(* Properties *)

\* The answer to a list of links accounts for every link once and in its
\* order, although groups end in any order and some fail: a link is invalid
\* exactly if it named nothing or its group failed, a group hands no work to
\* the downloader twice, unless its links give the work two addresses (as
\* only TikTok's can), "complete" means that no link is invalid and
\* something was loaded, and nothing runs any more once the request ended.
LinksAnswered ==
    /\ (asks.at \notin {"new", "running"} => \A s \in Servers : group[s].at \in Ended)
    /\ (asks.at \in {"raised", "refused", "cancelled"} => reply = NoReply)
    /\ \A s \in Servers : \A i, j \in DOMAIN group[s].parsed :
          (i # j /\ group[s].parsed[i].id = group[s].parsed[j].id) =>
              group[s].parsed[i].url # group[s].parsed[j].url
    /\ (asks.at = "answered" /\ asks.what = "links") =>
          /\ Len(reply.rows) = Cardinality(Links)
          /\ \A l \in Links :
                /\ reply.rows[l].link = l
                /\ (l \in reply.invalid <=> reply.rows[l].parsed = 0)
                /\ (group[route[l]].at = "done" /\ names[l] # <<>> => l \notin reply.invalid)
                /\ reply.by \in {Own, route[l]}
          /\ reply.downloaded <= reply.parsed
          /\ reply.downloaded <= Total(LoadedBy, Servers)
          /\ (reply.message = "complete" => reply.invalid = {} /\ reply.downloaded > 0)
          /\ (reply.message = "partly" => reply.invalid # {} /\ reply.downloaded > 0)
=============================================================================
