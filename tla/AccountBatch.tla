---------------------------- MODULE AccountBatch ----------------------------
(***************************************************************************)
(* _run_ui_account_batch (main_server.py) with the account rows of the     *)
(* task journal (task_journal.py): the accounts of one batch, routed to    *)
(* identities, are crawled in one lane per identity, chunk by chunk, each  *)
(* chunk inside one lease; accounts an identity could not see are then     *)
(* tried with the others; the rows are settled and the totals reported.    *)
(* A kill leaves the rows, and the next start begins again from them.      *)
(*                                                                         *)
(* Pausing is TaskLifecycle's, the lease CollectorOperation's, the plan    *)
(* Routing's: here a lane waits for any time, an operation may raise       *)
(* wherever its code can, and any route may be planned.                    *)
(***************************************************************************)
EXTENDS Naturals, FiniteSets

CONSTANTS Positions,    \* the accounts, by their position: 1..n
          Lanes,        \* the identities
          Chunk,        \* DOUYIN_ACCOUNT_LEASE_CHUNK_SIZE
          MaxMishaps    \* bound on operations that raise and kills together

ASSUME BatchAssumption ==
    /\ Positions = 1..Cardinality(Positions) /\ IsFiniteSet(Positions)
    /\ IsFiniteSet(Lanes) /\ Chunk \in Nat \ {0}
    /\ MaxMishaps \in Nat

VARIABLES
    phase,      \* where the batch stands
    route,      \* the identity an account is planned on
    row,        \* the status of an account in the journal
    queued,     \* the accounts of this execution
    lane,       \* run_identity_group, per identity
    result,     \* the outcome of an account in its lane
    best,       \* ... after it was tried with other identities
    tally,      \* progress_current, _success, _failed, _skipped
    base,       \* what the tally was at the beginning of this execution
    probe,      \* the account that is tried elsewhere, and with whom still
    unproved,   \* the accounts that are still to be tried elsewhere
    report,     \* success, failed and skipped of the response
    recounted,  \* an operation raised after accounts of its chunk were done
    mishaps

crawlVars == <<row, lane, result, tally>>
proving == <<best, probe, unproved>>
batchVars == <<phase, route, queued, crawlVars, proving, base, report, recounted, mishaps>>

\* The outcome of a unit.  Failures differ in their reason and in whether
\* another identity is asked (cross_identity), which ProbeBegins leaves open.
Terminal == {"success", "skipped", "failed"}
RowStatus == {"pending", "running"} \cup Terminal

Tallies == [current : Nat, success : Nat, failed : Nat, skipped : Nat]
None == [current |-> 0, success |-> 0, failed |-> 0, skipped |-> 0]
Nobody == [account |-> 0, with |-> {}, busy |-> FALSE]

BatchTypeOK ==
    /\ phase \in {"plan", "run", "probe", "settle", "done", "raised"}
    /\ route \in [Positions -> Lanes]
    /\ row \in [Positions -> RowStatus]
    /\ queued \subseteq Positions /\ unproved \subseteq Positions
    /\ \A i \in Lanes :
          /\ lane[i].chunk \subseteq Positions /\ lane[i].todo \subseteq lane[i].chunk
          /\ lane[i].rest \subseteq Positions
          /\ lane[i].step \in {"ready", "unit", "over"}
    /\ result \in [Positions -> Terminal \cup {"none"}]
    /\ best \in [Positions -> Terminal \cup {"none"}]
    /\ tally \in Tallies /\ base \in Tallies
    /\ probe.account \in Positions \cup {0} /\ probe.with \subseteq Lanes
    /\ report \in Tallies
    /\ recounted \in BOOLEAN /\ mishaps \in 0..MaxMishaps

Idle == [chunk |-> {}, todo |-> {}, rest |-> {}, step |-> "over"]

\* One of the first routes will do: the identities are alike.
AnyLane == CHOOSE i \in Lanes : TRUE

BatchInit ==
    /\ phase = "plan"
    /\ route \in [Positions -> Lanes] /\ route[1] = AnyLane
    /\ row = [a \in Positions |-> "pending"]      \* prepare_accounts
    /\ queued = {}
    /\ lane = [i \in Lanes |-> Idle]
    /\ result = [a \in Positions |-> "none"]
    /\ best = [a \in Positions |-> "none"]
    /\ tally = None /\ base = None /\ report = None
    /\ probe = Nobody /\ unproved = {}
    /\ recounted = FALSE /\ mishaps = 0

Mishap == mishaps < MaxMishaps /\ mishaps' = mishaps + 1

Rows(s) == {a \in Positions : row[a] = s}
First(S) == CHOOSE a \in S : \A b \in S : a <= b

\* chunk[chunk_start : chunk_start + chunk_size] of what is left
Chunked(S) ==
    IF S = {} THEN Idle
    ELSE LET c == {a \in S : Cardinality({b \in S : b < a}) < Chunk}
         IN  [chunk |-> c, todo |-> c, rest |-> S \ c, step |-> "ready"]

-----------------------------------------------------------------------------
\* Mutant: skipped accounts are queued again.
UnfinishedRows == {a \in Positions : row[a] \notin {"success", "failed"}}

\* The journal's rows that are queued.
OpenRows == {a \in Positions : row[a] \notin Terminal}

\* What the journal has already.
Tallied ==
    LET n(s) == Cardinality(Rows(s))
    IN  [current |-> n("success") + n("failed") + n("skipped"),
         success |-> n("success"), failed |-> n("failed"), skipped |-> n("skipped")]

\* The execution begins: what the journal has already counts, the rest is
\* queued and planned.  Without a route the batch raises (or waits until it
\* has one).
Plan ==
    /\ phase = "plan"
    /\ queued' = OpenRows
    /\ tally' = Tallied
    /\ base' = tally'
    /\ \/ /\ phase' = "run"
          /\ lane' = [i \in Lanes |-> Chunked({a \in queued' : route[a] = i})]
       \/ /\ queued' # {} /\ phase' = "raised"
          /\ UNCHANGED lane
    /\ UNCHANGED <<route, row, result, proving, report, recounted, mishaps>>

\* Inside the lease, which is waited for before the first unit of a chunk.
StartUnit(i) ==
    /\ phase = "run" /\ lane[i].step = "ready" /\ lane[i].todo # {}
    /\ row' = [row EXCEPT ![First(lane[i].todo)] = "running"]
    /\ lane' = [lane EXCEPT ![i].step = "unit"]
    /\ UNCHANGED <<phase, route, queued, result, tally, proving, base, report, recounted, mishaps>>

\* complete_progress_item, advancing, for the accounts S that end with s
Completed(S, s) ==
    LET n == Cardinality(S)
    IN  /\ row' = [a \in Positions |-> IF a \in S THEN s ELSE row[a]]
        /\ tally' = [tally EXCEPT !.current = @ + n,
                        !.success = IF s = "success" THEN @ + n ELSE @,
                        !.failed = IF s = "failed" THEN @ + n ELSE @,
                        !.skipped = IF s = "skipped" THEN @ + n ELSE @]
        /\ result' = [a \in Positions |-> IF a \in S THEN s ELSE result[a]]

EndUnit(i) ==
    /\ phase = "run" /\ lane[i].step = "unit"
    /\ \E s \in Terminal : Completed({First(lane[i].todo)}, s)
    /\ lane' = [lane EXCEPT ![i].step = "ready", ![i].todo = @ \ {First(@)}]
    /\ UNCHANGED <<phase, route, queued, proving, base, report, recounted, mishaps>>

ChunkDone(i) ==
    /\ phase = "run" /\ lane[i].step = "ready" /\ lane[i].todo = {}
    /\ lane' = [lane EXCEPT ![i] = Chunked(@.rest)]
    /\ UNCHANGED <<phase, route, queued, row, result, tally, proving, base, report, recounted, mishaps>>

\* The operation raises, in the lease, a unit's bookkeeping or at its end.
\* A batch whose task pauses runs the whole chunk again when it is resumed;
\* otherwise everything from the beginning of the chunk on has failed.
LaneFails(i) ==
    /\ phase = "run" /\ lane[i].step # "over" /\ Mishap
    /\ recounted' = (recounted \/ lane[i].todo # lane[i].chunk)
    /\ \/ /\ lane' = [lane EXCEPT ![i].todo = lane[i].chunk, ![i].step = "ready"]
          /\ UNCHANGED <<row, tally, result>>
       \/ /\ lane' = [lane EXCEPT ![i] = Idle]
          /\ Completed(lane[i].chunk \cup lane[i].rest, "failed")
    /\ UNCHANGED <<phase, route, queued, proving, base, report>>

-----------------------------------------------------------------------------
(* Other identities *)

Gathered ==
    /\ phase = "run" /\ \A i \in Lanes : lane[i].step = "over"
    /\ phase' = "probe"
    /\ best' = result
    /\ unproved' = {a \in queued : result[a] = "failed"}
    /\ UNCHANGED <<route, queued, crawlVars, probe, base, report, recounted, mishaps>>

\* alternate_identity_ids: any of the others may be available, and none is
\* asked when the failure is not about the identity.
ProbeBegins ==
    /\ phase = "probe" /\ probe.with = {} /\ unproved # {}
    /\ \E ids \in SUBSET (Lanes \ {route[First(unproved)]}) :
          probe' = [account |-> First(unproved), with |-> ids, busy |-> FALSE]
    /\ unproved' = unproved \ {First(unproved)}
    /\ UNCHANGED <<phase, route, queued, crawlVars, best, base, report, recounted, mishaps>>

\* The account runs again; its progress was counted and is not counted twice.
ProbeStarts ==
    /\ ~probe.busy /\ probe.with # {}
    /\ row' = [row EXCEPT ![probe.account] = "running"]
    /\ probe' = [probe EXCEPT !.busy = TRUE]
    /\ UNCHANGED <<phase, route, queued, lane, result, tally, best, unproved, base, report, recounted, mishaps>>

\* outcome_priority: a success or a skip is kept and ends the search.
ProbeEnds ==
    /\ probe.busy
    /\ \E s \in Terminal, i \in probe.with :
          /\ best' = [best EXCEPT ![probe.account] = s]
          /\ probe' = [probe EXCEPT !.busy = FALSE,
                          !.with = IF s = "failed" THEN @ \ {i} ELSE {}]
    /\ UNCHANGED <<phase, route, queued, crawlVars, unproved, base, report, recounted, mishaps>>

-----------------------------------------------------------------------------
(* The end *)

Settled ==
    /\ phase = "probe" /\ probe.with = {} /\ unproved = {}
    /\ phase' = "settle"
    /\ unproved' = queued       \* from here on, those whose row is not final
    /\ probe' = Nobody
    /\ UNCHANGED <<route, queued, crawlVars, best, base, report, recounted, mishaps>>

\* Mutant: an account that another identity recovered is counted once more.
SettleAgain(a) ==
    /\ phase = "settle" /\ unproved # {} /\ a = First(unproved)
    /\ row' = [row EXCEPT ![a] = best[a]]
    /\ tally' = IF best[a] = result[a] THEN tally
                ELSE [tally EXCEPT !.success = IF best[a] = "success" THEN @ + 1 ELSE @,
                                   !.skipped = IF best[a] = "skipped" THEN @ + 1 ELSE @]
    /\ unproved' = unproved \ {a}
    /\ UNCHANGED <<phase, route, queued, lane, result, best, probe, base, report, recounted, mishaps>>

\* complete_progress_item, not advancing: the row is written again, and what
\* was counted as failed moves to what it became.
Settle(a) ==
    /\ phase = "settle" /\ unproved # {} /\ a = First(unproved)
    /\ row' = [row EXCEPT ![a] = best[a]]
    /\ tally' = IF best[a] = result[a] THEN tally
                ELSE [tally EXCEPT !.failed = IF @ > 0 THEN @ - 1 ELSE 0,
                                   !.success = IF best[a] = "success" THEN @ + 1 ELSE @,
                                   !.skipped = IF best[a] = "skipped" THEN @ + 1 ELSE @]
    /\ unproved' = unproved \ {a}
    /\ UNCHANGED <<phase, route, queued, lane, result, best, probe, base, report, recounted, mishaps>>

\* The response: what was there at the beginning and what came.
Report ==
    /\ phase = "settle" /\ unproved = {}
    /\ phase' = "done"
    /\ report' = [current |-> 0,
                  success |-> base.success + Cardinality({a \in queued : best[a] = "success"}),
                  failed |-> base.failed + Cardinality({a \in queued : best[a] = "failed"}),
                  skipped |-> tally.skipped]
    /\ UNCHANGED <<route, queued, crawlVars, proving, base, recounted, mishaps>>

\* recover_interrupted
Recovered == [a \in Positions |-> IF row[a] = "running" THEN "pending" ELSE row[a]]

\* The server is killed and started again, and the task is executed anew.
Kill ==
    /\ phase # "done" /\ phase # "raised" /\ Mishap
    /\ phase' = "plan"
    /\ row' = Recovered
    /\ queued' = {} /\ lane' = [i \in Lanes |-> Idle]
    /\ result' = [a \in Positions |-> "none"] /\ best' = result'
    /\ tally' = None /\ base' = None
    /\ probe' = Nobody /\ unproved' = {}
    /\ UNCHANGED <<route, report, recounted>>

BatchNext ==
    \/ \E i \in Lanes : StartUnit(i) \/ EndUnit(i) \/ ChunkDone(i) \/ LaneFails(i)
    \/ Plan \/ Gathered \/ ProbeBegins \/ ProbeStarts \/ ProbeEnds
    \/ Settled \/ (\E a \in Positions : Settle(a)) \/ Report \/ Kill

BatchSpec == BatchInit /\ [][BatchNext]_batchVars

-----------------------------------------------------------------------------
(* Properties *)

Counted == Cardinality(Rows("success")) + Cardinality(Rows("failed")) + Cardinality(Rows("skipped"))

\* However lanes, failed operations, probes and kills interleave, every
\* account is counted once: the progress is what the journal's rows say (an
\* account that is being tried elsewhere still counts as failed), and the
\* response gives every account of the batch its final status, those of
\* earlier executions included.  And an account whose success or skip is in
\* the journal is not crawled again and does not lose it, across probes,
\* restarts and new plans.  The exception is an operation that raises after
\* accounts of its chunk were done: they are crawled and counted again.
EveryAccountOnce ==
    /\ [](~recounted =>
            /\ phase \in {"run", "probe"} =>
                  /\ tally.success = Cardinality(Rows("success"))
                  /\ tally.skipped = Cardinality(Rows("skipped"))
                  /\ tally.failed = Cardinality(Rows("failed"))
                        + (IF phase = "run" THEN 0 ELSE Cardinality(Rows("running")))
                  /\ tally.current = tally.success + tally.failed + tally.skipped
            /\ phase = "done" =>
                  /\ Counted = Cardinality(Positions)
                  /\ tally = Tallied
                  /\ report = [Tallied EXCEPT !.current = 0])
    /\ [][\A a \in Positions :
             row[a] \in {"success", "skipped"} /\ ~recounted' => row'[a] = row[a]]_batchVars
=============================================================================
