------------------------------- MODULE Routing -------------------------------
(***************************************************************************)
(* Which identity crawls an account: the planner of main_server.py         *)
(* (_plan_collector_routes) over src/collector/routing.py, the bindings    *)
(* and the policy in src/collector/store.py, and the batch that writes an *)
(* affinity back after it succeeded with an identity.                      *)
(*                                                                         *)
(* Identities and accounts are numbered; the order stands for the hash.    *)
(***************************************************************************)
EXTENDS Naturals, FiniteSets

CONSTANTS Ids,       \* identities of the platform: 1..n
          Targets    \* accounts: 1..m

ASSUME RoutingAssumption ==
    /\ Ids = 1..Cardinality(Ids) /\ IsFiniteSet(Ids) /\ Ids # {}
    /\ Targets = 1..Cardinality(Targets) /\ IsFiniteSet(Targets)

VARIABLES
    health,     \* of an identity
    rules,      \* collector_policies of the platform
    binding,    \* collector_assignments of the accounts
    flight      \* the route of an account of the last batch that may still succeed

routingVars == <<health, rules, binding, flight>>

\* usable; cooling, disabled, invalid, without credentials or locked by a
\* login browser; deleted
Healths == {"ok", "off", "deleted"}
NoId == 0
Unbound == [id |-> NoId, explicit |-> FALSE]
Bindings == [id : Ids, explicit : BOOLEAN] \cup {Unbound}
\* least loaded or sticky; binding_failure
Policies == [least : BOOLEAN, default : Ids \cup {NoId}, fallback : Ids \cup {NoId},
             strict : BOOLEAN]

RoutingTypeOK ==
    /\ health \in [Ids -> Healths]
    /\ rules \in Policies
    /\ binding \in [Targets -> Bindings]
    /\ flight \in [Targets -> Ids \cup {NoId}]

RoutingInit ==
    /\ health = [i \in Ids |-> "ok"]
    /\ rules = [least |-> FALSE, default |-> NoId, fallback |-> Cardinality(Ids), strict |-> TRUE]
    /\ binding = [t \in Targets |-> Unbound]
    /\ flight = [t \in Targets |-> NoId]

Eligible == {i \in Ids : health[i] = "ok"}      \* candidate_available

-----------------------------------------------------------------------------
(* The planner, for the eligible identities E and the active leases load.  *)

\* The order of the identities under the hash of an account.
Rank(t, i) == (t + i) % Cardinality(Ids)

\* Mutant: the hash modulo the number of identities.
RendezvousModulo(t, E) ==
    CHOOSE i \in E : Cardinality({j \in E : j < i}) = t % Cardinality(E)

\* StickyBalancedRouter.choose
Rendezvous(t, E) == CHOOSE i \in E : \A j \in E : Rank(t, j) <= Rank(t, i)

\* LeastLoadedRouter.choose; equal weights
LeastLoaded(t, E, load) ==
    CHOOSE i \in E : \A j \in E :
        load[i] < load[j] \/ (load[i] = load[j] /\ Rank(t, i) <= Rank(t, j))

\* fallback_identity
Fallback(excluded, E) ==
    LET others == E \ {excluded}
    IN  IF rules.fallback \in others THEN rules.fallback
        ELSE IF rules.default \in others THEN rules.default
        ELSE NoId

\* The identity that is fixed before the strategy is asked, or none.
Fixed(t, E) ==
    LET b == binding[t] IN
    IF b.explicit THEN IF b.id \in E \/ rules.strict THEN b.id ELSE Fallback(b.id, E)
    ELSE IF b.id # NoId THEN IF rules.least THEN NoId
                             ELSE IF b.id \in E THEN b.id ELSE Fallback(b.id, E)
    ELSE IF rules.default \in E THEN rules.default
    ELSE IF rules.default # NoId THEN Fallback(rules.default, E)
    ELSE NoId

\* Whether a route is written back as an affinity.
Sticky(t, E) ==
    LET b == binding[t] IN
    ~b.explicit /\ IF b.id # NoId THEN ~rules.least /\ b.id \notin E
                   ELSE rules.default = NoId /\ ~rules.least

\* An account's identity, at the load that the accounts before it leave.  NoId:
\* RouteUnavailable.
Choice(t, E, load) ==
    LET fixed == Fixed(t, E)
    IN  IF fixed # NoId THEN IF fixed \in E THEN fixed ELSE NoId
        ELSE IF E = {} THEN NoId
        ELSE IF rules.least THEN LeastLoaded(t, E, load)
        ELSE Rendezvous(t, E)

\* plan_routes: target after target, each one a load for the next.
Planned(E, load) ==
    LET plan[t \in Targets] ==
            Choice(t, E, [i \in Ids |-> load[i] + Cardinality({u \in 1..(t - 1) : plan[u] = i})])
    IN  plan

Routed(plan) == \A t \in Targets : plan[t] # NoId

-----------------------------------------------------------------------------
(* Actions *)

\* Active and waiting leases: none, or one of the first identity.
Loads == {[i \in Ids |-> 0], [i \in Ids |-> IF i = 1 THEN 1 ELSE 0]}

\* A task that is not a batch plans and writes new affinities at once.
PlanAndPersist ==
    \E load \in Loads :
       /\ Routed(Planned(Eligible, load))
       /\ binding' = [t \in Targets |->
             IF Sticky(t, Eligible) THEN [id |-> Planned(Eligible, load)[t], explicit |-> FALSE]
             ELSE binding[t]]
       /\ UNCHANGED <<health, rules, flight>>

\* A batch plans without writing (and raises, which changes nothing, when an
\* account has no route).  One of its accounts is followed.
PlanBatch ==
    \E load \in Loads, t \in Targets :
       /\ Routed(Planned(Eligible, load))
       /\ flight' = [u \in Targets |-> IF u = t THEN Planned(Eligible, load)[u] ELSE NoId]
       /\ UNCHANGED <<health, rules, binding>>

\* Another identity is tried with an account that failed.
Recover(t) ==
    /\ flight[t] # NoId /\ ~binding[t].explicit
    /\ \E i \in Eligible : flight' = [flight EXCEPT ![t] = i]
    /\ UNCHANGED <<health, rules, binding>>

\* Mutant: the binding is not looked at again.
SucceedUnchecked(t) ==
    /\ flight[t] # NoId
    /\ flight' = [flight EXCEPT ![t] = NoId]
    /\ binding' = IF ~rules.least
                  THEN [binding EXCEPT ![t] = [id |-> flight[t], explicit |-> FALSE]]
                  ELSE binding
    /\ UNCHANGED <<health, rules>>

\* persist_successful_identity, long after the plan; the store refuses an
\* identity that has been deleted, which raises.
Succeed(t) ==
    /\ flight[t] # NoId
    /\ flight' = [flight EXCEPT ![t] = NoId]
    /\ binding' = IF ~rules.least /\ ~binding[t].explicit /\ health[flight[t]] # "deleted"
                  THEN [binding EXCEPT ![t] = [id |-> flight[t], explicit |-> FALSE]]
                  ELSE binding
    /\ UNCHANGED <<health, rules>>

FailAll(t) ==
    /\ flight[t] # NoId
    /\ flight' = [flight EXCEPT ![t] = NoId]
    /\ UNCHANGED <<health, rules, binding>>

\* webui_collector_assignments_update
Bind(t) ==
    /\ \/ \E i \in Ids : /\ health[i] # "deleted"
                         /\ binding' = [binding EXCEPT ![t] = [id |-> i, explicit |-> TRUE]]
       \/ binding' = [binding EXCEPT ![t] = Unbound]
    /\ UNCHANGED <<health, rules, flight>>

HealthChanges(i) ==
    /\ health[i] # "deleted"
    /\ health' = [health EXCEPT ![i] = IF @ = "ok" THEN "off" ELSE "ok"]
    /\ UNCHANGED <<rules, binding, flight>>

\* webui_collector_policy_update, a setting at a time; the first identity may
\* be the default, the last is the fallback.
Configure ==
    /\ rules' \in {[rules EXCEPT !.least = ~@], [rules EXCEPT !.strict = ~@]}
                  \cup {[rules EXCEPT !.default = i] : i \in {NoId, 1}}
    /\ rules' # rules
    /\ \A i \in {rules'.default, rules'.fallback} \ {NoId} : health[i] # "deleted"
    /\ UNCHANGED <<health, binding, flight>>

Referenced(i) == (\E t \in Targets : binding[t].id = i) \/ i \in {rules.default, rules.fallback}

\* CollectorStore.delete_identity
Forget(i) ==
    /\ ~Referenced(i) /\ health[i] # "deleted"
    /\ health' = [health EXCEPT ![i] = "deleted"]
    /\ UNCHANGED <<rules, binding, flight>>

RoutingNext ==
    \/ PlanAndPersist \/ PlanBatch \/ Configure
    \/ \E t \in Targets : Recover(t) \/ Succeed(t) \/ FailAll(t) \/ Bind(t)
    \/ \E i \in Ids : HealthChanges(i) \/ Forget(i)

RoutingSpec == RoutingInit /\ [][RoutingNext]_routingVars

-----------------------------------------------------------------------------
(* Properties *)

\* Without the identity that is lost, the plan of the others' accounts.
LostMovesItsOwn ==
    LET idle == [i \in Ids |-> 0]
        before == Planned(Eligible, idle)
    IN  ~rules.least =>
            \A lost \in Eligible :
               LET after == Planned(Eligible \ {lost}, idle)
               IN  \A t \in Targets : before[t] \notin {lost, NoId} => after[t] = before[t]

NamesExist ==
    \A i \in {binding[t].id : t \in Targets} \cup {rules.default, rules.fallback} :
       i # NoId => health[i] # "deleted"

BoundByUser == \A t \in Targets : binding[t].explicit /\ binding'[t] # binding[t] => Bind(t)

\* "Removing one identity only remaps targets owned by that identity"
\* (routing.py): with bindings, defaults, fallbacks and affinities on top of
\* the hash, an identity that drops out moves no account of another one.
\* Whatever is bound or configured names an identity that exists.  And a
\* binding the user made stays until the user changes it: no plan and no batch
\* that was under way when it was made puts an affinity in its place.
RoutesStand ==
    /\ [](LostMovesItsOwn /\ NamesExist)
    /\ [][BoundByUser]_routingVars
=============================================================================
