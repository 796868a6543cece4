------------------------------ MODULE LeaseGate ------------------------------
(***************************************************************************)
(* What a user of IdentityLeaseManager (src/collector/lease.py) relies on: *)
(* a gate per key (a collector identity, or "platform:<name>") that never  *)
(* admits more tasks than its configured limit, and that is configured,    *)
(* resized or removed only while nobody is inside.  IdentityLease.tla is   *)
(* shown to implement it.                                                  *)
(***************************************************************************)
EXTENDS Naturals, FiniteSets

CONSTANTS Keys,     \* the names a lease is taken on
          Tasks,    \* the asyncio tasks that take leases
          Limits    \* the limits configure() may be given

VARIABLES
    limits,         \* limits[k]: the limit of k, 0 while k is not configured
    holders         \* holders[k]: the tasks inside the gate of k

gateVars == <<limits, holders>>

GateInit ==
    /\ limits = [k \in Keys |-> 0]
    /\ holders = [k \in Keys |-> {}]

\* configure() with a new limit, or remove() (n = 0): nobody may be inside.
SetLimit(k, n) ==
    /\ holders[k] = {}
    /\ limits' = [limits EXCEPT ![k] = n]
    /\ UNCHANGED holders

Admit(k, t) ==
    /\ \A j \in Keys : t \notin holders[j]
    /\ Cardinality(holders[k]) < limits[k]
    /\ holders' = [holders EXCEPT ![k] = @ \cup {t}]
    /\ UNCHANGED limits

Dismiss(k, t) ==
    /\ t \in holders[k]
    /\ holders' = [holders EXCEPT ![k] = @ \ {t}]
    /\ UNCHANGED limits

GateNext ==
    \E k \in Keys :
        \/ \E n \in Limits \cup {0} : SetLimit(k, n)
        \/ \E t \in Tasks : Admit(k, t) \/ Dismiss(k, t)

GateSpec == GateInit /\ [][GateNext]_gateVars
=============================================================================
