----------------------------- MODULE Dashboard -----------------------------
(***************************************************************************)
(* The server's handlers around the routing of leads, run by one pool of    *)
(* requests: the owner's account, buyers with their rule sets and Pulsar's  *)
(* decisions, and publishers with their keys.  Each part has tables of its  *)
(* own; they share the slots of Requests and audit_logs.                    *)
(***************************************************************************)
EXTENDS AccountSecurity, BuyerAdmin, PublisherAccess

CONSTANT MaxTime   \* bound: units of time

ASSUME TimeAssumption == MaxTime \in Nat

dashboardVars == <<requestVars, accountVars, buyerVars, publisherVars, cacheState>>

DashboardInit ==
    /\ RequestsInit /\ CacheInit({RuleSetKey} \cup ApiKeys)
    /\ AccountInit /\ BuyerInit /\ PublisherInit

\* A step of the request in slot s.
Handler(s) ==
    \/ AccountStep(s) /\ UNCHANGED <<buyerVars, publisherVars, cacheState>>
    \/ BuyerStep(s) /\ UNCHANGED <<accountVars, publisherVars>>
    \/ PublisherStep(s) /\ UNCHANGED <<accountVars, buyerVars>>
    \/ RequestStep(s) /\ UNCHANGED <<accountVars, buyerVars, publisherVars, cacheState>>

\* The cache's clock, in behaviours that look something up; a decision is looked at in
\* its unit of time.
TimePasses ==
    /\ workload \cap {"use key", "ping"} # {} /\ now < MaxTime
    /\ Clock
    /\ verdict' = NoVerdict /\ judged' = NotJudged
    /\ UNCHANGED <<requestVars, accountVars, buyerRowVars, ruleVars, zipVars,
                   publishers, keys, ended>>

DashboardNext ==
    \/ \E s \in Slots : Handler(s)
    \/ AccountEvent /\ UNCHANGED <<buyerVars, publisherVars, cacheState>>
    \/ TimePasses

DashboardSpec == DashboardInit /\ [][DashboardNext]_dashboardVars
=============================================================================
