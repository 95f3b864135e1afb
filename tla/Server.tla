------------------------------- MODULE Server -------------------------------
(***************************************************************************)
(* The server beside the routing of leads: the handlers of Dashboard, and   *)
(* the writers of the tables in which leads are kept.  They have no table   *)
(* in common but the publishers and campaigns that the clean-up tool        *)
(* deletes, which LeadPersistence has in a form of its own; so a behaviour  *)
(* runs one of the two, as its workload says.                               *)
(***************************************************************************)
EXTENDS Dashboard, LeadPersistence

serverVars == <<dashboardVars, persistenceVars>>

ServerInit == DashboardInit /\ PersistenceInit

ServerNext ==
    \/ "leads" \notin workload /\ DashboardNext /\ UNCHANGED persistenceVars
    \/ "leads" \in workload /\ PersistenceNext /\ UNCHANGED dashboardVars

ServerSpec == ServerInit /\ [][ServerNext]_serverVars
=============================================================================
