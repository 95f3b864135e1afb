--------------------------- MODULE LeadPersistence ---------------------------
(***************************************************************************)
(* How the tasks of the write-behind queue reach the tables: the batch_*    *)
(* functions of crates/core/src/services/write_behind_queue.rs, next to the *)
(* leads that persist_failed_lead (leads.rs) writes by itself, and to the   *)
(* tool that deletes the data of an instance while servers run              *)
(* (crates/utils/src/bin/cleanup-instance-data.rs).                         *)
(*                                                                         *)
(* Each request has a uuid of its own (the request itself here) and a       *)
(* lead_id of eight random characters, which two requests may share.  Its   *)
(* tasks are taken in order by the queue of one server: the creation, then, *)
(* in the same batch or a later one and in any order, the tasks of its plan *)
(* (a buyer's response; an update of the lead and one of its payload).      *)
(* Requests are of different servers, so their statements interleave.  All  *)
(* leads are of the publishers of one instance.                             *)
(***************************************************************************)
EXTENDS Integers, FiniteSets

CONSTANTS
    Queued,      \* requests whose lead goes through the queue
    Failed,      \* requests that fail validation, written by persist_failed_lead
    MaxIds,      \* different values of lead_id
    Plans,       \* sets of tasks that may follow the creation of a lead
    MaxTries,    \* attempts of the second round (3)
    MaxFailures  \* requests for which statements fail, at most

ASSUME PersistenceAssumption ==
    /\ Queued \cap Failed = {}
    /\ 0 \notin Queued \cup Failed   \* no request has the nil uuid
    /\ MaxTries \in Nat \ {0} /\ MaxIds \in Nat /\ MaxFailures \in Nat

VARIABLES
    idOf,       \* idOf[r]: the lead_id generated for request r
    leads,      \* rows of leads, by lead_id
    payloads,   \* payloads[u]: the newest row of ping_payloads of the lead with uuid u
    responses,  \* responses[r]: uuids of the leads the response of r is stored for
    job,        \* job[r]: how far the tasks of r are
    tool,       \* the next step of the clean-up tool
    chosen,     \* lead uuids of its step 1
    doomed,     \* lead uuids deleted in its transaction, and locked by it
    listed,     \* buyers, campaigns and ping trees of its step 3
    catalogue,  \* buyers, campaigns and ping trees of the instance
    publisher,  \* the publishers of the instance exist
    report      \* what the tool says at its end

storeVars == <<payloads, responses, job>>
toolVars == <<tool, chosen, doomed, listed, catalogue, publisher, report>>
persistenceVars == <<idOf, leads, storeVars, toolVars>>

Reqs == Queued \cup Failed
NoLead == [uuid |-> 0]
NoUuid == 0
Ids == 1..MaxIds   \* numbered as they come up
NoId == 0

\* What the server knows of a request.  map: its entry in uuid_map; target: the lead its
\* response is for; failed: a statement for it failed, missed: its update or its payload
\* found no row (both history).
NewJob(create, plan) ==
    LET Enqueued(task) == IF task \in plan THEN "queued" ELSE "none" IN
    [create |-> create, map |-> NoUuid, target |-> NoUuid, tries |-> 0,
     response |-> Enqueued("response"), update |-> Enqueued("update"),
     payload |-> Enqueued("payload"), failed |-> FALSE, missed |-> FALSE]

PersistenceInit ==
    /\ idOf = [r \in Reqs |-> NoId]
    /\ leads = [i \in Ids |-> NoLead]
    /\ payloads = [r \in Reqs |-> "none"]
    /\ responses = [r \in Reqs |-> {}]
    /\ job = [r \in Reqs |-> NewJob("none", {})]
    /\ tool = "idle" /\ chosen = {} /\ doomed = {} /\ listed = {}
    /\ catalogue = {"old"} /\ publisher = TRUE /\ report = "none"

\* A lead_id is generated, a new one or one that is taken, and the tasks are enqueued; a
\* request that fails validation goes to persist_failed_lead instead.
AcceptLead(r) ==
    /\ job[r].create = "none"
    /\ \E i \in Ids :
         /\ \A k \in 1..(i - 1) : \E q \in Reqs : idOf[q] = k
         /\ idOf' = [idOf EXCEPT ![r] = i]
    /\ IF r \in Queued
       THEN \E plan \in Plans : job' = [job EXCEPT ![r] = NewJob("queued", plan)]
       ELSE job' = [job EXCEPT ![r] = NewJob("queued", {})]
    /\ UNCHANGED <<leads, payloads, responses, toolVars>>

Uuids == {leads[i].uuid : i \in Ids} \ {NoUuid}

\* A statement that touches a row deleted in an open transaction waits for its end.
Free(u) == u \notin doomed

\* A statement for r may fail; a behaviour has such failures or a run of the tool.
MayFail(r) == tool = "idle" /\ Cardinality({q \in Reqs \ {r} : job[q].failed}) < MaxFailures

-----------------------------------------------------------------------------
(* batch_create_leads.                                                      *)

\* The row of a new lead.
NewLead(r) == [uuid |-> r, status |-> "Processing"]

\* INSERT ... ON CONFLICT (lead_id) DO UPDATE SET promise_id, in a transaction of its
\* own: a row that is there keeps its uuid and status, and the uuid returned goes into
\* uuid_map.
CreateLead(r) ==
    LET i == idOf[r]
        row == IF leads[i] = NoLead THEN NewLead(r) ELSE leads[i] IN
    /\ job[r].create = "queued" /\ Free(leads[i].uuid)
    /\ leads' = [leads EXCEPT ![i] = row]
    /\ job' = [job EXCEPT ![r].create = "pings", ![r].map = row.uuid]
    /\ UNCHANGED <<idOf, payloads, responses, toolVars>>

\* The transaction fails; the creation is skipped.
CreateLeadFails(r) ==
    /\ job[r].create = "queued" /\ MayFail(r)
    /\ job' = [job EXCEPT ![r].create = "skipped", ![r].failed = TRUE]
    /\ UNCHANGED <<idOf, leads, payloads, responses, toolVars>>

\* A second transaction, best effort: a row of pings and one of ping_payloads.  The other
\* tasks of r are of the same batch, or uuid_map is gone when they are taken.
CreatePings(r) ==
    /\ job[r].create = "pings" /\ Free(job[r].map)
    /\ \/ /\ job[r].map \in Uuids
          /\ payloads' = [payloads EXCEPT ![job[r].map] = "request"]
       \/ UNCHANGED payloads
    /\ \E map \in {job[r].map, NoUuid} :
           job' = [job EXCEPT ![r].create = "done", ![r].map = map]
    /\ UNCHANGED <<idOf, leads, responses, toolVars>>

Created(r) == job[r].create \in {"done", "skipped"}

-----------------------------------------------------------------------------
(* batch_insert_buyer_responses.                                            *)

\* Mutant: no lookup by lead_id.
ResolveByUuid(r) ==
    IF job[r].map # NoUuid THEN job[r].map ELSE IF r \in Uuids THEN r ELSE NoUuid

\* uuid_map, else resolve_lead_uuid_for_buyer_response: the row with the uuid of the
\* request, else the row with its lead_id.  The lookup in between finds nothing: the
\* ping_ids in pings are made up by batch_create_leads, not the ones of the buyers.
Resolve(r) ==
    IF job[r].map # NoUuid THEN job[r].map
    ELSE IF r \in Uuids THEN r ELSE leads[idOf[r]].uuid

\* The response of r goes on to another step.
SetResponse(r, state, target) ==
    /\ job' = [job EXCEPT ![r].response = state, ![r].target = target]
    /\ UNCHANGED <<idOf, leads, payloads, responses, toolVars>>

\* The response of r is done with, one way or the other.
ResponseEnds(r, state, failed) ==
    job' = [job EXCEPT ![r].response = state, ![r].target = NoUuid, ![r].map = NoUuid,
                       ![r].tries = 0, ![r].failed = @ \/ failed]

\* First round: a response without a lead waits for the second round.
ResolveResponse(r) ==
    /\ job[r].response = "queued" /\ Created(r)
    /\ IF Resolve(r) = NoUuid THEN SetResponse(r, "retry", NoUuid)
       ELSE SetResponse(r, "insert", Resolve(r))

\* Second round, 100 ms later: without a lead the response is dropped.
ResolveAgain(r) ==
    /\ job[r].response = "retry"
    /\ \/ Resolve(r) # NoUuid /\ SetResponse(r, "insert again", Resolve(r))
       \/ /\ Resolve(r) = NoUuid /\ ResponseEnds(r, "dropped", FALSE)
          /\ UNCHANGED <<idOf, leads, payloads, responses, toolVars>>

\* A lookup fails, which counts as not found.
ResolveFails(r) ==
    /\ job[r].response \in {"queued", "retry"} /\ Created(r) /\ job[r].map = NoUuid /\ MayFail(r)
    /\ \/ /\ job[r].response = "queued"
          /\ job' = [job EXCEPT ![r].response = "retry", ![r].failed = TRUE]
       \/ job[r].response = "retry" /\ ResponseEnds(r, "dropped", TRUE)
    /\ UNCHANGED <<idOf, leads, payloads, responses, toolVars>>

\* INSERT ... ON CONFLICT DO NOTHING finds its lead.
InsertResponse(r) ==
    /\ job[r].response \in {"insert", "insert again"}
    /\ job[r].target \in Uuids /\ Free(job[r].target)
    /\ responses' = [responses EXCEPT ![r] = @ \cup {job[r].target}]
    /\ ResponseEnds(r, "stored", FALSE)
    /\ UNCHANGED <<idOf, leads, payloads, toolVars>>

\* An attempt of the second round fails: another one, or the response is dropped.
TryAgain(r, failed) ==
    IF job[r].tries + 1 = MaxTries THEN ResponseEnds(r, "dropped", failed)
    ELSE job' = [job EXCEPT ![r].tries = @ + 1, ![r].failed = @ \/ failed]

\* buyer_responses_lead_id_fkey: the lead is gone.  The second round tries again.
LeadIsGone(r) ==
    /\ job[r].target \notin Uuids
    /\ \/ job[r].response = "insert" /\ SetResponse(r, "retry", NoUuid)
       \/ /\ job[r].response = "insert again" /\ TryAgain(r, FALSE)
          /\ UNCHANGED <<idOf, leads, payloads, responses, toolVars>>

\* Any other error: final in the first round, tried again in the second.
InsertFails(r) ==
    /\ MayFail(r)
    /\ \/ job[r].response = "insert" /\ ResponseEnds(r, "dropped", TRUE)
       \/ job[r].response = "insert again" /\ TryAgain(r, TRUE)
    /\ UNCHANGED <<idOf, leads, payloads, responses, toolVars>>

-----------------------------------------------------------------------------
(* batch_update_leads and batch_update_payloads take the uuid of the        *)
(* request, not the one in uuid_map.                                        *)

\* UPDATE leads ... WHERE uuid = $1; an error is logged.
UpdateLead(r) ==
    /\ job[r].update = "queued" /\ Created(r) /\ Free(r)
    /\ \/ /\ leads' = [i \in Ids |-> IF leads[i].uuid = r THEN [leads[i] EXCEPT !.status = "Final"]
                                     ELSE leads[i]]
          /\ job' = [job EXCEPT ![r].update = "done", ![r].missed = @ \/ r \notin Uuids]
       \/ /\ MayFail(r)
          /\ job' = [job EXCEPT ![r].update = "done", ![r].failed = TRUE]
          /\ UNCHANGED leads
    /\ UNCHANGED <<idOf, payloads, responses, toolVars>>

\* The newest row gets the response; without one a row is inserted, which its foreign
\* key refuses when there is no such lead.  An error is ignored.
UpdatePayload(r) ==
    /\ job[r].payload = "queued" /\ Created(r) /\ Free(r)
    /\ \/ /\ payloads' = [payloads EXCEPT ![r] = IF r \in Uuids THEN "response" ELSE @]
          /\ job' = [job EXCEPT ![r].payload = "done", ![r].missed = @ \/ r \notin Uuids]
       \/ /\ MayFail(r)
          /\ job' = [job EXCEPT ![r].payload = "done", ![r].failed = TRUE]
          /\ UNCHANGED payloads
    /\ UNCHANGED <<idOf, leads, responses, toolVars>>

QueueStep(r) ==
    \/ CreateLead(r) \/ CreateLeadFails(r) \/ CreatePings(r)
    \/ ResolveResponse(r) \/ ResolveAgain(r) \/ ResolveFails(r)
    \/ InsertResponse(r) \/ LeadIsGone(r) \/ InsertFails(r)
    \/ UpdateLead(r) \/ UpdatePayload(r)

-----------------------------------------------------------------------------
(* persist_failed_lead.                                                     *)

\* The publisher's row, and a campaign of its instance if there is one, are read first.
ReadPublisherInstance(r) ==
    /\ job[r].create = "queued"
    /\ job' = [job EXCEPT ![r].create = IF publisher THEN "insert" ELSE "skipped"]
    /\ UNCHANGED <<idOf, leads, payloads, responses, toolVars>>

\* Lead, ping and payload in one transaction; a lead_id that is taken, like any error,
\* undoes it all.
PersistFailedLead(r) ==
    /\ job[r].create = "insert" /\ Free(leads[idOf[r]].uuid)
    /\ \/ /\ leads[idOf[r]] = NoLead
          /\ leads' = [leads EXCEPT ![idOf[r]] = [NewLead(r) EXCEPT !.status = "Error"]]
          /\ payloads' = [payloads EXCEPT ![r] = "request"]
          /\ job' = [job EXCEPT ![r].create = "done"]
       \/ /\ job' = [job EXCEPT ![r].create = "skipped"]
          /\ UNCHANGED <<leads, payloads>>
    /\ UNCHANGED <<idOf, responses, toolVars>>

-----------------------------------------------------------------------------
(* The clean-up tool: one transaction under READ COMMITTED, then a check.   *)

\* It stops when there is nothing to delete or the operator does not confirm.
StartCleanup ==
    /\ tool = "idle" /\ \A r \in Reqs : ~job[r].failed
    /\ tool' \in {"children", "done"}
    /\ UNCHANGED <<idOf, leads, storeVars, chosen, doomed, listed, catalogue, publisher, report>>

\* Step 1: the leads that are there, and the rows of other tables that refer to them.
DeleteChildren ==
    /\ tool = "children"
    /\ chosen' = Uuids
    /\ tool' = "leads"
    /\ UNCHANGED <<idOf, leads, storeVars, doomed, listed, catalogue, publisher, report>>

\* Step 2: until no lead is left.
DeleteLeads ==
    /\ tool = "leads"
    /\ doomed' = Uuids
    /\ chosen' = {}
    /\ tool' = "catalogue"
    /\ UNCHANGED <<idOf, leads, storeVars, listed, catalogue, publisher, report>>

\* Steps 3 to 9: buyers, campaigns and ping trees are listed as they are now, and the
\* campaigns, the ping trees and what belongs to them are deleted.
DeleteCatalogue ==
    /\ tool = "catalogue"
    /\ listed' = catalogue
    /\ tool' = "buyers"
    /\ UNCHANGED <<idOf, leads, storeVars, chosen, doomed, catalogue, publisher, report>>

\* Steps 10 and 11: the listed buyers, after their ZIP lists, credentials and rule sets.
DeleteBuyers ==
    /\ tool = "buyers"
    /\ tool' = "publishers"
    /\ UNCHANGED <<idOf, leads, storeVars, chosen, doomed, listed, catalogue, publisher, report>>

\* Step 12 and the commit.  With a lead go the rows that refer to it (ON DELETE CASCADE).
DeletePublishers ==
    /\ tool = "publishers"
    /\ leads' = [i \in Ids |-> IF leads[i].uuid \in doomed THEN NoLead ELSE leads[i]]
    /\ payloads' = [r \in Reqs |-> IF r \in doomed THEN "none" ELSE payloads[r]]
    /\ responses' = [r \in Reqs |-> responses[r] \ doomed]
    /\ catalogue' = catalogue \ listed
    /\ publisher' = FALSE
    /\ doomed' = {} /\ listed' = {}
    /\ tool' = "verify"
    /\ UNCHANGED <<idOf, job, chosen, report>>

\* A statement fails and the transaction is rolled back.
CleanupFails ==
    /\ tool \in {"children", "leads", "catalogue", "buyers", "publishers"}
    /\ chosen' = {} /\ doomed' = {} /\ listed' = {}
    /\ tool' = "done"
    /\ UNCHANGED <<idOf, leads, storeVars, catalogue, publisher, report>>

\* What remains is counted: leads are counted through their publishers.
VerifyCleanup ==
    /\ tool = "verify"
    /\ report' = IF publisher \/ catalogue # {} \/ (publisher /\ Uuids # {}) THEN "remains" ELSE "clean"
    /\ tool' = "done"
    /\ UNCHANGED <<idOf, leads, storeVars, chosen, doomed, listed, catalogue, publisher>>

\* The dashboard creates a campaign after the tool has listed them.
CreateCampaign ==
    /\ tool \in {"buyers", "publishers", "verify"} /\ "new" \notin catalogue
    /\ catalogue' = catalogue \cup {"new"}
    /\ UNCHANGED <<idOf, leads, storeVars, tool, chosen, doomed, listed, publisher, report>>

Cleanup ==
    \/ StartCleanup \/ DeleteChildren \/ DeleteLeads \/ DeleteCatalogue
    \/ DeleteBuyers \/ DeletePublishers
    \/ CleanupFails \/ VerifyCleanup

PersistenceNext ==
    \/ \E r \in Reqs : AcceptLead(r)
    \/ \E r \in Queued : QueueStep(r)
    \/ \E r \in Failed : ReadPublisherInstance(r) \/ PersistFailedLead(r)
    \/ Cleanup \/ CreateCampaign

-----------------------------------------------------------------------------
(* Properties.                                                              *)

Wiped == ~publisher
SharesId(r) == \E q \in Reqs \ {r} : idOf[q] = idOf[r]

\* "lead creation first so leads exist before buyer_responses": a response is stored for
\* the lead that has the lead_id of its request, and it is dropped only if a statement
\* failed or the lead was deleted, whether its creation was in the same batch or not and
\* whichever uuid the lead has.  An update or a payload finds no row only in these
\* cases, or when another request was given the same lead_id.
TasksReachTheirLead ==
    \A r \in Queued :
        /\ \A u \in responses[r] : u = leads[idOf[r]].uuid
        /\ job[r].response = "dropped" => job[r].failed \/ Wiped
        /\ job[r].missed => job[r].failed \/ Wiped \/ SharesId(r)
=============================================================================
