---------------------------- MODULE Server_proofs ----------------------------
(***************************************************************************)
(* Proofs about Server, for every number of requests, lead_ids, plans and   *)
(* attempts: the properties of Dashboard carry over to the whole server,    *)
(* and what LeadPersistence promises holds.  The invariant follows a lead   *)
(* by the lead_id of its request: every uuid that a request holds belongs   *)
(* to a request with the same lead_id, and until the clean-up tool commits  *)
(* it is the uuid of the row with that lead_id.                             *)
(***************************************************************************)
EXTENDS Server, Dashboard_proofs

-----------------------------------------------------------------------------
(* The invariant.                                                           *)

JobFields == {"create", "map", "target", "tries", "response", "update", "payload", "failed", "missed"}
IsJob(j) == j = [f \in JobFields |-> j[f]]

IsRow(l) ==
    /\ l = [f \in {"uuid", "status"} |-> l[f]]
    /\ l.uuid \in Reqs

\* The tables and what the servers know of each request.
Shapes ==
    /\ idOf = [r \in Reqs |-> idOf[r]]
    /\ leads = [i \in Ids |-> leads[i]]
    /\ responses = [r \in Reqs |-> responses[r]]
    /\ job = [r \in Reqs |-> job[r]]
    /\ \A r \in Reqs : IsJob(job[r])

Begun(r) == job[r].create # "none"

\* The request with uuid u was given the lead_id of r.
Namesake(r, u) == u \in Reqs /\ Begun(u) /\ idOf[u] = idOf[r]

\* A row has the uuid of a request with its lead_id.
RowsInv ==
    \A i \in Ids : leads[i] # NoLead =>
        IsRow(leads[i]) /\ Begun(leads[i].uuid) /\ idOf[leads[i].uuid] = i

\* The uuids that a request holds, and the responses stored for it.
KnownInv(r) ==
    /\ Begun(r) => idOf[r] \in Ids
    /\ ~Begun(r) => /\ idOf[r] = NoId /\ responses[r] = {}
                    /\ job[r].map = NoUuid /\ job[r].target = NoUuid
    /\ job[r].map # NoUuid => Namesake(r, job[r].map)
    /\ job[r].target # NoUuid => Namesake(r, job[r].target)
    /\ \A u \in responses[r] : u \in Reqs /\ u = leads[idOf[r]].uuid

\* Until the tool has committed, a created lead is there and has the uuid that is known.
KeptInv(r) ==
    ~Wiped =>
        /\ job[r].create \in {"pings", "done"} => leads[idOf[r]] # NoLead
        /\ job[r].map # NoUuid => job[r].map = leads[idOf[r]].uuid
        /\ job[r].target # NoUuid => job[r].target = leads[idOf[r]].uuid

\* The tasks of a request of the queue, in their order.
TasksInv(r) ==
    /\ job[r].failed \in BOOLEAN /\ job[r].missed \in BOOLEAN
    /\ job[r].create = "skipped" => job[r].failed
    /\ job[r].create # "insert"
    /\ job[r].response \in {"retry", "insert", "insert again"} => Created(r)
    /\ job[r].response \in {"insert", "insert again"} => job[r].target # NoUuid
    /\ job[r].response = "dropped" => job[r].failed \/ Wiped
    /\ job[r].missed => Begun(r)
    /\ job[r].missed => job[r].failed \/ Wiped \/ SharesId(r)

PersistenceInv ==
    /\ Shapes /\ RowsInv
    /\ \A r \in Reqs : KnownInv(r) /\ KeptInv(r)
    /\ \A r \in Queued : TasksInv(r)

-----------------------------------------------------------------------------
(* Updates of a job.                                                        *)

With(j, f, x) == [j EXCEPT ![f] = x]

\* An update of one field leaves the others alone.
LEMMA WithField ==
  ASSUME NEW j, IsJob(j), NEW f \in JobFields, NEW x
  PROVE  /\ IsJob(With(j, f, x)) /\ With(j, f, x)[f] = x
         /\ \A g \in JobFields \ {f} : With(j, f, x)[g] = j[g]
  BY DEF IsJob, With

\* The new job is as the old one, but for the fields of F.
SameBut(r, F) == \A f \in JobFields \ F : job'[r][f] = job[r][f]

\* Only the job of r changes.
Alone(r) ==
    /\ job' = [q \in Reqs |-> job'[q]]
    /\ \A q \in Reqs \ {r} : job'[q] = job[q]
    /\ IsJob(job'[r])

\* What a statement for r may do to the rows of leads: a row keeps its uuid, and a new one is
\* the row of r.
Grows(r) ==
    /\ leads' = [i \in Ids |-> leads'[i]]
    /\ \A i \in Ids :
         \/ leads'[i] = leads[i]
         \/ /\ leads[i] # NoLead /\ IsRow(leads'[i])
            /\ leads'[i].uuid = leads[i].uuid
         \/ /\ leads[i] = NoLead /\ IsRow(leads'[i]) /\ i = idOf[r]
            /\ leads'[i].uuid = r

\* A step of the tasks of r.
Works(r) ==
    /\ Alone(r) /\ Grows(r)
    /\ Begun(r) /\ job'[r].create # "none"
    /\ UNCHANGED <<idOf, toolVars>>

\* One, two, three and five fields of a job are set.
LEMMA SetOne ==
  ASSUME Shapes, NEW r \in Reqs, NEW f \in JobFields, NEW x,
         job' = [job EXCEPT ![r] = With(job[r], f, x)]
  PROVE  Alone(r) /\ job'[r][f] = x /\ SameBut(r, {f})
<1>1. IsJob(job[r])
  BY DEF Shapes
<1>2. job'[r] = With(job[r], f, x)
  BY DEF Shapes
<1> QED BY <1>1, <1>2, WithField DEF Alone, SameBut, Shapes

LEMMA SetTwo ==
  ASSUME Shapes, NEW r \in Reqs, NEW f \in JobFields, NEW x, NEW g \in JobFields \ {f}, NEW y,
         job' = [job EXCEPT ![r] = With(With(job[r], f, x), g, y)]
  PROVE  Alone(r) /\ job'[r][f] = x /\ job'[r][g] = y /\ SameBut(r, {f, g})
<1> DEFINE k == With(job[r], f, x)
<1>1. IsJob(job[r])
  BY DEF Shapes
<1>2. IsJob(k) /\ k[f] = x /\ \A e \in JobFields \ {f} : k[e] = job[r][e]
  BY <1>1, WithField
<1>3. job'[r] = With(k, g, y)
  BY DEF Shapes
<1> HIDE DEF k
<1>4. IsJob(job'[r]) /\ job'[r][g] = y /\ \A e \in JobFields \ {g} : job'[r][e] = k[e]
  BY <1>2, <1>3, WithField
<1> QED BY <1>2, <1>4 DEF Alone, SameBut, Shapes

-----------------------------------------------------------------------------
(* A step of the tasks of r.                                                *)

\* No row has the nil uuid.
LEMMA RowIsLead == ASSUME NEW l, IsRow(l) PROVE l # NoLead /\ l.uuid # NoUuid
  BY PersistenceAssumption DEF IsRow, NoLead, NoUuid, Reqs

\* Rows stay, with their uuids, and so do requests that have begun.
LEMMA RowsStay ==
  ASSUME PersistenceInv, NEW r \in Reqs, Works(r)
  PROVE  /\ \A i \in Ids : leads[i] # NoLead =>
                leads'[i] # NoLead /\ leads'[i].uuid = leads[i].uuid
         /\ \A q \in Reqs : Begun(q) => Begun(q)'
         /\ idOf' = idOf /\ publisher' = publisher
<1>1. \A i \in Ids : leads[i] # NoLead => leads'[i] # NoLead /\ leads'[i].uuid = leads[i].uuid
  BY RowIsLead DEF Works, Grows
<1>2. \A q \in Reqs : Begun(q) => Begun(q)'
  BY DEF Works, Alone, Begun
<1>3. idOf' = idOf /\ publisher' = publisher
  BY DEF Works, toolVars
<1> QED BY <1>1, <1>2, <1>3

\* The tables keep their shape.
LEMMA ShapesKeep ==
  ASSUME PersistenceInv, NEW r \in Reqs, Works(r), responses' = [q \in Reqs |-> responses'[q]]
  PROVE  Shapes'
<1>1. Shapes
  BY DEF PersistenceInv
<1>2. \A q \in Reqs : IsJob(job'[q])
  BY <1>1 DEF Works, Alone, Shapes
<1>3. idOf' = idOf
  BY RowsStay
<1> QED BY <1>1, <1>2, <1>3 DEF Works, Alone, Grows, Shapes

\* A new row is that of r.
LEMMA RowsKeep ==
  ASSUME PersistenceInv, NEW r \in Reqs, Works(r)
  PROVE  RowsInv'
<1> SUFFICES ASSUME NEW i \in Ids, leads'[i] # NoLead
             PROVE  (IsRow(leads[i]) /\ Begun(leads[i].uuid) /\ idOf[leads[i].uuid] = i)'
  BY DEF RowsInv
<1>1. /\ \A q \in Reqs : Begun(q) => Begun(q)'
      /\ idOf' = idOf
  BY RowsStay
<1>2. leads[i] # NoLead => IsRow(leads[i]) /\ Begun(leads[i].uuid) /\ idOf[leads[i].uuid] = i
  BY DEF PersistenceInv, RowsInv
<1>3. PICK u \in Reqs : /\ IsRow(leads'[i]) /\ leads'[i].uuid = u
                       /\ Begun(u) /\ idOf[u] = i
  BY <1>2 DEF Works, Grows, IsRow
<1> QED BY <1>1, <1>3 DEF IsRow, Begun

\* Another request is not disturbed.
LEMMA OthersKeep ==
  ASSUME PersistenceInv, NEW r \in Reqs, Works(r), NEW q \in Reqs \ {r}, responses'[q] = responses[q]
  PROVE  KnownInv(q)' /\ KeptInv(q)' /\ (q \in Queued => TasksInv(q)')
<1>1. /\ \A i \in Ids : leads[i] # NoLead => leads'[i] # NoLead /\ leads'[i].uuid = leads[i].uuid
      /\ \A u \in Reqs : Begun(u) => Begun(u)'
      /\ idOf' = idOf /\ publisher' = publisher
  BY RowsStay
<1>2. job'[q] = job[q]
  BY DEF Works, Alone
<1>3. KnownInv(q) /\ KeptInv(q) /\ (q \in Queued => TasksInv(q))
  BY DEF PersistenceInv
<1>4. Begun(q)' <=> Begun(q)
  BY <1>2 DEF Begun
<1>5. \A u : Namesake(q, u) => Namesake(q, u)'
  BY <1>1 DEF Namesake
<1>6. ASSUME NEW u, u \in Reqs, Begun(q), u = leads[idOf[q]].uuid
      PROVE  u = leads'[idOf[q]].uuid
  <2>1. leads[idOf[q]] # NoLead
    BY <1>6, PersistenceAssumption DEF NoLead, Reqs
  <2> QED BY <1>1, <1>3, <1>6, <2>1 DEF KnownInv
<1>7. KnownInv(q)'
  <2>1. \A u \in responses[q] : u \in Reqs /\ Begun(q) /\ u = leads[idOf[q]].uuid
    BY <1>3 DEF KnownInv
  <2>2. \A u \in responses'[q] : u \in Reqs /\ u = leads'[idOf'[q]].uuid
    BY <1>1, <1>6, <2>1
  <2> QED BY <1>1, <1>2, <1>3, <1>4, <1>5, <2>2 DEF KnownInv
<1>8. KeptInv(q)'
  <2> SUFFICES ASSUME ~Wiped PROVE KeptInv(q)'
    BY <1>1 DEF KeptInv, Wiped
  <2>1. job[q].create \in {"pings", "done"} => leads'[idOf[q]] # NoLead
    <3> SUFFICES ASSUME job[q].create \in {"pings", "done"} PROVE leads'[idOf[q]] # NoLead
      OBVIOUS
    <3>1. Begun(q)
      BY DEF Begun
    <3> QED BY <1>1, <1>3, <3>1 DEF KeptInv, KnownInv
  <2>2. job[q].map # NoUuid => job[q].map = leads'[idOf[q]].uuid
    BY <1>3, <1>6 DEF KeptInv, KnownInv, Namesake
  <2>3. job[q].target # NoUuid => job[q].target = leads'[idOf[q]].uuid
    BY <1>3, <1>6 DEF KeptInv, KnownInv, Namesake
  <2> QED BY <1>1, <1>2, <2>1, <2>2, <2>3 DEF KeptInv
<1>9. q \in Queued => TasksInv(q)'
  BY <1>1, <1>2, <1>3, <1>4 DEF TasksInv, Created, Wiped, SharesId
<1> QED BY <1>7, <1>8, <1>9

\* The uuid found for a response is of a request with the lead_id of r, and as long as the
\* tool has not committed it is that of the row with this lead_id.
LEMMA ResolveIsNamesake ==
  ASSUME PersistenceInv, NEW r \in Reqs, Begun(r), Resolve(r) # NoUuid
  PROVE  /\ Namesake(r, Resolve(r))
         /\ ~Wiped => Resolve(r) = leads[idOf[r]].uuid
<1>1. KnownInv(r) /\ KeptInv(r) /\ RowsInv
  BY DEF PersistenceInv
<1>2. idOf[r] \in Ids
  BY <1>1 DEF KnownInv
<1>3. CASE job[r].map # NoUuid
  BY <1>1, <1>3 DEF Resolve, KnownInv, KeptInv
<1>4. CASE job[r].map = NoUuid /\ r \in Uuids
  <2>1. PICK i \in Ids : leads[i].uuid = r
    BY <1>4 DEF Uuids
  <2>2. leads[i] # NoLead
    BY <2>1, PersistenceAssumption DEF NoLead, Reqs
  <2>3. idOf[r] = i
    BY <1>1, <2>1, <2>2 DEF RowsInv
  <2> QED BY <1>4, <2>1, <2>3 DEF Resolve, Namesake
<1>5. CASE job[r].map = NoUuid /\ r \notin Uuids
  <2>1. Resolve(r) = leads[idOf[r]].uuid
    BY <1>5 DEF Resolve
  <2>2. leads[idOf[r]] # NoLead
    BY <2>1 DEF NoLead, NoUuid
  <2> QED BY <1>1, <1>2, <2>1, <2>2 DEF RowsInv, Namesake, IsRow
<1> QED BY <1>3, <1>4, <1>5

\* A uuid of the table that has the lead_id of r is that of its row.
LEMMA NamesakeInTable ==
  ASSUME PersistenceInv, NEW r \in Reqs, NEW u \in Uuids, Namesake(r, u)
  PROVE  u \in Reqs /\ u = leads[idOf[r]].uuid
<1>1. PICK i \in Ids : leads[i].uuid = u
  BY DEF Uuids
<1>2. leads[i] # NoLead
  BY <1>1, PersistenceAssumption DEF NoLead, Reqs, Namesake
<1>3. idOf[u] = i
  BY <1>1, <1>2 DEF PersistenceInv, RowsInv
<1> QED BY <1>1, <1>3 DEF Namesake

\* What r itself knows after its step.
LEMMA ActorKeeps ==
  ASSUME PersistenceInv, NEW r \in Reqs, Works(r),
         \/ job'[r].map \in {NoUuid, job[r].map}
         \/ job'[r].map = leads'[idOf[r]].uuid /\ leads'[idOf[r]] # NoLead,
         job'[r].target \in {NoUuid, job[r].target, Resolve(r)},
         job'[r].create \in {"pings", "done"} =>
            job[r].create \in {"pings", "done"} \/ leads'[idOf[r]] # NoLead,
         \A u \in responses'[r] : u \in responses[r] \/ (u \in Uuids /\ u = job[r].target)
  PROVE  KnownInv(r)' /\ KeptInv(r)'
<1>1. /\ \A i \in Ids : leads[i] # NoLead => leads'[i] # NoLead /\ leads'[i].uuid = leads[i].uuid
      /\ \A u \in Reqs : Begun(u) => Begun(u)'
      /\ idOf' = idOf /\ publisher' = publisher
  BY RowsStay
<1>2. KnownInv(r) /\ KeptInv(r) /\ Begun(r) /\ Begun(r)'
  BY <1>1 DEF PersistenceInv, Works
<1>3. idOf[r] \in Ids
  BY <1>2 DEF KnownInv
<1>4. \A u : Namesake(r, u) => Namesake(r, u)'
  BY <1>1 DEF Namesake
<1>5. ASSUME NEW u, u \in Reqs, u = leads[idOf[r]].uuid
      PROVE  u = leads'[idOf[r]].uuid
  <2>1. leads[idOf[r]] # NoLead
    BY <1>5, PersistenceAssumption DEF NoLead, Reqs
  <2> QED BY <1>1, <1>3, <1>5, <2>1
<1>6. leads'[idOf[r]] # NoLead => Namesake(r, leads[idOf[r]].uuid)'
  <2>1. RowsInv'
    BY RowsKeep
  <2> QED BY <1>1, <1>3, <2>1 DEF RowsInv, Namesake, IsRow
<1>7. ASSUME job'[r].map # NoUuid
      PROVE  Namesake(r, job[r].map)' /\ (~Wiped => job'[r].map = leads'[idOf[r]].uuid)
  <2>1. CASE job'[r].map = job[r].map
    <3>1. Namesake(r, job[r].map) /\ (~Wiped => job[r].map = leads[idOf[r]].uuid)
      BY <1>2, <1>7, <2>1 DEF KnownInv, KeptInv
    <3>2. PICK m : m = job[r].map
      OBVIOUS
    <3> QED BY <1>4, <1>5, <2>1, <3>1, <3>2 DEF Namesake
  <2>2. CASE job'[r].map = leads'[idOf[r]].uuid /\ leads'[idOf[r]] # NoLead
    BY <1>1, <1>6, <2>2
  <2> QED BY <1>7, <2>1, <2>2
<1>8. ASSUME job'[r].target # NoUuid
      PROVE  Namesake(r, job[r].target)' /\ (~Wiped => job'[r].target = leads'[idOf[r]].uuid)
  <2>1. PICK m : m = job'[r].target /\ m \in {job[r].target, Resolve(r)} /\ m # NoUuid
    BY <1>8
  <2>2. Namesake(r, m) /\ (~Wiped => m = leads[idOf[r]].uuid)
    BY <1>2, <2>1, ResolveIsNamesake DEF KnownInv, KeptInv
  <2> QED BY <1>4, <1>5, <2>1, <2>2 DEF Namesake
<1>9. ASSUME NEW u \in responses'[r]
      PROVE  u \in Reqs /\ u = leads'[idOf[r]].uuid
  <2>1. CASE u \in responses[r]
    BY <1>2, <1>5, <2>1 DEF KnownInv
  <2>2. CASE u \in Uuids /\ u = job[r].target
    <3>1. u # NoUuid
      BY <2>2 DEF Uuids
    <3>2. Namesake(r, u)
      BY <1>2, <2>2, <3>1 DEF KnownInv
    <3> QED BY <1>5, <2>2, <3>2, NamesakeInTable
  <2> QED BY <1>9, <2>1, <2>2
<1>10. KnownInv(r)'
  BY <1>1, <1>2, <1>3, <1>7, <1>8, <1>9 DEF KnownInv
<1>11. KeptInv(r)'
  <2> SUFFICES ASSUME ~Wiped PROVE KeptInv(r)'
    BY <1>1 DEF KeptInv, Wiped
  <2>1. job'[r].create \in {"pings", "done"} => leads'[idOf[r]] # NoLead
    BY <1>1, <1>2, <1>3 DEF KeptInv
  <2> QED BY <1>1, <1>7, <1>8, <2>1 DEF KeptInv
<1> QED BY <1>10, <1>11

\* The whole invariant after a step of the tasks of r.
LEMMA WorkKeeps ==
  ASSUME PersistenceInv, NEW r \in Reqs, Works(r),
         responses' = [q \in Reqs |-> responses'[q]],
         \A q \in Reqs \ {r} : responses'[q] = responses[q],
         KnownInv(r)', KeptInv(r)', r \in Queued => TasksInv(r)'
  PROVE  PersistenceInv'
<1>1. Shapes' /\ RowsInv'
  BY ShapesKeep, RowsKeep
<1>2. \A q \in Reqs \ {r} : KnownInv(q)' /\ KeptInv(q)' /\ (q \in Queued => TasksInv(q)')
  BY OthersKeep
<1>3. \A q \in Reqs : KnownInv(q)' /\ KeptInv(q)' /\ (q \in Queued => TasksInv(q)')
  BY <1>2
<1>4. Queued \subseteq Reqs
  BY DEF Reqs
<1> QED BY <1>1, <1>3, <1>4 DEF PersistenceInv

-----------------------------------------------------------------------------
(* The actions.                                                             *)

\* A step that leaves the rows of leads alone.
LEMMA LeadsAlone == ASSUME PersistenceInv, NEW r, leads' = leads PROVE Grows(r)
  BY DEF PersistenceInv, Shapes, Grows

\* The tasks of r after a step in which they do not go wrong.
LEMMA TasksFollow ==
  ASSUME PersistenceInv, NEW r \in Queued, Works(r),
         job'[r].failed \in BOOLEAN, job[r].failed => job'[r].failed, job'[r].missed = job[r].missed,
         job'[r].create = job[r].create \/ (job'[r].create = "skipped" /\ job'[r].failed)
            \/ (job[r].create \in {"queued", "pings"} /\ job'[r].create \in {"pings", "done"}),
         job'[r].response \in {"retry", "insert", "insert again"} => Created(r),
         job'[r].response \in {"insert", "insert again"} => job'[r].target # NoUuid,
         job'[r].response = "dropped" => job[r].response = "dropped" \/ job'[r].failed \/ Wiped
  PROVE  TasksInv(r)'
<1>1. idOf' = idOf /\ publisher' = publisher /\ r \in Reqs
  BY RowsStay DEF Reqs
<1>2. TasksInv(r)
  BY DEF PersistenceInv
<1>3. Begun(r)'
  BY DEF Works, Begun
<1>4. Created(r) => Created(r)'
  BY DEF Created
<1>5. SharesId(r) => SharesId(r)'
  BY <1>1 DEF SharesId
<1>6. Wiped => Wiped'
  BY <1>1 DEF Wiped
<1> QED BY <1>2, <1>3, <1>4, <1>5, <1>6 DEF TasksInv

\* batch_create_leads, first transaction.
LEMMA CreateLeadKeeps ==
  ASSUME PersistenceInv, NEW r \in Queued, CreateLead(r)
  PROVE  Works(r) /\ PersistenceInv'
<1> DEFINE i == idOf[r]
           row == IF leads[i] = NoLead THEN NewLead(r) ELSE leads[i]
<1>1. r \in Reqs /\ Shapes /\ KnownInv(r) /\ TasksInv(r) /\ IsJob(job[r])
  BY DEF PersistenceInv, Reqs, Shapes
<1>2. /\ job[r].create = "queued"
      /\ leads' = [leads EXCEPT ![i] = row]
      /\ job' = [job EXCEPT ![r].create = "pings", ![r].map = row.uuid]
      /\ UNCHANGED <<idOf, payloads, responses, toolVars>>
  BY DEF CreateLead
<1>3. Begun(r) /\ i \in Ids
  BY <1>1, <1>2 DEF Begun, KnownInv
<1>4. leads[i] = NoLead => row.uuid = r /\ IsRow(row)
  BY <1>1 DEF NewLead, IsRow
<1>5. row # NoLead
  BY <1>4, RowIsLead
<1> HIDE DEF row
<1>6. leads'[i] = row /\ \A k \in Ids \ {i} : leads'[k] = leads[k]
  BY <1>1, <1>2, <1>3 DEF Shapes
<1>7. leads[i] # NoLead => row = leads[i]
  BY DEF row
<1>8. Grows(r)
  BY <1>1, <1>2, <1>3, <1>4, <1>6, <1>7 DEF Grows, Shapes
<1>9. job' = [job EXCEPT ![r] = With(With(job[r], "create", "pings"), "map", row.uuid)]
  BY <1>1, <1>2 DEF Shapes, IsJob, With, JobFields
<1>10. /\ Alone(r) /\ job'[r].create = "pings" /\ job'[r].map = row.uuid
       /\ SameBut(r, {"create", "map"})
  BY <1>1, <1>9, SetTwo DEF JobFields
<1>11. /\ job'[r].target = job[r].target /\ job'[r].response = job[r].response
       /\ job'[r].failed = job[r].failed /\ job'[r].missed = job[r].missed
  BY <1>10 DEF SameBut, JobFields
<1>12. Works(r)
  BY <1>2, <1>3, <1>8, <1>10 DEF Works
<1>13. KnownInv(r)' /\ KeptInv(r)'
  BY <1>1, <1>2, <1>5, <1>6, <1>10, <1>11, <1>12, ActorKeeps
<1>14. TasksInv(r)'
  <2>1. /\ job[r].failed \in BOOLEAN
        /\ job[r].response \in {"retry", "insert", "insert again"} => Created(r)
        /\ job[r].response \in {"insert", "insert again"} => job[r].target # NoUuid
    BY <1>1 DEF TasksInv
  <2> QED BY <1>2, <1>10, <1>11, <1>12, <2>1, TasksFollow
<1> QED BY <1>1, <1>2, <1>12, <1>13, <1>14, WorkKeeps DEF Shapes

\* The first transaction fails.
LEMMA CreateLeadFailsKeeps ==
  ASSUME PersistenceInv, NEW r \in Queued, CreateLeadFails(r)
  PROVE  Works(r) /\ PersistenceInv'
<1>1. r \in Reqs /\ Shapes /\ TasksInv(r) /\ IsJob(job[r])
  BY DEF PersistenceInv, Reqs, Shapes
<1>2. /\ job[r].create = "queued"
      /\ job' = [job EXCEPT ![r].create = "skipped", ![r].failed = TRUE]
      /\ UNCHANGED <<idOf, leads, payloads, responses, toolVars>>
  BY DEF CreateLeadFails
<1>3. job' = [job EXCEPT ![r] = With(With(job[r], "create", "skipped"), "failed", TRUE)]
  BY <1>1, <1>2 DEF Shapes, IsJob, With, JobFields
<1>4. /\ Alone(r) /\ job'[r].create = "skipped" /\ job'[r].failed = TRUE
      /\ SameBut(r, {"create", "failed"})
  BY <1>1, <1>3, SetTwo DEF JobFields
<1>5. /\ job'[r].target = job[r].target /\ job'[r].response = job[r].response
      /\ job'[r].map = job[r].map /\ job'[r].missed = job[r].missed
  BY <1>4 DEF SameBut, JobFields
<1>6. Works(r)
  BY <1>2, <1>4, LeadsAlone DEF Works, Begun
<1>7. KnownInv(r)' /\ KeptInv(r)'
  BY <1>1, <1>2, <1>4, <1>5, <1>6, ActorKeeps
<1>8. TasksInv(r)'
  <2>1. /\ job[r].response \in {"retry", "insert", "insert again"} => Created(r)
        /\ job[r].response \in {"insert", "insert again"} => job[r].target # NoUuid
    BY <1>1 DEF TasksInv
  <2> QED BY <1>4, <1>5, <1>6, <2>1, TasksFollow
<1> QED BY <1>1, <1>2, <1>6, <1>7, <1>8, WorkKeeps DEF Shapes

\* batch_create_leads, second transaction.
LEMMA CreatePingsKeeps ==
  ASSUME PersistenceInv, NEW r \in Queued, CreatePings(r)
  PROVE  Works(r) /\ PersistenceInv'
<1>1. r \in Reqs /\ Shapes /\ TasksInv(r) /\ IsJob(job[r])
  BY DEF PersistenceInv, Reqs, Shapes
<1>2. PICK map \in {job[r].map, NoUuid} :
        /\ job[r].create = "pings"
        /\ job' = [job EXCEPT ![r].create = "done", ![r].map = map]
        /\ UNCHANGED <<idOf, leads, responses, toolVars>>
  BY DEF CreatePings
<1>3. job' = [job EXCEPT ![r] = With(With(job[r], "create", "done"), "map", map)]
  BY <1>1, <1>2 DEF Shapes, IsJob, With, JobFields
<1>4. /\ Alone(r) /\ job'[r].create = "done" /\ job'[r].map = map
      /\ SameBut(r, {"create", "map"})
  BY <1>1, <1>3, SetTwo DEF JobFields
<1>5. /\ job'[r].target = job[r].target /\ job'[r].response = job[r].response
      /\ job'[r].failed = job[r].failed /\ job'[r].missed = job[r].missed
  BY <1>4 DEF SameBut, JobFields
<1>6. Works(r)
  BY <1>2, <1>4, LeadsAlone DEF Works, Begun
<1>7. KnownInv(r)' /\ KeptInv(r)'
  BY <1>1, <1>2, <1>4, <1>5, <1>6, ActorKeeps
<1>8. TasksInv(r)'
  <2>1. /\ job[r].failed \in BOOLEAN
        /\ job[r].response \in {"retry", "insert", "insert again"} => Created(r)
        /\ job[r].response \in {"insert", "insert again"} => job[r].target # NoUuid
    BY <1>1 DEF TasksInv
  <2> QED BY <1>2, <1>4, <1>5, <1>6, <2>1, TasksFollow
<1> QED BY <1>1, <1>2, <1>6, <1>7, <1>8, WorkKeeps DEF Shapes

\* A response goes on to another step.
LEMMA SetResponseKeeps ==
  ASSUME PersistenceInv, NEW r \in Queued, Created(r), NEW state, NEW target,
         SetResponse(r, state, target), target \in {NoUuid, Resolve(r)},
         state = "retry" \/ (state \in {"insert", "insert again"} /\ target # NoUuid)
  PROVE  Works(r) /\ PersistenceInv'
<1>1. r \in Reqs /\ Shapes /\ TasksInv(r) /\ IsJob(job[r])
  BY DEF PersistenceInv, Reqs, Shapes
<1>2. /\ job' = [job EXCEPT ![r].response = state, ![r].target = target]
      /\ UNCHANGED <<idOf, leads, payloads, responses, toolVars>>
  BY DEF SetResponse
<1>3. job' = [job EXCEPT ![r] = With(With(job[r], "response", state), "target", target)]
  BY <1>1, <1>2 DEF Shapes, IsJob, With, JobFields
<1>4. /\ Alone(r) /\ job'[r].response = state /\ job'[r].target = target
      /\ SameBut(r, {"response", "target"})
  BY <1>1, <1>3, SetTwo DEF JobFields
<1>5. /\ job'[r].create = job[r].create /\ job'[r].map = job[r].map
      /\ job'[r].failed = job[r].failed /\ job'[r].missed = job[r].missed
  BY <1>4 DEF SameBut, JobFields
<1>6. Works(r)
  BY <1>2, <1>4, <1>5, LeadsAlone DEF Works, Begun, Created
<1>7. KnownInv(r)' /\ KeptInv(r)'
  BY <1>1, <1>2, <1>4, <1>5, <1>6, ActorKeeps
<1>8. TasksInv(r)'
  <2>1. job[r].failed \in BOOLEAN
    BY <1>1 DEF TasksInv
  <2>2. state # "dropped"
    OBVIOUS
  <2> QED BY <1>4, <1>5, <1>6, <2>1, <2>2, TasksFollow
<1> QED BY <1>1, <1>2, <1>6, <1>7, <1>8, WorkKeeps DEF Shapes

\* The fields that ResponseEnds sets.
LEMMA ResponseEndsMoves ==
  ASSUME PersistenceInv, NEW r \in Queued, NEW state, NEW failed \in BOOLEAN, ResponseEnds(r, state, failed)
  PROVE  /\ Alone(r)
         /\ job'[r].response = state /\ job'[r].target = NoUuid /\ job'[r].map = NoUuid
         /\ job'[r].failed = (job[r].failed \/ failed)
         /\ job'[r].create = job[r].create /\ job'[r].missed = job[r].missed
<1> DEFINE j1 == With(job[r], "response", state)
           j2 == With(j1, "target", NoUuid)
           j3 == With(j2, "map", NoUuid)
           j4 == With(j3, "tries", 0)
           j5 == With(j4, "failed", job[r].failed \/ failed)
<1>1. r \in Reqs /\ Shapes /\ IsJob(job[r])
  BY DEF PersistenceInv, Reqs, Shapes
<1>2. job' = [job EXCEPT ![r].response = state, ![r].target = NoUuid, ![r].map = NoUuid,
                         ![r].tries = 0, ![r].failed = @ \/ failed]
  BY DEF ResponseEnds
<1>3. job' = [job EXCEPT ![r] = j5]
  BY <1>1, <1>2 DEF Shapes, IsJob, With, JobFields
<1>4. /\ IsJob(j1) /\ j1.response = state
      /\ j1.failed = job[r].failed /\ j1.create = job[r].create /\ j1.missed = job[r].missed
  BY <1>1, WithField DEF JobFields
<1> HIDE DEF j1
<1>5. /\ IsJob(j2) /\ j2.response = state /\ j2.target = NoUuid
      /\ j2.failed = job[r].failed /\ j2.create = job[r].create /\ j2.missed = job[r].missed
  BY <1>4, WithField DEF JobFields
<1> HIDE DEF j2
<1>6. /\ IsJob(j3) /\ j3.response = state /\ j3.target = NoUuid /\ j3.map = NoUuid
      /\ j3.failed = job[r].failed /\ j3.create = job[r].create /\ j3.missed = job[r].missed
  BY <1>5, WithField DEF JobFields
<1> HIDE DEF j3
<1>7. /\ IsJob(j4) /\ j4.response = state /\ j4.target = NoUuid /\ j4.map = NoUuid
      /\ j4.create = job[r].create /\ j4.missed = job[r].missed
  BY <1>6, WithField DEF JobFields
<1> HIDE DEF j4
<1>8. /\ IsJob(j5) /\ j5.response = state /\ j5.target = NoUuid /\ j5.map = NoUuid
      /\ j5.failed = (job[r].failed \/ failed) /\ j5.create = job[r].create /\ j5.missed = job[r].missed
  BY <1>7, WithField DEF JobFields
<1> HIDE DEF j5
<1>9. job'[r] = j5
  BY <1>1, <1>3 DEF Shapes
<1> QED BY <1>1, <1>3, <1>8, <1>9 DEF Alone, Shapes

\* A response is done with: it is stored for the row of its lead, or dropped for a reason.
LEMMA ResponseEndsKeeps ==
  ASSUME PersistenceInv, NEW r \in Queued, Begun(r), NEW state, NEW failed \in BOOLEAN,
         ResponseEnds(r, state, failed), UNCHANGED <<idOf, leads, toolVars>>,
         responses' = [q \in Reqs |-> responses'[q]],
         \A q \in Reqs \ {r} : responses'[q] = responses[q],
         \A u \in responses'[r] : u \in responses[r] \/ (u \in Uuids /\ u = job[r].target),
         state = "stored" \/ (state = "dropped" /\ (failed \/ job[r].failed \/ Wiped))
  PROVE  Works(r) /\ PersistenceInv'
<1>1. r \in Reqs /\ TasksInv(r)
  BY DEF PersistenceInv, Reqs
<1>2. /\ Alone(r)
      /\ job'[r].response = state /\ job'[r].target = NoUuid /\ job'[r].map = NoUuid
      /\ job'[r].failed = (job[r].failed \/ failed)
      /\ job'[r].create = job[r].create /\ job'[r].missed = job[r].missed
  BY ResponseEndsMoves
<1>3. Works(r)
  BY <1>2, LeadsAlone DEF Works, Begun
<1>4. KnownInv(r)' /\ KeptInv(r)'
  BY <1>1, <1>2, <1>3, ActorKeeps
<1>5. TasksInv(r)'
  <2>1. job'[r].failed \in BOOLEAN /\ (job[r].failed => job'[r].failed)
    BY <1>1, <1>2 DEF TasksInv
  <2>2. state = "dropped" => job'[r].failed \/ Wiped
    BY <1>2
  <2>3. state \notin {"retry", "insert", "insert again"}
    OBVIOUS
  <2> QED BY <1>2, <1>3, <2>1, <2>2, <2>3, TasksFollow
<1> QED BY <1>1, <1>3, <1>4, <1>5, WorkKeeps

\* A lead that was created without a failed statement is found until the tool commits.
LEMMA LeadIsFound ==
  ASSUME PersistenceInv, NEW r \in Queued, Created(r), ~job[r].failed, ~Wiped
  PROVE  leads[idOf[r]] # NoLead /\ leads[idOf[r]].uuid \in Uuids
<1>1. r \in Reqs /\ KnownInv(r) /\ KeptInv(r) /\ TasksInv(r) /\ RowsInv
  BY DEF PersistenceInv, Reqs
<1>2. job[r].create = "done"
  BY <1>1 DEF TasksInv, Created
<1>3. leads[idOf[r]] # NoLead /\ idOf[r] \in Ids
  BY <1>1, <1>2 DEF KeptInv, KnownInv, Begun
<1>4. IsRow(leads[idOf[r]])
  BY <1>1, <1>3 DEF RowsInv
<1> QED BY <1>3, <1>4, RowIsLead DEF Uuids

\* The first round.
LEMMA ResolveResponseKeeps ==
  ASSUME PersistenceInv, NEW r \in Queued, ResolveResponse(r)
  PROVE  Works(r) /\ PersistenceInv'
<1>1. CASE Resolve(r) = NoUuid
  <2>1. Created(r) /\ SetResponse(r, "retry", NoUuid)
    BY <1>1 DEF ResolveResponse
  <2> QED BY <2>1, SetResponseKeeps
<1>2. CASE Resolve(r) # NoUuid
  <2>1. Created(r) /\ SetResponse(r, "insert", Resolve(r))
    BY <1>2 DEF ResolveResponse
  <2> QED BY <1>2, <2>1, SetResponseKeeps
<1> QED BY <1>1, <1>2

\* The second round.
LEMMA ResolveAgainKeeps ==
  ASSUME PersistenceInv, NEW r \in Queued, ResolveAgain(r)
  PROVE  Works(r) /\ PersistenceInv'
<1>1. r \in Reqs /\ Shapes /\ TasksInv(r) /\ Created(r)
  BY DEF PersistenceInv, Reqs, TasksInv, ResolveAgain
<1>2. CASE Resolve(r) # NoUuid /\ SetResponse(r, "insert again", Resolve(r))
  BY <1>1, <1>2, SetResponseKeeps
<1>3. CASE /\ Resolve(r) = NoUuid /\ ResponseEnds(r, "dropped", FALSE)
           /\ UNCHANGED <<idOf, leads, payloads, responses, toolVars>>
  <2>1. job[r].failed \/ Wiped
    <3> SUFFICES ASSUME ~job[r].failed, ~Wiped PROVE FALSE
      OBVIOUS
    <3>1. leads[idOf[r]].uuid \in Uuids
      BY <1>1, LeadIsFound
    <3>2. Resolve(r) # NoUuid
      BY <3>1, PersistenceAssumption DEF Resolve, Uuids, NoUuid, Reqs
    <3> QED BY <1>3, <3>2
  <2>2. Begun(r)
    BY <1>1 DEF Created, Begun
  <2> QED BY <1>1, <1>3, <2>1, <2>2, ResponseEndsKeeps DEF Shapes
<1> QED BY <1>2, <1>3 DEF ResolveAgain

\* A step that changes none of what the invariant follows, but may count a failure or send the
\* response to the second round.
LEMMA AsideKeeps ==
  ASSUME PersistenceInv, NEW r \in Queued, Begun(r), Alone(r),
         UNCHANGED <<idOf, leads, responses, toolVars>>,
         job'[r].create = job[r].create, job'[r].map = job[r].map,
         job'[r].target = job[r].target, job'[r].missed = job[r].missed,
         job'[r].failed \in BOOLEAN, job[r].failed => job'[r].failed,
         job'[r].response = job[r].response \/ (job'[r].response = "retry" /\ Created(r))
  PROVE  Works(r) /\ PersistenceInv'
<1>1. r \in Reqs /\ Shapes /\ TasksInv(r)
  BY DEF PersistenceInv, Reqs
<1>2. Works(r)
  BY LeadsAlone DEF Works, Begun
<1>3. KnownInv(r)' /\ KeptInv(r)'
  BY <1>1, <1>2, ActorKeeps
<1>4. TasksInv(r)'
  <2>1. /\ job'[r].response \in {"retry", "insert", "insert again"} => Created(r)
        /\ job'[r].response \in {"insert", "insert again"} => job'[r].target # NoUuid
        /\ job'[r].response = "dropped" => job[r].response = "dropped"
    BY <1>1 DEF TasksInv
  <2> QED BY <1>2, <2>1, TasksFollow
<1> QED BY <1>1, <1>2, <1>3, <1>4, WorkKeeps DEF Shapes

\* A lookup fails.
LEMMA ResolveFailsKeeps ==
  ASSUME PersistenceInv, NEW r \in Queued, ResolveFails(r)
  PROVE  Works(r) /\ PersistenceInv'
<1>1. r \in Reqs /\ Shapes /\ TasksInv(r) /\ IsJob(job[r])
  BY DEF PersistenceInv, Reqs, Shapes
<1>2. Created(r) /\ UNCHANGED <<idOf, leads, payloads, responses, toolVars>>
  BY DEF ResolveFails
<1>3. Begun(r)
  BY <1>2 DEF Created, Begun
<1>4. CASE job' = [job EXCEPT ![r].response = "retry", ![r].failed = TRUE]
  <2>1. job' = [job EXCEPT ![r] = With(With(job[r], "response", "retry"), "failed", TRUE)]
    BY <1>1, <1>4 DEF Shapes, IsJob, With, JobFields
  <2>2. /\ Alone(r) /\ job'[r].response = "retry" /\ job'[r].failed = TRUE
        /\ SameBut(r, {"response", "failed"})
    BY <1>1, <2>1, SetTwo DEF JobFields
  <2>3. /\ job'[r].create = job[r].create /\ job'[r].map = job[r].map
        /\ job'[r].target = job[r].target /\ job'[r].missed = job[r].missed
    BY <2>2 DEF SameBut, JobFields
  <2> QED BY <1>2, <1>3, <2>2, <2>3, AsideKeeps
<1>5. CASE ResponseEnds(r, "dropped", TRUE)
  BY <1>1, <1>2, <1>3, <1>5, ResponseEndsKeeps DEF Shapes
<1> QED BY <1>4, <1>5 DEF ResolveFails

\* The INSERT finds its lead.
LEMMA InsertResponseKeeps ==
  ASSUME PersistenceInv, NEW r \in Queued, InsertResponse(r)
  PROVE  Works(r) /\ PersistenceInv'
<1>1. r \in Reqs /\ Shapes /\ TasksInv(r)
  BY DEF PersistenceInv, Reqs
<1>2. /\ job[r].response \in {"insert", "insert again"} /\ job[r].target \in Uuids
      /\ responses' = [responses EXCEPT ![r] = @ \cup {job[r].target}]
      /\ ResponseEnds(r, "stored", FALSE)
      /\ UNCHANGED <<idOf, leads, payloads, toolVars>>
  BY DEF InsertResponse
<1>3. Begun(r)
  BY <1>1, <1>2 DEF TasksInv, Created, Begun
<1>4. /\ responses' = [q \in Reqs |-> responses'[q]]
      /\ \A q \in Reqs \ {r} : responses'[q] = responses[q]
      /\ responses'[r] = responses[r] \cup {job[r].target}
  BY <1>1, <1>2 DEF Shapes
<1> QED BY <1>2, <1>3, <1>4, ResponseEndsKeeps

\* An attempt is counted, or it was the last one.
LEMMA TryAgainMoves ==
  ASSUME PersistenceInv, NEW r \in Queued, NEW failed \in BOOLEAN, TryAgain(r, failed)
  PROVE  \/ ResponseEnds(r, "dropped", failed)
         \/ /\ Alone(r) /\ job'[r].failed = (job[r].failed \/ failed)
            /\ SameBut(r, {"tries", "failed"})
<1>1. r \in Reqs /\ Shapes /\ IsJob(job[r])
  BY DEF PersistenceInv, Reqs, Shapes
<1>2. CASE job' = [job EXCEPT ![r].tries = @ + 1, ![r].failed = @ \/ failed]
  <2>1. PICK n, b : n = job[r].tries + 1 /\ b = (job[r].failed \/ failed)
    OBVIOUS
  <2>2. job' = [job EXCEPT ![r] = With(With(job[r], "tries", n), "failed", b)]
    BY <1>1, <1>2, <2>1 DEF Shapes, IsJob, With, JobFields
  <2>3. Alone(r) /\ job'[r].tries = n /\ job'[r].failed = b /\ SameBut(r, {"tries", "failed"})
    BY <1>1, <2>2, SetTwo DEF JobFields
  <2> QED BY <2>1, <2>3
<1> QED BY <1>2 DEF TryAgain

\* Another attempt of the second round.
LEMMA TryAgainKeeps ==
  ASSUME PersistenceInv, NEW r \in Queued, NEW failed \in BOOLEAN, TryAgain(r, failed),
         job[r].response = "insert again", failed \/ job[r].failed \/ Wiped,
         UNCHANGED <<idOf, leads, payloads, responses, toolVars>>
  PROVE  Works(r) /\ PersistenceInv'
<1>1. r \in Reqs /\ Shapes /\ TasksInv(r)
  BY DEF PersistenceInv, Reqs
<1>2. Begun(r)
  BY <1>1 DEF TasksInv, Created, Begun
<1>3. CASE ResponseEnds(r, "dropped", failed)
  BY <1>1, <1>2, <1>3, ResponseEndsKeeps DEF Shapes
<1>4. CASE /\ Alone(r) /\ job'[r].failed = (job[r].failed \/ failed)
           /\ SameBut(r, {"tries", "failed"})
  <2>1. /\ job'[r].create = job[r].create /\ job'[r].map = job[r].map
        /\ job'[r].target = job[r].target /\ job'[r].missed = job[r].missed
        /\ job'[r].response = job[r].response
    BY <1>4 DEF SameBut, JobFields
  <2>2. job'[r].failed \in BOOLEAN /\ (job[r].failed => job'[r].failed)
    BY <1>4
  <2> QED BY <1>2, <1>4, <2>1, <2>2, AsideKeeps
<1> QED BY <1>3, <1>4, TryAgainMoves

\* The foreign key refuses the response: the tool has committed.
LEMMA LeadIsGoneKeeps ==
  ASSUME PersistenceInv, NEW r \in Queued, LeadIsGone(r)
  PROVE  Works(r) /\ PersistenceInv'
<1>1. r \in Reqs /\ TasksInv(r) /\ KeptInv(r)
  BY DEF PersistenceInv, Reqs
<1>2. job[r].target \notin Uuids /\ job[r].response \in {"insert", "insert again"} /\ Created(r)
  BY <1>1 DEF LeadIsGone, TasksInv
<1>3. CASE SetResponse(r, "retry", NoUuid)
  BY <1>2, <1>3, SetResponseKeeps
<1>4. CASE /\ job[r].response = "insert again" /\ TryAgain(r, FALSE)
           /\ UNCHANGED <<idOf, leads, payloads, responses, toolVars>>
  <2>1. job[r].failed \/ Wiped
    <3> SUFFICES ASSUME ~job[r].failed, ~Wiped PROVE FALSE
      OBVIOUS
    <3>1. job[r].target = leads[idOf[r]].uuid
      BY <1>1, <1>2 DEF TasksInv, KeptInv
    <3> QED BY <1>2, <3>1, LeadIsFound
  <2> QED BY <1>4, <2>1, TryAgainKeeps
<1> QED BY <1>3, <1>4 DEF LeadIsGone

\* The INSERT fails.
LEMMA InsertFailsKeeps ==
  ASSUME PersistenceInv, NEW r \in Queued, InsertFails(r)
  PROVE  Works(r) /\ PersistenceInv'
<1>1. r \in Reqs /\ Shapes /\ TasksInv(r)
  BY DEF PersistenceInv, Reqs
<1>2. UNCHANGED <<idOf, leads, payloads, responses, toolVars>>
  BY DEF InsertFails
<1>3. CASE job[r].response = "insert" /\ ResponseEnds(r, "dropped", TRUE)
  <2>1. Begun(r)
    BY <1>1, <1>3 DEF TasksInv, Created, Begun
  <2> QED BY <1>1, <1>2, <1>3, <2>1, ResponseEndsKeeps DEF Shapes
<1>4. CASE job[r].response = "insert again" /\ TryAgain(r, TRUE)
  BY <1>2, <1>4, TryAgainKeeps
<1> QED BY <1>3, <1>4 DEF InsertFails

\* A created lead whose row has the uuid of another request shares its lead_id with it.
LEMMA MissedIsShared ==
  ASSUME PersistenceInv, NEW r \in Queued, Created(r), r \notin Uuids
  PROVE  job[r].failed \/ Wiped \/ SharesId(r)
<1> SUFFICES ASSUME ~job[r].failed, ~Wiped PROVE SharesId(r)
  OBVIOUS
<1>1. leads[idOf[r]] # NoLead /\ leads[idOf[r]].uuid \in Uuids
  BY LeadIsFound
<1>2. r \in Reqs /\ KnownInv(r) /\ RowsInv /\ Begun(r)
  BY DEF PersistenceInv, Reqs, Created, Begun
<1>3. leads[idOf[r]].uuid \in Reqs /\ idOf[leads[idOf[r]].uuid] = idOf[r]
  BY <1>1, <1>2 DEF RowsInv, KnownInv, IsRow
<1> QED BY <1>1, <1>3 DEF SharesId

\* An update of the lead or of its payload, which may have missed its row.
LEMMA UpdateKeeps ==
  ASSUME PersistenceInv, NEW r \in Queued, Created(r), Alone(r), Grows(r),
         UNCHANGED <<idOf, responses, toolVars>>,
         job'[r].create = job[r].create, job'[r].map = job[r].map, job'[r].target = job[r].target,
         job'[r].response = job[r].response, job'[r].failed = job[r].failed,
         job'[r].missed = (job[r].missed \/ r \notin Uuids)
  PROVE  Works(r) /\ PersistenceInv'
<1>1. r \in Reqs /\ Shapes /\ TasksInv(r) /\ Begun(r)
  BY DEF PersistenceInv, Reqs, Created, Begun
<1>2. Works(r)
  BY <1>1 DEF Works, Begun
<1>3. KnownInv(r)' /\ KeptInv(r)'
  BY <1>1, <1>2, ActorKeeps
<1>4. TasksInv(r)'
  <2>1. idOf' = idOf /\ publisher' = publisher /\ Begun(r)'
    BY <1>1, <1>2, RowsStay
  <2>2. job'[r].missed => job[r].failed \/ Wiped \/ SharesId(r)
    BY <1>1, MissedIsShared DEF TasksInv
  <2>3. job'[r].missed \in BOOLEAN
    OBVIOUS
  <2>4. SharesId(r)' <=> SharesId(r)
    BY <2>1 DEF SharesId
  <2>5. (Wiped' <=> Wiped) /\ (Created(r)' <=> Created(r))
    BY <2>1 DEF Wiped, Created
  <2> QED BY <1>1, <2>1, <2>2, <2>3, <2>4, <2>5 DEF TasksInv
<1> QED BY <1>1, <1>2, <1>3, <1>4, WorkKeeps DEF Shapes

\* batch_update_leads.
LEMMA UpdateLeadKeeps ==
  ASSUME PersistenceInv, NEW r \in Queued, UpdateLead(r)
  PROVE  Works(r) /\ PersistenceInv'
<1>1. r \in Reqs /\ Shapes /\ RowsInv /\ TasksInv(r) /\ IsJob(job[r])
  BY DEF PersistenceInv, Reqs, Shapes
<1>2. Created(r) /\ UNCHANGED <<idOf, payloads, responses, toolVars>>
  BY DEF UpdateLead
<1>3. CASE /\ leads' = [i \in Ids |-> IF leads[i].uuid = r THEN [leads[i] EXCEPT !.status = "Final"]
                                      ELSE leads[i]]
           /\ job' = [job EXCEPT ![r].update = "done", ![r].missed = @ \/ r \notin Uuids]
  <2>1. PICK b : b = (job[r].missed \/ r \notin Uuids)
    OBVIOUS
  <2>2. job' = [job EXCEPT ![r] = With(With(job[r], "update", "done"), "missed", b)]
    BY <1>1, <1>3, <2>1 DEF Shapes, IsJob, With, JobFields
  <2>3. Alone(r) /\ job'[r].update = "done" /\ job'[r].missed = b /\ SameBut(r, {"update", "missed"})
    BY <1>1, <2>2, SetTwo DEF JobFields
  <2>4. /\ job'[r].create = job[r].create /\ job'[r].map = job[r].map
        /\ job'[r].target = job[r].target /\ job'[r].response = job[r].response
        /\ job'[r].failed = job[r].failed
    BY <2>3 DEF SameBut, JobFields
  <2>5. ASSUME NEW i \in Ids, leads[i].uuid = r
        PROVE  /\ leads[i] # NoLead /\ IsRow(leads'[i])
               /\ leads'[i].uuid = leads[i].uuid
    <3>1. leads[i] # NoLead
      BY <1>1, <2>5, PersistenceAssumption DEF NoLead, Reqs
    <3>2. IsRow(leads[i])
      BY <1>1, <3>1 DEF RowsInv
    <3>3. leads'[i] = [leads[i] EXCEPT !.status = "Final"]
      BY <1>3, <2>5
    <3> QED BY <3>1, <3>2, <3>3 DEF IsRow
  <2>6. Grows(r)
    BY <1>3, <2>5 DEF Grows
  <2> QED BY <1>2, <2>1, <2>3, <2>4, <2>6, UpdateKeeps
<1>4. CASE /\ job' = [job EXCEPT ![r].update = "done", ![r].failed = TRUE]
           /\ UNCHANGED leads
  <2>1. job' = [job EXCEPT ![r] = With(With(job[r], "update", "done"), "failed", TRUE)]
    BY <1>1, <1>4 DEF Shapes, IsJob, With, JobFields
  <2>2. Alone(r) /\ job'[r].update = "done" /\ job'[r].failed = TRUE /\ SameBut(r, {"update", "failed"})
    BY <1>1, <2>1, SetTwo DEF JobFields
  <2>3. /\ job'[r].create = job[r].create /\ job'[r].map = job[r].map
        /\ job'[r].target = job[r].target /\ job'[r].response = job[r].response
        /\ job'[r].missed = job[r].missed
    BY <2>2 DEF SameBut, JobFields
  <2>4. Begun(r)
    BY <1>2 DEF Begun, Created
  <2> QED BY <1>2, <1>4, <2>2, <2>3, <2>4, AsideKeeps
<1> QED BY <1>3, <1>4 DEF UpdateLead

\* batch_update_payloads.
LEMMA UpdatePayloadKeeps ==
  ASSUME PersistenceInv, NEW r \in Queued, UpdatePayload(r)
  PROVE  Works(r) /\ PersistenceInv'
<1>1. r \in Reqs /\ Shapes /\ TasksInv(r) /\ IsJob(job[r])
  BY DEF PersistenceInv, Reqs, Shapes
<1>2. Created(r) /\ UNCHANGED <<idOf, leads, responses, toolVars>>
  BY DEF UpdatePayload
<1>3. CASE job' = [job EXCEPT ![r].payload = "done", ![r].missed = @ \/ r \notin Uuids]
  <2>1. PICK b : b = (job[r].missed \/ r \notin Uuids)
    OBVIOUS
  <2>2. job' = [job EXCEPT ![r] = With(With(job[r], "payload", "done"), "missed", b)]
    BY <1>1, <1>3, <2>1 DEF Shapes, IsJob, With, JobFields
  <2>3. Alone(r) /\ job'[r].payload = "done" /\ job'[r].missed = b /\ SameBut(r, {"payload", "missed"})
    BY <1>1, <2>2, SetTwo DEF JobFields
  <2>4. /\ job'[r].create = job[r].create /\ job'[r].map = job[r].map
        /\ job'[r].target = job[r].target /\ job'[r].response = job[r].response
        /\ job'[r].failed = job[r].failed
    BY <2>3 DEF SameBut, JobFields
  <2>5. Grows(r)
    BY <1>2, LeadsAlone
  <2> QED BY <1>2, <2>1, <2>3, <2>4, <2>5, UpdateKeeps
<1>4. CASE job' = [job EXCEPT ![r].payload = "done", ![r].failed = TRUE]
  <2>1. job' = [job EXCEPT ![r] = With(With(job[r], "payload", "done"), "failed", TRUE)]
    BY <1>1, <1>4 DEF Shapes, IsJob, With, JobFields
  <2>2. Alone(r) /\ job'[r].payload = "done" /\ job'[r].failed = TRUE /\ SameBut(r, {"payload", "failed"})
    BY <1>1, <2>1, SetTwo DEF JobFields
  <2>3. /\ job'[r].create = job[r].create /\ job'[r].map = job[r].map
        /\ job'[r].target = job[r].target /\ job'[r].response = job[r].response
        /\ job'[r].missed = job[r].missed
    BY <2>2 DEF SameBut, JobFields
  <2>4. Begun(r)
    BY <1>2 DEF Begun, Created
  <2> QED BY <1>2, <2>2, <2>3, <2>4, AsideKeeps
<1> QED BY <1>3, <1>4 DEF UpdatePayload

\* persist_failed_lead reads the publisher's row.
LEMMA ReadPublisherKeeps ==
  ASSUME PersistenceInv, NEW r \in Failed, ReadPublisherInstance(r)
  PROVE  Works(r) /\ PersistenceInv'
<1>1. r \in Reqs /\ r \notin Queued /\ Shapes /\ IsJob(job[r])
  BY PersistenceAssumption DEF PersistenceInv, Reqs, Shapes
<1>2. PICK next \in {"insert", "skipped"} : job' = [job EXCEPT ![r].create = next]
  BY DEF ReadPublisherInstance
<1>3. job[r].create = "queued" /\ UNCHANGED <<idOf, leads, payloads, responses, toolVars>>
  BY DEF ReadPublisherInstance
<1>4. job' = [job EXCEPT ![r] = With(job[r], "create", next)]
  BY <1>1, <1>2 DEF Shapes, IsJob, With, JobFields
<1>5. Alone(r) /\ job'[r].create = next /\ SameBut(r, {"create"})
  BY <1>1, <1>4, SetOne DEF JobFields
<1>6. job'[r].map = job[r].map /\ job'[r].target = job[r].target
  BY <1>5 DEF SameBut, JobFields
<1>7. Works(r)
  BY <1>3, <1>5, LeadsAlone DEF Works, Begun
<1>8. KnownInv(r)' /\ KeptInv(r)'
  BY <1>1, <1>3, <1>5, <1>6, <1>7, ActorKeeps
<1> QED BY <1>1, <1>3, <1>7, <1>8, WorkKeeps DEF Shapes

\* The transaction of persist_failed_lead.
LEMMA PersistFailedKeeps ==
  ASSUME PersistenceInv, NEW r \in Failed, PersistFailedLead(r)
  PROVE  Works(r) /\ PersistenceInv'
<1> DEFINE i == idOf[r]
<1>1. r \in Reqs /\ r \notin Queued /\ Shapes /\ IsJob(job[r]) /\ KnownInv(r)
  BY PersistenceAssumption DEF PersistenceInv, Reqs, Shapes
<1>2. /\ job[r].create = "insert" /\ UNCHANGED <<idOf, responses, toolVars>>
      /\ i \in Ids
  BY <1>1 DEF PersistFailedLead, KnownInv, Begun
<1>3. PICK next \in {"done", "skipped"} :
        /\ job' = [job EXCEPT ![r].create = next]
        /\ \/ leads[i] = NoLead /\ leads' = [leads EXCEPT ![i] = [NewLead(r) EXCEPT !.status = "Error"]]
           \/ next = "skipped" /\ leads' = leads
  BY DEF PersistFailedLead
<1>4. job' = [job EXCEPT ![r] = With(job[r], "create", next)]
  BY <1>1, <1>3 DEF Shapes, IsJob, With, JobFields
<1>5. Alone(r) /\ job'[r].create = next /\ SameBut(r, {"create"})
  BY <1>1, <1>4, SetOne DEF JobFields
<1>6. job'[r].map = job[r].map /\ job'[r].target = job[r].target
  BY <1>5 DEF SameBut, JobFields
<1>7. Grows(r) /\ (next = "done" => leads'[i] # NoLead)
  <2>1. CASE leads' = leads /\ next = "skipped"
    BY <2>1, LeadsAlone
  <2>2. CASE leads[i] = NoLead /\ leads' = [leads EXCEPT ![i] = [NewLead(r) EXCEPT !.status = "Error"]]
    <3> DEFINE row == [NewLead(r) EXCEPT !.status = "Error"]
    <3>1. row.uuid = r /\ IsRow(row)
      BY <1>1 DEF NewLead, IsRow
    <3>2. row # NoLead
      BY <3>1, RowIsLead
    <3> HIDE DEF row
    <3>3. leads'[i] = row /\ \A k \in Ids \ {i} : leads'[k] = leads[k]
      BY <1>1, <1>2, <2>2 DEF Shapes, row
    <3>4. leads' = [k \in Ids |-> leads'[k]]
      BY <1>1, <2>2 DEF Shapes
    <3> QED BY <1>2, <2>2, <3>1, <3>2, <3>3, <3>4 DEF Grows
  <2> QED BY <1>3, <2>1, <2>2
<1>8. Works(r)
  BY <1>2, <1>5, <1>7 DEF Works, Begun
<1>9. KnownInv(r)' /\ KeptInv(r)'
  BY <1>1, <1>2, <1>5, <1>6, <1>7, <1>8, ActorKeeps
<1> QED BY <1>1, <1>2, <1>8, <1>9, WorkKeeps DEF Shapes

\* A request is given its lead_id: what others know does not change.
LEMMA AcceptLeadKeeps ==
  ASSUME PersistenceInv, NEW r \in Reqs, AcceptLead(r)
  PROVE  PersistenceInv'
<1>1. Shapes /\ RowsInv /\ KnownInv(r)
  BY DEF PersistenceInv
<1>2. /\ ~Begun(r) /\ UNCHANGED <<leads, payloads, responses, toolVars>>
      /\ responses[r] = {} /\ idOf[r] = NoId
  BY <1>1 DEF AcceptLead, Begun, KnownInv
<1>3. PICK i \in Ids : idOf' = [idOf EXCEPT ![r] = i]
  BY DEF AcceptLead
<1>4. PICK plan : job' = [job EXCEPT ![r] = NewJob("queued", plan)]
  BY DEF AcceptLead
<1>5. /\ idOf'[r] = i /\ \A q \in Reqs \ {r} : idOf'[q] = idOf[q]
      /\ idOf' = [q \in Reqs |-> idOf'[q]]
  BY <1>1, <1>3 DEF Shapes
<1>6. /\ job'[r] = NewJob("queued", plan) /\ \A q \in Reqs \ {r} : job'[q] = job[q]
      /\ job' = [q \in Reqs |-> job'[q]]
  BY <1>1, <1>4 DEF Shapes
<1>7. /\ IsJob(job'[r]) /\ job'[r].create = "queued" /\ job'[r].map = NoUuid /\ job'[r].target = NoUuid
      /\ job'[r].response \in {"queued", "none"}
      /\ job'[r].failed = FALSE /\ job'[r].missed = FALSE
  BY <1>6 DEF NewJob, IsJob, JobFields
<1>8. publisher' = publisher /\ leads' = leads /\ responses' = responses
  BY <1>2 DEF toolVars
<1>9. Shapes'
  BY <1>1, <1>5, <1>6, <1>7, <1>8 DEF Shapes
<1>10. \A q \in Reqs : Begun(q) => Begun(q)' /\ q # r /\ idOf'[q] = idOf[q]
  BY <1>2, <1>5, <1>6 DEF Begun
<1>11. RowsInv'
  BY <1>1, <1>8, <1>10 DEF RowsInv, IsRow
<1>12. \A q \in Reqs \ {r} : \A u : Namesake(q, u) => Namesake(q, u)'
  BY <1>5, <1>10 DEF Namesake
<1>13. ASSUME NEW q \in Reqs \ {r}
       PROVE  KnownInv(q)' /\ KeptInv(q)' /\ (q \in Queued => TasksInv(q)')
  <2>1. KnownInv(q) /\ KeptInv(q) /\ (q \in Queued => TasksInv(q))
    BY DEF PersistenceInv
  <2>2. job'[q] = job[q] /\ idOf'[q] = idOf[q] /\ (Begun(q)' <=> Begun(q)) /\ (Created(q)' <=> Created(q))
    BY <1>5, <1>6 DEF Begun, Created
  <2>3. KnownInv(q)'
    BY <1>8, <1>12, <2>1, <2>2 DEF KnownInv
  <2>4. KeptInv(q)'
    BY <1>8, <2>1, <2>2 DEF KeptInv, Wiped
  <2>5. Begun(q) /\ SharesId(q) => SharesId(q)'
    <3> SUFFICES ASSUME Begun(q), NEW p \in Reqs \ {q}, idOf[p] = idOf[q] PROVE idOf'[p] = idOf'[q]
      BY DEF SharesId
    <3>1. idOf[q] \in Ids
      BY <2>1 DEF KnownInv
    <3>2. idOf[q] # NoId
      BY <3>1 DEF Ids, NoId
    <3>3. p # r
      BY <1>2, <3>2
    <3> QED BY <1>5, <2>2, <3>3
  <2>6. q \in Queued => TasksInv(q)'
    BY <1>8, <2>1, <2>2, <2>5 DEF TasksInv, Wiped
  <2> QED BY <2>3, <2>4, <2>6
<1>14. KnownInv(r)' /\ KeptInv(r)'
  BY <1>2, <1>5, <1>7, <1>8 DEF KnownInv, KeptInv, Begun
<1>15. TasksInv(r)'
  BY <1>7 DEF TasksInv
<1>16. \A q \in Reqs : KnownInv(q)' /\ KeptInv(q)' /\ (q \in Queued => TasksInv(q)')
  BY <1>13, <1>14, <1>15
<1> QED BY <1>9, <1>11, <1>16 DEF PersistenceInv, Reqs

-----------------------------------------------------------------------------
(* The clean-up tool.                                                       *)

\* A step that touches only the tool's own variables.
LEMMA ToolAlone ==
  ASSUME PersistenceInv, UNCHANGED <<idOf, leads, responses, job, publisher>>
  PROVE  PersistenceInv'
<1>1. Shapes' /\ RowsInv'
  BY DEF PersistenceInv, Shapes, RowsInv, Begun
<1>2. \A r \in Reqs : KnownInv(r)' /\ KeptInv(r)'
  BY DEF PersistenceInv, KnownInv, KeptInv, Begun, Namesake, Wiped
<1>3. \A r \in Queued : TasksInv(r)'
  BY DEF PersistenceInv, TasksInv, Created, Begun, Wiped, SharesId
<1> QED BY <1>1, <1>2, <1>3 DEF PersistenceInv

\* The commit: with a lead go the responses stored for it.
LEMMA CommitKeeps ==
  ASSUME PersistenceInv, DeletePublishers
  PROVE  PersistenceInv'
<1>1. Shapes /\ RowsInv
  BY DEF PersistenceInv
<1>2. /\ leads' = [i \in Ids |-> IF leads[i].uuid \in doomed THEN NoLead ELSE leads[i]]
      /\ responses' = [r \in Reqs |-> responses[r] \ doomed]
      /\ publisher' = FALSE /\ idOf' = idOf /\ job' = job
  BY DEF DeletePublishers
<1>3. Shapes'
  BY <1>1, <1>2 DEF Shapes
<1>4. RowsInv'
  BY <1>1, <1>2 DEF RowsInv, Begun
<1>5. Wiped'
  BY <1>2 DEF Wiped
<1>6. ASSUME NEW r \in Reqs
      PROVE  KnownInv(r)' /\ KeptInv(r)'
  <2>1. KnownInv(r)
    BY DEF PersistenceInv
  <2>2. ASSUME NEW u \in responses'[r]
        PROVE  u \in Reqs /\ u = leads'[idOf[r]].uuid
    <3>1. u \in responses[r] /\ u \notin doomed
      BY <1>2, <2>2
    <3>2. u \in Reqs /\ u = leads[idOf[r]].uuid /\ idOf[r] \in Ids
      BY <2>1, <3>1 DEF KnownInv
    <3> QED BY <1>2, <3>1, <3>2
  <2>3. ~Begun(r) => responses'[r] = {}
    BY <1>2, <2>1 DEF KnownInv
  <2> QED BY <1>2, <1>5, <2>1, <2>2, <2>3 DEF KnownInv, KeptInv, Begun, Namesake
<1>7. \A r \in Queued : TasksInv(r)'
  BY <1>2, <1>5 DEF PersistenceInv, TasksInv, Created, Begun
<1> QED BY <1>3, <1>4, <1>6, <1>7 DEF PersistenceInv

\* Every step of the tool, and a campaign created behind its back.
LEMMA ToolKeeps ==
  ASSUME PersistenceInv, Cleanup \/ CreateCampaign
  PROVE  PersistenceInv'
<1>1. CASE DeletePublishers
  BY <1>1, CommitKeeps
<1>2. CASE StartCleanup
  BY <1>2, ToolAlone DEF StartCleanup, storeVars
<1>3. CASE DeleteChildren
  BY <1>3, ToolAlone DEF DeleteChildren, storeVars
<1>4. CASE DeleteLeads
  BY <1>4, ToolAlone DEF DeleteLeads, storeVars
<1>5. CASE DeleteCatalogue \/ DeleteBuyers
  BY <1>5, ToolAlone DEF DeleteCatalogue, DeleteBuyers, storeVars
<1>6. CASE CleanupFails
  BY <1>6, ToolAlone DEF CleanupFails, storeVars
<1>7. CASE VerifyCleanup
  BY <1>7, ToolAlone DEF VerifyCleanup, storeVars
<1>8. CASE CreateCampaign
  BY <1>8, ToolAlone DEF CreateCampaign, storeVars
<1> QED BY <1>1, <1>2, <1>3, <1>4, <1>5, <1>6, <1>7, <1>8 DEF Cleanup

-----------------------------------------------------------------------------
(* The theorems.                                                            *)

\* The state before the first request.
LEMMA PersistenceStarts == PersistenceInit => PersistenceInv
<1> SUFFICES ASSUME PersistenceInit PROVE PersistenceInv
  OBVIOUS
<1>1. /\ idOf = [r \in Reqs |-> NoId] /\ leads = [i \in Ids |-> NoLead]
      /\ responses = [r \in Reqs |-> {}] /\ job = [r \in Reqs |-> NewJob("none", {})]
      /\ tool = "idle" /\ report = "none"
  BY DEF PersistenceInit
<1>2. ASSUME NEW r \in Reqs
      PROVE  /\ IsJob(job[r]) /\ job[r].create = "none" /\ job[r].map = NoUuid
             /\ job[r].target = NoUuid /\ job[r].response = "none"
             /\ job[r].failed = FALSE /\ job[r].missed = FALSE
  BY <1>1, <1>2 DEF NewJob, IsJob, JobFields
<1>3. Shapes /\ RowsInv
  BY <1>1, <1>2 DEF Shapes, RowsInv
<1>4. \A r \in Reqs : KnownInv(r) /\ KeptInv(r)
  BY <1>1, <1>2 DEF KnownInv, KeptInv, Begun
<1>5. \A r \in Queued : TasksInv(r)
  BY <1>2 DEF TasksInv, Reqs
<1> QED BY <1>3, <1>4, <1>5 DEF PersistenceInv

\* Every step keeps the invariant.
LEMMA PersistenceStep ==
  PersistenceInv /\ [PersistenceNext]_persistenceVars => PersistenceInv'
<1> SUFFICES ASSUME PersistenceInv, [PersistenceNext]_persistenceVars
             PROVE  PersistenceInv'
  OBVIOUS
<1>1. ASSUME NEW r \in Reqs, AcceptLead(r)
      PROVE  PersistenceInv'
  BY <1>1, AcceptLeadKeeps
<1>2. ASSUME NEW r \in Queued, QueueStep(r)
      PROVE  PersistenceInv'
  BY <1>2, CreateLeadKeeps, CreateLeadFailsKeeps, CreatePingsKeeps, ResolveResponseKeeps,
     ResolveAgainKeeps, ResolveFailsKeeps, InsertResponseKeeps, LeadIsGoneKeeps,
     InsertFailsKeeps, UpdateLeadKeeps, UpdatePayloadKeeps DEF QueueStep
<1>3. ASSUME NEW r \in Failed, ReadPublisherInstance(r) \/ PersistFailedLead(r)
      PROVE  PersistenceInv'
  BY <1>3, ReadPublisherKeeps, PersistFailedKeeps
<1>4. CASE Cleanup \/ CreateCampaign
  BY <1>4, ToolKeeps
<1>5. CASE UNCHANGED persistenceVars
  <2>1. UNCHANGED <<idOf, leads, responses, job, publisher, tool, doomed, report>>
    BY <1>5 DEF persistenceVars, storeVars, toolVars
  <2> QED BY <2>1, ToolAlone
<1> QED BY <1>1, <1>2, <1>3, <1>4, <1>5 DEF PersistenceNext

\* The server keeps the invariant.
LEMMA PersistenceInvariant == ServerSpec => []PersistenceInv
<1>1. ServerInit => PersistenceInv
  BY PersistenceStarts DEF ServerInit
<1>2. [ServerNext]_serverVars => [PersistenceNext]_persistenceVars
  BY DEF ServerNext, serverVars
<1> QED BY <1>1, <1>2, PersistenceStep, PTL DEF ServerSpec

\* process_batch and the batch_* functions beside persist_failed_lead and the clean-up tool: a
\* response is stored for the lead with the lead_id of its request, and a task is lost only by
\* a failed statement, the deletion of the lead or a lead_id given twice.
THEOREM TasksDoReachTheirLead == ServerSpec => []TasksReachTheirLead
<1>1. PersistenceInv => TasksReachTheirLead
  BY DEF PersistenceInv, TasksReachTheirLead, KnownInv, TasksInv, Reqs
<1> QED BY <1>1, PersistenceInvariant, PTL

\* The handlers run beside the writers of the leads' tables.
LEMMA ServerRunsDashboard == ServerSpec => DashboardSpec
<1>1. ServerInit => DashboardInit
  BY DEF ServerInit
<1>2. [ServerNext]_serverVars => [DashboardNext]_dashboardVars
  BY DEF ServerNext, serverVars
<1> QED BY <1>1, <1>2, PTL DEF ServerSpec, DashboardSpec

\* What holds of the handlers' state therefore holds in the whole server.
THEOREM ServerKeepsAccountsAndRules ==
  ServerSpec => [](/\ ResetLinksAreSound /\ EnabledSecretIsProven /\ BackupCodesAreExact /\ PasskeyLimit
                   /\ OneActiveRuleSet /\ MissingZipsFailed /\ RulesAreRecent /\ KeyDecisionsAreRecent)
  BY ServerRunsDashboard, ResetLinksStaySound, EnabledSecretsAreProven, BackupCodesStayExact,
     PasskeysAreLimited, RuleSetsExclude, OnlyFailedZipsAreMissing, RulesStayRecent,
     KeyDecisionsStayRecent, PTL
=============================================================================
