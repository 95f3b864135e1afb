----------------------- MODULE FullpostRouting_proofs -----------------------
(***************************************************************************)
(* The safety properties of a fullpost request, proved for any number of    *)
(* campaigns, any prices and priorities, both strategies and both modes.    *)
(* The argument: the results of a direct fullpost do not change once they   *)
(* have been routed, so that the head of the sort stays the highest offer;  *)
(* and the last task that the queue holds for the lead of a sale is the     *)
(* final update, whatever the other writers of the row do meanwhile.        *)
(***************************************************************************)
EXTENDS FullpostRouting, AuctionRules_proofs

-----------------------------------------------------------------------------
(* The inductive invariant.                                                 *)

\* What a call of a direct fullpost may return.
CallResponses == Answers(FALSE) \cup {ErrorResponse}

CallResults == [from : Campaigns, resp : CallResponses, failed : BOOLEAN]

Rows == [status : RowStatuses, campaign : Campaigns \cup {Assigned}, postId : BOOLEAN]

Tasks == {Creation} \cup [kind : {"LeadUpdate"}, status : RowStatuses,
                          campaign : Campaigns \cup {NoCampaign}, postId : BOOLEAN]

TypeInv ==
    /\ strategy \in {"ping_post", "fullpost"} /\ mode \in {"sync", "async"}
    /\ priority \in [Campaigns -> Int]
    /\ results \in Seq(CallResults) /\ calls \in SUBSET Campaigns
    /\ Len(results) + Cardinality(calls) <= NumCampaigns
    /\ queue \in Seq(Tasks) /\ lead \in Rows \cup {NoRow} /\ spawned \in BOOLEAN

RoutingInv ==
    /\ routing.success \in BOOLEAN /\ routing.postId \in BOOLEAN
    /\ routing.price \in Amounts /\ routing.campaign \in Campaigns \cup {NoCampaign}

\* Which steps a strategy has, and what is known in which phase.
PhaseInv ==
    /\ phase \in {"new", "pinging", "posting", "replied", "calling", "routed", "answered", "failed"}
    /\ phase \in {"pinging", "posting", "replied"} => strategy = "ping_post"
    /\ phase = "calling" => strategy = "fullpost"
    /\ calls # {} => phase = "calling"
    /\ phase = "new" \/ strategy = "ping_post" => results = <<>>
    /\ said # NoResponse => /\ strategy = "ping_post" /\ said \in Answers(TRUE)
                            /\ phase \in {"replied", "routed", "answered", "failed"}
    /\ phase = "replied" => said # NoResponse
    /\ phase \in {"posting", "replied"} => offer.campaign \in Campaigns /\ offer.bid \in Prices
    /\ phase \notin {"routed", "answered"} => routing = NoRouting

\* The routing result, by what the buyers said.
ResultInv ==
    phase \in {"routed", "answered"} =>
        \/ /\ said = NoResponse /\ ValidResponses = {} /\ routing.success = FALSE
        \/ /\ said = NoResponse /\ strategy = "fullpost" /\ ValidResponses # {}
           /\ routing = Routing(TRUE, "sold", Best.resp.postId, Best.resp.price, Best.campaign)
        \/ /\ said # NoResponse
           /\ PostAccepted(said) => FinalStatus(routing) = "Sold" /\ routing.campaign # NoCampaign

\* What has been handed to the queue for persistence.
StoredInv ==
    /\ phase \in {"new", "pinging", "posting", "calling"} => stored = <<>>
    /\ phase = "replied" => stored = << <<said>> >>
    /\ AnswersOfSalesAreStored

FinalRow == [status |-> "Sold", campaign |-> routing.campaign, postId |-> routing.postId]

\* The row is created first and once, and the final update of a sale is the last
\* task of the queue or has been the last write.
RowInv ==
    /\ phase = "new" => queue = <<>> /\ lead = NoRow
    /\ phase # "new" /\ lead = NoRow => queue # <<>> /\ queue[1] = Creation
    /\ \A i \in DOMAIN queue : lead # NoRow \/ i > 1 => queue[i] # Creation
    /\ spawned => phase = "answered"
    /\ phase = "answered" /\ mode = "sync" /\ FinalStatus(routing) = "Sold" /\ routing.campaign # NoCampaign =>
         \/ queue # <<>> /\ queue[Len(queue)] = FinalUpdate
         \/ queue = <<>> /\ lead = FinalRow

Inv == TypeInv /\ RoutingInv /\ PhaseInv /\ ResultInv /\ StoredInv /\ RowInv

-----------------------------------------------------------------------------
(* Facts about answers, results, rows and tasks.                            *)

\* What the answers and errors of buyers have in common.
LEMMA AnswerFacts ==
    ASSUME NEW g \in BOOLEAN, NEW r \in Answers(g) \cup {ErrorResponse}
    PROVE  /\ r.bid = NoAmount /\ r.price \in Amounts /\ r.postId \in BOOLEAN
           /\ r.status \in {"sold", "accepted", "rejected", "timeout", "error"}
           /\ r # NoResponse
<1> DEFINE Facts(x) == /\ x.bid = NoAmount /\ x.price \in Amounts /\ x.postId \in BOOLEAN
                       /\ x.status \in {"sold", "accepted", "rejected", "timeout", "error"}
                       /\ x # NoResponse
<1>1. ASSUME NEW su \in BOOLEAN, NEW st \in {"sold", "accepted", "rejected", "timeout", "error"},
             NEW a \in Amounts, NEW pr \in BOOLEAN, NEW po \in BOOLEAN
      PROVE  Facts(Response(su, st, NoAmount, a, pr, po))
  <2> DEFINE x == Response(su, st, NoAmount, a, pr, po)
  <2>1. x.status = st /\ x.bid = NoAmount /\ x.price = a /\ x.postId = po
    BY DEF Response
  <2>2. "bid" \in DOMAIN x /\ "bid" \notin DOMAIN NoResponse
    BY DEF Response, NoResponse
  <2> HIDE DEF x
  <2>3. x # NoResponse
    BY <2>2
  <2>4. Facts(x)
    BY <2>1, <2>3, Zenon
  <2> QED BY <2>4 DEF x
<1>2. NoAmount \in Amounts /\ Prices \subseteq Amounts
  BY DEF Amounts
<1> HIDE DEF Facts
<1>3. Facts(ErrorResponse)
  BY <1>1, <1>2 DEF ErrorResponse
<1>4. \A x \in InternalAnswers : Facts(x)
  <2>1. \A p \in Prices : Facts(Response(TRUE, "sold", NoAmount, p, TRUE, TRUE))
    BY <1>1, <1>2
  <2>2. Facts(Response(FALSE, "rejected", NoAmount, NoAmount, TRUE, FALSE))
    BY <1>1, <1>2
  <2> QED BY <2>1, <2>2 DEF InternalAnswers
<1>5. \A x \in ExternalAnswers(g) : Facts(x)
  <2>1. \A p \in Prices : Facts(Response(TRUE, "accepted", NoAmount, p, FALSE, g))
    BY <1>1, <1>2
  <2>2. /\ Facts(Response(TRUE, "accepted", NoAmount, NoAmount, FALSE, g))
        /\ Facts(Response(FALSE, "rejected", NoAmount, NoAmount, FALSE, g))
        /\ Facts(Response(FALSE, "timeout", NoAmount, NoAmount, FALSE, g))
    BY <1>1, <1>2
  <2> QED BY <2>1, <2>2 DEF ExternalAnswers
<1>6. Facts(r)
  BY <1>3, <1>4, <1>5 DEF Answers
<1> QED BY <1>6 DEF Facts

\* Amounts are integers.
LEMMA AmountsAreInts == \A a \in Amounts : a \in Int
BY FullpostAssumption DEF Amounts, NoAmount

\* The results of the calls are numbered by campaigns.
LEMMA ResultsFacts ==
    ASSUME TypeInv
    PROVE  /\ Len(results) \in Nat /\ DOMAIN results = 1 .. Len(results)
           /\ DOMAIN results \subseteq Campaigns
           /\ \A i \in DOMAIN results : results[i].resp \in CallResponses
           /\ IsFiniteSet(calls) /\ Cardinality(calls) \in Nat
<1>1. /\ Len(results) \in Nat /\ DOMAIN results = 1 .. Len(results)
      /\ \A i \in DOMAIN results : results[i] \in CallResults
  <2>1. results \in Seq(CallResults)
    BY DEF TypeInv
  <2> QED BY <2>1
<1>2. IsFiniteSet(calls) /\ Cardinality(calls) \in Nat
  <2>1. IsFiniteSet(Campaigns)
    BY FullpostAssumption, FS_Interval DEF Campaigns
  <2>2. calls \subseteq Campaigns
    BY DEF TypeInv
  <2>3. IsFiniteSet(calls)
    BY <2>1, <2>2, FS_Subset
  <2> QED BY <2>3, FS_CardinalityType
<1>3. Len(results) <= NumCampaigns
  BY <1>1, <1>2, FullpostAssumption DEF TypeInv
<1> QED BY <1>1, <1>2, <1>3, FullpostAssumption DEF Campaigns, CallResults

\* The head of the sorted valid responses is a valid response with the highest price.
LEMMA BestFacts ==
    ASSUME TypeInv, ValidResponses # {}
    PROVE  /\ Best.campaign \in Campaigns /\ Best.resp \in CallResponses /\ ValidFullpost(Best.resp)
           /\ \A i \in ValidResponses : results[i].resp.price <= Best.resp.price
<1> DEFINE f == SortedFirst(Zipped, OfferedPrices(Zipped), ValidResponses)
<1>1. /\ Len(results) \in Nat /\ DOMAIN results = 1 .. Len(results)
      /\ DOMAIN results \subseteq Campaigns
      /\ \A i \in DOMAIN results : results[i].resp \in CallResponses
  BY ResultsFacts
<1>2. /\ DOMAIN Zipped = DOMAIN results
      /\ \A i \in DOMAIN results : Zipped[i].campaign = i /\ Zipped[i].resp = results[i].resp
                                   /\ Zipped[i].priority = priority[i]
  BY DEF Zipped
<1>3. \A i \in DOMAIN results : results[i].resp.bid \in Int /\ results[i].resp.price \in Int
  <2>1. \A i \in DOMAIN results : results[i].resp.bid = NoAmount /\ results[i].resp.price \in Amounts
    BY <1>1, AnswerFacts DEF CallResponses
  <2> QED BY <2>1, AmountsAreInts DEF NoAmount
<1>4. Len(Zipped) = Len(results)
  BY <1>1 DEF Zipped
<1>5. IsEntries(Zipped)
  BY <1>1, <1>2, <1>3, <1>4 DEF IsEntries, TypeInv
<1>6. /\ OfferedPrices(Zipped) \in [DOMAIN Zipped -> Int]
      /\ \A i \in DOMAIN results : OfferedPrices(Zipped)[i] = results[i].resp.price
  BY <1>2, <1>3 DEF OfferedPrices
<1>7. ValidResponses \in SUBSET DOMAIN Zipped
  BY <1>2 DEF ValidResponses, Responses
<1>8. f \in ValidResponses /\ \A j \in ValidResponses : OfferedPrices(Zipped)[j] <= OfferedPrices(Zipped)[f]
  BY <1>5, <1>6, <1>7, SortedFirstIsHighest
<1>9. Best = Zipped[f]
  BY DEF Best
<1> HIDE DEF f
<1>10. f \in DOMAIN results /\ ValidFullpost(results[f].resp)
  BY <1>8 DEF ValidResponses, Responses
<1>11. \A j \in ValidResponses : j \in DOMAIN results
  BY DEF ValidResponses, Responses
<1> QED BY <1>1, <1>2, <1>6, <1>8, <1>9, <1>10, <1>11

\* What is computed from the results only changes with them.
LEMMA DerivedFrame ==
    ASSUME results' = results, priority' = priority
    PROVE  Responses' = Responses /\ ValidResponses' = ValidResponses /\ Best' = Best
<1>1. Responses' = Responses /\ Zipped' = Zipped
  BY DEF Responses, Zipped
<1>2. ValidResponses' = ValidResponses
  BY <1>1 DEF ValidResponses
<1> QED BY <1>1, <1>2 DEF Best

\* No row of a lead is NoRow.
LEMMA RowsAreRows == NoRow \notin Rows
<1> SUFFICES ASSUME NEW r \in Rows PROVE r # NoRow
  OBVIOUS
<1>1. "campaign" \in DOMAIN r /\ "campaign" \notin DOMAIN NoRow
  BY DEF Rows, NoRow
<1> QED BY <1>1

\* update_lead_status changes the status of a row that is there.
LEMMA StatusWrite ==
    ASSUME NEW s \in RowStatuses, lead \in Rows \cup {NoRow}, UpdateLeadStatus(s)
    PROVE  lead' \in Rows \cup {NoRow} /\ (lead' = NoRow <=> lead = NoRow)
<1>1. lead # NoRow => lead \in Rows /\ lead' \in Rows
  BY DEF UpdateLeadStatus, Rows
<1>2. lead = NoRow => lead' = NoRow
  BY DEF UpdateLeadStatus
<1> QED BY <1>1, <1>2, RowsAreRows

\* The kinds of tasks.
LEMMA TaskFacts ==
    ASSUME NEW u \in Tasks
    PROVE  /\ u.kind = "LeadCreation" <=> u = Creation
           /\ u # Creation => /\ u.status \in RowStatuses /\ u.postId \in BOOLEAN
                              /\ u.campaign \in Campaigns \cup {NoCampaign}
<1>1. CASE u = Creation
  BY <1>1 DEF Creation
<1>2. CASE u # Creation
  BY <1>2 DEF Tasks, Creation
<1> QED BY <1>1, <1>2

\* Tasks that the request appends.
LEMMA UpdateIsTask ==
    ASSUME NEW s \in RowStatuses, NEW c \in Campaigns \cup {NoCampaign}, NEW p \in BOOLEAN
    PROVE  LeadUpdate(s, c, p) \in Tasks /\ LeadUpdate(s, c, p) # Creation
<1>1. LeadUpdate(s, c, p) \in Tasks
  BY DEF LeadUpdate, Tasks
<1>2. LeadUpdate(s, c, p).kind = "LeadUpdate" /\ Creation.kind = "LeadCreation"
  BY DEF LeadUpdate, Creation
<1> QED BY <1>1, <1>2

\* A task at the end of the queue.
LEMMA QueueAppend ==
    ASSUME queue \in Seq(Tasks), NEW u \in Tasks, queue' = Append(queue, u)
    PROVE  /\ queue' \in Seq(Tasks) /\ queue' # <<>> /\ Len(queue) \in Nat
           /\ Len(queue') = Len(queue) + 1 /\ queue'[Len(queue')] = u
           /\ DOMAIN queue' = 1 .. Len(queue) + 1 /\ DOMAIN queue = 1 .. Len(queue)
           /\ \A i \in DOMAIN queue : queue'[i] = queue[i]
OBVIOUS

-----------------------------------------------------------------------------
(* The invariant is inductive.                                              *)

\* It holds before the request is submitted.
LEMMA InitInv == ASSUME Init PROVE Inv
<1>1. TypeInv
  <2>1. strategy \in {"ping_post", "fullpost"} /\ mode \in {"sync", "async"}
    BY FullpostAssumption DEF Init
  <2>2. priority \in [Campaigns -> Int]
    <3>1. {1, NoPriority} \subseteq Int
      BY DEF NoPriority
    <3> HIDE DEF NoPriority
    <3>2. priority \in [Campaigns -> {1, NoPriority}]
      BY DEF Init
    <3> QED BY <3>1, <3>2
  <2>3. results \in Seq(CallResults) /\ calls \in SUBSET Campaigns /\ queue \in Seq(Tasks)
    BY DEF Init
  <2>4. Len(results) = 0 /\ Cardinality(calls) = 0
    BY FS_EmptySet DEF Init
  <2>5. Len(results) + Cardinality(calls) <= NumCampaigns
    BY <2>4, FullpostAssumption
  <2>6. lead \in Rows \cup {NoRow} /\ spawned \in BOOLEAN
    BY DEF Init
  <2> QED BY <2>1, <2>2, <2>3, <2>5, <2>6 DEF TypeInv
<1>2. RoutingInv
  <2>1. /\ NoRouting.success = FALSE /\ NoRouting.postId = FALSE
        /\ NoRouting.price = NoAmount /\ NoRouting.campaign = NoCampaign
    BY DEF NoRouting, Routing
  <2> QED BY <2>1 DEF Init, RoutingInv, Amounts
<1>3. PhaseInv /\ ResultInv
  BY DEF Init, PhaseInv, ResultInv
<1>4. StoredInv
  BY DEF Init, StoredInv, AnswersOfSalesAreStored
<1>5. RowInv
  <2>1. DOMAIN queue = {} /\ queue = <<>> /\ lead = NoRow /\ phase = "new" /\ spawned = FALSE
    BY DEF Init
  <2> QED BY <2>1 DEF RowInv
<1> QED BY <1>1, <1>2, <1>3, <1>4, <1>5 DEF Inv

\* A step that neither ends the request nor writes a task leaves the order of the
\* row's writers alone.
LEMMA RowFrame ==
    ASSUME RowInv, phase \notin {"new", "answered"}, phase' \notin {"new", "answered"},
           queue' = queue, spawned' = spawned, lead' = NoRow <=> lead = NoRow
    PROVE  RowInv'
BY DEF RowInv

\* Submitting the request enqueues the creation of the row, before anything else.
LEMMA SubmitStep == ASSUME Inv, Submit PROVE Inv'
<1>1. /\ phase = "new" /\ queue' = Append(queue, Creation) /\ lead' = lead /\ spawned' = spawned
      /\ phase' = (IF strategy = "ping_post" THEN "pinging" ELSE "calling")
      /\ calls' = (IF strategy = "ping_post" THEN {} ELSE Campaigns)
      /\ strategy' = strategy /\ mode' = mode /\ priority' = priority /\ results' = results
      /\ offer' = offer /\ said' = said /\ routing' = routing /\ stored' = stored
  BY DEF Submit, requestVars
<1>2. queue = <<>> /\ lead = NoRow /\ results = <<>> /\ ~spawned /\ said = NoResponse
  BY <1>1 DEF Inv, RowInv, PhaseInv
<1>3. Creation \in Tasks /\ queue \in Seq(Tasks)
  BY DEF Tasks, Inv, TypeInv
<1>4. queue' \in Seq(Tasks) /\ queue' # <<>> /\ DOMAIN queue' = {1} /\ queue'[1] = Creation
  BY <1>1, <1>2, <1>3
<1>5. Cardinality(calls') <= NumCampaigns /\ Cardinality(calls') \in Int /\ calls' \in SUBSET Campaigns
  <2>1. Cardinality(Campaigns) = NumCampaigns
    BY FullpostAssumption, FS_Interval DEF Campaigns
  <2> QED BY <1>1, <2>1, FS_EmptySet, FullpostAssumption
<1>6. TypeInv'
  <2>1. Len(results') = 0
    BY <1>1, <1>2
  <2>2. Len(results') + Cardinality(calls') <= NumCampaigns
    BY <1>5, <2>1, FullpostAssumption
  <2> QED BY <1>1, <1>4, <1>5, <2>2 DEF Inv, TypeInv
<1>7. RoutingInv' /\ PhaseInv' /\ ResultInv' /\ StoredInv'
  <2>1. RoutingInv'
    BY <1>1 DEF Inv, RoutingInv
  <2>2. PhaseInv'
    BY <1>1, <1>2 DEF Inv, PhaseInv, TypeInv
  <2>3. ResultInv' /\ StoredInv'
    BY <1>1 DEF Inv, ResultInv, StoredInv, AnswersOfSalesAreStored
  <2> QED BY <2>1, <2>2, <2>3
<1>8. RowInv'
  <2>1. phase' # "new" /\ phase' # "answered"
    BY <1>1
  <2> QED BY <1>1, <1>2, <1>4, <2>1 DEF RowInv
<1> QED BY <1>6, <1>7, <1>8 DEF Inv

\* The end of the routing: what each way to end it has to show.
LEMMA RoutedStep ==
    ASSUME Inv, phase \in {"pinging", "posting", "replied", "calling"}, phase' = "routed",
           UNCHANGED <<requestVars, results, offer, said, queue, spawned>>,
           calls' = {}, lead' \in Rows \cup {NoRow}, lead' = NoRow <=> lead = NoRow,
           RoutingInv', ResultInv', AnswersOfSalesAreStored'
    PROVE  Inv'
<1>1. TypeInv'
  <2>1. Cardinality(calls') = 0 /\ calls' \in SUBSET Campaigns
    BY FS_EmptySet
  <2>2. Len(results) \in Nat /\ Cardinality(calls) \in Nat
    BY ResultsFacts DEF Inv
  <2>3. Len(results') + Cardinality(calls') <= NumCampaigns
    BY <2>1, <2>2, FullpostAssumption DEF Inv, TypeInv
  <2> QED BY <2>1, <2>3 DEF Inv, TypeInv, requestVars
<1>2. PhaseInv'
  BY DEF Inv, PhaseInv, requestVars
<1>3. StoredInv'
  BY DEF StoredInv
<1>4. RowInv'
  <2>1. RowInv
    BY DEF Inv
  <2> QED BY <2>1, RowFrame
<1> QED BY <1>1, <1>2, <1>3, <1>4 DEF Inv

\* A routing result without sale.
LEMMA FailureFacts ==
    ASSUME NEW s
    PROVE  /\ Failure(s).success = FALSE /\ Failure(s).status = s /\ Failure(s).postId = FALSE
           /\ Failure(s).price = NoAmount /\ Failure(s).campaign = NoCampaign
BY DEF Failure, Routing

\* The ways to end the routing without a sale, all with an answer of no buyer
\* enqueued.
LEMMA UnsoldStep ==
    ASSUME Inv, phase \in {"pinging", "posting", "calling"}, phase' = "routed",
           UNCHANGED <<requestVars, results, offer, said, stored, queue, spawned>>,
           calls' = {}, NEW s \in RowStatuses, UpdateLeadStatus(s),
           routing'.success = FALSE, RoutingInv', ValidResponses = {}
    PROVE  Inv'
<1>1. said = NoResponse /\ stored = <<>>
  BY DEF Inv, PhaseInv, StoredInv
<1>2. lead' \in Rows \cup {NoRow} /\ (lead' = NoRow <=> lead = NoRow)
  BY StatusWrite DEF Inv, TypeInv
<1>3. Responses' = Responses /\ ValidResponses' = ValidResponses
  BY DerivedFrame DEF requestVars
<1>4. ResultInv'
  BY <1>1, <1>3 DEF ResultInv, requestVars
<1>5. AnswersOfSalesAreStored'
  BY <1>1 DEF AnswersOfSalesAreStored
<1> QED BY <1>2, <1>4, <1>5, RoutedStep

\* No response is valid when there is no result.
LEMMA NoResults ==
    ASSUME results = <<>> PROVE ValidResponses = {} /\ Responses = {}
BY DEF ValidResponses, Responses

\* NotRoutable: nobody was called.
LEMMA NotRoutableStep == ASSUME Inv, NotRoutable PROVE Inv'
<1>1. /\ phase \in {"pinging", "posting", "calling"} /\ phase' = "routed" /\ calls' = {}
      /\ UNCHANGED <<requestVars, results, offer, said, stored, queue, spawned>>
      /\ UpdateLeadStatus("error") /\ routing' = Failure("error") /\ results = <<>>
  BY DEF NotRoutable
<1>2. /\ routing'.success = FALSE /\ routing'.status = "error" /\ RoutingInv'
      /\ "error" \in RowStatuses
  BY <1>1, FailureFacts DEF RoutingInv, Amounts, RowStatuses
<1> QED BY <1>1, <1>2, NoResults, UnsoldStep

\* PingFails: the auction has no winner.
LEMMA PingFailsStep == ASSUME Inv, PingFails PROVE Inv'
<1>1. PICK s \in {"rejected", "timeout", "error"} : UpdateLeadStatus(s) /\ routing' = Failure(s)
  BY DEF PingFails
<1>2. /\ phase = "pinging" /\ phase' = "routed"
      /\ UNCHANGED <<requestVars, calls, results, offer, said, stored, queue, spawned>>
  BY DEF PingFails
<1>3. results = <<>> /\ calls' = {} /\ strategy = "ping_post"
  BY <1>2 DEF Inv, PhaseInv
<1>4. routing'.success = FALSE /\ RoutingInv' /\ s \in RowStatuses
  BY <1>1, FailureFacts DEF RoutingInv, Amounts, RowStatuses
<1> QED BY <1>1, <1>2, <1>3, <1>4, NoResults, UnsoldStep

\* PingWins: the winner's update follows the creation in the queue.
LEMMA PingWinsStep == ASSUME Inv, PingWins PROVE Inv'
<1>1. PICK c \in Campaigns, b \in Prices :
        /\ offer' = [campaign |-> c, bid |-> b]
        /\ queue' = Append(queue, LeadUpdate("PingAccepted", c, FALSE))
  BY DEF PingWins
<1>2. /\ phase = "pinging" /\ phase' = "posting" /\ lead' = lead /\ spawned' = spawned
      /\ strategy' = strategy /\ mode' = mode /\ priority' = priority /\ calls' = calls
      /\ results' = results /\ said' = said /\ routing' = routing /\ stored' = stored
  BY DEF PingWins, requestVars
<1> DEFINE u == LeadUpdate("PingAccepted", c, FALSE)
<1>3. u \in Tasks /\ u # Creation
  BY UpdateIsTask DEF RowStatuses
<1> HIDE DEF u
<1>4. queue \in Seq(Tasks) /\ queue' = Append(queue, u)
  BY <1>1 DEF Inv, TypeInv, u
<1>5. TypeInv'
  <2>1. queue' \in Seq(Tasks)
    BY <1>3, <1>4
  <2> QED BY <1>2, <2>1 DEF Inv, TypeInv
<1>6. RoutingInv'
  BY <1>2 DEF Inv, RoutingInv
<1>7. PhaseInv'
  BY <1>1, <1>2 DEF Inv, PhaseInv
<1>8. ResultInv' /\ StoredInv'
  BY <1>2 DEF Inv, ResultInv, StoredInv, AnswersOfSalesAreStored
<1>9. RowInv'
  <2>1. /\ queue' # <<>> /\ Len(queue) \in Nat /\ DOMAIN queue = 1 .. Len(queue)
        /\ DOMAIN queue' = 1 .. Len(queue) + 1 /\ queue'[Len(queue) + 1] = u
        /\ \A i \in DOMAIN queue : queue'[i] = queue[i]
    BY <1>3, <1>4, QueueAppend
  <2>2. lead = NoRow => queue'[1] = Creation
    <3> SUFFICES ASSUME lead = NoRow PROVE queue'[1] = Creation
      OBVIOUS
    <3>1. queue # <<>> /\ queue[1] = Creation
      BY <1>2 DEF Inv, RowInv
    <3>2. 1 \in DOMAIN queue
      BY <1>4, <3>1
    <3> QED BY <2>1, <3>1, <3>2
  <2>3. \A i \in DOMAIN queue' : lead # NoRow \/ i > 1 => queue'[i] # Creation
    <3> SUFFICES ASSUME NEW i \in DOMAIN queue', lead # NoRow \/ i > 1 PROVE queue'[i] # Creation
      OBVIOUS
    <3>1. CASE i \in DOMAIN queue
      BY <2>1, <3>1 DEF Inv, RowInv
    <3>2. CASE i = Len(queue) + 1
      BY <1>3, <2>1, <3>2
    <3> QED BY <2>1, <3>1, <3>2
  <2>4. ~spawned
    BY <1>2 DEF Inv, RowInv
  <2> QED BY <1>2, <2>1, <2>2, <2>3, <2>4 DEF RowInv
<1> QED BY <1>5, <1>6, <1>7, <1>8, <1>9 DEF Inv

\* BuyerReplies: the answer to the post is enqueued.
LEMMA BuyerRepliesStep == ASSUME Inv, BuyerReplies PROVE Inv'
<1>1. /\ phase = "posting" /\ phase' = "replied" /\ said' \in Answers(TRUE)
      /\ stored' = Append(stored, <<said'>>) /\ strategy' = strategy /\ mode' = mode
      /\ priority' = priority /\ calls' = calls /\ results' = results /\ offer' = offer
      /\ routing' = routing /\ queue' = queue /\ lead' = lead /\ spawned' = spawned
  BY DEF BuyerReplies, requestVars, leadVars
<1>2. said' # NoResponse
  BY <1>1, AnswerFacts
<1>3. stored' = << <<said'>> >>
  <2>1. stored = <<>>
    BY <1>1 DEF Inv, StoredInv
  <2> QED BY <1>1, <2>1
<1>4. TypeInv' /\ RoutingInv'
  BY <1>1 DEF Inv, TypeInv, RoutingInv
<1>5. PhaseInv'
  BY <1>1, <1>2 DEF Inv, PhaseInv
<1>6. ResultInv' /\ StoredInv'
  BY <1>1, <1>3 DEF ResultInv, StoredInv, AnswersOfSalesAreStored
<1>7. RowInv'
  <2>1. RowInv
    BY DEF Inv
  <2> QED BY <1>1, <2>1, RowFrame
<1> QED BY <1>4, <1>5, <1>6, <1>7 DEF Inv

\* The merge of a ping that won with the result of its post.
LEMMA MergedFacts ==
    ASSUME NEW p, p.success \in BOOLEAN, p.postId \in BOOLEAN, p.price \in Amounts, offer.bid \in Prices
    PROVE  /\ Merged(p).success = (p.success \/ p.postId) /\ Merged(p).success \in BOOLEAN
           /\ Merged(p).postId = p.postId /\ Merged(p).campaign = p.campaign
           /\ p.price # NoAmount => Merged(p).price = p.price
           /\ Merged(p).price \in Amounts
           /\ p.success /\ p.postId /\ p.price # NoAmount => Merged(p).status = "sold"
<1> DEFINE r == Merged(p)
<1>1. /\ r.success = (p.success \/ p.postId) /\ r.postId = p.postId
      /\ r.price = Or(p.price, offer.bid) /\ r.campaign = p.campaign
      /\ r.status = IF p.success /\ p.postId /\ p.price # NoAmount THEN "sold" ELSE "ping_accepted"
  BY DEF Merged, Routing
<1> HIDE DEF r
<1>2. r.success \in BOOLEAN
  BY <1>1
<1>3. r.price \in Amounts /\ (p.price # NoAmount => r.price = p.price)
  BY <1>1 DEF Or, Amounts
<1>4. p.success /\ p.postId /\ p.price # NoAmount => r.status = "sold"
  BY <1>1
<1> QED BY <1>1, <1>2, <1>3, <1>4 DEF r

\* FinishPost, accepted: the merged result is a sale to the winner's campaign.
LEMMA FinishPostStep == ASSUME Inv, FinishPost PROVE Inv'
<1>1. /\ phase = "replied" /\ phase' = "routed" /\ routing' = Merged(PostRouting(said))
      /\ UNCHANGED <<requestVars, calls, results, offer, said, stored, queue, spawned>>
  BY DEF FinishPost
<1>2. /\ said # NoResponse /\ said \in Answers(TRUE) /\ strategy = "ping_post"
      /\ offer.campaign \in Campaigns /\ offer.bid \in Prices /\ calls' = {}
  BY <1>1 DEF Inv, PhaseInv
<1>3. said.price \in Amounts /\ said.postId \in BOOLEAN
  BY <1>2, AnswerFacts
<1>4. /\ routing'.success \in BOOLEAN /\ routing'.postId \in BOOLEAN
      /\ routing'.campaign = offer.campaign /\ routing'.price \in Amounts
      /\ PostAccepted(said) =>
           routing'.success /\ routing'.postId /\ routing'.status = "sold" /\ routing'.price = said.price
      /\ ~PostAccepted(said) => PostRouting(said).status \in RowStatuses
  <2> DEFINE p == PostRouting(said)
  <2>1. CASE PostAccepted(said)
    <3>1. p.success = TRUE /\ p.postId = TRUE /\ p.price = said.price /\ p.campaign = offer.campaign
      BY <2>1 DEF PostRouting, Routing
    <3>2. said.price # NoAmount
      BY <1>3, <2>1 DEF PostAccepted, NoAmount
    <3> HIDE DEF p
    <3>3. p.success \in BOOLEAN /\ p.postId \in BOOLEAN /\ p.price \in Amounts /\ routing' = Merged(p)
      BY <1>1, <1>3, <3>1 DEF p
    <3>4. /\ routing'.success = (p.success \/ p.postId) /\ routing'.success \in BOOLEAN
          /\ routing'.postId = p.postId
      BY <1>2, <3>3, MergedFacts
    <3>5. routing'.campaign = offer.campaign /\ routing'.price \in Amounts /\ routing'.price = said.price
      BY <1>2, <3>1, <3>2, <3>3, MergedFacts
    <3>6. routing'.status = "sold"
      BY <1>2, <3>1, <3>2, <3>3, MergedFacts
    <3>7. routing'.success = TRUE /\ routing'.postId = TRUE
      BY <3>1, <3>4
    <3> QED BY <2>1, <3>5, <3>6, <3>7
  <2>2. CASE ~PostAccepted(said)
    <3>1. /\ p.success = FALSE /\ p.postId = said.postId /\ p.price = said.price
          /\ p.campaign = offer.campaign /\ p.status \in {"rejected", "timeout", "error"}
      BY <2>2 DEF PostRouting, Routing
    <3> HIDE DEF p
    <3>2. p.status \in RowStatuses
      BY <3>1 DEF RowStatuses
    <3>3. p.success \in BOOLEAN /\ p.postId \in BOOLEAN /\ p.price \in Amounts /\ routing' = Merged(p)
      BY <1>1, <1>3, <3>1 DEF p
    <3>4. routing'.success \in BOOLEAN /\ routing'.postId = p.postId
      BY <1>2, <3>3, MergedFacts
    <3>5. routing'.campaign = offer.campaign /\ routing'.price \in Amounts
      BY <1>2, <3>1, <3>3, MergedFacts
    <3> QED BY <1>3, <2>2, <3>1, <3>2, <3>4, <3>5 DEF p
  <2> QED BY <2>1, <2>2
<1>5. lead' \in Rows \cup {NoRow} /\ (lead' = NoRow <=> lead = NoRow)
  <2>0. lead \in Rows \cup {NoRow}
    BY DEF Inv, TypeInv
  <2>1. CASE PostAccepted(said)
    <3>1. lead' = IF lead = NoRow THEN lead ELSE [lead EXCEPT !.status = "Sold", !.postId = TRUE]
      BY <2>1 DEF FinishPost
    <3>2. lead # NoRow => lead' \in Rows
      BY <2>0, <3>1 DEF Rows, RowStatuses
    <3> QED BY <2>0, <3>1, <3>2, RowsAreRows
  <2>2. CASE ~PostAccepted(said)
    <3>1. UpdateLeadStatus(PostRouting(said).status)
      BY <2>2 DEF FinishPost
    <3> QED BY <1>4, <2>0, <2>2, <3>1, StatusWrite
  <2> QED BY <2>1, <2>2
<1>6. RoutingInv'
  BY <1>2, <1>4 DEF RoutingInv
<1>7. PostAccepted(said) => FinalStatus(routing') = "Sold" /\ routing'.campaign # NoCampaign
  <2> SUFFICES ASSUME PostAccepted(said) PROVE FinalStatus(routing') = "Sold" /\ routing'.campaign # NoCampaign
    OBVIOUS
  <2>1. routing'.success /\ routing'.status = "sold" /\ routing'.price > 0
    BY <1>4 DEF PostAccepted
  <2>2. routing'.campaign # NoCampaign
    BY <1>2, <1>4, FullpostAssumption DEF Campaigns, NoCampaign
  <2> QED BY <2>1, <2>2 DEF FinalStatus
<1>8. ResultInv'
  BY <1>1, <1>2, <1>7 DEF ResultInv
<1>9. AnswersOfSalesAreStored'
  <2>1. stored = << <<said>> >>
    BY <1>1 DEF Inv, StoredInv
  <2> QED BY <1>1, <1>2, <2>1 DEF AnswersOfSalesAreStored
<1> QED BY <1>1, <1>2, <1>5, <1>6, <1>8, <1>9, RoutedStep

\* PostCallFails: the merge makes no success of it.
LEMMA PostCallFailsStep == ASSUME Inv, PostCallFails PROVE Inv'
<1>1. /\ phase = "posting" /\ phase' = "routed" /\ UpdateLeadStatus("error")
      /\ routing' = Merged(Routing(FALSE, "error", FALSE, NoAmount, offer.campaign))
      /\ UNCHANGED <<requestVars, calls, results, offer, said, stored, queue, spawned>>
  BY DEF PostCallFails
<1>2. /\ strategy = "ping_post" /\ results = <<>> /\ calls' = {}
      /\ offer.campaign \in Campaigns /\ offer.bid \in Prices
  BY <1>1 DEF Inv, PhaseInv
<1>3. NoAmount \in Amounts /\ "error" \in RowStatuses
  BY DEF Amounts, RowStatuses
<1> DEFINE p == Routing(FALSE, "error", FALSE, NoAmount, offer.campaign)
<1>4. /\ p.success = FALSE /\ p.postId = FALSE /\ p.price = NoAmount /\ p.campaign = offer.campaign
  BY DEF Routing
<1> HIDE DEF p
<1>5. p.success \in BOOLEAN /\ p.postId \in BOOLEAN /\ p.price \in Amounts /\ routing' = Merged(p)
  BY <1>1, <1>3, <1>4 DEF p
<1>6. routing'.success = (p.success \/ p.postId) /\ routing'.success \in BOOLEAN /\ routing'.postId = p.postId
  BY <1>2, <1>5, MergedFacts
<1>7. routing'.price \in Amounts /\ routing'.campaign = offer.campaign
  BY <1>2, <1>4, <1>5, MergedFacts
<1>8. RoutingInv'
  BY <1>2, <1>4, <1>6, <1>7 DEF RoutingInv
<1>9. routing'.success = FALSE
  BY <1>4, <1>6
<1> QED BY <1>1, <1>2, <1>3, <1>8, <1>9, NoResults, UnsoldStep

\* CallReturns: a result more and a call less.
LEMMA CallReturnsStep ==
    ASSUME Inv, NEW c \in Campaigns, NEW resp \in CallResponses, NEW failed \in BOOLEAN,
           CallReturns(c, resp, failed)
    PROVE  Inv'
<1> DEFINE e == [from |-> c, resp |-> resp, failed |-> failed]
<1>1. /\ c \in calls /\ calls' = calls \ {c} /\ results' = Append(results, e)
      /\ phase' = phase /\ strategy' = strategy /\ mode' = mode /\ priority' = priority
      /\ offer' = offer /\ said' = said /\ routing' = routing /\ stored' = stored
      /\ queue' = queue /\ lead' = lead /\ spawned' = spawned
  BY DEF CallReturns, requestVars, leadVars
<1>2. phase = "calling" /\ strategy = "fullpost"
  BY <1>1 DEF Inv, PhaseInv
<1>3. e \in CallResults
  BY DEF CallResults
<1> HIDE DEF e
<1>4. results \in Seq(CallResults) /\ IsFiniteSet(calls) /\ Len(results) \in Nat /\ Cardinality(calls) \in Nat
  BY ResultsFacts DEF Inv, TypeInv
<1>5. results' \in Seq(CallResults) /\ Len(results') = Len(results) + 1
  BY <1>1, <1>3, <1>4
<1>6. Cardinality(calls') = Cardinality(calls) - 1
  BY <1>1, <1>4, FS_RemoveElement
<1>7. Len(results') + Cardinality(calls') <= NumCampaigns
  BY <1>4, <1>5, <1>6, FullpostAssumption DEF Inv, TypeInv
<1>8. TypeInv' /\ RoutingInv'
  BY <1>1, <1>5, <1>7 DEF Inv, TypeInv, RoutingInv
<1>9. PhaseInv'
  BY <1>1, <1>2 DEF Inv, PhaseInv
<1>10. ResultInv' /\ StoredInv'
  BY <1>1, <1>2 DEF Inv, ResultInv, StoredInv, AnswersOfSalesAreStored
<1>11. RowInv'
  <2>1. RowInv
    BY DEF Inv
  <2> QED BY <1>1, <1>2, <2>1, RowFrame
<1> QED BY <1>8, <1>9, <1>10, <1>11 DEF Inv

\* NoBuyer: the routing ends without a sale.
LEMMA NoBuyerStep == ASSUME Inv, NoBuyer PROVE Inv'
<1>1. /\ phase = "calling" /\ phase' = "routed" /\ calls = {} /\ ValidResponses = {}
      /\ UpdateLeadStatus(FullpostStatus) /\ routing' = Failure(FullpostStatus)
      /\ UNCHANGED <<requestVars, calls, results, offer, said, stored, queue, spawned>>
  BY DEF NoBuyer, Collected
<1>2. FullpostStatus \in RowStatuses
  BY DEF FullpostStatus, RowStatuses
<1>3. routing'.success = FALSE /\ routing'.status = FullpostStatus /\ RoutingInv'
  BY <1>1, FailureFacts DEF RoutingInv, Amounts
<1>4. calls' = {}
  BY <1>1
<1> QED BY <1>1, <1>2, <1>3, <1>4, UnsoldStep

\* SellToBest: the result is the head of the sort, and all answers are enqueued.
LEMMA SellToBestStep == ASSUME Inv, SellToBest PROVE Inv'
<1>1. /\ phase = "calling" /\ phase' = "routed" /\ calls = {} /\ ValidResponses # {}
      /\ stored' = Append(stored, Payloads)
      /\ routing' = Routing(TRUE, "sold", Best.resp.postId, Best.resp.price, Best.campaign)
      /\ lead' = IF lead = NoRow THEN lead
                 ELSE [lead EXCEPT !.status = "Sold", !.campaign = Best.campaign, !.postId = Best.resp.postId]
      /\ UNCHANGED <<requestVars, calls, results, offer, said, queue, spawned>>
  BY DEF SellToBest, Collected
<1>2. strategy = "fullpost" /\ said = NoResponse /\ calls' = {} /\ stored = <<>>
  BY <1>1 DEF Inv, PhaseInv, StoredInv
<1>3. Best.campaign \in Campaigns /\ Best.resp.postId \in BOOLEAN /\ Best.resp.price \in Amounts
  <2>1. Best.campaign \in Campaigns /\ Best.resp \in CallResponses
    BY <1>1, BestFacts DEF Inv
  <2> QED BY <2>1, AnswerFacts DEF CallResponses
<1>4. Responses' = Responses /\ ValidResponses' = ValidResponses /\ Best' = Best
  BY <1>1, DerivedFrame DEF requestVars
<1>5. /\ routing'.success = TRUE /\ routing'.postId = Best.resp.postId
      /\ routing'.price = Best.resp.price /\ routing'.campaign = Best.campaign
  BY <1>1 DEF Routing
<1>6. RoutingInv'
  BY <1>3, <1>5 DEF RoutingInv
<1>7. ResultInv'
  BY <1>1, <1>2, <1>4 DEF ResultInv, requestVars
<1>8. AnswersOfSalesAreStored'
  <2>1. stored' = << Payloads >>
    BY <1>1, <1>2
  <2>2. Payloads = [i \in {j \in DOMAIN results : ~results[j].failed} |-> results[i].resp]
    BY DEF Payloads, Responses
  <2> QED BY <1>1, <1>2, <1>5, <2>1, <2>2 DEF AnswersOfSalesAreStored
<1>9. lead' \in Rows \cup {NoRow} /\ (lead' = NoRow <=> lead = NoRow)
  <2>1. lead # NoRow => lead \in Rows /\ lead' \in Rows
    BY <1>1, <1>3 DEF Inv, TypeInv, Rows, RowStatuses
  <2>2. lead = NoRow => lead' = NoRow
    BY <1>1
  <2> QED BY <2>1, <2>2, RowsAreRows
<1> QED BY <1>1, <1>2, <1>6, <1>7, <1>8, <1>9, RoutedStep

\* RouterFails: the request ends without a result.
LEMMA RouterFailsStep == ASSUME Inv, RouterFails PROVE Inv'
<1>1. /\ phase \in {"pinging", "posting", "replied"} \/ (phase = "calling" /\ calls = {})
      /\ phase' = "failed" /\ UNCHANGED <<requestVars, routeVars, leadVars>>
  BY DEF RouterFails, Collected
<1>2. /\ strategy' = strategy /\ mode' = mode /\ priority' = priority /\ calls' = calls
      /\ results' = results /\ offer' = offer /\ said' = said /\ routing' = routing
      /\ stored' = stored /\ queue' = queue /\ lead' = lead /\ spawned' = spawned
  BY <1>1 DEF requestVars, routeVars, leadVars
<1>3. TypeInv' /\ RoutingInv'
  BY <1>2 DEF Inv, TypeInv, RoutingInv
<1>4. PhaseInv'
  BY <1>1, <1>2 DEF Inv, PhaseInv
<1>5. ResultInv' /\ StoredInv'
  BY <1>1 DEF ResultInv, StoredInv, AnswersOfSalesAreStored
<1>6. RowInv'
  <2>1. RowInv
    BY DEF Inv
  <2> QED BY <1>1, <1>2, <2>1, RowFrame
<1> QED BY <1>3, <1>4, <1>5, <1>6 DEF Inv

\* The final update is a task of the queue.
LEMMA FinalUpdateFacts ==
    ASSUME RoutingInv
    PROVE  /\ FinalUpdate \in Tasks /\ FinalUpdate # Creation
           /\ FinalUpdate.status = FinalStatus(routing) /\ FinalUpdate.campaign = routing.campaign
           /\ FinalUpdate.postId = routing.postId
<1>1. FinalStatus(routing) \in RowStatuses
  BY DEF FinalStatus, RowStatuses
<1>2. FinalUpdate \in Tasks /\ FinalUpdate # Creation
  BY <1>1, UpdateIsTask DEF FinalUpdate, RoutingInv
<1> QED BY <1>2 DEF FinalUpdate, LeadUpdate

\* Answer: a synchronous request enqueues its final update behind everything else.
LEMMA AnswerStep == ASSUME Inv, Answer PROVE Inv'
<1>1. /\ phase = "routed" /\ phase' = "answered" /\ lead' = lead
      /\ strategy' = strategy /\ mode' = mode /\ priority' = priority /\ calls' = calls
      /\ results' = results /\ offer' = offer /\ said' = said /\ routing' = routing
      /\ stored' = stored
  BY DEF Answer, requestVars, routeVars
<1>2. \/ /\ mode = "sync" /\ queue' = Append(queue, FinalUpdate)
         /\ spawned' = (FinalStatus(routing) = "Sold")
      \/ mode = "async" /\ queue' = queue /\ spawned' = spawned
  BY DEF Answer
<1>3. FinalUpdate \in Tasks /\ FinalUpdate # Creation /\ FinalUpdate' = FinalUpdate
  BY <1>1, FinalUpdateFacts DEF Inv, FinalUpdate
<1>4. queue \in Seq(Tasks) /\ spawned \in BOOLEAN
  BY DEF Inv, TypeInv
<1>5. TypeInv'
  <2>1. queue' \in Seq(Tasks)
    BY <1>2, <1>3, <1>4
  <2>2. spawned' \in BOOLEAN
    BY <1>2, <1>4
  <2> QED BY <1>1, <2>1, <2>2 DEF Inv, TypeInv
<1>6. RoutingInv'
  BY <1>1 DEF Inv, RoutingInv
<1>7. PhaseInv'
  BY <1>1 DEF Inv, PhaseInv
<1>8. ResultInv'
  <2>1. Responses' = Responses /\ ValidResponses' = ValidResponses /\ Best' = Best
    BY <1>1, DerivedFrame
  <2> QED BY <1>1, <2>1 DEF Inv, ResultInv
<1>9. StoredInv'
  BY <1>1 DEF Inv, StoredInv, AnswersOfSalesAreStored
<1>10. RowInv'
  <2>1. CASE mode = "async"
    <3>1. queue' = queue /\ spawned' = spawned
      BY <1>2, <2>1
    <3> QED BY <1>1, <2>1, <3>1 DEF Inv, RowInv
  <2>2. CASE mode = "sync"
    <3>0. queue' = Append(queue, FinalUpdate)
      BY <1>2, <2>2
    <3>1. /\ queue' # <<>> /\ Len(queue) \in Nat /\ DOMAIN queue = 1 .. Len(queue)
          /\ DOMAIN queue' = 1 .. Len(queue) + 1 /\ Len(queue') = Len(queue) + 1
          /\ queue'[Len(queue')] = FinalUpdate
          /\ \A i \in DOMAIN queue : queue'[i] = queue[i]
      BY <1>3, <1>4, <3>0, QueueAppend
    <3>2. lead = NoRow => queue'[1] = Creation
      <4> SUFFICES ASSUME lead = NoRow PROVE queue'[1] = Creation
        OBVIOUS
      <4>1. queue # <<>> /\ queue[1] = Creation
        BY <1>1 DEF Inv, RowInv
      <4>2. 1 \in DOMAIN queue
        BY <1>4, <4>1
      <4> QED BY <3>1, <4>1, <4>2
    <3>3. \A i \in DOMAIN queue' : lead # NoRow \/ i > 1 => queue'[i] # Creation
      <4> SUFFICES ASSUME NEW i \in DOMAIN queue', lead # NoRow \/ i > 1 PROVE queue'[i] # Creation
        OBVIOUS
      <4>1. CASE i \in DOMAIN queue
        BY <3>1, <4>1 DEF Inv, RowInv
      <4>2. CASE i = Len(queue) + 1
        BY <1>3, <3>1, <4>2
      <4> QED BY <3>1, <4>1, <4>2
    <3> QED BY <1>1, <1>3, <3>1, <3>2, <3>3 DEF RowInv
  <2> QED BY <1>2, <2>1, <2>2
<1> QED BY <1>5, <1>6, <1>7, <1>8, <1>9, <1>10 DEF Inv

\* What a LeadUpdate makes of the row, and what the final update of a sale does.
LEMMA UpdatedFacts ==
    ASSUME lead \in Rows \cup {NoRow}, NEW u \in Tasks, u # Creation
    PROVE  /\ Updated(u) \in Rows \cup {NoRow} /\ (Updated(u) = NoRow <=> lead = NoRow)
           /\ lead # NoRow /\ u.campaign # NoCampaign =>
                Updated(u) = [status |-> u.status, campaign |-> u.campaign, postId |-> u.postId]
<1>1. /\ u.status \in RowStatuses /\ u.postId \in BOOLEAN
      /\ u.campaign \in Campaigns \cup {NoCampaign}
  BY TaskFacts
<1>2. CASE lead = NoRow
  BY <1>2 DEF Updated
<1>3. CASE lead # NoRow
  <2>1. lead \in Rows /\ lead.campaign \in Campaigns \cup {Assigned}
    BY <1>3 DEF Rows
  <2>2. Updated(u) = [status |-> u.status, postId |-> u.postId,
                      campaign |-> IF u.campaign = NoCampaign THEN lead.campaign ELSE u.campaign]
    BY <1>3 DEF Updated
  <2>3. (IF u.campaign = NoCampaign THEN lead.campaign ELSE u.campaign) \in Campaigns \cup {Assigned}
    BY <1>1, <2>1
  <2>4. Updated(u) \in Rows
    BY <1>1, <2>2, <2>3 DEF Rows
  <2> QED BY <1>3, <2>2, <2>4, RowsAreRows
<1> QED BY <1>2, <1>3

\* The tasks of a queue that has one.
LEMMA QueueTail ==
    ASSUME queue \in Seq(Tasks), queue # <<>>, queue' = Tail(queue)
    PROVE  /\ queue' \in Seq(Tasks) /\ Len(queue) \in Nat \ {0} /\ Len(queue') = Len(queue) - 1
           /\ Head(queue) = queue[1] /\ queue[1] \in Tasks
           /\ DOMAIN queue = 1 .. Len(queue) /\ DOMAIN queue' = 1 .. Len(queue) - 1
           /\ \A i \in DOMAIN queue' : i + 1 \in DOMAIN queue /\ i + 1 > 1 /\ queue'[i] = queue[i + 1]
           /\ Len(queue) = 1 => queue' = <<>>
           /\ Len(queue) # 1 => queue' # <<>> /\ queue'[Len(queue')] = queue[Len(queue)]
<1>1. /\ queue' \in Seq(Tasks) /\ Len(queue) \in Nat \ {0} /\ Len(queue') = Len(queue) - 1
      /\ Head(queue) = queue[1] /\ queue[1] \in Tasks
      /\ DOMAIN queue = 1 .. Len(queue) /\ DOMAIN queue' = 1 .. Len(queue) - 1
  OBVIOUS
<1>2. ASSUME NEW i \in DOMAIN queue'
      PROVE  i + 1 \in DOMAIN queue /\ i + 1 > 1 /\ queue'[i] = queue[i + 1]
  BY <1>1
<1>3. Len(queue) = 1 => queue' = <<>>
  BY <1>1
<1>4. Len(queue) # 1 => queue' # <<>> /\ queue'[Len(queue')] = queue[Len(queue)]
  <2> SUFFICES ASSUME Len(queue) # 1 PROVE queue' # <<>> /\ queue'[Len(queue')] = queue[Len(queue)]
    OBVIOUS
  <2>1. Len(queue') \in DOMAIN queue' /\ Len(queue') + 1 = Len(queue)
    BY <1>1
  <2>2. queue' # <<>>
    <3>1. DOMAIN queue' # {}
      BY <2>1, Zenon
    <3>2. DOMAIN <<>> = {}
      OBVIOUS
    <3> QED BY <3>1, <3>2, Zenon
  <2> QED BY <1>2, <2>1, <2>2
<1> QED BY <1>1, <1>2, <1>3, <1>4

\* WriteNext: the creation comes first, the final update of a sale last.
LEMMA WriteNextStep == ASSUME Inv, WriteNext PROVE Inv'
<1>1. /\ queue # <<>> /\ queue' = Tail(queue) /\ phase' = phase /\ spawned' = spawned
      /\ lead' = (IF Head(queue).kind = "LeadCreation"
                  THEN [status |-> "Processing", campaign |-> Assigned, postId |-> FALSE]
                  ELSE Updated(Head(queue)))
      /\ strategy' = strategy /\ mode' = mode /\ priority' = priority /\ calls' = calls
      /\ results' = results /\ offer' = offer /\ said' = said /\ routing' = routing
      /\ stored' = stored
  BY DEF WriteNext, requestVars, routeVars
<1>2. queue \in Seq(Tasks) /\ lead \in Rows \cup {NoRow}
  BY DEF Inv, TypeInv
<1>3. /\ queue' \in Seq(Tasks) /\ Len(queue) \in Nat \ {0} /\ Len(queue') = Len(queue) - 1
      /\ Head(queue) = queue[1] /\ queue[1] \in Tasks
      /\ DOMAIN queue = 1 .. Len(queue) /\ DOMAIN queue' = 1 .. Len(queue) - 1
      /\ \A i \in DOMAIN queue' : i + 1 \in DOMAIN queue /\ i + 1 > 1 /\ queue'[i] = queue[i + 1]
      /\ Len(queue) = 1 => queue' = <<>>
      /\ Len(queue) # 1 => queue' # <<>> /\ queue'[Len(queue')] = queue[Len(queue)]
  BY <1>1, <1>2, QueueTail
<1>4. lead = NoRow => queue[1] = Creation
  <2>1. phase # "new"
    BY <1>1 DEF Inv, RowInv
  <2> QED BY <2>1 DEF Inv, RowInv
<1>5. lead' \in Rows
  <2>1. CASE queue[1] = Creation
    <3>1. lead' = [status |-> "Processing", campaign |-> Assigned, postId |-> FALSE]
      BY <1>1, <1>3, <2>1, TaskFacts
    <3> QED BY <3>1 DEF Rows, RowStatuses
  <2>2. CASE queue[1] # Creation
    <3>1. lead' = Updated(queue[1])
      BY <1>1, <1>3, <2>2, TaskFacts
    <3>2. Updated(queue[1]) \in Rows \cup {NoRow} /\ (Updated(queue[1]) = NoRow <=> lead = NoRow)
      BY <1>2, <1>3, <2>2, UpdatedFacts
    <3> QED BY <1>4, <2>2, <3>1, <3>2
  <2> QED BY <2>1, <2>2
<1>6. TypeInv' /\ RoutingInv'
  BY <1>1, <1>3, <1>5 DEF Inv, TypeInv, RoutingInv
<1>7. PhaseInv'
  BY <1>1 DEF Inv, PhaseInv
<1>8. ResultInv'
  <2>1. Responses' = Responses /\ ValidResponses' = ValidResponses /\ Best' = Best
    BY <1>1, DerivedFrame
  <2> QED BY <1>1, <2>1 DEF Inv, ResultInv
<1>9. StoredInv'
  BY <1>1 DEF Inv, StoredInv, AnswersOfSalesAreStored
<1>10. RowInv'
  <2>1. phase' # "new" /\ lead' # NoRow /\ (spawned' => phase' = "answered")
    BY <1>1, <1>5, RowsAreRows DEF Inv, RowInv
  <2>2. \A i \in DOMAIN queue' : queue'[i] # Creation
    BY <1>3 DEF Inv, RowInv
  <2>3. ASSUME phase' = "answered", mode' = "sync", FinalStatus(routing') = "Sold",
               routing'.campaign # NoCampaign
        PROVE  \/ queue' # <<>> /\ queue'[Len(queue')] = FinalUpdate'
               \/ queue' = <<>> /\ lead' = FinalRow'
    <3>1. queue[Len(queue)] = FinalUpdate /\ FinalUpdate' = FinalUpdate /\ FinalRow' = FinalRow
      BY <1>1, <2>3 DEF Inv, RowInv, FinalUpdate, FinalRow
    <3>2. CASE Len(queue) # 1
      BY <1>3, <3>1, <3>2
    <3>3. CASE Len(queue) = 1
      <4>1. queue[1] = FinalUpdate /\ queue[1] # Creation /\ queue' = <<>>
        BY <1>3, <3>1, <3>3, FinalUpdateFacts DEF Inv
      <4>2. lead # NoRow /\ lead' = Updated(FinalUpdate)
        BY <1>1, <1>3, <1>4, <4>1, TaskFacts
      <4>3. /\ FinalUpdate \in Tasks /\ FinalUpdate # Creation /\ FinalUpdate.status = "Sold"
            /\ FinalUpdate.campaign = routing.campaign /\ FinalUpdate.postId = routing.postId
            /\ FinalUpdate.campaign # NoCampaign
        BY <1>1, <2>3, FinalUpdateFacts DEF Inv
      <4>4. Updated(FinalUpdate) = [status |-> FinalUpdate.status, campaign |-> FinalUpdate.campaign,
                                    postId |-> FinalUpdate.postId]
        BY <1>2, <4>2, <4>3, UpdatedFacts
      <4>5. lead' = FinalRow
        BY <4>2, <4>3, <4>4 DEF FinalRow
      <4> QED BY <3>1, <4>1, <4>5
    <3> QED BY <3>2, <3>3
  <2> QED BY <2>1, <2>2, <2>3 DEF RowInv
<1> QED BY <1>6, <1>7, <1>8, <1>9, <1>10 DEF Inv

\* SpawnedUpdate writes what the final update writes, earlier or later.
LEMMA SpawnedUpdateStep == ASSUME Inv, SpawnedUpdate PROVE Inv'
<1>1. /\ spawned /\ spawned' = FALSE /\ lead' \in {lead, Updated(FinalUpdate)}
      /\ queue' = queue /\ phase' = phase
      /\ strategy' = strategy /\ mode' = mode /\ priority' = priority /\ calls' = calls
      /\ results' = results /\ offer' = offer /\ said' = said /\ routing' = routing
      /\ stored' = stored
  BY DEF SpawnedUpdate, requestVars, routeVars
<1>2. lead \in Rows \cup {NoRow}
  BY DEF Inv, TypeInv
<1>3. /\ FinalUpdate \in Tasks /\ FinalUpdate # Creation
      /\ FinalUpdate.status = FinalStatus(routing) /\ FinalUpdate.campaign = routing.campaign
      /\ FinalUpdate.postId = routing.postId
  BY FinalUpdateFacts DEF Inv
<1>4. lead' \in Rows \cup {NoRow} /\ (lead' = NoRow <=> lead = NoRow)
  BY <1>1, <1>2, <1>3, UpdatedFacts
<1>5. TypeInv' /\ RoutingInv'
  BY <1>1, <1>4 DEF Inv, TypeInv, RoutingInv
<1>6. PhaseInv'
  BY <1>1 DEF Inv, PhaseInv
<1>7. ResultInv'
  <2>1. Responses' = Responses /\ ValidResponses' = ValidResponses /\ Best' = Best
    BY <1>1, DerivedFrame
  <2> QED BY <1>1, <2>1 DEF Inv, ResultInv
<1>8. StoredInv'
  BY <1>1 DEF Inv, StoredInv, AnswersOfSalesAreStored
<1>9. RowInv'
  <2>1. ASSUME FinalStatus(routing) = "Sold", routing.campaign # NoCampaign, lead = FinalRow
        PROVE  lead' = FinalRow
    <3>1. lead # NoRow
      <4>1. "campaign" \in DOMAIN FinalRow /\ "campaign" \notin DOMAIN NoRow
        BY DEF FinalRow, NoRow
      <4> QED BY <2>1, <4>1
    <3>2. Updated(FinalUpdate) = [status |-> FinalUpdate.status, campaign |-> FinalUpdate.campaign,
                                  postId |-> FinalUpdate.postId]
      BY <1>2, <1>3, <2>1, <3>1, UpdatedFacts
    <3>3. Updated(FinalUpdate) = FinalRow
      BY <1>3, <2>1, <3>2 DEF FinalRow
    <3> QED BY <1>1, <2>1, <3>3
  <2>2. FinalUpdate' = FinalUpdate /\ FinalRow' = FinalRow
    BY <1>1 DEF FinalUpdate, FinalRow
  <2>3. phase' # "new"
    BY <1>1 DEF Inv, RowInv
  <2> QED BY <1>1, <1>4, <2>1, <2>2, <2>3 DEF Inv, RowInv
<1> QED BY <1>5, <1>6, <1>7, <1>8, <1>9 DEF Inv

\* The inductive invariant holds throughout.
LEMMA InvHolds == Spec => []Inv
<1>1. Init => Inv
  BY InitInv
<1>2. Inv /\ [Next]_vars => Inv'
  <2> SUFFICES ASSUME Inv, [Next]_vars PROVE Inv'
    OBVIOUS
  <2>1. CASE Submit
    BY <2>1, SubmitStep
  <2>2. CASE NotRoutable \/ PingFails \/ PingWins
    BY <2>2, NotRoutableStep, PingFailsStep, PingWinsStep
  <2>3. CASE BuyerReplies \/ FinishPost \/ PostCallFails
    BY <2>3, BuyerRepliesStep, FinishPostStep, PostCallFailsStep
  <2>4. ASSUME NEW c \in Campaigns, BuyerAnswers(c) \/ BuyerCallFails(c) PROVE Inv'
    <3>1. CASE BuyerAnswers(c)
      <4>1. PICK resp \in Answers(FALSE) : CallReturns(c, resp, FALSE)
        BY <3>1 DEF BuyerAnswers
      <4>2. resp \in CallResponses /\ FALSE \in BOOLEAN
        BY DEF CallResponses
      <4> QED BY <4>1, <4>2, CallReturnsStep
    <3>2. CASE BuyerCallFails(c)
      <4>1. ErrorResponse \in CallResponses /\ TRUE \in BOOLEAN
        BY DEF CallResponses
      <4>2. CallReturns(c, ErrorResponse, TRUE)
        BY <3>2 DEF BuyerCallFails
      <4> QED BY <4>1, <4>2, CallReturnsStep
    <3> QED BY <2>4, <3>1, <3>2
  <2>5. CASE NoBuyer \/ SellToBest \/ RouterFails
    BY <2>5, NoBuyerStep, SellToBestStep, RouterFailsStep
  <2>6. CASE Answer \/ WriteNext \/ SpawnedUpdate
    BY <2>6, AnswerStep, WriteNextStep, SpawnedUpdateStep
  <2>7. CASE UNCHANGED vars
    <3>1. /\ strategy' = strategy /\ mode' = mode /\ priority' = priority /\ calls' = calls
          /\ results' = results /\ offer' = offer /\ said' = said /\ routing' = routing
          /\ stored' = stored /\ phase' = phase /\ queue' = queue /\ lead' = lead /\ spawned' = spawned
      BY <2>7 DEF vars, requestVars, routeVars, leadVars
    <3>2. Responses' = Responses /\ ValidResponses' = ValidResponses /\ Best' = Best
      BY <3>1, DerivedFrame
    <3>3. TypeInv' /\ RoutingInv'
      BY <3>1 DEF Inv, TypeInv, RoutingInv
    <3>a. PhaseInv'
      BY <3>1 DEF Inv, PhaseInv
    <3>b. StoredInv'
      BY <3>1 DEF Inv, StoredInv, AnswersOfSalesAreStored
    <3>4. ResultInv'
      BY <3>1, <3>2 DEF Inv, ResultInv
    <3>5. RowInv'
      BY <3>1 DEF Inv, RowInv, FinalUpdate, FinalRow
    <3> QED BY <3>3, <3>a, <3>b, <3>4, <3>5 DEF Inv
  <2> QED BY <2>1, <2>2, <2>3, <2>4, <2>5, <2>6, <2>7 DEF Next, Route
<1> QED BY <1>1, <1>2, PTL DEF Spec

-----------------------------------------------------------------------------
(* What is proved of the request.                                           *)

\* A sale to the best buyer of a direct fullpost makes the lead sold for the rest of
\* the request.
LEMMA AcceptedIsFinal ==
    ASSUME Inv, phase = "answered", Accepted
    PROVE  FinalStatus(routing) = "Sold" /\ routing.campaign # NoCampaign
<1>1. CASE said # NoResponse /\ PostAccepted(said)
  BY <1>1 DEF Inv, ResultInv
<1>2. CASE \E i \in DOMAIN results : ~results[i].failed /\ ValidFullpost(results[i].resp)
  <2>1. ValidResponses # {}
    BY <1>2 DEF ValidResponses, Responses
  <2>2. results # <<>>
    BY <2>1, NoResults
  <2>3. strategy = "fullpost" /\ said = NoResponse
    BY <2>2 DEF Inv, PhaseInv, TypeInv
  <2>4. routing = Routing(TRUE, "sold", Best.resp.postId, Best.resp.price, Best.campaign)
    BY <2>1, <2>3 DEF Inv, ResultInv
  <2>5. Best.campaign \in Campaigns /\ Best.resp.price > 0
    BY <2>1, BestFacts DEF Inv, ValidFullpost
  <2>6. /\ routing.success = TRUE /\ routing.status = "sold" /\ routing.price = Best.resp.price
        /\ routing.campaign = Best.campaign
    BY <2>4 DEF Routing
  <2>7. routing.campaign # NoCampaign
    BY <2>5, <2>6, FullpostAssumption DEF Campaigns, NoCampaign
  <2> QED BY <2>5, <2>6, <2>7 DEF FinalStatus
<1> QED BY <1>1, <1>2 DEF Accepted

\* SoldAtHighestPrice follows from the invariant.
LEMMA InvSoldAtHighestPrice == ASSUME Inv PROVE SoldAtHighestPrice
<1> SUFFICES ASSUME strategy = "fullpost", routing.success, NEW i \in DOMAIN results,
                    ~results[i].failed, ValidFullpost(results[i].resp)
             PROVE  results[i].resp.price <= routing.price
  BY DEF SoldAtHighestPrice
<1>1. i \in ValidResponses
  BY DEF ValidResponses, Responses
<1>2. phase \in {"routed", "answered"}
  <2>1. NoRouting.success = FALSE
    BY DEF NoRouting, Routing
  <2> QED BY <2>1 DEF Inv, PhaseInv
<1>3. said = NoResponse
  BY DEF Inv, PhaseInv
<1>4. routing = Routing(TRUE, "sold", Best.resp.postId, Best.resp.price, Best.campaign)
  BY <1>1, <1>2, <1>3 DEF Inv, ResultInv
<1>5. routing.price = Best.resp.price
  BY <1>4 DEF Routing
<1> QED BY <1>1, <1>5, BestFacts DEF Inv

\* SaleIsRecorded follows from the invariant.
LEMMA InvSaleIsRecorded == ASSUME Inv PROVE SaleIsRecorded
<1> SUFFICES ASSUME mode = "sync", Settled, Accepted
             PROVE  lead = [status |-> "Sold", campaign |-> routing.campaign, postId |-> routing.postId]
  BY DEF SaleIsRecorded
<1>1. phase = "answered" /\ queue = <<>>
  BY DEF Settled
<1>2. FinalStatus(routing) = "Sold" /\ routing.campaign # NoCampaign
  BY <1>1, AcceptedIsFinal
<1>3. lead = FinalRow
  BY <1>1, <1>2 DEF Inv, RowInv
<1> QED BY <1>3 DEF FinalRow

\* The module's TypeOK follows from the invariant.
LEMMA InvTypeOK == ASSUME Inv PROVE TypeOK
BY DEF Inv, TypeInv, PhaseInv, RoutingInv, TypeOK, Rows

\* The state of the request and the row of the lead keep their types.
THEOREM FullpostTypes == Spec => []TypeOK
BY InvHolds, InvTypeOK, PTL

\* However the answers arrive, a direct fullpost is sold for the highest price offered.
THEOREM SoldAtTheHighestPrice == Spec => []SoldAtHighestPrice
BY InvHolds, InvSoldAtHighestPrice, PTL

\* The answers that led to a sale, and every answer to a post, are enqueued once.
THEOREM AnswersOfSalesGetStored == Spec => []AnswersOfSalesAreStored
<1>1. Inv => AnswersOfSalesAreStored
  BY DEF Inv, StoredInv
<1> QED BY <1>1, InvHolds, PTL

\* The lead of an accepted synchronous request ends as sold, under the campaign and
\* with the post_id of the result, in whatever order its four writers run.
THEOREM SalesAreRecorded == Spec => []SaleIsRecorded
BY InvHolds, InvSaleIsRecorded, PTL
=============================================================================
