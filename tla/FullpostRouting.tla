--------------------------- MODULE FullpostRouting ---------------------------
(***************************************************************************)
(* One fullpost request: route_fullpost and route_post of                   *)
(* crates/core/src/services/ping_tree_router.rs, and what create_lead in    *)
(* crates/api/src/routes/leads.rs makes of the routing result.              *)
(*                                                                         *)
(* A ping tree with strategy "ping_post" splits the request into a ping     *)
(* auction (module PingAuction, abstracted here to its result) and a post   *)
(* to the winner.  Any other strategy sends the whole lead to all campaigns *)
(* at once and sells it for the highest price.  The row of the lead is      *)
(* written by the router, by a detached update and by the write-behind      *)
(* queue, which may not even have created it yet.                           *)
(*                                                                         *)
(* Campaigns are numbered in the order in which they are launched.          *)
(***************************************************************************)
EXTENDS AuctionRules

CONSTANTS
    NumCampaigns,  \* active campaigns of the ping tree
    Strategies,    \* strategies of the ping tree: subset of {"ping_post", "fullpost"}
    Modes,         \* how the request may be submitted: subset of {"sync", "async"}
    Buyers,        \* kinds of buyers: subset of {"internal", "external"}
    Prices,        \* amounts a buyer may offer
    Faults         \* TRUE: the router's database calls may fail

ASSUME FullpostAssumption ==
    /\ NumCampaigns \in Nat \ {0}
    /\ Strategies \subseteq {"ping_post", "fullpost"} /\ Strategies # {}
    /\ Modes \subseteq {"sync", "async"} /\ Modes # {}
    /\ Buyers \subseteq {"internal", "external"} /\ Buyers # {}
    /\ Prices \subseteq Nat \ {0} /\ Faults \in BOOLEAN

VARIABLES
    strategy,  \* the ping tree's strategy
    mode,      \* synchronous or asynchronous request
    priority,  \* priority_map
    phase,     \* "new", "pinging", "posting", "replied", "calling", "routed", "answered", "failed"
    calls,     \* fullpost calls in flight
    results,   \* results of the fullpost calls, in completion order
    offer,     \* campaign and bid of the ping auction's winner
    said,      \* what the winner's buyer said to the post
    routing,   \* the RoutingResult
    stored,    \* BuyerResponse tasks enqueued: the payloads of each loop, by position
    queue,     \* LeadCreation and LeadUpdate tasks of this lead, in order
    lead,      \* the leads row, or NoRow
    spawned    \* the detached "sold" update has not run yet

leadVars == <<queue, lead, spawned>>
requestVars == <<strategy, mode, priority>>
routeVars == <<calls, results, offer, said, routing, stored>>
vars == <<requestVars, phase, routeVars, leadVars>>

Campaigns == 1..NumCampaigns
Assigned == 0    \* the campaign the pre-checks put into the row
NoRow == [status |-> "no row"]
NoOffer == [campaign |-> NoCampaign]
NoResponse == [status |-> "none"]
NoRouting == Routing(FALSE, "none", FALSE, NoAmount, NoCampaign)

Creation == [kind |-> "LeadCreation"]
LeadUpdate(status, campaign, postId) ==
    [kind |-> "LeadUpdate", status |-> status, campaign |-> campaign, postId |-> postId]

Init ==
    /\ strategy \in Strategies /\ mode \in Modes
    /\ priority \in [Campaigns -> {1, NoPriority}]
    /\ phase = "new" /\ calls = {} /\ results = <<>>
    /\ offer = NoOffer /\ said = NoResponse /\ routing = NoRouting /\ stored = <<>>
    /\ queue = <<>> /\ lead = NoRow /\ spawned = FALSE

-----------------------------------------------------------------------------
(* Buyers, as BuyerRouter reports them.                                     *)

\* Pulsar, asked directly: sold with a post_id, or rejected.
InternalAnswers ==
    {Response(TRUE, "sold", NoAmount, p, TRUE, TRUE) : p \in Prices}
      \cup {Response(FALSE, "rejected", NoAmount, NoAmount, TRUE, FALSE)}

\* parse_buyer_response: a post without post_id gets a generated one, whatever the
\* answer was; a fullpost does not.
ExternalAnswers(generated) ==
    {Response(TRUE, "accepted", NoAmount, p, FALSE, generated) : p \in Prices}
      \cup {Response(TRUE, "accepted", NoAmount, NoAmount, FALSE, generated),
            Response(FALSE, "rejected", NoAmount, NoAmount, FALSE, generated),
            Response(FALSE, "timeout", NoAmount, NoAmount, FALSE, generated)}

Answers(generated) ==
    (IF "internal" \in Buyers THEN InternalAnswers ELSE {})
      \cup (IF "external" \in Buyers THEN ExternalAnswers(generated) ELSE {})

-----------------------------------------------------------------------------
(* The request.                                                             *)

\* create_lead enqueues the LeadCreation and calls the router.
Submit ==
    /\ phase = "new"
    /\ queue' = Append(queue, Creation)
    /\ phase' = IF strategy = "ping_post" THEN "pinging" ELSE "calling"
    /\ calls' = IF strategy = "ping_post" THEN {} ELSE Campaigns
    /\ UNCHANGED <<requestVars, results, offer, said, routing, stored, lead, spawned>>

\* update_lead_status; the lead object of a fullpost is always still Processing.
UpdateLeadStatus(status) ==
    lead' = IF lead = NoRow THEN lead ELSE [lead EXCEPT !.status = status]

Failure(status) == Routing(FALSE, status, FALSE, NoAmount, NoCampaign)

\* route() finds no ping tree, or no active campaign in it, and calls nobody.
NotRoutable ==
    /\ phase \in {"pinging", "calling"} /\ results = <<>>
    /\ UpdateLeadStatus("error")
    /\ routing' = Failure("error")
    /\ phase' = "routed"
    /\ calls' = {}
    /\ UNCHANGED <<requestVars, results, offer, said, stored, queue, spawned>>

\* The ping auction has no winner: its result is the result of the request.
PingFails ==
    /\ phase = "pinging"
    /\ \E status \in {"rejected", "timeout", "error"} :
         UpdateLeadStatus(status) /\ routing' = Failure(status)
    /\ phase' = "routed"
    /\ UNCHANGED <<requestVars, calls, results, offer, said, stored, queue, spawned>>

\* The ping auction has a winner, and has enqueued its update.
PingWins ==
    /\ phase = "pinging"
    /\ \E c \in Campaigns, b \in Prices :
         /\ offer' = [campaign |-> c, bid |-> b]
         /\ queue' = Append(queue, LeadUpdate("PingAccepted", c, FALSE))
    /\ phase' = "posting"
    /\ UNCHANGED <<requestVars, calls, results, said, routing, stored, lead, spawned>>

-----------------------------------------------------------------------------
(* route_post, for the winner's campaign.                                   *)

\* The buyer answers and its response is enqueued, valid or not.  The lead object
\* holds no winning_bid, so an internal buyer draws its price.
BuyerReplies ==
    /\ phase = "posting"
    /\ said' \in Answers(TRUE)
    /\ stored' = Append(stored, <<said'>>)
    /\ phase' = "replied"
    /\ UNCHANGED <<requestVars, calls, results, offer, routing, leadVars>>

\* The routing result of a post that the buyer answered.
PostRouting(resp) ==
    IF PostAccepted(resp) THEN Routing(TRUE, "sold", TRUE, resp.price, offer.campaign)
    ELSE Routing(FALSE, IF resp.status \in {"rejected", "timeout"} THEN resp.status ELSE "error",
                 resp.postId, resp.price, offer.campaign)

\* The merge of a successful ping with the result p of the post.
Merged(p) ==
    Routing(p.success \/ p.postId,
            IF p.success /\ p.postId /\ p.price # NoAmount THEN "sold" ELSE "ping_accepted",
            p.postId, Or(p.price, offer.bid), p.campaign)

\* The outcome of the post is written to the row, and the results are merged.
FinishPost ==
    /\ phase = "replied"
    /\ \/ /\ PostAccepted(said)
          /\ lead' = IF lead = NoRow THEN lead ELSE [lead EXCEPT !.status = "Sold", !.postId = TRUE]
       \/ /\ ~PostAccepted(said)
          /\ UpdateLeadStatus(PostRouting(said).status)
    /\ routing' = Merged(PostRouting(said))
    /\ phase' = "routed"
    /\ UNCHANGED <<requestVars, calls, results, offer, said, stored, queue, spawned>>

\* The call to the buyer fails.
PostCallFails ==
    /\ phase = "posting"
    /\ UpdateLeadStatus("error")
    /\ routing' = Merged(Routing(FALSE, "error", FALSE, NoAmount, offer.campaign))
    /\ phase' = "routed"
    /\ UNCHANGED <<requestVars, calls, results, offer, said, stored, queue, spawned>>

-----------------------------------------------------------------------------
(* Direct fullpost.                                                         *)

\* A call returns; the result does not say which campaign it belongs to (from is
\* not seen by the code).
CallReturns(c, resp, failed) ==
    /\ c \in calls
    /\ calls' = calls \ {c}
    /\ results' = Append(results, [from |-> c, resp |-> resp, failed |-> failed])
    /\ UNCHANGED <<requestVars, phase, offer, said, routing, stored, leadVars>>

BuyerAnswers(c) == \E resp \in Answers(FALSE) : CallReturns(c, resp, FALSE)

BuyerCallFails(c) == CallReturns(c, ErrorResponse, TRUE)

\* Results in completion order are zipped with campaigns in launch order.
Zipped == [i \in DOMAIN results |-> [campaign |-> i, resp |-> results[i].resp, priority |-> priority[i]]]

\* The failed calls are left out.
Responses == {i \in DOMAIN results : ~results[i].failed}

ValidResponses == {i \in Responses : ValidFullpost(results[i].resp)}

\* Mutant: the results of failed calls are waited for.
CollectedAllAnswered == phase = "calling" /\ Cardinality(Responses) = NumCampaigns

\* FuturesUnordered is exhausted.
Collected == phase = "calling" /\ calls = {}

\* The lead status when no response is valid: also "timeout" when there is none.
FullpostStatus ==
    IF \A i \in Responses : results[i].resp.status = "timeout" THEN "timeout"
    ELSE IF \E i \in Responses : ~results[i].resp.success /\ results[i].resp.status # "timeout" THEN "rejected"
    ELSE "error"

\* No response is valid: the status is written, no response is enqueued.
NoBuyer ==
    /\ Collected
    /\ ValidResponses = {}
    /\ UpdateLeadStatus(FullpostStatus)
    /\ routing' = Failure(FullpostStatus)
    /\ phase' = "routed"
    /\ UNCHANGED <<requestVars, calls, results, offer, said, stored, queue, spawned>>

\* Mutant: the sort is ascending.
BestLowest == Zipped[SortedFirst(Zipped, [i \in DOMAIN results |-> -results[i].resp.price], ValidResponses)]

\* sorted.first(): highest price, then lowest priority, then first to complete.
Best == Zipped[SortedFirst(Zipped, OfferedPrices(Zipped), ValidResponses)]

\* Mutant: only the winner's response is enqueued.
PayloadsWinner == <<Best.resp>>

\* The responses that are enqueued after the sale, one after the other.
Payloads == [i \in Responses |-> results[i].resp]

\* The row is updated to sold and the responses are enqueued.
SellToBest ==
    /\ Collected
    /\ ValidResponses # {}
    /\ lead' = IF lead = NoRow THEN lead
               ELSE [lead EXCEPT !.status = "Sold", !.campaign = Best.campaign, !.postId = Best.resp.postId]
    /\ stored' = Append(stored, Payloads)
    /\ routing' = Routing(TRUE, "sold", Best.resp.postId, Best.resp.price, Best.campaign)
    /\ phase' = "routed"
    /\ UNCHANGED <<requestVars, calls, results, offer, said, queue, spawned>>

\* The router's write to the row fails: the request ends with an error.
RouterFails ==
    /\ Faults
    /\ phase \in {"pinging", "posting", "replied"} \/ Collected
    /\ phase' = "failed"
    /\ UNCHANGED <<requestVars, routeVars, leadVars>>

-----------------------------------------------------------------------------
(* The end of the request and the writers of the row.                       *)

\* The LeadUpdate of create_lead.
FinalUpdate == LeadUpdate(FinalStatus(routing), routing.campaign, routing.postId)

\* Mutant: a sold lead is left to the detached update.
AnswerSpawnedOnly ==
    /\ phase = "routed"
    /\ phase' = "answered"
    /\ spawned' = (FinalStatus(routing) = "Sold")
    /\ queue' = IF FinalStatus(routing) = "Sold" THEN queue ELSE Append(queue, FinalUpdate)
    /\ UNCHANGED <<requestVars, routeVars, lead>>

\* create_lead determines the final status and enqueues it; a sold lead is also
\* updated by a detached task.  An asynchronous request drops the routing result.
Answer ==
    /\ phase = "routed"
    /\ phase' = "answered"
    /\ \/ /\ mode = "sync"
          /\ spawned' = (FinalStatus(routing) = "Sold")
          /\ queue' = Append(queue, FinalUpdate)
       \/ /\ mode = "async"
          /\ UNCHANGED <<queue, spawned>>
    /\ UNCHANGED <<requestVars, routeVars, lead>>

\* What a LeadUpdate makes of the row.
Updated(u) ==
    IF lead = NoRow THEN lead
    ELSE [status |-> u.status, postId |-> u.postId,
          campaign |-> IF u.campaign = NoCampaign THEN lead.campaign ELSE u.campaign]

\* The write-behind queue writes the next task of this lead.
WriteNext ==
    /\ queue # <<>>
    /\ lead' = IF Head(queue).kind = "LeadCreation"
               THEN [status |-> "Processing", campaign |-> Assigned, postId |-> FALSE]
               ELSE Updated(Head(queue))
    /\ queue' = Tail(queue)
    /\ UNCHANGED <<requestVars, phase, routeVars, spawned>>

\* The detached update ran, or its two seconds passed.
SpawnedUpdate ==
    /\ spawned
    /\ spawned' = FALSE
    /\ lead' \in {lead, Updated(FinalUpdate)}
    /\ UNCHANGED <<requestVars, phase, routeVars, queue>>

Route ==
    \/ NotRoutable \/ PingFails \/ PingWins \/ BuyerReplies \/ FinishPost \/ PostCallFails
    \/ \E c \in Campaigns : BuyerAnswers(c) \/ BuyerCallFails(c)
    \/ NoBuyer \/ SellToBest \/ RouterFails

Next == Submit \/ Route \/ Answer \/ WriteNext \/ SpawnedUpdate

Spec == Init /\ [][Next]_vars

\* A submitted request runs on: buyer calls are cut off by the client's timeout, and
\* the queue and the detached task are scheduled.
FairSpec ==
    /\ Spec
    /\ WF_vars(Route) /\ WF_vars(Answer) /\ WF_vars(WriteNext) /\ WF_vars(SpawnedUpdate)

-----------------------------------------------------------------------------
(* Properties.                                                              *)

Amounts == Prices \cup {NoAmount}
RowStatuses == {"Processing", "PingAccepted", "Sold", "rejected", "timeout", "error"}

\* Types of the request's state and of the lead's row.
TypeOK ==
    /\ phase \in {"new", "pinging", "posting", "replied", "calling", "routed", "answered", "failed"}
    /\ calls \subseteq Campaigns /\ Len(results) + Cardinality(calls) <= NumCampaigns
    /\ \/ lead = NoRow
       \/ lead \in [status : RowStatuses, campaign : Campaigns \cup {Assigned}, postId : BOOLEAN]
    /\ routing.price \in Amounts /\ spawned \in BOOLEAN

\* The buyer the lead was offered to has bought it: it accepted the post, or some
\* buyer of a direct fullpost answered with a price.
Accepted ==
    \/ said # NoResponse /\ PostAccepted(said)
    \/ \E i \in DOMAIN results : ~results[i].failed /\ ValidFullpost(results[i].resp)

Settled == phase = "answered" /\ queue = <<>> /\ ~spawned

\* A direct fullpost is sold for the highest price that any buyer offered, however
\* the answers arrived.
SoldAtHighestPrice ==
    strategy = "fullpost" /\ routing.success =>
        \A i \in DOMAIN results :
            ~results[i].failed /\ ValidFullpost(results[i].resp) => results[i].resp.price <= routing.price

\* The answers that led to a sale, and every answer to a post, are handed to the
\* queue for persistence, none twice.
AnswersOfSalesAreStored ==
    phase \in {"routed", "answered"} =>
        LET answered == {i \in DOMAIN results : ~results[i].failed}
        IN stored = IF said # NoResponse THEN << <<said>> >>
                    ELSE IF routing.success THEN << [i \in answered |-> results[i].resp] >>
                    ELSE <<>>

\* "Ensure sold leads are always marked as sold": when a synchronous request has been
\* answered and its writes have landed, in whatever order, a lead that a buyer
\* accepted is stored as sold, under the campaign and with the post_id of the result.
SaleIsRecorded ==
    mode = "sync" /\ Settled /\ Accepted =>
        lead = [status |-> "Sold", campaign |-> routing.campaign, postId |-> routing.postId]

\* A lead is never stored as sold unless a buyer accepted it: the merge comment says
\* "If ping succeeded but post failed, we should still have ping_accepted status".
OnlyAcceptedIsSold == lead # NoRow /\ lead.status = "Sold" => Accepted

\* The lead is sold to the campaign whose buyer offered the winning price.
SoldToTheBidder ==
    strategy = "fullpost" /\ routing.success =>
        \E i \in DOMAIN results :
            results[i].from = routing.campaign /\ results[i].resp.price = routing.price

\* Every submitted request is answered, with or without an error, and its writes land.
RequestSettles == (phase # "new") ~> (Settled \/ phase = "failed")
=============================================================================
