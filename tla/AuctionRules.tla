---------------------------- MODULE AuctionRules ----------------------------
(***************************************************************************)
(* The pure rules by which ping_tree_router.rs and routes/leads.rs turn     *)
(* buyer responses into a winner and into a lead status.                    *)
(*                                                                         *)
(* A BuyerResponse is a record; amounts are whole units with NoAmount for   *)
(* None, and the identifiers are abstracted to whether they are present.    *)
(***************************************************************************)
EXTENDS Integers, Sequences, FiniteSets

CONSTANT Epsilon   \* PRICE_EPSILON, in the units of the amounts
ASSUME EpsilonAssumption == Epsilon \in Nat \ {0}

NoAmount == -1
NoPriority == -1

Response(success, status, bid, price, promise, postId) ==
    [success |-> success, status |-> status, bid |-> bid, price |-> price,
     promise |-> promise, postId |-> postId]

\* What the router stores for a buyer whose call failed, and for one that was late.
ErrorResponse == Response(FALSE, "error", NoAmount, NoAmount, FALSE, FALSE)
TimeoutResponse == Response(FALSE, "timeout", NoAmount, NoAmount, FALSE, FALSE)

\* Option::or on amounts.
Or(a, b) == IF a = NoAmount THEN b ELSE a

-----------------------------------------------------------------------------
(* Ping auction.  An entry is a response with its campaign and priority.    *)

\* The filter for valid ping responses.
ValidPing(resp) == resp.success /\ resp.bid > 0 /\ resp.promise /\ resp.status # "timeout"

\* priority.unwrap_or(i32::MAX)
SortPriority(p) == IF p = NoPriority THEN 2147483647 ELSE p

\* The order of the sort: higher amount, then lower priority, then arrival.
Before(es, amount, i, j) ==
    LET p == SortPriority(es[i].priority)
        q == SortPriority(es[j].priority)
    IN \/ amount[i] > amount[j]
       \/ amount[i] = amount[j] /\ (p < q \/ (p = q /\ i < j))

\* sort_by and first(): which of the entries es[i], i in I, comes first; amount[i]
\* is the bid or the price of the i-th.
SortedFirst(es, amount, I) == CHOOSE i \in I : \A j \in I \ {i} : Before(es, amount, i, j)

OfferedBids(es) == [i \in DOMAIN es |-> es[i].resp.bid]
OfferedPrices(es) == [i \in DOMAIN es |-> es[i].resp.price]

\* The entries whose bid is within epsilon of the highest one.
Candidates(es, I) ==
    LET highest == es[SortedFirst(es, OfferedBids(es), I)].resp.bid
    IN {i \in I : highest - es[i].resp.bid < Epsilon}

\* min_by_key: the first, in the order of the sort, whose priority is least.
FirstByPriority(es, I) ==
    CHOOSE i \in I : \A j \in I \ {i} :
        \/ es[i].priority < es[j].priority
        \/ es[i].priority = es[j].priority /\ Before(es, OfferedBids(es), i, j)

\* Mutant: the highest priority number wins.
SelectWinnerLastPriority(es, I) ==
    LET ranked == {i \in Candidates(es, I) : es[i].priority # NoPriority}
    IN IF ranked # {} THEN {FirstByPriority([i \in DOMAIN es |-> [es[i] EXCEPT !.priority = -@]], ranked)}
       ELSE Candidates(es, I)

\* select_winner on the valid entries es[i], i in I, of which there are some: the
\* ones it may return, more than one when it draws at random.
SelectWinner(es, I) ==
    LET candidates == Candidates(es, I)
        ranked == {i \in candidates : es[i].priority # NoPriority}
    IN IF Cardinality(candidates) = 1 THEN candidates
       ELSE IF ranked # {} THEN {FirstByPriority(es, ranked)}
       ELSE candidates

\* Mutant: one timeout is enough to call the auction timed out.
NoWinnerStatusAnyTimeout(statuses) ==
    IF \E i \in DOMAIN statuses : statuses[i] = "timeout" THEN "timeout"
    ELSE IF \E i \in DOMAIN statuses : statuses[i] = "rejected" THEN "rejected"
    ELSE "error"

\* The lead status when no response is valid.
NoWinnerStatus(statuses) ==
    IF \A i \in DOMAIN statuses : statuses[i] = "timeout" THEN "timeout"
    ELSE IF \E i \in DOMAIN statuses : statuses[i] = "rejected" THEN "rejected"
    ELSE "error"

\* to_lowercase, on the status words of the model.
ToLowercase(status) == IF status = "Timeout" THEN "timeout" ELSE status

\* map_ping_status_to_lead_status, on the statuses of this model.
MapPingStatus(status, success) ==
    LET word == ToLowercase(status) IN
    CASE word \in {"rejected", "timeout", "error"} -> word
      [] word = "accepted" -> IF success THEN "accepted" ELSE "error"
      [] OTHER -> IF success THEN "ping_accepted" ELSE "error"

-----------------------------------------------------------------------------
(* Fullpost and the final status of a lead.                                 *)

\* The filter for valid responses of a direct fullpost.
ValidFullpost(resp) == resp.success /\ resp.price > 0 /\ resp.status # "timeout"

\* What route_post demands of the buyer's answer before the lead is sold.
PostAccepted(resp) == resp.success /\ resp.postId /\ resp.price > 0

\* A RoutingResult; campaign and buyer are always set or missing together.
Routing(success, status, postId, price, campaign) ==
    [success |-> success, status |-> status, postId |-> postId, price |-> price,
     campaign |-> campaign]
NoCampaign == 0

\* final_status of create_lead.
FinalStatus(r) ==
    IF r.success /\ r.price > 0 /\ (r.status = "sold" \/ r.postId \/ r.campaign # NoCampaign)
    THEN "Sold"
    ELSE IF r.success /\ r.status \in {"accepted", "ping_accepted"} THEN "PingAccepted"
    ELSE IF r.campaign # NoCampaign THEN "PingAccepted"
    ELSE "Processing"
=============================================================================
