--------------------------- MODULE LeadLifecycle ---------------------------
(***************************************************************************)
(* The life of one lead in the two-step flow: a ping request that auctions  *)
(* the lead, and the post requests by which the publisher sells it to the   *)
(* winner (create_lead in crates/api/src/routes/leads.rs, route_post and    *)
(* the lead updates of ping_tree_router.rs, batch_update_leads of           *)
(* write_behind_queue.rs).                                                  *)
(*                                                                         *)
(* The leads row is shared by four kinds of writers that nothing            *)
(* synchronises: the write-behind queue, the detached "sold" update a ping  *)
(* spawns, and each post request with its claim and with the router's own   *)
(* updates.  A post claims the lead by putting an in-progress token into an *)
(* empty post_id.                                                           *)
(*                                                                         *)
(* The queue is the FIFO that WriteBehindQueue shows it to be for the tasks *)
(* of one lead.  vertical_data is abstracted to whether it holds            *)
(* winning_bid, the campaign to "assigned" (by the pre-checks) or "winner". *)
(***************************************************************************)
EXTENDS Integers, Sequences, FiniteSets

CONSTANTS
    Posts,     \* the post requests for this lead
    Modes,     \* how the ping may be submitted: a subset of {"sync", "async"}
    Patient,   \* TRUE: the publisher posts only after the ping's writes have settled
    Faults     \* TRUE: database calls may fail or lose their answer

ASSUME ModesAssumption == Modes \subseteq {"sync", "async"} /\ Modes # {}
ASSUME FlagsAssumption == Patient \in BOOLEAN /\ Faults \in BOOLEAN

\* Values of leads.post_id.
Empty == <<"">>
Token(r) == <<"INPROG", r>>
RealId(r) == <<"post", r>>

NoToken == "no token"
NoRow == [status |-> "no row"]
Keep == "NULL"      \* the NULL that COALESCE passes over

ASSUME PostsAssumption == NoToken \notin Posts

VARIABLES
    row,      \* the leads row, or NoRow before the LeadCreation is written
    queue,    \* write-behind tasks of this lead, in order
    half,     \* the batcher is between the two statements of the head of the queue
    spawned,  \* the ping's detached "sold" update has not run yet
    ping,     \* the ping request: "new", "routing", "won", "lost" or "answered"
    mode,     \* how the ping was submitted
    told,     \* the promise the publisher holds
    cached,   \* per promise, the cached lead of the lookup by promise_id
    expired,  \* ten minutes have passed since the row was created
    post,     \* post[r]: where post request r is
    snap,     \* snap[r]: the lead that request r looked up
    sales,    \* post requests whose lead the buyer accepted
    faulted   \* some database call has failed or lost its answer

pingVars == <<ping, mode, told, spawned>>
postVars == <<post, snap, sales>>
vars == <<row, queue, half, pingVars, cached, expired, postVars, faulted>>

Statuses == {"Processing", "PingAccepted", "Sold", "Rejected", "Timeout", "Error"}
Promises == {"generated", "winner"}
PostIds == {Empty} \cup {Token(r) : r \in Posts} \cup {RealId(r) : r \in Posts}

Rows == [status : Statuses, campaign : {"assigned", "winner"}, promise : Promises,
         postId : PostIds, soldAt : BOOLEAN, bid : BOOLEAN]

\* A task for this lead: its creation, or a LeadUpdate.
Creation == [kind |-> "LeadCreation"]
LeadUpdate(status, campaign, promise, postId, soldAt, token, bid) ==
    [kind |-> "LeadUpdate", status |-> status, campaign |-> campaign, promise |-> promise,
     postId |-> postId, soldAt |-> soldAt, token |-> token, bid |-> bid]

Coalesce(v, old) == IF v = Keep THEN old ELSE v

Init ==
    /\ row = NoRow /\ queue = <<>> /\ half = FALSE /\ spawned = FALSE
    /\ ping = "new" /\ mode \in Modes /\ told = Keep
    /\ cached = [p \in Promises |-> NoRow] /\ expired = FALSE
    /\ post = [r \in Posts |-> "idle"] /\ snap = [r \in Posts |-> NoRow]
    /\ sales = {} /\ faulted = FALSE

-----------------------------------------------------------------------------
(* The ping request.                                                        *)

\* The handler generates a promise, enqueues the LeadCreation and routes; in
\* asynchronous mode it answers at once, with the generated promise.
SubmitPing ==
    /\ ping = "new"
    /\ ping' = "routing"
    /\ queue' = Append(queue, Creation)
    /\ told' = IF mode = "async" THEN "generated" ELSE told
    /\ UNCHANGED <<row, half, mode, spawned, cached, expired, postVars, faulted>>

\* route_ping_auction found a winner and enqueues the update with the winner's
\* campaign, its promise and winning_bid.  post_id is None, which the writer binds
\* as the empty string.
AuctionWon ==
    /\ ping = "routing"
    /\ queue' = Append(queue, LeadUpdate("PingAccepted", "winner", "winner", Empty, FALSE, NoToken, TRUE))
    /\ ping' = IF mode = "async" THEN "answered" ELSE "won"
    /\ UNCHANGED <<row, half, mode, told, spawned, cached, expired, postVars, faulted>>

\* update_lead_status, from a lead object with the given status and vertical_data.
UpdateLeadStatus(status, lead) ==
    row' = IF row # NoRow /\ lead.status = "Processing"
           THEN [row EXCEPT !.status = status, !.bid = lead.bid]
           ELSE row

\* No valid bid: the router writes the outcome to a row that may not exist yet.
AuctionLost ==
    /\ ping = "routing"
    /\ \E status \in {"Rejected", "Timeout", "Error"} :
         UpdateLeadStatus(status, [status |-> "Processing", bid |-> FALSE])
    /\ ping' = IF mode = "async" THEN "answered" ELSE "lost"
    /\ UNCHANGED <<queue, half, mode, told, spawned, cached, expired, postVars, faulted>>

\* Routing fails with an error: the request is answered, nothing is updated.
AuctionFailed ==
    /\ Faults /\ faulted' = TRUE
    /\ ping = "routing"
    /\ ping' = "answered"
    /\ UNCHANGED <<row, queue, half, mode, told, spawned, cached, expired, postVars>>

\* The final update of a won ping.  A winner with a positive price is stored as
\* sold, twice: by a detached update and through the queue.
FinalUpdate(status) ==
    LeadUpdate(status, "winner", "winner", Empty, status = "Sold", NoToken, FALSE)

AnswerWith(priced, promise) ==
    /\ ping = "won"
    /\ LET status == IF priced THEN "Sold" ELSE "PingAccepted" IN
         /\ queue' = Append(queue, FinalUpdate(status))
         /\ spawned' = (status = "Sold")
    /\ ping' = "answered"
    /\ told' = promise
    /\ UNCHANGED <<row, half, mode, cached, expired, postVars, faulted>>

\* Mutant: the publisher is told the promise the server generated.
AnswerPingGenerated(priced) == AnswerWith(priced, "generated")

\* final_status, the spawned update, the enqueued update, and the answer.
AnswerPing(priced) == AnswerWith(priced, "winner")

\* A lost ping is stored as processing, whatever the router wrote before.
AnswerLostPing ==
    /\ ping = "lost"
    /\ queue' = Append(queue, LeadUpdate("Processing", Keep, Keep, Empty, FALSE, NoToken, FALSE))
    /\ ping' = "answered"
    /\ UNCHANGED <<row, half, mode, told, spawned, cached, expired, postVars, faulted>>

-----------------------------------------------------------------------------
(* The statements that write the row.                                       *)

\* UPDATE leads ... sold_at = NOW(), vertical_data = the update's.
SoldStatement(u) ==
    [row EXCEPT !.status = u.status, !.campaign = Coalesce(u.campaign, @),
                !.promise = Coalesce(u.promise, @), !.postId = u.postId,
                !.soldAt = TRUE, !.bid = u.bid]

\* UPDATE leads ... vertical_data = vertical_data || the update's.
StandardStatement(u) ==
    [row EXCEPT !.status = u.status, !.campaign = Coalesce(u.campaign, @),
                !.promise = Coalesce(u.promise, @), !.postId = u.postId,
                !.bid = @ \/ u.bid]

\* The detached update ran, or its two seconds passed first.
SpawnedUpdate ==
    /\ spawned
    /\ spawned' = FALSE
    /\ row' \in {row} \cup (IF row = NoRow THEN {} ELSE {SoldStatement(FinalUpdate("Sold"))})
    /\ UNCHANGED <<queue, half, ping, mode, told, cached, expired, postVars, faulted>>

\* A statement of the queue makes the row new, or the database refuses it.
Statement(new) ==
    \/ row' = new /\ UNCHANGED faulted
    \/ Faults /\ faulted' = TRUE /\ UNCHANGED row

\* batch_create_leads inserts the row.
WriteCreation ==
    /\ queue # <<>>
    /\ Head(queue).kind = "LeadCreation"
    /\ Statement([status |-> "Processing", campaign |-> "assigned", promise |-> "generated",
                  postId |-> Empty, soldAt |-> FALSE, bid |-> FALSE])
    /\ queue' = Tail(queue)
    /\ UNCHANGED <<half, pingVars, cached, expired, postVars>>

ShouldUpdateAsSold(u) == u.status = "Sold" /\ (u.soldAt \/ u.campaign # Keep)

\* The token of an update, if it has one, is still in the row.
Matches(u) == row # NoRow /\ (u.token = NoToken \/ row.postId = Token(u.token))

\* batch_update_leads, first statement: only for a sold lead.
WriteSold ==
    /\ queue # <<>>
    /\ ~half
    /\ LET u == Head(queue) IN
         /\ u.kind = "LeadUpdate"
         /\ ShouldUpdateAsSold(u)
         /\ Statement(IF Matches(u) THEN SoldStatement(u) ELSE row)
    /\ half' = TRUE
    /\ UNCHANGED <<queue, pingVars, cached, expired, postVars>>

\* Mutants: the reset does not look at the token; the reset is forgotten.
SecondStatementAnyToken(u) ==
    IF row = NoRow THEN row
    ELSE IF u.token = NoToken THEN StandardStatement(u)
    ELSE [row EXCEPT !.postId = Empty]
SecondStatementNoReset(u) ==
    IF row # NoRow /\ u.token = NoToken THEN StandardStatement(u) ELSE row

\* batch_update_leads, second statement: what it makes of the row.
SecondStatement(u) ==
    IF ~Matches(u) THEN row
    ELSE IF u.token = NoToken THEN StandardStatement(u)
    ELSE [row EXCEPT !.postId = Empty]

WriteUpdate ==
    /\ queue # <<>>
    /\ LET u == Head(queue) IN
         /\ u.kind = "LeadUpdate"
         /\ half = ShouldUpdateAsSold(u)
         /\ Statement(SecondStatement(u))
    /\ half' = FALSE
    /\ queue' = Tail(queue)
    /\ UNCHANGED <<pingVars, cached, expired, postVars>>

-----------------------------------------------------------------------------
(* Post requests.                                                           *)

\* The writes of the ping, which the publisher cannot observe, have all landed.
PingSettled == ping = "answered" /\ ~spawned /\ queue = <<>>

MayPost(r) ==
    /\ post[r] = "idle"
    /\ told # Keep
    /\ Patient => PingSettled \/ \E q \in Posts : post[q] # "idle"

Found(r, lead) ==
    /\ snap' = [snap EXCEPT ![r] = lead]
    /\ post' = [post EXCEPT ![r] = "found"]

\* find_by_promise_id has an answer.
HasPromise == row # NoRow /\ row.promise = told

\* The lead is looked up by promise, in a cache that may hold an older copy.
LookupCached(r) ==
    /\ MayPost(r)
    /\ cached[told] # NoRow
    /\ Found(r, cached[told])
    /\ UNCHANGED <<row, queue, half, pingVars, cached, expired, sales, faulted>>

LookupPromise(r) ==
    /\ MayPost(r)
    /\ HasPromise
    /\ Found(r, row)
    /\ cached' = [cached EXCEPT ![told] = row]
    /\ UNCHANGED <<row, queue, half, pingVars, expired, sales, faulted>>

\* No lead has the promise: the one with the request's lead_id is taken.
LookupLeadId(r) ==
    /\ MayPost(r)
    /\ row # NoRow
    /\ ~HasPromise
    /\ Found(r, row)
    /\ UNCHANGED <<row, queue, half, pingVars, cached, expired, sales, faulted>>

\* No lead at all, or none and the request has no lead_id: 404.
LookupNothing(r) ==
    /\ MayPost(r)
    /\ ~HasPromise
    /\ post' = [post EXCEPT ![r] = "not_found"]
    /\ UNCHANGED <<row, queue, half, pingVars, cached, expired, snap, sales, faulted>>

\* Mutant: the claim does not look at the promise.
ClaimableAnyPromise == row # NoRow /\ row.postId = Empty /\ ~expired

\* The WHERE clause of the claim.
Claimable == HasPromise /\ row.postId = Empty /\ ~expired

\* The atomic claim succeeds.
Claim(r) ==
    /\ post[r] = "found"
    /\ Claimable
    /\ row' = [row EXCEPT !.postId = Token(r)]
    /\ post' = [post EXCEPT ![r] = "claimed"]
    /\ UNCHANGED <<queue, half, pingVars, cached, expired, snap, sales, faulted>>

\* The claim matches no row: duplicate_or_expired_promise.
ClaimRefused(r) ==
    /\ post[r] = "found"
    /\ ~Claimable
    /\ post' = [post EXCEPT ![r] = "duplicate"]
    /\ UNCHANGED <<row, queue, half, pingVars, cached, expired, snap, sales, faulted>>

\* The claim commits but its answer is lost: a retry then finds the request's own
\* token and reports a duplicate, or there is no retry left and the call fails.
ClaimAnswerLost(r) ==
    /\ Faults /\ faulted' = TRUE
    /\ post[r] = "found"
    /\ Claimable
    /\ row' = [row EXCEPT !.postId = Token(r)]
    /\ \E answer \in {"duplicate", "error"} : post' = [post EXCEPT ![r] = answer]
    /\ UNCHANGED <<queue, half, pingVars, cached, expired, snap, sales>>

\* The router fails before or after it has asked the buyer: 500, no LeadUpdate.
RouteFails(r) ==
    /\ Faults /\ faulted' = TRUE
    /\ post[r] \in {"claimed", "accepted"}
    /\ post' = [post EXCEPT ![r] = "error"]
    /\ UNCHANGED <<row, queue, half, pingVars, cached, expired, snap, sales>>

\* The buyer of the lead's campaign accepts.
BuyerAccepts(r) ==
    /\ post[r] = "claimed"
    /\ post' = [post EXCEPT ![r] = "accepted"]
    /\ sales' = sales \cup {r}
    /\ UNCHANGED <<row, queue, half, pingVars, cached, expired, snap, faulted>>

\* Mutant: the buyer's post_id is not stored.
UpdateLeadWithPostNoId(r) == [row EXCEPT !.status = "Sold", !.postId = Empty]

\* update_lead_with_post.
UpdateLeadWithPost(r) == [row EXCEPT !.status = "Sold", !.postId = RealId(r)]

\* route_post stores the acceptance before it returns "sold".
StoreAcceptance(r) ==
    /\ post[r] = "accepted"
    /\ row' = UpdateLeadWithPost(r)
    /\ post' = [post EXCEPT ![r] = "sold"]
    /\ UNCHANGED <<queue, half, pingVars, cached, expired, snap, sales, faulted>>

\* There is no campaign to post to, or the buyer does not accept.
BuyerRefuses(r) ==
    /\ post[r] = "claimed"
    /\ \E status \in {"Rejected", "Timeout", "Error"} : UpdateLeadStatus(status, snap[r])
    /\ post' = [post EXCEPT ![r] = "refused"]
    /\ UNCHANGED <<queue, half, pingVars, cached, expired, snap, sales, faulted>>

\* The handler enqueues the final LeadUpdate: sold, or a reset of the placeholder.
FinishPost(r) ==
    /\ post[r] \in {"sold", "refused"}
    /\ LET bid == snap[r].bid
           u == IF post[r] = "sold"
                THEN LeadUpdate("Sold", snap[r].campaign, Keep, RealId(r), TRUE, r, bid)
                ELSE LeadUpdate(snap[r].status, Keep, Keep, Empty, FALSE, r, bid)
       IN queue' = Append(queue, u)
    /\ post' = [post EXCEPT ![r] = IF @ = "sold" THEN "done_sold" ELSE "done_refused"]
    /\ UNCHANGED <<row, half, pingVars, cached, expired, snap, sales, faulted>>

Expire ==
    /\ row # NoRow
    /\ ~expired
    /\ expired' = TRUE
    /\ UNCHANGED <<row, queue, half, pingVars, cached, postVars, faulted>>

-----------------------------------------------------------------------------
PingNext == SubmitPing \/ AuctionWon \/ AuctionLost \/ AuctionFailed
              \/ (\E priced \in BOOLEAN : AnswerPing(priced)) \/ AnswerLostPing

Writer == WriteCreation \/ WriteSold \/ WriteUpdate \/ SpawnedUpdate

Lookup(r) == LookupCached(r) \/ LookupPromise(r) \/ LookupLeadId(r) \/ LookupNothing(r)

PostNext(r) ==
    \/ Lookup(r)
    \/ Claim(r) \/ ClaimRefused(r) \/ ClaimAnswerLost(r)
    \/ BuyerAccepts(r) \/ BuyerRefuses(r) \/ RouteFails(r)
    \/ StoreAcceptance(r) \/ FinishPost(r)

Next == PingNext \/ Writer \/ Expire \/ \E r \in Posts : PostNext(r)

Spec == Init /\ [][Next]_vars

\* Requests run to their end and the queue is drained; whether anyone posts, and
\* when the promise expires, is up to the environment.
Fairness ==
    /\ WF_vars(PingNext) /\ WF_vars(Writer)
    /\ \A r \in Posts : WF_vars(PostNext(r) /\ post[r] # "idle")

FairSpec == Spec /\ Fairness

-----------------------------------------------------------------------------
(* Properties.                                                              *)

PostStates == {"idle", "not_found", "found", "duplicate", "error", "claimed", "accepted",
               "sold", "refused", "done_sold", "done_refused"}

\* Types of the row, of the requests and of the cached copies.
TypeOK ==
    /\ row \in Rows \cup {NoRow}
    /\ half \in BOOLEAN /\ faulted \in BOOLEAN /\ spawned \in BOOLEAN /\ expired \in BOOLEAN
    /\ ping \in {"new", "routing", "won", "lost", "answered"}
    /\ mode \in Modes /\ told \in Promises \cup {Keep}
    /\ cached \in [Promises -> Rows \cup {NoRow}]
    /\ post \in [Posts -> PostStates]
    /\ snap \in [Posts -> Rows \cup {NoRow}]
    /\ sales \subseteq Posts

\* A lead is sold at most once: of the posts that race for it one succeeds, and
\* once it has been posted, later posts fail.
AtMostOneSale == Cardinality(sales) <= 1

\* A lead the router has stored as sold keeps that status and the buyer's post_id,
\* whatever is still in the queue.
SaleIsKept ==
    \A r \in Posts : post[r] \in {"sold", "done_sold"} => row.status = "Sold" /\ row.postId = RealId(r)

\* A lead auctioned synchronously is sold to the winner of its auction: a promise
\* that can be claimed stands in a row that has the winner's campaign.
SaleGoesToWinner == mode = "sync" => \A r \in sales : snap[r].campaign = "winner"

\* "Bid to show in ping response and to use as post price (two-step). Stored so post
\* uses same price.": a lead auctioned synchronously is sold from a copy that has the
\* winning bid.  The code breaks it: the final update of a ping with a price is that of
\* a sold lead, which replaces vertical_data.
PostUsesWinningBid == mode = "sync" => \A r \in sales : snap[r].bid

Quiet == queue = <<>> /\ ~spawned /\ \A r \in Posts : post[r] \in
    {"idle", "not_found", "duplicate", "error", "done_sold", "done_refused"}

\* The in-progress token is temporary: when no request is at work, no write is
\* outstanding and the database has not failed, post_id holds no token.
TokenIsTemporary == ~faulted /\ Quiet /\ row # NoRow => \A r \in Posts : row.postId # Token(r)

\* "promise_id only for ping (client uses it for post)": once the writes of a
\* synchronous ping have landed, the promise in the row is the one the publisher was
\* given.
PromiseStaysValid ==
    mode = "sync" /\ ~faulted /\ PingSettled /\ Quiet /\ row # NoRow /\ told # Keep
        => row.promise = told

\* A refused post frees the lead, so that another post attempt may try.
RefusalReopens ==
    \A r \in Posts : (post[r] = "refused") ~> (faulted \/ (row # NoRow /\ row.postId # Token(r)))
=============================================================================
