---------------------------- MODULE PingAuction ----------------------------
(***************************************************************************)
(* route_ping_auction of crates/core/src/services/ping_tree_router.rs.      *)
(*                                                                         *)
(* Every campaign of the ping tree is asked for a bid by a task of its own. *)
(* Calls to external buyers first take one of a limited number of permits   *)
(* and are cut off by a timeout; internal buyers are called directly.  The  *)
(* results are collected in the order in which the tasks complete; when all *)
(* are there, every response is enqueued for persistence and the winner is  *)
(* selected.                                                                *)
(***************************************************************************)
EXTENDS AuctionRules

CONSTANTS
    Campaigns,   \* the active campaigns of the ping tree
    Internal,    \* the ones of internal buyers
    Permits,     \* permits of the semaphore (10 in the code)
    Priorities,  \* priorities a campaign of the tree may have
    Bids         \* bids a buyer may make

ASSUME CampaignsAssumption == IsFiniteSet(Campaigns) /\ Campaigns # {} /\ Internal \subseteq Campaigns
ASSUME PermitsAssumption == Permits \in Nat \ {0}
ASSUME OffersAssumption == Bids \subseteq Int /\ Priorities \subseteq Int \ {NoPriority}

None == [status |-> "none"]

VARIABLES
    priority,  \* priority_map
    task,      \* task[c]: "waiting", "calling" or "done"
    permits,   \* free permits of the semaphore
    said,      \* said[c]: what the call to c's buyer produced
    results,   \* task_results: campaigns with their responses, in completion order
    rows,      \* BuyerResponse tasks enqueued
    outcome,   \* the routing result's status, or "running"
    winner     \* the winning entry, or None

vars == <<priority, task, permits, said, results, rows, outcome, winner>>

\* Answers of an internal buyer, which the server computes itself.
InternalAnswers ==
    {Response(TRUE, "accepted", b, NoAmount, TRUE, FALSE) : b \in Bids}
      \cup {Response(FALSE, "rejected", NoAmount, NoAmount, FALSE, FALSE)}

\* An external buyer answers with a status word of its own, which may say that the
\* buyer itself timed out; the answer is valid in capitals, and in small letters not.
OwnWords ==
    {Response(TRUE, "Timeout", b, NoAmount, TRUE, FALSE) : b \in Bids}
      \cup {Response(TRUE, "timeout", 3, NoAmount, TRUE, FALSE)}

\* Answers of external buyers: bids, and answers that are not valid for one reason each.
ExternalAnswers ==
    InternalAnswers \cup OwnWords
      \cup {Response(TRUE, "accepted", 0, NoAmount, TRUE, FALSE),
            Response(TRUE, "accepted", 3, NoAmount, FALSE, FALSE)}

\* What the buyer of c may answer.
Answers(c) == IF c \in Internal THEN InternalAnswers ELSE ExternalAnswers

Init ==
    /\ priority \in [Campaigns -> Priorities \cup {NoPriority}]
    /\ task = [c \in Campaigns |-> "waiting"]
    /\ permits = Permits
    /\ said = [c \in Campaigns |-> None]
    /\ results = <<>> /\ rows = {} /\ outcome = "running" /\ winner = None

-----------------------------------------------------------------------------
\* A task begins its call; for an external buyer it waits for a permit.
Start(c) ==
    /\ task[c] = "waiting"
    /\ c \notin Internal => permits > 0
    /\ permits' = IF c \in Internal THEN permits ELSE permits - 1
    /\ task' = [task EXCEPT ![c] = "calling"]
    /\ UNCHANGED <<priority, said, results, rows, outcome, winner>>

\* Mutant: a result is credited to the campaign launched in its place.
EntryInLaunchOrder(c, resp) ==
    LET launched == CHOOSE d \in Campaigns : Cardinality({e \in Campaigns : e < d}) = Len(results)
    IN [campaign |-> launched, resp |-> resp, priority |-> priority[launched]]

\* A task carries its campaign with its result.
Entry(c, resp) == [campaign |-> c, resp |-> resp, priority |-> priority[c]]

\* Mutant: the permit is not given back.
ReleaseForgotten(c) == permits

\* The permit of a task is dropped with the task.
Release(c) == IF c \in Internal THEN permits ELSE permits + 1

\* The task of c returns resp.
Complete(c, resp) ==
    /\ task[c] = "calling"
    /\ task' = [task EXCEPT ![c] = "done"]
    /\ permits' = Release(c)
    /\ said' = [said EXCEPT ![c] = resp]
    /\ results' = Append(results, Entry(c, resp))
    /\ UNCHANGED <<priority, rows, outcome, winner>>

\* The buyer answers.
Answer(c) == \E resp \in Answers(c) : Complete(c, resp)

\* The call fails: connection, configuration or answer.
CallFails(c) == Complete(c, ErrorResponse)

\* PING_AUCTION_TIMEOUT passes; a later answer of the buyer is never seen.
Timeout(c) == c \notin Internal /\ Complete(c, TimeoutResponse)

\* The collected responses, as they are enqueued.
Batch == {[campaign |-> results[i].campaign, resp |-> results[i].resp] : i \in DOMAIN results}

\* Nobody made a valid bid: the status is written to the lead, and an error of that
\* write is the result of the auction.
NoWinner ==
    /\ outcome' \in {NoWinnerStatus([i \in DOMAIN results |-> results[i].resp.status]), "failed"}
    /\ UNCHANGED winner

\* The winner is selected, and its status word becomes the auction's.
Wins(valid) ==
    /\ winner' \in {results[i] : i \in SelectWinner(results, valid)}
    /\ outcome' = MapPingStatus(winner'.resp.status, winner'.resp.success)

\* All results are in: the responses are enqueued, and the auction is decided.
Decide ==
    /\ outcome = "running"
    /\ Len(results) = Cardinality(Campaigns)
    /\ rows' = Batch
    /\ LET valid == {i \in DOMAIN results : ValidPing(results[i].resp)} IN
         \/ valid = {} /\ NoWinner
         \/ valid # {} /\ Wins(valid)
    /\ UNCHANGED <<priority, task, permits, said, results>>

Next == (\E c \in Campaigns : Start(c) \/ Answer(c) \/ CallFails(c) \/ Timeout(c)) \/ Decide

Spec == Init /\ [][Next]_vars

\* Every started call ends, by answer, error or timeout, and waiting tasks are
\* polled; internal calls do not suspend.
FairSpec == Spec /\ WF_vars(Next)

-----------------------------------------------------------------------------
(* Properties.                                                              *)

\* The winner answered with a bid and a promise, and no valid bid of the auction is
\* higher by epsilon or more.
WinnerBidIsHighest ==
    winner # None =>
        /\ said[winner.campaign] = winner.resp
        /\ winner.resp.success /\ winner.resp.bid > 0 /\ winner.resp.promise
        /\ \A c \in Campaigns : ValidPing(said[c]) => said[c].bid - winner.resp.bid < Epsilon

\* Among bids that count as equal the campaign with the lowest priority number
\* wins, and between equal priorities the higher bid.
PriorityBreaksTies ==
    winner # None =>
        LET top == CHOOSE b \in {said[c].bid : c \in {d \in Campaigns : ValidPing(said[d])}} :
                     \A c \in Campaigns : ValidPing(said[c]) => said[c].bid <= b
            tied == {c \in Campaigns : ValidPing(said[c]) /\ top - said[c].bid < Epsilon}
            ranked == {c \in tied : priority[c] # NoPriority}
        IN \A c \in ranked :
             /\ winner.priority # NoPriority
             /\ \/ winner.priority < priority[c]
                \/ winner.priority = priority[c] /\ winner.resp.bid >= said[c].bid

\* The auction asks every campaign once and stores what its buyer answered under
\* that campaign, in whatever order the answers came.
EveryAnswerIsStored ==
    outcome # "running" => rows = {[campaign |-> c, resp |-> said[c]] : c \in Campaigns}

\* There is a winner whenever some answer is valid, also when the winner's own status
\* word is a timeout.  Without winner the auction is reported as timed out exactly
\* when every buyer was late or itself said so, or else the database failed.
OutcomeIsExact ==
    outcome # "running" =>
        /\ (winner = None) = (\A c \in Campaigns : ~ValidPing(said[c]))
        /\ (outcome = "timeout") =>
             \/ \A c \in Campaigns : said[c].status = "timeout"
             \/ winner # None /\ winner.resp.status = "Timeout"
        /\ (\A c \in Campaigns : said[c].status = "timeout") => outcome \in {"timeout", "failed"}
        /\ outcome = "failed" => winner = None

\* Every auction ends, also with more external campaigns than permits.
AuctionEnds == <>(outcome # "running")
=============================================================================
