------------------------- MODULE PingAuction_proofs -------------------------
(***************************************************************************)
(* The safety properties of the ping auction, proved for any number of      *)
(* campaigns and permits, any bids and any priorities.  The argument: the   *)
(* collected results are exactly the answers of the tasks that are done, so *)
(* that as many results as campaigns are the answers of all of them; and    *)
(* what select_winner returns of them is the theorem SelectWinnerIsSound.   *)
(***************************************************************************)
EXTENDS PingAuction, AuctionRules_proofs

-----------------------------------------------------------------------------
(* The inductive invariant.                                                 *)

\* What a task may return.
TaskResponses == ExternalAnswers \cup {ErrorResponse, TimeoutResponse}

Done == {c \in Campaigns : task[c] = "done"}

TypeInv ==
    /\ priority \in [Campaigns -> Int]
    /\ task \in [Campaigns -> {"waiting", "calling", "done"}]
    /\ said \in [Campaigns -> TaskResponses \cup {None}]
    /\ results \in Seq([campaign : Campaigns, resp : TaskResponses, priority : Int])

\* A result is what its task returned, under its campaign and priority.
ResultsInv ==
    \A i \in DOMAIN results :
        /\ results[i].campaign \in Done
        /\ results[i] = Entry(results[i].campaign, said[results[i].campaign])

\* Every task that is done has one result.
DoneInv ==
    /\ \A c \in Done : \E i \in DOMAIN results : results[i].campaign = c
    /\ Cardinality(Done) = Len(results)

Valid == {i \in DOMAIN results : ValidPing(results[i].resp)}

\* What was decided was decided from all results.
DecidedInv ==
    IF outcome = "running" THEN winner = None
    ELSE /\ Done = Campaigns
         /\ rows = Batch
         /\ \/ /\ Valid = {} /\ winner = None
               /\ outcome \in {NoWinnerStatus([i \in DOMAIN results |-> results[i].resp.status]), "failed"}
            \/ /\ Valid # {}
               /\ \E w \in SelectWinner(results, Valid) : winner = results[w]
               /\ outcome = MapPingStatus(winner.resp.status, winner.resp.success)

Inv == TypeInv /\ ResultsInv /\ DoneInv /\ DecidedInv

-----------------------------------------------------------------------------
(* Facts about responses.                                                   *)

\* What the answers, errors and timeouts of the buyers have in common.
LEMMA ResponseFacts ==
    ASSUME NEW r \in TaskResponses
    PROVE  /\ r.bid \in Int /\ r.price \in Int
           /\ r.status \in {"accepted", "rejected", "error", "timeout", "Timeout"}
           /\ ValidPing(r) => r.status \in {"accepted", "Timeout"} /\ r.success /\ r.bid > 0 /\ r.promise
<1> DEFINE Facts ==
             /\ r.bid \in Int /\ r.price \in Int
             /\ r.status \in {"accepted", "rejected", "error", "timeout", "Timeout"}
             /\ ValidPing(r) => r.status \in {"accepted", "Timeout"} /\ r.success /\ r.bid > 0 /\ r.promise
<1> SUFFICES Facts
  OBVIOUS
<1>1. ASSUME NEW b \in Int, NEW p \in BOOLEAN, NEW s \in {"accepted", "Timeout", "timeout"},
             r = Response(TRUE, s, b, NoAmount, p, FALSE) PROVE Facts
  <2>1. r.success = TRUE /\ r.status = s /\ r.bid = b /\ r.price = NoAmount /\ r.promise = p
    BY <1>1 DEF Response
  <2>2. r.bid \in Int /\ r.price \in Int
    BY <2>1 DEF NoAmount
  <2>3. r.status \in {"accepted", "rejected", "error", "timeout", "Timeout"}
    BY <2>1
  <2>4. ValidPing(r) => r.status \in {"accepted", "Timeout"} /\ r.success /\ r.bid > 0 /\ r.promise
    BY <2>1 DEF ValidPing
  <2> QED BY <2>2, <2>3, <2>4
<1>2. ASSUME NEW s \in {"rejected", "error", "timeout"},
             r = Response(FALSE, s, NoAmount, NoAmount, FALSE, FALSE) PROVE Facts
  <2>1. r.success = FALSE /\ r.status = s /\ r.bid = NoAmount /\ r.price = NoAmount
    BY <1>2 DEF Response
  <2>2. r.bid \in Int /\ r.price \in Int
    BY <2>1 DEF NoAmount
  <2>3. r.status \in {"accepted", "rejected", "error", "timeout", "Timeout"}
    BY <2>1
  <2>4. ~ValidPing(r)
    BY <2>1 DEF ValidPing
  <2> QED BY <2>2, <2>3, <2>4
<1> HIDE DEF Facts
<1>3. CASE \E b \in Bids : r = Response(TRUE, "accepted", b, NoAmount, TRUE, FALSE)
  BY <1>1, <1>3, OffersAssumption
<1>4. CASE \E b \in Bids : r = Response(TRUE, "Timeout", b, NoAmount, TRUE, FALSE)
  BY <1>1, <1>4, OffersAssumption
<1>5. CASE r = Response(TRUE, "timeout", 3, NoAmount, TRUE, FALSE)
  <2>1. 3 \in Int
    OBVIOUS
  <2> QED BY <1>1, <1>5, <2>1, Zenon
<1>6. CASE r = Response(TRUE, "accepted", 0, NoAmount, TRUE, FALSE)
  <2>1. 0 \in Int
    OBVIOUS
  <2> QED BY <1>1, <1>6, <2>1, Zenon
<1>7. CASE r = Response(TRUE, "accepted", 3, NoAmount, FALSE, FALSE)
  <2>1. 3 \in Int
    OBVIOUS
  <2> QED BY <1>1, <1>7, <2>1, Zenon
<1>8. CASE r = Response(FALSE, "rejected", NoAmount, NoAmount, FALSE, FALSE)
  BY <1>2, <1>8, Zenon
<1>9. CASE r \in {ErrorResponse, TimeoutResponse}
  BY <1>2, <1>9, Zenon DEF ErrorResponse, TimeoutResponse
<1> QED BY <1>3, <1>4, <1>5, <1>6, <1>7, <1>8, <1>9 DEF TaskResponses, ExternalAnswers, InternalAnswers, OwnWords

\* The lemmas on the sort apply to the collected results.
LEMMA ResultsAreEntries ==
    ASSUME TypeInv
    PROVE  /\ IsEntries(results)
           /\ \A i \in DOMAIN results : results[i].campaign \in Campaigns /\ results[i].resp \in TaskResponses
<1>1. /\ Len(results) \in Nat /\ DOMAIN results = 1 .. Len(results)
      /\ \A i \in DOMAIN results :
            /\ results[i].campaign \in Campaigns /\ results[i].resp \in TaskResponses
            /\ results[i].priority \in Int
  <2> DEFINE E == [campaign : Campaigns, resp : TaskResponses, priority : Int]
  <2>1. results \in Seq(E)
    BY DEF TypeInv
  <2> HIDE DEF E
  <2>2. Len(results) \in Nat /\ DOMAIN results = 1 .. Len(results) /\ \A i \in DOMAIN results : results[i] \in E
    BY <2>1
  <2> USE DEF E
  <2> QED BY <2>2
<1> QED BY <1>1, ResponseFacts DEF IsEntries

-----------------------------------------------------------------------------
(* The invariant is inductive.                                              *)

\* It holds before the tasks are spawned.
LEMMA InitInv ==
    ASSUME Init PROVE Inv
<1>1. TypeInv
  <2>1. priority \in [Campaigns -> Int]
    <3>1. Priorities \cup {NoPriority} \subseteq Int
      BY OffersAssumption DEF NoPriority
    <3>2. priority \in [Campaigns -> Priorities \cup {NoPriority}]
      BY DEF Init
    <3> QED BY <3>1, <3>2
  <2>2. results \in Seq([campaign : Campaigns, resp : TaskResponses, priority : Int])
    BY DEF Init
  <2> QED BY <2>1, <2>2 DEF Init, TypeInv
<1>2. Done = {} /\ DOMAIN results = {} /\ Len(results) = 0
  BY DEF Init, Done
<1>3. ResultsInv /\ DoneInv
  BY <1>2, FS_EmptySet DEF ResultsInv, DoneInv
<1>4. DecidedInv
  BY DEF Init, DecidedInv
<1> QED BY <1>1, <1>3, <1>4 DEF Inv

\* A task that starts is not done, and changes nothing the invariant reads.
LEMMA StartStep ==
    ASSUME Inv, NEW c \in Campaigns, Start(c) PROVE Inv'
<1>1. TypeInv'
  BY DEF Inv, TypeInv, Start
<1>2. Done' = Done
  BY DEF Inv, TypeInv, Start, Done
<1>3. results' = results /\ said' = said /\ priority' = priority /\ outcome' = outcome /\ winner' = winner /\ rows' = rows
  BY DEF Start
<1>4. ResultsInv' /\ DoneInv'
  BY <1>2, <1>3 DEF Inv, ResultsInv, DoneInv, Entry
<1>5. DecidedInv'
  BY <1>2, <1>3 DEF Inv, DecidedInv, Valid, Batch
<1> QED BY <1>1, <1>4, <1>5 DEF Inv

\* A task that returns adds its campaign to the done ones and its entry to the
\* results; it was not done, so that nothing has been decided yet.
LEMMA CompleteStep ==
    ASSUME Inv, NEW c \in Campaigns, NEW resp \in TaskResponses, Complete(c, resp) PROVE Inv'
<1> DEFINE E == [campaign : Campaigns, resp : TaskResponses, priority : Int]
           e == Entry(c, resp)
<1>t. TypeInv
  BY DEF Inv
<1>1. /\ task[c] = "calling" /\ task' = [task EXCEPT ![c] = "done"]
      /\ said' = [said EXCEPT ![c] = resp] /\ results' = Append(results, e)
      /\ priority' = priority /\ outcome' = outcome /\ winner' = winner /\ rows' = rows
  BY DEF Complete
<1>2. e \in E /\ results \in Seq(E) /\ e.campaign = c /\ e.resp = resp /\ e.priority = priority[c]
  BY <1>t DEF TypeInv, Entry
<1>3. c \notin Done /\ Done' = Done \cup {c}
  BY <1>1, <1>t DEF TypeInv, Done
<1> HIDE DEF e, E
<1>4. /\ results' \in Seq(E) /\ Len(results') = Len(results) + 1
      /\ DOMAIN results' = DOMAIN results \cup {Len(results) + 1}
      /\ \A i \in DOMAIN results : results'[i] = results[i]
      /\ results'[Len(results) + 1] = e
  BY <1>1, <1>2
<1>5. TypeInv'
  <2>1. results' \in Seq([campaign : Campaigns, resp : TaskResponses, priority : Int])
    BY <1>4 DEF E
  <2> QED BY <1>1, <1>t, <2>1 DEF TypeInv
<1>6. \A d \in Campaigns : said'[d] = IF d = c THEN resp ELSE said[d]
  BY <1>1, <1>t DEF TypeInv
<1>7. ResultsInv'
  <2> SUFFICES ASSUME NEW i \in DOMAIN results'
               PROVE  /\ results'[i].campaign \in Done'
                      /\ results'[i] = [campaign |-> results'[i].campaign, resp |-> said'[results'[i].campaign],
                                        priority |-> priority'[results'[i].campaign]]
    BY DEF ResultsInv, Entry
  <2>1. CASE i \in DOMAIN results
    <3>1. /\ results[i].campaign \in Done
          /\ results[i] = [campaign |-> results[i].campaign, resp |-> said[results[i].campaign],
                           priority |-> priority[results[i].campaign]]
      BY <2>1 DEF Inv, ResultsInv, Entry
    <3>2. results[i].campaign # c /\ results[i].campaign \in Campaigns
      BY <1>3, <3>1 DEF Done
    <3> QED BY <1>1, <1>3, <1>4, <1>6, <2>1, <3>1, <3>2
  <2>2. CASE i = Len(results) + 1
    BY <1>1, <1>2, <1>3, <1>4, <1>6, <2>2 DEF e, Entry
  <2> QED BY <1>4, <2>1, <2>2
<1>8. DoneInv'
  <2>1. \A d \in Done' : \E i \in DOMAIN results' : results'[i].campaign = d
    <3> SUFFICES ASSUME NEW d \in Done' PROVE \E i \in DOMAIN results' : results'[i].campaign = d
      OBVIOUS
    <3>1. CASE d = c
      BY <1>2, <1>4, <3>1
    <3>2. CASE d \in Done
      <4>1. PICK i \in DOMAIN results : results[i].campaign = d
        BY <3>2 DEF Inv, DoneInv
      <4> QED BY <1>4, <4>1
    <3> QED BY <1>3, <3>1, <3>2
  <2>2. IsFiniteSet(Done)
    BY CampaignsAssumption, FS_Subset DEF Done
  <2>3. Cardinality(Done') = Cardinality(Done) + 1
    BY <1>3, <2>2, FS_AddElement
  <2>4. Cardinality(Done) = Len(results)
    BY DEF Inv, DoneInv
  <2>5. Cardinality(Done') = Len(results')
    BY <1>4, <2>3, <2>4
  <2> QED BY <2>1, <2>5 DEF DoneInv
<1>9. DecidedInv'
  <2>1. outcome = "running" /\ winner = None
    BY <1>3 DEF Inv, DecidedInv
  <2> QED BY <1>1, <2>1 DEF DecidedInv
<1> QED BY <1>5, <1>7, <1>8, <1>9 DEF Inv

\* When there are as many results as campaigns, every task is done.
LEMMA AllDone ==
    ASSUME Inv, Len(results) = Cardinality(Campaigns) PROVE Done = Campaigns
<1>1. Done \subseteq Campaigns /\ Cardinality(Done) = Cardinality(Campaigns)
  BY DEF Inv, DoneInv, Done
<1> QED BY <1>1, CampaignsAssumption, FS_Subset

\* The decision is made on the answers of all campaigns.
LEMMA DecideStep ==
    ASSUME Inv, Decide PROVE Inv'
<1>1. /\ task' = task /\ said' = said /\ results' = results /\ priority' = priority
      /\ rows' = Batch
      /\ outcome = "running" /\ Len(results) = Cardinality(Campaigns)
  BY DEF Decide
<1>2. Done' = Done /\ Valid' = Valid /\ Batch' = Batch /\ Done = Campaigns
  BY <1>1, AllDone DEF Done, Valid, Batch
<1>3. TypeInv' /\ ResultsInv' /\ DoneInv'
  BY <1>1, <1>2 DEF Inv, TypeInv, ResultsInv, DoneInv, Entry
<1>4. winner = None
  BY <1>1 DEF Inv, DecidedInv
<1>5. \/ /\ Valid = {} /\ winner' = None
         /\ outcome' \in {NoWinnerStatus([i \in DOMAIN results |-> results[i].resp.status]), "failed"}
      \/ /\ Valid # {}
         /\ \E w \in SelectWinner(results, Valid) : winner' = results[w]
         /\ outcome' = MapPingStatus(winner'.resp.status, winner'.resp.success)
  BY <1>4 DEF Decide, NoWinner, Wins, Valid
<1>6. outcome' # "running"
  BY <1>5 DEF NoWinnerStatus, MapPingStatus, ToLowercase
<1>7. DecidedInv'
  BY <1>1, <1>2, <1>5, <1>6 DEF DecidedInv
<1> QED BY <1>3, <1>7 DEF Inv

\* The inductive invariant holds throughout.
LEMMA InvHolds == Spec => []Inv
<1>1. Init => Inv
  BY InitInv
<1>2. Inv /\ [Next]_vars => Inv'
  <2> SUFFICES ASSUME Inv, [Next]_vars PROVE Inv'
    OBVIOUS
  <2>1. ASSUME NEW c \in Campaigns, Start(c) PROVE Inv'
    BY <2>1, StartStep
  <2>2. ASSUME NEW c \in Campaigns, Answer(c) \/ CallFails(c) \/ Timeout(c) PROVE Inv'
    <3>1. PICK resp \in TaskResponses : Complete(c, resp)
      BY <2>2 DEF Answer, Answers, ExternalAnswers, CallFails, Timeout, TaskResponses
    <3> QED BY <3>1, CompleteStep
  <2>3. CASE Decide
    BY <2>3, DecideStep
  <2>4. CASE UNCHANGED vars
    <3>1. Done' = Done /\ Valid' = Valid /\ Batch' = Batch
      BY <2>4 DEF vars, Done, Valid, Batch
    <3> QED BY <2>4, <3>1 DEF vars, Inv, TypeInv, ResultsInv, DoneInv, DecidedInv, Entry
  <2> QED BY <2>1, <2>2, <2>3, <2>4 DEF Next
<1> QED BY <1>1, <1>2, PTL DEF Spec

-----------------------------------------------------------------------------
(* What is proved of the auction.                                           *)

\* After the decision every campaign has a result, which holds what it said, and
\* every result is that of a campaign.
LEMMA DecidedResults ==
    ASSUME Inv, outcome # "running"
    PROVE  /\ \A c \in Campaigns : \E i \in DOMAIN results :
                /\ results[i].campaign = c /\ results[i].resp = said[c]
                /\ results[i].priority = priority[c] /\ said[c] \in TaskResponses
           /\ \A i \in DOMAIN results :
                /\ results[i].campaign \in Campaigns /\ results[i].resp = said[results[i].campaign]
                /\ results[i].priority = priority[results[i].campaign]
<1>1. ASSUME NEW i \in DOMAIN results
      PROVE  /\ results[i].campaign \in Campaigns /\ results[i].resp = said[results[i].campaign]
             /\ results[i].priority = priority[results[i].campaign] /\ results[i].resp \in TaskResponses
  <2>1. results[i] = [campaign |-> results[i].campaign, resp |-> said[results[i].campaign],
                      priority |-> priority[results[i].campaign]]
    BY DEF Inv, ResultsInv, Entry
  <2>2. results[i].campaign \in Campaigns /\ results[i].resp \in TaskResponses
    BY ResultsAreEntries DEF Inv
  <2> QED BY <2>1, <2>2
<1>2. \A c \in Campaigns : \E i \in DOMAIN results : results[i].campaign = c
  BY DEF Inv, DecidedInv, DoneInv
<1> QED BY <1>1, <1>2

\* A winner is an entry that select_winner may return of the valid results.
LEMMA WinnerFacts ==
    ASSUME Inv, winner # None
    PROVE  /\ outcome # "running" /\ Valid # {} /\ Valid \in SUBSET DOMAIN results
           /\ \E t \in Valid, w \in Valid :
                /\ winner = results[w]
                /\ IsTop(results, Valid, t) /\ IsWinner(results, Valid, t, w)
<1>1. /\ outcome # "running" /\ Valid # {}
      /\ \E w \in SelectWinner(results, Valid) : winner = results[w]
  BY DEF Inv, DecidedInv
<1>2. Valid \in SUBSET DOMAIN results
  BY DEF Valid
<1>3. IsEntries(results)
  BY ResultsAreEntries DEF Inv
<1> HIDE DEF Valid
<1>4. PICK w \in SelectWinner(results, Valid) : winner = results[w]
  BY <1>1
<1>5. PICK t \in Valid : IsTop(results, Valid, t)
  BY <1>1, <1>2, <1>3, SelectWinnerIsSound
<1>6. IsWinner(results, Valid, t, w)
  BY <1>1, <1>2, <1>3, <1>5, SelectWinnerIsSound
<1>7. w \in Valid
  BY <1>6 DEF IsWinner
<1> QED BY <1>1, <1>2, <1>4, <1>5, <1>6, <1>7

\* WinnerBidIsHighest follows from the invariant.
LEMMA InvWinnerBidIsHighest == ASSUME Inv PROVE WinnerBidIsHighest
<1> SUFFICES ASSUME winner # None
             PROVE  /\ said[winner.campaign] = winner.resp
                    /\ winner.resp.success /\ winner.resp.bid > 0 /\ winner.resp.promise
                    /\ \A c \in Campaigns : ValidPing(said[c]) => said[c].bid - winner.resp.bid < Epsilon
  BY DEF WinnerBidIsHighest
<1>1. PICK t \in Valid, w \in Valid :
        winner = results[w] /\ IsTop(results, Valid, t) /\ IsWinner(results, Valid, t, w)
  BY WinnerFacts
<1>2. outcome # "running" /\ t \in DOMAIN results /\ w \in DOMAIN results
  BY WinnerFacts
<1>3. said[winner.campaign] = winner.resp
  BY <1>1, <1>2, DecidedResults
<1>4. /\ ValidPing(winner.resp) /\ winner.resp \in TaskResponses
      /\ results[t].resp \in TaskResponses
  BY <1>1, <1>2, ResultsAreEntries DEF Inv, Valid
<1>5. ASSUME NEW c \in Campaigns, ValidPing(said[c])
      PROVE  said[c].bid - winner.resp.bid < Epsilon
  <2>1. PICK i \in DOMAIN results : results[i].resp = said[c] /\ said[c] \in TaskResponses
    BY <1>2, DecidedResults
  <2>2. i \in Valid
    BY <1>5, <2>1 DEF Valid
  <2>3. said[c].bid <= results[t].resp.bid
    BY <1>1, <2>1, <2>2 DEF IsTop
  <2>4. results[t].resp.bid - winner.resp.bid < Epsilon
    BY <1>1 DEF IsWinner
  <2>5. said[c].bid \in Int /\ results[t].resp.bid \in Int /\ winner.resp.bid \in Int /\ Epsilon \in Int
    BY <1>4, <2>1, ResponseFacts, EpsilonAssumption
  <2> QED BY <2>3, <2>4, <2>5
<1>6. winner.resp.success /\ winner.resp.bid > 0 /\ winner.resp.promise
  BY <1>4, ResponseFacts
<1> QED BY <1>3, <1>5, <1>6

\* PriorityBreaksTies follows from the invariant.
LEMMA InvPriorityBreaksTies == ASSUME Inv PROVE PriorityBreaksTies
<1> DEFINE bids == {said[c].bid : c \in {d \in Campaigns : ValidPing(said[d])}}
           Top(b) == \A c \in Campaigns : ValidPing(said[c]) => said[c].bid <= b
           top == CHOOSE b \in bids : Top(b)
<1> SUFFICES ASSUME winner # None, NEW c \in Campaigns, ValidPing(said[c]),
                    top - said[c].bid < Epsilon, priority[c] # NoPriority
             PROVE  /\ winner.priority # NoPriority
                    /\ \/ winner.priority < priority[c]
                       \/ winner.priority = priority[c] /\ winner.resp.bid >= said[c].bid
  BY DEF PriorityBreaksTies
<1>1. PICK t \in Valid, w \in Valid :
        winner = results[w] /\ IsTop(results, Valid, t) /\ IsWinner(results, Valid, t, w)
  BY WinnerFacts
<1>2. outcome # "running" /\ t \in DOMAIN results /\ w \in DOMAIN results
  BY WinnerFacts
<1>3. \A d \in Campaigns : said[d] \in TaskResponses /\ said[d].bid \in Int
  BY <1>2, DecidedResults, ResponseFacts
<1>4. /\ results[t].campaign \in Campaigns /\ results[t].resp = said[results[t].campaign]
      /\ ValidPing(results[t].resp)
  BY <1>2, DecidedResults DEF Valid
<1>5. results[t].resp.bid \in bids
  BY <1>4
<1>6. Top(results[t].resp.bid)
  <2> SUFFICES ASSUME NEW d \in Campaigns, ValidPing(said[d])
               PROVE  said[d].bid <= results[t].resp.bid
    OBVIOUS
  <2>1. PICK i \in DOMAIN results : results[i].resp = said[d]
    BY <1>2, DecidedResults
  <2>2. i \in Valid
    BY <2>1 DEF Valid
  <2> QED BY <1>1, <2>1, <2>2 DEF IsTop
<1>7. top \in bids /\ Top(top)
  <2> HIDE DEF bids, Top
  <2> QED BY <1>5, <1>6
<1>8. \A b \in bids : b \in Int /\ b <= top
  BY <1>3, <1>7
<1>9. top = results[t].resp.bid
  <2>1. top <= results[t].resp.bid
    <3>1. PICK d \in Campaigns : ValidPing(said[d]) /\ top = said[d].bid
      BY <1>7
    <3> HIDE DEF top
    <3> QED BY <1>6, <3>1
  <2>2. results[t].resp.bid <= top /\ results[t].resp.bid \in Int /\ top \in Int
    <3> HIDE DEF bids, top, Top
    <3> QED BY <1>5, <1>7, <1>8
  <2> HIDE DEF top
  <2> QED BY <2>1, <2>2
<1> HIDE DEF top, bids
<1>10. PICK i \in DOMAIN results : results[i].resp = said[c] /\ results[i].priority = priority[c]
  BY <1>2, DecidedResults
<1>11. i \in Valid
  BY <1>10 DEF Valid
<1> QED BY <1>1, <1>9, <1>10, <1>11 DEF IsWinner

\* EveryAnswerIsStored follows from the invariant.
LEMMA InvEveryAnswerIsStored == ASSUME Inv PROVE EveryAnswerIsStored
<1> SUFFICES ASSUME outcome # "running"
             PROVE  rows = {[campaign |-> c, resp |-> said[c]] : c \in Campaigns}
  BY DEF EveryAnswerIsStored
<1>1. rows = {[campaign |-> results[i].campaign, resp |-> results[i].resp] : i \in DOMAIN results}
  BY DEF Inv, DecidedInv, Batch
<1>2. ASSUME NEW row \in rows PROVE \E c \in Campaigns : row = [campaign |-> c, resp |-> said[c]]
  BY <1>1, DecidedResults
<1>3. ASSUME NEW c \in Campaigns PROVE [campaign |-> c, resp |-> said[c]] \in rows
  <2>1. PICK i \in DOMAIN results : results[i].campaign = c /\ results[i].resp = said[c]
    BY DecidedResults
  <2> QED BY <1>1, <2>1
<1> QED BY <1>2, <1>3

\* OutcomeIsExact follows from the invariant.
LEMMA InvOutcomeIsExact == ASSUME Inv PROVE OutcomeIsExact
<1> DEFINE AllLate == \A c \in Campaigns : said[c].status = "timeout"
           NoneValid == \A c \in Campaigns : ~ValidPing(said[c])
<1> SUFFICES ASSUME outcome # "running"
             PROVE  /\ (winner = None) = NoneValid
                    /\ (outcome = "timeout") => AllLate \/ (winner # None /\ winner.resp.status = "Timeout")
                    /\ AllLate => outcome \in {"timeout", "failed"}
                    /\ outcome = "failed" => winner = None
  BY DEF OutcomeIsExact
<1>1. (Valid = {}) <=> NoneValid
  BY DecidedResults DEF Valid
<1>2. AllLate <=> \A i \in DOMAIN results : results[i].resp.status = "timeout"
  BY DecidedResults
<1> HIDE DEF AllLate, NoneValid
<1>3. CASE Valid = {}
  <2>1. winner = None /\ outcome \in {NoWinnerStatus([i \in DOMAIN results |-> results[i].resp.status]), "failed"}
    BY <1>3 DEF Inv, DecidedInv
  <2>2. outcome # "failed" => (outcome = "timeout" <=> \A i \in DOMAIN results : results[i].resp.status = "timeout")
    BY <2>1 DEF NoWinnerStatus
  <2>3. NoneValid
    BY <1>1, <1>3
  <2>4. outcome = "timeout" => AllLate
    BY <1>2, <2>2
  <2>5. AllLate => outcome \in {"timeout", "failed"}
    BY <1>2, <2>2
  <2>6. (winner = None) = NoneValid
    BY <2>1, <2>3 DEF NoneValid
  <2> QED BY <2>1, <2>4, <2>5, <2>6
<1>4. CASE Valid # {}
  <2>1. PICK w \in SelectWinner(results, Valid) : winner = results[w]
    BY <1>4 DEF Inv, DecidedInv
  <2>2. w \in Valid /\ w \in DOMAIN results
    <3>1. IsEntries(results) /\ Valid \in SUBSET DOMAIN results
      BY ResultsAreEntries DEF Inv, Valid
    <3>2. IsWinner(results, Valid, CHOOSE t \in Valid : IsTop(results, Valid, t), w)
      BY <1>4, <3>1, SelectWinnerIsSound
    <3> QED BY <3>1, <3>2 DEF IsWinner
  <2>3. ValidPing(winner.resp) /\ winner.resp \in TaskResponses
    BY <2>1, <2>2, ResultsAreEntries DEF Inv, Valid
  <2>4. winner.resp.status \in {"accepted", "Timeout"} /\ winner.resp.success
    BY <2>3, ResponseFacts
  <2>5. (outcome = "timeout" => winner.resp.status = "Timeout") /\ outcome # "failed"
    <3>1. outcome = MapPingStatus(winner.resp.status, winner.resp.success)
      BY <1>4 DEF Inv, DecidedInv
    <3> QED BY <2>4, <3>1 DEF MapPingStatus, ToLowercase
  <2>6. winner # None
    <3>1. winner = [campaign |-> winner.campaign, resp |-> winner.resp, priority |-> winner.priority]
      BY <2>1, <2>2 DEF Inv, ResultsInv, Entry
    <3>2. "campaign" \in DOMAIN winner /\ "campaign" \notin DOMAIN None
      BY <3>1 DEF None
    <3> QED BY <3>2
  <2>7. ~AllLate
    BY <1>2, <2>1, <2>2, <2>4
  <2>8. ~NoneValid
    BY <1>1, <1>4
  <2>9. (winner = None) = NoneValid
    BY <2>6, <2>8 DEF NoneValid
  <2> QED BY <2>5, <2>6, <2>7, <2>9
<1> QED BY <1>3, <1>4

\* No buyer with a valid bid is passed over for one whose bid is lower by epsilon or
\* more, however the tasks interleave and complete.
THEOREM WinnersBidIsHighest == Spec => []WinnerBidIsHighest
BY InvHolds, InvWinnerBidIsHighest, PTL

\* Among bids that count as equal, priority and then the bid decide.
THEOREM PrioritiesBreakTies == Spec => []PriorityBreaksTies
BY InvHolds, InvPriorityBreaksTies, PTL

\* Every answer of the auction is enqueued for persistence under its own campaign.
THEOREM EveryAnswerGetsStored == Spec => []EveryAnswerIsStored
BY InvHolds, InvEveryAnswerIsStored, PTL

\* There is a winner whenever there is a valid bid, and an auction is reported as timed
\* out only when all buyers were late or said so, or the winner itself said so.
THEOREM OutcomesAreExact == Spec => []OutcomeIsExact
BY InvHolds, InvOutcomeIsExact, PTL
=============================================================================
