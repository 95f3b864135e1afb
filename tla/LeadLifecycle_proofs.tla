------------------------ MODULE LeadLifecycle_proofs ------------------------
(***************************************************************************)
(* The safety properties of LeadLifecycle, proved for any set of post       *)
(* requests, with and without database failures.                            *)
(*                                                                         *)
(* Two of them hold however the publisher behaves (TokenIsTemporary and     *)
(* PromiseStaysValid); the others need a publisher that lets the writes of  *)
(* its ping settle before it posts (Patient).  LL_double_sell shows that    *)
(* AtMostOneSale fails without that.                                        *)
(***************************************************************************)
EXTENDS LeadLifecycle, FiniteSetTheorems, TLAPS

-----------------------------------------------------------------------------
(* The inductive invariant.                                                 *)

Updates == [kind : {"LeadUpdate"}, status : Statuses, campaign : {"assigned", "winner", Keep},
            promise : {"winner", Keep}, postId : {Empty} \cup {RealId(r) : r \in Posts},
            soldAt : BOOLEAN, token : Posts \cup {NoToken}, bid : BOOLEAN]
Tasks == {Creation} \cup Updates

\* Updates of the ping carry no token.
OfPing(u) == u # Creation /\ u.token = NoToken

\* Beside the types: a row, once written, stays, and every request that has found
\* the lead holds a copy of it.
TypeInv ==
    /\ TypeOK
    /\ queue \in Seq(Tasks)
    /\ \A p \in Promises : cached[p] # NoRow => row # NoRow
    /\ \A r \in Posts : post[r] \notin {"idle", "not_found"} => row # NoRow /\ snap[r] # NoRow

\* The creation of the lead is the first of its tasks, and unless it failed it is
\* in the queue until the row is there.
CreationInv ==
    /\ \A i \in DOMAIN queue : queue[i] = Creation => i = 1 /\ row = NoRow
    /\ ping = "new" => queue = <<>> /\ row = NoRow
    /\ ping # "new" /\ row = NoRow /\ ~faulted => queue # <<>> /\ queue[1] = Creation

\* The winner's promise is in the row or on its way.
PromiseInv ==
    /\ mode = "sync" => told \in {Keep, "winner"}
    /\ ~faulted /\ (told = "winner" \/ ping = "won") =>
         \/ row # NoRow /\ row.promise = "winner"
         \/ \E i \in DOMAIN queue : OfPing(queue[i]) /\ queue[i].promise = "winner"

\* A token in the row has a request that will replace it or a reset on its way.
TokenInv ==
    ~faulted /\ row # NoRow => \A r \in Posts : row.postId = Token(r) =>
        \/ post[r] \in {"claimed", "accepted", "refused"}
        \/ /\ post[r] = "done_refused"
           /\ \E i \in DOMAIN queue : /\ queue[i] # Creation /\ queue[i].token = r
                                      /\ ~ShouldUpdateAsSold(queue[i])

Inv == TypeInv /\ CreationInv /\ PromiseInv /\ TokenInv

Started == \E r \in Posts : post[r] # "idle"

\* When the first post is made the ping has settled; from then on the queue only
\* holds the final updates of posts.
SettledInv ==
    Started =>
        /\ ping = "answered" /\ ~spawned
        /\ \A i \in DOMAIN queue :
             LET u == queue[i] IN
             /\ u # Creation /\ u.token \in Posts
             /\ \/ post[u.token] = "done_sold"
                \/ post[u.token] = "done_refused" /\ ~ShouldUpdateAsSold(u)

\* The row names the request that has claimed the lead, and the one that sold it.
HolderInv ==
    /\ \A r \in Posts : post[r] \in {"claimed", "accepted", "refused"} => row.postId = Token(r)
    /\ SaleIsKept
    /\ \A r \in sales : /\ post[r] \in {"accepted", "sold", "done_sold", "error"}
                        /\ row.postId \in {Token(r), RealId(r)}

\* Copies of the lead agree with the row on who it is promised to.
SameBuyer(lead) == lead.promise = row.promise /\ lead.campaign = row.campaign
CopyInv ==
    /\ mode = "sync" => told \in {Keep, "winner"}
    /\ \A p \in Promises : cached[p] # NoRow => Started /\ SameBuyer(cached[p])
    /\ \A r \in Posts : post[r] \notin {"idle", "not_found"} => SameBuyer(snap[r])
    /\ \A r \in Posts : post[r] \in {"claimed", "accepted"} => row.promise = told
    /\ \A r \in sales : row.promise = told
    /\ \A i \in DOMAIN queue : OfPing(queue[i]) => queue[i].promise = queue[i].campaign
    /\ row # NoRow /\ row.promise = "winner" => row.campaign = "winner"
    /\ Started => told # Keep
    /\ ~Started => \A i \in DOMAIN queue : queue[i] # Creation => queue[i].token = NoToken

PatientInv == Inv /\ SettledInv /\ HolderInv /\ CopyInv

-----------------------------------------------------------------------------
(* The data.                                                                *)

\* The values of post_id differ from each other, the sentinels from the values.
LEMMA Values ==
    /\ \A r \in Posts : Token(r) # Empty /\ RealId(r) # Empty
    /\ \A r, q \in Posts : Token(r) # RealId(q)
    /\ \A r, q \in Posts : (Token(r) = Token(q) => r = q) /\ (RealId(r) = RealId(q) => r = q)
    /\ NoRow \notin Rows
    /\ Creation \notin Updates
    /\ NoToken \notin Posts
BY PostsAssumption DEF Token, RealId, Empty, NoRow, Rows, Creation, Updates

\* The constructor of updates.
LEMMA UpdateFields ==
    ASSUME NEW status \in Statuses, NEW campaign \in {"assigned", "winner", Keep},
           NEW promise \in {"winner", Keep}, NEW postId \in {Empty} \cup {RealId(r) : r \in Posts},
           NEW soldAt \in BOOLEAN, NEW token \in Posts \cup {NoToken}, NEW bid \in BOOLEAN
    PROVE  LeadUpdate(status, campaign, promise, postId, soldAt, token, bid) \in Updates
BY DEF LeadUpdate, Updates

\* The statement of a sold lead.
LEMMA SoldFields ==
    ASSUME row \in Rows, NEW u \in Updates
    PROVE  LET new == SoldStatement(u) IN
           /\ new \in Rows
           /\ new.status = u.status /\ new.postId = u.postId /\ new.bid = u.bid
           /\ new.campaign = Coalesce(u.campaign, row.campaign)
           /\ new.promise = Coalesce(u.promise, row.promise)
<1>1. Coalesce(u.campaign, row.campaign) \in {"assigned", "winner"} /\ Coalesce(u.promise, row.promise) \in Promises
  BY DEF Coalesce, Updates, Rows, Keep, Promises
<1>2. u.postId \in PostIds
  BY DEF Updates, PostIds
<1> QED BY <1>1, <1>2 DEF SoldStatement, Updates, Rows

\* The statement that merges vertical_data.
LEMMA StandardFields ==
    ASSUME row \in Rows, NEW u \in Updates
    PROVE  LET new == StandardStatement(u) IN
           /\ new \in Rows
           /\ new.status = u.status /\ new.postId = u.postId /\ new.bid = (row.bid \/ u.bid)
           /\ new.campaign = Coalesce(u.campaign, row.campaign)
           /\ new.promise = Coalesce(u.promise, row.promise)
<1>1. Coalesce(u.campaign, row.campaign) \in {"assigned", "winner"} /\ Coalesce(u.promise, row.promise) \in Promises
  BY DEF Coalesce, Updates, Rows, Keep, Promises
<1>2. u.postId \in PostIds
  BY DEF Updates, PostIds
<1> QED BY <1>1, <1>2 DEF StandardStatement, Updates, Rows

\* Statements that only change post_id, or post_id and the status.
LEMMA PostIdFields ==
    ASSUME row \in Rows, NEW id \in PostIds
    PROVE  LET new == [row EXCEPT !.postId = id]
               sold == [row EXCEPT !.status = "Sold", !.postId = id] IN
           /\ new \in Rows /\ sold \in Rows
           /\ new.postId = id /\ new.status = row.status /\ new.bid = row.bid
           /\ new.campaign = row.campaign /\ new.promise = row.promise
           /\ sold.postId = id /\ sold.status = "Sold" /\ sold.bid = row.bid
           /\ sold.campaign = row.campaign /\ sold.promise = row.promise
BY DEF Rows, Statuses

Refusals == {"Rejected", "Timeout", "Error"}

\* update_lead_status leaves the row alone, or changes its status and winning_bid.
LEMMA StatusFields ==
    ASSUME row \in Rows \cup {NoRow}, NEW status \in Refusals, NEW lead, lead.bid \in BOOLEAN,
           UpdateLeadStatus(status, lead)
    PROVE  \/ row' = row
           \/ /\ row \in Rows /\ row' \in Rows
              /\ row'.status = status /\ row'.bid = lead.bid /\ row'.postId = row.postId
              /\ row'.campaign = row.campaign /\ row'.promise = row.promise
<1>1. CASE row = NoRow \/ lead.status # "Processing"
  BY <1>1 DEF UpdateLeadStatus
<1>2. CASE row # NoRow /\ lead.status = "Processing"
  <2>1. row' = [row EXCEPT !.status = status, !.bid = lead.bid] /\ row \in Rows
    BY <1>2 DEF UpdateLeadStatus
  <2> QED BY <2>1 DEF Rows, Refusals, Statuses
<1> QED BY <1>1, <1>2

\* Appending a task and removing the first one.
LEMMA QueueOps ==
    ASSUME NEW q \in Seq(Tasks)
    PROVE  /\ \A t \in Tasks : /\ Append(q, t) \in Seq(Tasks) /\ Append(q, t) # <<>>
                               /\ Len(Append(q, t)) = Len(q) + 1
                               /\ \A i \in 1 .. Len(q) : Append(q, t)[i] = q[i]
                               /\ Append(q, t)[Len(q) + 1] = t
           /\ q # <<>> => /\ Head(q) \in Tasks /\ Head(q) = q[1] /\ Tail(q) \in Seq(Tasks)
                          /\ Len(q) \in Nat \ {0} /\ Len(Tail(q)) = Len(q) - 1
                          /\ \A i \in 1 .. Len(q) - 1 : Tail(q)[i] = q[i + 1]
           /\ Len(q) \in Nat /\ DOMAIN q = 1 .. Len(q)
OBVIOUS

\* The tasks the requests enqueue are tasks.
LEMMA TaskTypes ==
    /\ Creation \in Tasks
    /\ LeadUpdate("PingAccepted", "winner", "winner", Empty, FALSE, NoToken, TRUE) \in Updates
    /\ LeadUpdate("Processing", Keep, Keep, Empty, FALSE, NoToken, FALSE) \in Updates
    /\ \A status \in {"Sold", "PingAccepted"} : FinalUpdate(status) \in Updates
    /\ Updates \subseteq Tasks
BY DEF Tasks, Updates, LeadUpdate, FinalUpdate, Statuses, Promises

-----------------------------------------------------------------------------
(* What the steps make of the row.                                          *)

\* The row is overwritten with the fields of update u.
Written(u) ==
    /\ row \in Rows /\ row' \in Rows
    /\ row'.status = u.status /\ row'.postId = u.postId /\ row'.bid \in {u.bid, row.bid \/ u.bid}
    /\ row'.campaign = Coalesce(u.campaign, row.campaign)
    /\ row'.promise = Coalesce(u.promise, row.promise)

\* Only the post_id of the row changes.
OnlyPostId(id) ==
    /\ row \in Rows /\ row' \in Rows /\ row'.postId = id
    /\ row'.status = row.status /\ row'.bid = row.bid
    /\ row'.campaign = row.campaign /\ row'.promise = row.promise

\* The first statement of an update of the queue.
LEMMA WriteSoldRow ==
    ASSUME TypeInv, WriteSold
    PROVE  /\ queue # <<>> /\ queue[1] \in Updates /\ ShouldUpdateAsSold(queue[1])
           /\ \/ Matches(queue[1]) /\ Written(queue[1])
              \/ row' = row
           /\ UNCHANGED <<queue, ping, mode, told, spawned, cached, post, snap, sales>>
           /\ faulted => faulted'
<1>1. queue # <<>> /\ Head(queue) = queue[1] /\ queue[1] \in Updates
  BY QueueOps DEF TypeInv, WriteSold, Tasks, Creation
<1>2. (row' = SoldStatement(queue[1]) /\ Matches(queue[1])) \/ row' = row
  BY <1>1 DEF WriteSold, Statement
<1>3. Matches(queue[1]) => row \in Rows
  BY DEF Matches, TypeInv, TypeOK
<1>4. row' = SoldStatement(queue[1]) /\ Matches(queue[1]) => Written(queue[1])
  BY <1>1, <1>3, SoldFields DEF Written
<1>5. /\ UNCHANGED <<queue, ping, mode, told, spawned, cached, post, snap, sales>> /\ (faulted => faulted')
      /\ ShouldUpdateAsSold(queue[1])
  BY <1>1 DEF WriteSold, Statement, pingVars, postVars
<1> QED BY <1>1, <1>2, <1>4, <1>5

\* The second statement: it merges the update of a ping and resets the claim of a
\* post, and unless the database refused it, it reaches a row that matches.
LEMMA WriteUpdateRow ==
    ASSUME TypeInv, WriteUpdate
    PROVE  /\ queue # <<>> /\ queue[1] \in Updates /\ half = ShouldUpdateAsSold(queue[1])
           /\ \/ row' = row /\ (faulted' \/ ~Matches(queue[1]))
              \/ /\ Matches(queue[1]) /\ queue[1].token = NoToken
                 /\ Written(queue[1]) /\ row'.bid = (row.bid \/ queue[1].bid)
              \/ Matches(queue[1]) /\ queue[1].token # NoToken /\ OnlyPostId(Empty)
           /\ queue' = Tail(queue) /\ (faulted => faulted')
           /\ UNCHANGED <<ping, mode, told, spawned, cached, post, snap, sales>>
<1> DEFINE u == queue[1]
<1>1. queue # <<>> /\ Head(queue) = u /\ u \in Updates
  BY QueueOps DEF TypeInv, WriteUpdate, Tasks, Creation
<1>2. (row' = row /\ faulted') \/ row' = SecondStatement(u)
  BY <1>1 DEF WriteUpdate, Statement
<1>h. /\ half = ShouldUpdateAsSold(u)
      /\ queue' = Tail(queue) /\ (faulted => faulted')
      /\ UNCHANGED <<ping, mode, told, spawned, cached, post, snap, sales>>
  BY <1>1 DEF WriteUpdate, Statement, pingVars, postVars
<1>3. Matches(u) => row \in Rows
  BY DEF Matches, TypeInv, TypeOK
<1>4. CASE row' = SecondStatement(u) /\ Matches(u) /\ u.token = NoToken
  BY <1>1, <1>3, <1>4, <1>h, StandardFields DEF SecondStatement, Written
<1>5. CASE row' = SecondStatement(u) /\ Matches(u) /\ u.token # NoToken
  <2>1. row' = [row EXCEPT !.postId = Empty] /\ row \in Rows /\ Empty \in PostIds
    BY <1>3, <1>5 DEF SecondStatement, PostIds
  <2>2. OnlyPostId(Empty)
    BY <2>1, PostIdFields DEF OnlyPostId
  <2> QED BY <1>1, <1>h, <1>5, <2>2
<1>6. CASE row' = SecondStatement(u) /\ ~Matches(u)
  BY <1>1, <1>h, <1>6 DEF SecondStatement
<1>7. CASE row' = row /\ faulted'
  BY <1>1, <1>h, <1>7
<1> QED BY <1>2, <1>4, <1>5, <1>6, <1>7

\* The creation inserts the row, or the database refuses it.
LEMMA WriteCreationRow ==
    ASSUME TypeInv, WriteCreation
    PROVE  /\ queue # <<>> /\ queue[1] = Creation
           /\ \/ row' = row /\ faulted'
              \/ /\ row' \in Rows /\ row'.status = "Processing" /\ row'.campaign = "assigned"
                 /\ row'.promise = "generated" /\ row'.postId = Empty /\ row'.bid = FALSE
                 /\ faulted' = faulted
           /\ queue' = Tail(queue) /\ (faulted => faulted')
           /\ UNCHANGED <<ping, mode, told, spawned, cached, post, snap, sales>>
<1>1. queue # <<>> /\ Head(queue) = queue[1] /\ queue[1] \in Tasks
  BY QueueOps DEF TypeInv, WriteCreation
<1>2. queue[1] = Creation
  BY <1>1 DEF WriteCreation, Tasks, Updates
<1> DEFINE new == [status |-> "Processing", campaign |-> "assigned", promise |-> "generated",
                   postId |-> Empty, soldAt |-> FALSE, bid |-> FALSE]
<1>3. /\ new \in Rows /\ new.status = "Processing" /\ new.campaign = "assigned"
      /\ new.promise = "generated" /\ new.postId = Empty /\ new.bid = FALSE
  BY DEF Rows, Statuses, Promises, PostIds
<1>4. Statement(new)
  BY DEF WriteCreation
<1> HIDE DEF new
<1>5. (row' = new /\ faulted' = faulted) \/ (row' = row /\ faulted')
  BY <1>4 DEF Statement
<1>6. /\ queue' = Tail(queue) /\ (faulted => faulted')
      /\ UNCHANGED <<ping, mode, told, spawned, cached, post, snap, sales>>
  BY <1>5 DEF WriteCreation, pingVars, postVars
<1> QED BY <1>1, <1>2, <1>3, <1>5, <1>6

\* The detached update of a ping.
LEMMA SpawnedUpdateRow ==
    ASSUME TypeInv, SpawnedUpdate
    PROVE  /\ row' = row \/ Written(FinalUpdate("Sold"))
           /\ spawned /\ ~spawned'
           /\ UNCHANGED <<queue, ping, mode, told, cached, post, snap, sales, faulted>>
<1>1. CASE row = NoRow
  BY <1>1 DEF SpawnedUpdate, postVars
<1>2. CASE row \in Rows
  <2>1. row' = row \/ row' = SoldStatement(FinalUpdate("Sold"))
    BY DEF SpawnedUpdate
  <2>2. FinalUpdate("Sold") \in Updates
    BY TaskTypes
  <2>3. row' = row \/ Written(FinalUpdate("Sold"))
    BY <1>2, <2>1, <2>2, SoldFields DEF Written
  <2> QED BY <2>3 DEF SpawnedUpdate, postVars
<1> QED BY <1>1, <1>2 DEF TypeInv, TypeOK

\* The outcome that a lost auction stores.
LEMMA AuctionLostRow ==
    ASSUME TypeInv, AuctionLost
    PROVE  /\ \/ row' = row
              \/ /\ row \in Rows /\ row' \in Rows /\ row'.status \in Refusals
                 /\ row'.postId = row.postId /\ row'.campaign = row.campaign /\ row'.promise = row.promise
           /\ ping = "routing" /\ ping' \in {"answered", "lost"}
           /\ UNCHANGED <<queue, mode, told, spawned, cached, post, snap, sales, faulted>>
<1> DEFINE lead == [status |-> "Processing", bid |-> FALSE]
<1>1. PICK status \in Refusals : UpdateLeadStatus(status, lead)
  BY DEF AuctionLost, Refusals
<1>2. lead.bid \in BOOLEAN
  OBVIOUS
<1> HIDE DEF lead
<1>3. /\ ping = "routing" /\ ping' \in {"answered", "lost"}
      /\ UNCHANGED <<queue, mode, told, spawned, cached, post, snap, sales, faulted>>
  BY DEF AuctionLost, postVars
<1> QED BY <1>1, <1>2, <1>3, StatusFields DEF TypeInv, TypeOK

\* The outcome that a refused post stores.
LEMMA BuyerRefusesRow ==
    ASSUME TypeInv, NEW r \in Posts, BuyerRefuses(r)
    PROVE  \/ row' = row
           \/ /\ row \in Rows /\ row' \in Rows /\ row'.status \in Refusals
              /\ row'.postId = row.postId /\ row'.campaign = row.campaign /\ row'.promise = row.promise
<1>1. PICK status \in Refusals : UpdateLeadStatus(status, snap[r])
  BY DEF BuyerRefuses, Refusals
<1>2. snap[r].bid \in BOOLEAN
  <2>1. snap[r] \in Rows
    BY DEF TypeInv, TypeOK, BuyerRefuses
  <2> QED BY <2>1 DEF Rows
<1> QED BY <1>1, <1>2, StatusFields DEF TypeInv, TypeOK

\* A claim puts the request's token into an empty post_id of the promised row.
LEMMA ClaimRow ==
    ASSUME TypeInv, NEW r \in Posts, Claim(r) \/ ClaimAnswerLost(r)
    PROVE  OnlyPostId(Token(r)) /\ row.postId = Empty /\ row.promise = told
<1>1. row \in Rows /\ row.postId = Empty /\ row.promise = told /\ row' = [row EXCEPT !.postId = Token(r)]
  BY DEF Claim, ClaimAnswerLost, Claimable, HasPromise, TypeInv, TypeOK
<1>2. Token(r) \in PostIds
  BY DEF PostIds
<1> QED BY <1>1, <1>2, PostIdFields DEF OnlyPostId

\* The router stores the sale with the buyer's post_id.
LEMMA StoreAcceptanceRow ==
    ASSUME TypeInv, NEW r \in Posts, StoreAcceptance(r)
    PROVE  /\ row \in Rows /\ row' \in Rows /\ row'.postId = RealId(r) /\ row'.status = "Sold"
           /\ row'.bid = row.bid /\ row'.campaign = row.campaign /\ row'.promise = row.promise
<1>1. row \in Rows /\ row' = [row EXCEPT !.status = "Sold", !.postId = RealId(r)]
  BY DEF StoreAcceptance, UpdateLeadWithPost, TypeInv, TypeOK
<1>2. RealId(r) \in PostIds
  BY DEF PostIds
<1> QED BY <1>1, <1>2, PostIdFields

\* The final update of a post.
LEMMA FinishPostTask ==
    ASSUME TypeInv, NEW r \in Posts, FinishPost(r)
    PROVE  \E u \in Updates :
             /\ queue' = Append(queue, u) /\ u.token = r
             /\ post[r] = "refused" => ~ShouldUpdateAsSold(u)
<1>1. snap[r] \in Rows
  BY DEF FinishPost, TypeInv, TypeOK
<1> DEFINE s == LeadUpdate("Sold", snap[r].campaign, Keep, RealId(r), TRUE, r, snap[r].bid)
           f == LeadUpdate(snap[r].status, Keep, Keep, Empty, FALSE, r, snap[r].bid)
<1>2. s \in Updates /\ f \in Updates /\ s.token = r /\ f.token = r
  BY <1>1 DEF LeadUpdate, Updates, Rows, Statuses
<1>3. ~ShouldUpdateAsSold(f)
  BY DEF ShouldUpdateAsSold, LeadUpdate
<1> QED BY <1>2, <1>3 DEF FinishPost

-----------------------------------------------------------------------------
(* The parts that hold for every publisher.                                 *)

\* The parts that hold for every publisher hold before the ping.
LEMMA InitInv == Init => Inv
<1> SUFFICES ASSUME Init PROVE Inv
  OBVIOUS
<1> USE DEF Init
<1>1. queue \in Seq(Tasks) /\ DOMAIN queue = {}
  OBVIOUS
<1>2. post \in [Posts -> PostStates] /\ \A r \in Posts : post[r] = "idle"
  BY DEF PostStates
<1>3. TypeInv
  <2>1. TypeOK
    BY <1>2 DEF TypeOK
  <2>2. \A p \in Promises : cached[p] = NoRow
    OBVIOUS
  <2> QED BY <1>1, <1>2, <2>1, <2>2 DEF TypeInv
<1>4. CreationInv
  BY <1>1 DEF CreationInv
<1>5. PromiseInv
  BY DEF PromiseInv, Keep
<1>6. TokenInv
  BY DEF TokenInv
<1> QED BY <1>3, <1>4, <1>5, <1>6 DEF Inv

\* Every step keeps the types of the row, the queue and the requests.
LEMMA TypeStep == TypeInv /\ [Next]_vars => TypeInv'
<1> SUFFICES ASSUME TypeInv, [Next]_vars PROVE TypeInv'
  OBVIOUS
<1> USE DEF TypeInv, TypeOK
<1>t. queue \in Seq(Tasks)
  OBVIOUS
<1>q. \A t \in Tasks : Append(queue, t) \in Seq(Tasks)
  BY QueueOps, <1>t
<1>h. queue # <<>> => Tail(queue) \in Seq(Tasks)
  BY QueueOps, <1>t
<1>1. CASE SubmitPing
  BY <1>1, <1>q, TaskTypes DEF SubmitPing, postVars, Promises
<1>2. CASE AuctionWon
  BY <1>2, <1>q, TaskTypes DEF AuctionWon, postVars
<1>3. CASE AuctionLost
  BY <1>3, AuctionLostRow, Values DEF AuctionLost, postVars
<1>4. CASE AuctionFailed
  BY <1>4 DEF AuctionFailed, postVars
<1>5. ASSUME NEW priced \in BOOLEAN, AnswerPing(priced) PROVE TypeInv'
  BY <1>5, <1>q, TaskTypes DEF AnswerPing, AnswerWith, postVars, Promises
<1>6. CASE AnswerLostPing
  BY <1>6, <1>q, TaskTypes DEF AnswerLostPing, postVars
<1>7. CASE WriteCreation
  BY <1>7, <1>h, WriteCreationRow, Values DEF WriteCreation, Statement, postVars, pingVars
<1>8. CASE WriteSold
  BY <1>8, WriteSoldRow, Values DEF WriteSold, Statement, Written, postVars, pingVars
<1>9. CASE WriteUpdate
  BY <1>9, <1>h, WriteUpdateRow, Values DEF WriteUpdate, Statement, Written, OnlyPostId, postVars, pingVars
<1>10. CASE SpawnedUpdate
  BY <1>10, SpawnedUpdateRow, Values DEF SpawnedUpdate, Written, postVars
<1>11. CASE Expire
  BY <1>11 DEF Expire, postVars, pingVars
<1>12. ASSUME NEW r \in Posts, Lookup(r) PROVE TypeInv'
  <2>1. CASE LookupCached(r)
    BY <2>1 DEF LookupCached, MayPost, Found, pingVars, PostStates
  <2>2. CASE LookupPromise(r)
    BY <2>2 DEF LookupPromise, HasPromise, MayPost, Found, pingVars, PostStates
  <2>3. CASE LookupLeadId(r)
    BY <2>3 DEF LookupLeadId, HasPromise, MayPost, Found, pingVars, PostStates
  <2>4. CASE LookupNothing(r)
    BY <2>4 DEF LookupNothing, HasPromise, MayPost, pingVars, PostStates
  <2> QED BY <1>12, <2>1, <2>2, <2>3, <2>4 DEF Lookup
<1>13. ASSUME NEW r \in Posts, Claim(r) \/ ClaimAnswerLost(r) PROVE TypeInv'
  BY <1>13, ClaimRow, Values DEF Claim, ClaimAnswerLost, OnlyPostId, pingVars, PostStates
<1>14. ASSUME NEW r \in Posts, ClaimRefused(r) \/ RouteFails(r) \/ BuyerAccepts(r) PROVE TypeInv'
  BY <1>14 DEF ClaimRefused, RouteFails, BuyerAccepts, pingVars, PostStates
<1>15. ASSUME NEW r \in Posts, StoreAcceptance(r) PROVE TypeInv'
  BY <1>15, StoreAcceptanceRow, Values DEF StoreAcceptance, pingVars, PostStates
<1>16. ASSUME NEW r \in Posts, BuyerRefuses(r) PROVE TypeInv'
  BY <1>16, BuyerRefusesRow, Values DEF BuyerRefuses, pingVars, PostStates
<1>17. ASSUME NEW r \in Posts, FinishPost(r) PROVE TypeInv'
  BY <1>17, <1>q, FinishPostTask, TaskTypes DEF FinishPost, pingVars, PostStates
<1>18. CASE UNCHANGED vars
  BY <1>18 DEF vars, pingVars, postVars
<1> QED
  BY <1>1, <1>2, <1>3, <1>4, <1>5, <1>6, <1>7, <1>8, <1>9, <1>10, <1>11, <1>12, <1>13, <1>14, <1>15,
     <1>16, <1>17, <1>18 DEF Next, PingNext, Writer, PostNext

\* Of the post requests only FinishPost touches the queue, and only claims, stored
\* outcomes and sales touch the row.
LEMMA PostSteps ==
    ASSUME TypeInv, NEW r \in Posts, PostNext(r)
    PROVE  /\ UNCHANGED pingVars
           /\ faulted => faulted'
           /\ row # NoRow => row' # NoRow /\ row'.promise = row.promise /\ row'.campaign = row.campaign
           /\ row = NoRow => row' = row
           /\ \/ queue' = queue
              \/ /\ row # NoRow /\ row' = row
                 /\ \E u \in Updates : queue' = Append(queue, u) /\ u.token = r
<1>1. CASE Lookup(r)
  BY <1>1 DEF Lookup, LookupCached, LookupPromise, LookupLeadId, LookupNothing
<1>2. CASE Claim(r) \/ ClaimAnswerLost(r)
  <2>1. row # NoRow /\ row' # NoRow /\ row'.promise = row.promise /\ row'.campaign = row.campaign
    BY <1>2, ClaimRow, Values DEF OnlyPostId
  <2> QED BY <1>2, <2>1 DEF Claim, ClaimAnswerLost
<1>3. CASE ClaimRefused(r) \/ BuyerAccepts(r) \/ RouteFails(r)
  BY <1>3 DEF ClaimRefused, BuyerAccepts, RouteFails
<1>4. CASE BuyerRefuses(r)
  BY <1>4, BuyerRefusesRow, Values DEF BuyerRefuses
<1>5. CASE StoreAcceptance(r)
  BY <1>5, StoreAcceptanceRow, Values DEF StoreAcceptance
<1>6. CASE FinishPost(r)
  <2>1. row # NoRow /\ row' = row
    BY <1>6 DEF TypeInv, FinishPost
  <2> QED BY <1>6, <2>1, FinishPostTask DEF FinishPost
<1> QED BY <1>1, <1>2, <1>3, <1>4, <1>5, <1>6 DEF PostNext

\* The creation of the row stays first in the queue until it is written.
LEMMA CreationStep == TypeInv /\ CreationInv /\ [Next]_vars => CreationInv'
<1> SUFFICES ASSUME TypeInv, CreationInv, [Next]_vars PROVE CreationInv'
  OBVIOUS
<1>t. queue \in Seq(Tasks) /\ Len(queue) \in Nat /\ DOMAIN queue = 1 .. Len(queue) /\ faulted \in BOOLEAN
  BY QueueOps DEF TypeInv, TypeOK
\* An update is appended.
<1>a. ASSUME NEW u \in Updates, queue' = Append(queue, u), ping # "new", ping' # "new",
             row' = NoRow <=> row = NoRow, faulted => faulted'
      PROVE  CreationInv'
  <2>1. u \in Tasks /\ u # Creation
    BY Values, TaskTypes
  <2>2. /\ DOMAIN queue' = 1 .. Len(queue) + 1 /\ queue'[Len(queue) + 1] = u /\ queue' # <<>>
        /\ \A i \in DOMAIN queue : queue'[i] = queue[i]
    BY <1>a, <1>t, <2>1, QueueOps
  <2>3. queue # <<>> => 1 \in DOMAIN queue
    BY <1>t
  <2> QED BY <1>a, <1>t, <2>1, <2>2, <2>3 DEF CreationInv
\* The queue does not change.
<1>b. ASSUME queue' = queue, ping' = "new" => ping = "new", ping = "new" => ping' = "new",
             row' = NoRow <=> row = NoRow, faulted => faulted'
      PROVE  CreationInv'
  BY <1>b, <1>t DEF CreationInv
<1>1. CASE SubmitPing
  <2>1. queue = <<>> /\ row = NoRow /\ row' = NoRow /\ ping' # "new"
    BY <1>1 DEF SubmitPing, CreationInv
  <2>2. Len(queue') = 1 /\ queue'[1] = Creation /\ queue' # <<>> /\ DOMAIN queue' = 1 .. 1
    BY <1>1, <1>t, <2>1, QueueOps, TaskTypes DEF SubmitPing
  <2> QED BY <2>1, <2>2 DEF CreationInv
<1>2. CASE AuctionWon
  BY <1>2, <1>a, TaskTypes DEF AuctionWon
<1>3. CASE AnswerLostPing
  BY <1>3, <1>a, TaskTypes DEF AnswerLostPing
<1>4. ASSUME NEW priced \in BOOLEAN, AnswerPing(priced) PROVE CreationInv'
  BY <1>4, <1>a, TaskTypes DEF AnswerPing, AnswerWith
<1>5. CASE AuctionLost
  BY <1>5, <1>b, AuctionLostRow, Values
<1>6. CASE AuctionFailed
  BY <1>6, <1>b DEF AuctionFailed
<1>7. CASE WriteSold
  <2>1. row' = NoRow <=> row = NoRow
    BY <1>7, WriteSoldRow, Values DEF Written
  <2> QED BY <1>7, <1>b, <2>1, WriteSoldRow
<1>8. CASE SpawnedUpdate
  <2>1. row' = NoRow <=> row = NoRow
    BY <1>8, SpawnedUpdateRow, Values DEF Written
  <2> QED BY <1>8, <1>b, <2>1, SpawnedUpdateRow
<1>9. CASE Expire
  BY <1>9, <1>b DEF Expire, pingVars
<1>10. ASSUME NEW r \in Posts, PostNext(r) PROVE CreationInv'
  <2>1. CASE queue' = queue
    BY <1>10, <1>b, <2>1, PostSteps DEF pingVars
  <2>2. CASE queue' # queue
    <3>1. row # NoRow /\ row' = row /\ \E u \in Updates : queue' = Append(queue, u) /\ u.token = r
      BY <1>10, <2>2, PostSteps
    <3>2. ping # "new" /\ ping' = ping /\ (faulted => faulted')
      BY <1>10, <3>1, PostSteps DEF CreationInv, pingVars
    <3> QED BY <1>a, <3>1, <3>2
  <2> QED BY <2>1, <2>2
<1>11. CASE WriteCreation \/ WriteUpdate
  <2>0. queue # <<>> /\ queue' = Tail(queue) /\ ping' = ping /\ (faulted => faulted')
    BY <1>11, WriteCreationRow, WriteUpdateRow
  <2>1. /\ DOMAIN queue' = 1 .. Len(queue) - 1
        /\ \A i \in 1 .. Len(queue) - 1 : queue'[i] = queue[i + 1] /\ i + 1 \in DOMAIN queue
    BY <1>t, <2>0, QueueOps
  <2>2. \A i \in DOMAIN queue' : queue'[i] # Creation
    BY <2>1, <1>t DEF CreationInv
  <2>3. ping # "new"
    BY <2>0 DEF CreationInv
  <2>4. CASE WriteCreation
    BY <2>0, <2>2, <2>3, <2>4, WriteCreationRow, Values DEF CreationInv
  <2>5. CASE WriteUpdate
    <3>1. queue[1] # Creation /\ (row' = NoRow <=> row = NoRow)
      BY <2>5, WriteUpdateRow, Values DEF Written, OnlyPostId
    <3> QED BY <2>0, <2>2, <2>3, <3>1 DEF CreationInv
  <2> QED BY <1>11, <2>4, <2>5
<1>12. CASE UNCHANGED vars
  BY <1>12, <1>b DEF vars, pingVars
<1> QED
  BY <1>1, <1>2, <1>3, <1>4, <1>5, <1>6, <1>7, <1>8, <1>9, <1>10, <1>11, <1>12 DEF Next, PingNext, Writer

\* No write replaces the promise that a synchronous ping was answered with.
LEMMA PromiseStep == TypeInv /\ CreationInv /\ PromiseInv /\ [Next]_vars => PromiseInv'
<1> SUFFICES ASSUME TypeInv, CreationInv, PromiseInv, [Next]_vars PROVE PromiseInv'
  OBVIOUS
<1> DEFINE HasWinner == row # NoRow /\ row.promise = "winner"
           Coming(q) == \E i \in DOMAIN q : OfPing(q[i]) /\ q[i].promise = "winner"
<1>t. queue \in Seq(Tasks) /\ Len(queue) \in Nat /\ DOMAIN queue = 1 .. Len(queue) /\ faulted \in BOOLEAN
  BY QueueOps DEF TypeInv, TypeOK
<1>o. ~OfPing(Creation)
  BY DEF OfPing
\* A task is appended.
<1>a. ASSUME NEW u \in Updates, queue' = Append(queue, u)
      PROVE  (Coming(queue) => Coming(queue)') /\ (OfPing(u) /\ u.promise = "winner" => Coming(queue)')
  <2>1. /\ DOMAIN queue' = 1 .. Len(queue) + 1 /\ queue'[Len(queue) + 1] = u
        /\ \A i \in DOMAIN queue : queue'[i] = queue[i]
    BY <1>a, <1>t, QueueOps, TaskTypes
  <2> QED BY <1>t, <2>1
\* The row keeps the winner's promise.
<1>b. ASSUME NEW u \in Updates, Written(u) PROVE HasWinner => HasWinner'
  BY <1>b, Values DEF Written, Coalesce, Updates
\* The conclusion carries over.
<1>c. ASSUME HasWinner \/ Coming(queue) => (HasWinner \/ Coming(queue))', told' = told, mode' = mode,
             ping' = "won" => ping = "won", faulted => faulted'
      PROVE  PromiseInv'
  BY <1>c, <1>t DEF PromiseInv
<1>1. CASE SubmitPing
  <2>1. queue = <<>> /\ row = NoRow /\ DOMAIN queue = {}
    BY <1>1, <1>t DEF SubmitPing, CreationInv
  <2>2. told = "winner" => faulted
    BY <1>t, <2>1 DEF PromiseInv
  <2> QED BY <1>1, <1>t, <2>2 DEF SubmitPing, PromiseInv
<1>2. CASE AuctionWon
  <2>1. Coming(queue)'
    BY <1>2, <1>a, TaskTypes DEF AuctionWon, LeadUpdate, OfPing, Creation
  <2> QED BY <1>2, <2>1 DEF AuctionWon, PromiseInv
<1>3. CASE AnswerLostPing
  <2>1. Coming(queue) => Coming(queue)'
    BY <1>3, <1>a, TaskTypes DEF AnswerLostPing
  <2> QED BY <1>3, <1>c, <2>1 DEF AnswerLostPing
<1>4. ASSUME NEW priced \in BOOLEAN, AnswerPing(priced) PROVE PromiseInv'
  <2>1. PICK status \in {"Sold", "PingAccepted"} : queue' = Append(queue, FinalUpdate(status))
    BY <1>4 DEF AnswerPing, AnswerWith
  <2>2. FinalUpdate(status) \in Updates /\ OfPing(FinalUpdate(status)) /\ FinalUpdate(status).promise = "winner"
    BY TaskTypes DEF FinalUpdate, LeadUpdate, OfPing, Creation
  <2>3. Coming(queue)'
    BY <1>a, <2>1, <2>2
  <2> QED BY <1>4, <2>3 DEF AnswerPing, AnswerWith, PromiseInv
<1>5. CASE AuctionLost
  <2>1. HasWinner => HasWinner'
    BY <1>5, AuctionLostRow, Values
  <2> QED BY <1>5, <1>c, <2>1, AuctionLostRow
<1>6. CASE AuctionFailed
  BY <1>6 DEF AuctionFailed, PromiseInv
<1>7. CASE WriteSold
  <2>1. HasWinner => HasWinner'
    BY <1>7, <1>b, WriteSoldRow
  <2> QED BY <1>7, <1>c, <2>1, WriteSoldRow
<1>8. CASE SpawnedUpdate
  <2>1. HasWinner => HasWinner'
    BY <1>8, <1>b, SpawnedUpdateRow, TaskTypes
  <2> QED BY <1>8, <1>c, <2>1, SpawnedUpdateRow
<1>9. CASE Expire
  BY <1>9 DEF Expire, pingVars, PromiseInv
<1>10. ASSUME NEW r \in Posts, PostNext(r) PROVE PromiseInv'
  <2>1. HasWinner => HasWinner'
    BY <1>10, PostSteps
  <2>2. Coming(queue) => Coming(queue)'
    BY <1>10, <1>a, PostSteps
  <2> QED BY <1>10, <1>c, <2>1, <2>2, PostSteps DEF pingVars
<1>11. CASE WriteCreation \/ WriteUpdate
  <2>0. /\ queue # <<>> /\ queue' = Tail(queue) /\ (faulted => faulted') /\ ping # "new"
        /\ ping' = ping /\ told' = told /\ mode' = mode
    BY <1>11, WriteCreationRow, WriteUpdateRow DEF CreationInv
  <2>1. /\ DOMAIN queue' = 1 .. Len(queue) - 1
        /\ \A i \in 1 .. Len(queue) - 1 : queue'[i] = queue[i + 1]
    BY <1>t, <2>0, QueueOps
  <2>2. ASSUME NEW i \in DOMAIN queue, i # 1, OfPing(queue[i]), queue[i].promise = "winner"
        PROVE  Coming(queue)'
    <3>1. i - 1 \in DOMAIN queue' /\ queue'[i - 1] = queue[i]
      BY <1>t, <2>1, <2>2
    <3> QED BY <2>2, <3>1
  <2>3. CASE WriteCreation
    <3>1. queue[1] = Creation /\ row = NoRow
      BY <1>t, <2>0, <2>3, WriteCreationRow DEF CreationInv
    <3>2. HasWinner \/ Coming(queue) => Coming(queue)'
      BY <1>o, <2>2, <3>1
    <3> QED BY <1>c, <2>0, <3>2
  <2>4. CASE WriteUpdate
    <3>1. CASE faulted'
      BY <2>0, <3>1 DEF PromiseInv
    <3>2. CASE ~faulted'
      <4>1. row # NoRow /\ queue[1] \in Updates
        BY <2>0, <2>4, <3>2, WriteUpdateRow, Values DEF CreationInv
      <4>2. HasWinner => HasWinner'
        BY <2>4, <1>b, WriteUpdateRow, Values DEF OnlyPostId
      <4>3. OfPing(queue[1]) => Written(queue[1])
        BY <2>4, <3>2, <4>1, WriteUpdateRow DEF OfPing, Matches
      <4>4. Written(queue[1]) /\ queue[1].promise = "winner" => HasWinner'
        BY Values DEF Written, Coalesce, Keep
      <4>5. Coming(queue) => Coming(queue)' \/ HasWinner'
        BY <2>2, <4>3, <4>4
      <4> QED BY <1>c, <2>0, <4>2, <4>5
    <3> QED BY <3>1, <3>2
  <2> QED BY <1>11, <2>3, <2>4
<1>12. CASE UNCHANGED vars
  BY <1>12 DEF vars, pingVars, PromiseInv
<1> QED
  BY <1>1, <1>2, <1>3, <1>4, <1>5, <1>6, <1>7, <1>8, <1>9, <1>10, <1>11, <1>12 DEF Next, PingNext, Writer

\* A token in post_id keeps an owner that will remove it, or a failure behind it.
LEMMA TokenStep == TypeInv /\ TokenInv /\ [Next]_vars => TokenInv'
<1> SUFFICES ASSUME TypeInv, TokenInv, [Next]_vars, ~faulted', NEW r \in Posts,
                    row' # NoRow, row'.postId = Token(r)
             PROVE  \/ post'[r] \in {"claimed", "accepted", "refused"}
                    \/ /\ post'[r] = "done_refused"
                       /\ \E i \in DOMAIN queue' : /\ queue'[i] # Creation /\ queue'[i].token = r
                                                   /\ ~ShouldUpdateAsSold(queue'[i])
  BY DEF TokenInv, ShouldUpdateAsSold
<1> DEFINE Working(s) == s \in {"claimed", "accepted", "refused"}
           Reset(q) == \E i \in DOMAIN q : q[i] # Creation /\ q[i].token = r /\ ~ShouldUpdateAsSold(q[i])
<1>t. queue \in Seq(Tasks) /\ Len(queue) \in Nat /\ DOMAIN queue = 1 .. Len(queue) /\ faulted \in BOOLEAN
  BY QueueOps DEF TypeInv, TypeOK
\* A task is appended.
<1>a. ASSUME NEW u \in Updates, queue' = Append(queue, u)
      PROVE  /\ Reset(queue) => Reset(queue')
             /\ u.token = r /\ ~ShouldUpdateAsSold(u) => Reset(queue')
  <2>1. /\ DOMAIN queue' = 1 .. Len(queue) + 1 /\ queue'[Len(queue) + 1] = u
        /\ \A i \in DOMAIN queue : queue'[i] = queue[i]
    BY <1>a, <1>t, QueueOps, TaskTypes
  <2>2. u # Creation
    BY Values
  <2> QED BY <1>t, <2>1, <2>2
\* An update never writes a token.
<1>b. ASSUME NEW u \in Updates, Written(u) PROVE FALSE
  <2>1. row'.postId = u.postId /\ u.postId \in {Empty} \cup {RealId(q) : q \in Posts}
    BY <1>b DEF Written, Updates
  <2> QED BY <2>1, Values
\* The token was there before.
<1>c. ASSUME row # NoRow, row.postId = Token(r), ~faulted
      PROVE  Working(post[r]) \/ (post[r] = "done_refused" /\ Reset(queue))
  BY <1>c DEF TokenInv
\* The row has kept its post_id and the request its state.
<1>d. ASSUME row # NoRow, row'.postId = row.postId, ~faulted, post'[r] = post[r], Reset(queue) => Reset(queue')
      PROVE  Working(post'[r]) \/ (post'[r] = "done_refused" /\ Reset(queue'))
  BY <1>c, <1>d
<1> HIDE DEF Working, Reset
<1> SUFFICES Working(post'[r]) \/ (post'[r] = "done_refused" /\ Reset(queue'))
  BY DEF Working, Reset
<1>1. CASE SubmitPing
  <2>1. Reset(queue) => Reset(queue')
    <3>1. /\ DOMAIN queue' = 1 .. Len(queue) + 1 /\ \A i \in DOMAIN queue : queue'[i] = queue[i]
      BY <1>1, <1>t, QueueOps, TaskTypes DEF SubmitPing
    <3> QED BY <1>t, <3>1 DEF Reset
  <2> QED BY <1>1, <1>d, <2>1 DEF SubmitPing, postVars
<1>2. CASE AuctionWon
  BY <1>2, <1>a, <1>d, TaskTypes DEF AuctionWon, postVars
<1>3. CASE AnswerLostPing
  BY <1>3, <1>a, <1>d, TaskTypes DEF AnswerLostPing, postVars
<1>4. ASSUME NEW priced \in BOOLEAN, AnswerPing(priced)
      PROVE  Working(post'[r]) \/ (post'[r] = "done_refused" /\ Reset(queue'))
  BY <1>4, <1>a, <1>d, TaskTypes DEF AnswerPing, AnswerWith, postVars
<1>5. CASE AuctionLost
  BY <1>5, <1>d, AuctionLostRow, Values
<1>6. CASE AuctionFailed \/ Expire
  BY <1>6, <1>d DEF AuctionFailed, Expire, postVars
<1>7. CASE WriteSold
  <2>1. row' = row
    BY <1>7, <1>b, WriteSoldRow
  <2> QED BY <1>7, <1>d, <1>t, <2>1, WriteSoldRow
<1>8. CASE SpawnedUpdate
  BY <1>8, <1>b, <1>d, SpawnedUpdateRow, TaskTypes
<1>9. CASE WriteCreation
  BY <1>9, WriteCreationRow, Values
<1>10. CASE WriteUpdate
  <2>1. /\ row' = row /\ ~Matches(queue[1]) /\ queue # <<>> /\ queue' = Tail(queue)
        /\ post' = post /\ ~faulted /\ queue[1] \in Updates
    BY <1>10, <1>b, <1>t, WriteUpdateRow, Values DEF OnlyPostId
  <2>2. /\ DOMAIN queue' = 1 .. Len(queue) - 1
        /\ \A i \in 1 .. Len(queue) - 1 : queue'[i] = queue[i + 1]
    BY <1>t, <2>1, QueueOps
  <2>3. queue[1].token # r
    BY <2>1 DEF Matches
  <2>4. ASSUME NEW i \in DOMAIN queue, queue[i].token = r
        PROVE  i - 1 \in DOMAIN queue' /\ queue'[i - 1] = queue[i]
    BY <1>t, <2>2, <2>3, <2>4
  <2>5. Reset(queue) => Reset(queue')
    BY <2>4 DEF Reset
  <2> QED BY <1>d, <2>1, <2>5
<1>11. ASSUME NEW q \in Posts, PostNext(q)
       PROVE  Working(post'[r]) \/ (post'[r] = "done_refused" /\ Reset(queue'))
  <2>t. post \in [Posts -> PostStates] /\ ~faulted
    BY <1>11, <1>t, PostSteps DEF TypeInv, TypeOK
  <2>1. CASE Lookup(q)
    <3>1. row' = row /\ queue' = queue /\ post[q] = "idle" /\ \A p \in Posts \ {q} : post'[p] = post[p]
      BY <2>1, <2>t DEF Lookup, LookupCached, LookupPromise, LookupLeadId, LookupNothing, Found, MayPost
    <3> QED BY <2>t, <3>1, <1>c, <1>d DEF Working
  <2>2. CASE Claim(q)
    <3>1. q = r /\ post'[q] = "claimed"
      BY <2>2, <2>t, ClaimRow, Values DEF Claim, OnlyPostId
    <3> QED BY <3>1 DEF Working
  <2>3. CASE ClaimAnswerLost(q) \/ RouteFails(q)
    BY <2>3 DEF ClaimAnswerLost, RouteFails
  <2>4. CASE ClaimRefused(q)
    <3>1. row' = row /\ queue' = queue /\ post[q] = "found" /\ \A p \in Posts \ {q} : post'[p] = post[p]
      BY <2>4, <2>t DEF ClaimRefused
    <3> QED BY <2>t, <3>1, <1>c, <1>d DEF Working
  <2>5. CASE BuyerAccepts(q)
    <3>1. row' = row /\ queue' = queue /\ post'[q] = "accepted" /\ \A p \in Posts \ {q} : post'[p] = post[p]
      BY <2>5, <2>t DEF BuyerAccepts
    <3> QED BY <2>t, <3>1, <1>d DEF Working
  <2>6. CASE BuyerRefuses(q)
    <3>1. queue' = queue /\ post'[q] = "refused" /\ \A p \in Posts \ {q} : post'[p] = post[p]
      BY <2>6, <2>t DEF BuyerRefuses
    <3>2. row # NoRow /\ row'.postId = row.postId
      BY <2>6, BuyerRefusesRow, Values
    <3> QED BY <2>t, <3>1, <3>2, <1>d DEF Working
  <2>7. CASE StoreAcceptance(q)
    BY <2>7, StoreAcceptanceRow, Values
  <2>8. CASE FinishPost(q)
    <3>1. /\ row' = row /\ \A p \in Posts \ {q} : post'[p] = post[p]
          /\ post[q] \in {"sold", "refused"} /\ (post[q] = "refused" => post'[q] = "done_refused")
      BY <2>8, <2>t DEF FinishPost
    <3>2. (Reset(queue) => Reset(queue')) /\ (q = r /\ post[q] = "refused" => Reset(queue'))
      BY <2>8, <1>a, FinishPostTask
    <3> QED BY <2>t, <3>1, <3>2, <1>c, <1>d DEF Working
  <2> QED BY <1>11, <2>1, <2>2, <2>3, <2>4, <2>5, <2>6, <2>7, <2>8 DEF PostNext
<1>12. CASE UNCHANGED vars
  BY <1>12, <1>d DEF vars, postVars
<1> QED
  BY <1>1, <1>2, <1>3, <1>4, <1>5, <1>6, <1>7, <1>8, <1>9, <1>10, <1>11, <1>12 DEF Next, PingNext, Writer

\* All parts together.
LEMMA InvStep == Inv /\ [Next]_vars => Inv'
BY TypeStep, CreationStep, PromiseStep, TokenStep DEF Inv

\* The invariant of every publisher.
LEMMA InvHolds == Spec => []Inv
BY InitInv, InvStep, PTL DEF Spec

\* The row and the requests keep their types, whatever the publisher does.
THEOREM LifecycleTypes == Spec => []TypeOK
<1>1. Inv => TypeOK
  BY DEF Inv, TypeInv
<1> QED BY <1>1, InvHolds, PTL

\* However many posts race, and whenever they are made: when no request is at work,
\* no write is outstanding and the database has not failed, post_id holds no token.
THEOREM TokensAreTemporary == Spec => []TokenIsTemporary
<1>1. Inv => TokenIsTemporary
  <2> SUFFICES ASSUME Inv, ~faulted, Quiet, row # NoRow, NEW r \in Posts, row.postId = Token(r) PROVE FALSE
    BY DEF TokenIsTemporary
  <2>1. post[r] \notin {"claimed", "accepted", "refused"} /\ DOMAIN queue = {}
    BY DEF Quiet
  <2> QED BY <2>1 DEF Inv, TokenInv
<1> QED BY <1>1, InvHolds, PTL

\* The promise a publisher was given for a synchronous ping is the one in the row,
\* once the writes have landed, whichever of the two updates came last.
THEOREM PromisesStayValid == Spec => []PromiseStaysValid
<1>1. Inv => PromiseStaysValid
  <2> SUFFICES ASSUME Inv, mode = "sync", ~faulted, PingSettled, row # NoRow, told # Keep
               PROVE  row.promise = told
    BY DEF PromiseStaysValid
  <2>1. told = "winner" /\ DOMAIN queue = {}
    BY DEF Inv, PromiseInv, PingSettled
  <2> QED BY <2>1 DEF Inv, PromiseInv
<1> QED BY <1>1, InvHolds, PTL

-----------------------------------------------------------------------------
(* The parts that need a patient publisher.                                 *)

\* A step of one request leaves the others alone, and a request that has reached
\* its end makes no step.
LEMMA PostMoves ==
    ASSUME TypeInv, NEW r \in Posts, PostNext(r)
    PROVE  /\ \A p \in Posts \ {r} : post'[p] = post[p] /\ snap'[p] = snap[p]
           /\ post[r] \in {"idle", "found", "claimed", "accepted", "sold", "refused"}
           /\ post'[r] # "idle"
           /\ post[r] # "idle" => snap' = snap /\ cached' = cached
           /\ \A p \in Posts \ {r} : p \in sales' => p \in sales
<1>t. post \in [Posts -> PostStates] /\ snap \in [Posts -> Rows \cup {NoRow}] /\ post[r] \in PostStates
  BY DEF TypeInv, TypeOK
<1>1. CASE Lookup(r)
  BY <1>1, <1>t DEF Lookup, LookupCached, LookupPromise, LookupLeadId, LookupNothing, Found, MayPost
<1>2. CASE Claim(r) \/ ClaimAnswerLost(r) \/ ClaimRefused(r)
  BY <1>2, <1>t DEF Claim, ClaimAnswerLost, ClaimRefused
<1>3. CASE BuyerAccepts(r) \/ RouteFails(r)
  BY <1>3, <1>t DEF BuyerAccepts, RouteFails
<1>4. CASE BuyerRefuses(r) \/ StoreAcceptance(r) \/ FinishPost(r)
  BY <1>4, <1>t DEF BuyerRefuses, StoreAcceptance, FinishPost
<1> QED BY <1>1, <1>2, <1>3, <1>4 DEF PostNext

\* The steps of the ping and the writer touch no request.
LEMMA OtherSteps ==
    ASSUME PingNext \/ Writer \/ Expire \/ UNCHANGED vars
    PROVE  UNCHANGED <<post, snap, sales, cached, mode>>
<1>1. CASE PingNext
  BY <1>1 DEF PingNext, SubmitPing, AuctionWon, AuctionLost, AuctionFailed, AnswerPing, AnswerWith, AnswerLostPing,
     postVars
<1>2. CASE Writer
  BY <1>2 DEF Writer, WriteCreation, WriteSold, WriteUpdate, SpawnedUpdate, postVars, pingVars
<1>3. CASE Expire \/ UNCHANGED vars
  BY <1>3 DEF Expire, vars, postVars, pingVars
<1> QED BY <1>1, <1>2, <1>3

\* The ping has nothing more to do once a post is made.
LEMMA PingIsOver == Started /\ SettledInv => ~PingNext /\ ~SpawnedUpdate
BY DEF SettledInv, PingNext, SubmitPing, AuctionWon, AuctionLost, AuctionFailed, AnswerPing, AnswerWith,
   AnswerLostPing, SpawnedUpdate

\* After the first post, the queue only holds final updates of posts.
LEMMA SettledStep ==
    ASSUME Patient, TypeInv, SettledInv, [Next]_vars
    PROVE  SettledInv'
<1>t. queue \in Seq(Tasks) /\ Len(queue) \in Nat /\ DOMAIN queue = 1 .. Len(queue)
  BY QueueOps DEF TypeInv
<1> DEFINE Final(u) == /\ u # Creation /\ u.token \in Posts
                       /\ \/ post[u.token] = "done_sold"
                          \/ post[u.token] = "done_refused" /\ ~ShouldUpdateAsSold(u)
<1>f. SettledInv <=> (Started => ping = "answered" /\ ~spawned /\ \A i \in DOMAIN queue : Final(queue[i]))
  BY DEF SettledInv
<1>g. SettledInv' <=> (Started' => ping' = "answered" /\ ~spawned' /\ \A i \in DOMAIN queue' : Final(queue[i])')
  BY DEF SettledInv, ShouldUpdateAsSold
<1>1. CASE PingNext \/ Writer \/ Expire \/ UNCHANGED vars
  <2>1. post' = post /\ Started' = Started /\ \A u : Final(u)' <=> Final(u)
    BY <1>1, OtherSteps DEF Started, ShouldUpdateAsSold
  <2> SUFFICES ASSUME Started PROVE ping' = "answered" /\ ~spawned' /\ \A i \in DOMAIN queue' : Final(queue'[i])
    BY <1>g, <2>1
  <2>2. ping = "answered" /\ ~spawned /\ \A i \in DOMAIN queue : Final(queue[i])
    BY <1>f
  <2> HIDE DEF Final
  <2>3. CASE WriteCreation \/ WriteUpdate
    <3>1. queue # <<>> /\ queue' = Tail(queue) /\ ping' = ping /\ spawned' = spawned
      BY <2>3, WriteCreationRow, WriteUpdateRow
    <3>2. /\ DOMAIN queue' = 1 .. Len(queue) - 1
          /\ \A i \in 1 .. Len(queue) - 1 : queue'[i] = queue[i + 1] /\ i + 1 \in DOMAIN queue
      BY <1>t, <3>1, QueueOps
    <3> QED BY <2>2, <3>1, <3>2
  <2>4. CASE WriteSold
    BY <2>2, <2>4, WriteSoldRow
  <2>5. CASE Expire \/ UNCHANGED vars
    BY <2>2, <2>5 DEF Expire, vars, pingVars
  <2> QED BY <1>1, <2>3, <2>4, <2>5, PingIsOver DEF Writer
<1>2. ASSUME NEW r \in Posts, PostNext(r) PROVE SettledInv'
  <2>1. ping = "answered" /\ ~spawned /\ \A i \in DOMAIN queue : Final(queue[i])
    <3>1. CASE Started
      BY <3>1, <1>f
    <3>2. CASE ~Started
      <4>1. MayPost(r)
        BY <1>2, <3>2 DEF Started, PostNext, Lookup, LookupCached, LookupPromise, LookupLeadId, LookupNothing,
           Claim, ClaimAnswerLost, ClaimRefused, BuyerAccepts, RouteFails, BuyerRefuses, StoreAcceptance, FinishPost
      <4>2. PingSettled
        BY <3>2, <4>1 DEF MayPost, Started
      <4> QED BY <4>2 DEF PingSettled
    <3> QED BY <3>1, <3>2
  <2>2. ASSUME NEW u, Final(u) PROVE Final(u)'
    <3>1. post'[u.token] = post[u.token]
      BY <1>2, <2>2, PostMoves
    <3> QED BY <2>2, <3>1 DEF ShouldUpdateAsSold
  <2>3. ping' = ping /\ spawned' = spawned
    BY <1>2, PostSteps DEF pingVars
  <2>4. CASE queue' = queue
    BY <1>g, <2>1, <2>2, <2>3, <2>4
  <2>5. CASE FinishPost(r)
    <3>1. PICK u \in Updates : /\ queue' = Append(queue, u) /\ u.token = r
                               /\ post[r] = "refused" => ~ShouldUpdateAsSold(u)
      BY <2>5, FinishPostTask
    <3>2. /\ DOMAIN queue' = 1 .. Len(queue) + 1 /\ queue'[Len(queue) + 1] = u
          /\ \A i \in DOMAIN queue : queue'[i] = queue[i]
      BY <1>t, <3>1, QueueOps, TaskTypes
    <3>3. Final(u)'
      <4>1. post'[r] = IF post[r] = "sold" THEN "done_sold" ELSE "done_refused"
        BY <2>5 DEF FinishPost, TypeInv, TypeOK
      <4>2. post[r] \in {"sold", "refused"}
        BY <2>5 DEF FinishPost
      <4> QED BY <3>1, <4>1, <4>2, Values DEF ShouldUpdateAsSold
    <3> HIDE DEF Final
    <3>4. \A i \in DOMAIN queue' : Final(queue[i])'
      BY <1>t, <2>1, <2>2, <3>2, <3>3
    <3> QED BY <1>g, <2>1, <2>3, <3>4
  <2> QED BY <1>2, <2>4, <2>5 DEF PostNext, Lookup, LookupCached, LookupPromise, LookupLeadId, LookupNothing,
             Claim, ClaimAnswerLost, ClaimRefused, BuyerAccepts, RouteFails, BuyerRefuses, StoreAcceptance
<1> QED BY <1>1, <1>2 DEF Next

\* Once a post is made, the writer resets the claims of refused posts and changes
\* nothing else.
LEMMA WriterAfterPost ==
    ASSUME TypeInv, SettledInv, HolderInv, Started, Writer
    PROVE  \/ row' = row
           \/ \E q \in Posts : post[q] = "done_refused" /\ row.postId = Token(q) /\ OnlyPostId(Empty)
<1>t. queue \in Seq(Tasks) /\ Len(queue) \in Nat /\ DOMAIN queue = 1 .. Len(queue)
  BY QueueOps DEF TypeInv
<1> DEFINE u == queue[1]
           q == u.token
<1>1. queue # <<>> => /\ u # Creation /\ q \in Posts
                      /\ post[q] = "done_sold" \/ (post[q] = "done_refused" /\ ~ShouldUpdateAsSold(u))
  BY <1>t DEF SettledInv
<1>2. queue # <<>> /\ Matches(u) => row # NoRow /\ row.postId = Token(q)
  BY <1>1, Values DEF Matches
<1>3. queue # <<>> /\ Matches(u) => post[q] = "done_refused" /\ ~ShouldUpdateAsSold(u)
  BY <1>1, <1>2, Values DEF HolderInv, SaleIsKept
<1>4. CASE WriteCreation
  BY <1>1, <1>4, WriteCreationRow
<1>5. CASE WriteSold
  BY <1>3, <1>5, WriteSoldRow
<1>6. CASE WriteUpdate
  BY <1>1, <1>2, <1>3, <1>6, WriteUpdateRow, Values
<1> QED BY <1>4, <1>5, <1>6, PingIsOver DEF Writer

\* The request that holds the claim, or sold the lead, is the only one.
LEMMA HolderStep ==
    ASSUME TypeInv, SettledInv, HolderInv, [Next]_vars
    PROVE  HolderInv'
<1>t. post \in [Posts -> PostStates] /\ sales \subseteq Posts /\ TypeInv'
  BY TypeStep DEF TypeInv, TypeOK
<1>1. CASE PingNext \/ Writer \/ Expire \/ UNCHANGED vars
  <2>1. post' = post /\ sales' = sales
    BY <1>1, OtherSteps
  <2>2. CASE ~Started
    <3>1. \A r \in Posts : post[r] = "idle" /\ r \notin sales
      BY <1>t, <2>2 DEF Started, HolderInv
    <3> QED BY <1>t, <2>1, <3>1 DEF HolderInv, SaleIsKept
  <2>3. CASE row' = row
    BY <2>1, <2>3 DEF HolderInv, SaleIsKept
  <2>4. CASE Started /\ row' # row
    <3>1. Writer
      BY <1>1, <2>4, PingIsOver DEF Expire, vars
    <3>2. PICK q \in Posts : post[q] = "done_refused" /\ row.postId = Token(q) /\ OnlyPostId(Empty)
      BY <2>4, <3>1, WriterAfterPost
    <3>3. \A r \in Posts : /\ post[r] \notin {"claimed", "accepted", "refused", "sold", "done_sold"}
                           /\ r \notin sales
      BY <1>t, <3>2, Values DEF HolderInv, SaleIsKept
    <3> QED BY <1>t, <2>1, <3>3 DEF HolderInv, SaleIsKept
  <2> QED BY <2>2, <2>3, <2>4
<1>2. ASSUME NEW q \in Posts, PostNext(q) PROVE HolderInv'
  <2>1. CASE Lookup(q) \/ ClaimRefused(q)
    <3>1. /\ row' = row /\ sales' = sales /\ post[q] \in {"idle", "found"}
          /\ post'[q] \in {"found", "not_found", "duplicate"}
      BY <1>t, <2>1 DEF Lookup, LookupCached, LookupPromise, LookupLeadId, LookupNothing, Found, MayPost, ClaimRefused
    <3> QED BY <1>t, <1>2, <3>1, PostMoves DEF HolderInv, SaleIsKept
  <2>2. CASE Claim(q) \/ ClaimAnswerLost(q)
    <3>1. row'.postId = Token(q) /\ row.postId = Empty
      BY <2>2, ClaimRow DEF OnlyPostId
    <3>2. sales' = sales /\ post'[q] \in {"claimed", "duplicate", "error"}
      BY <1>t, <2>2 DEF Claim, ClaimAnswerLost
    <3>3. \A r \in Posts : /\ post[r] \notin {"claimed", "accepted", "refused", "sold", "done_sold"}
                           /\ r \notin sales
      BY <1>t, <3>1, Values DEF HolderInv, SaleIsKept
    <3> QED BY <1>t, <1>2, <3>1, <3>2, <3>3, PostMoves DEF HolderInv, SaleIsKept
  <2>3. CASE BuyerAccepts(q)
    <3>1. row' = row /\ post[q] = "claimed" /\ post'[q] = "accepted" /\ sales' = sales \cup {q}
      BY <1>t, <2>3 DEF BuyerAccepts
    <3> QED BY <1>t, <1>2, <3>1, PostMoves DEF HolderInv, SaleIsKept
  <2>4. CASE RouteFails(q)
    <3>1. row' = row /\ post[q] \in {"claimed", "accepted"} /\ post'[q] = "error" /\ sales' = sales
      BY <1>t, <2>4 DEF RouteFails
    <3> QED BY <1>t, <1>2, <3>1, PostMoves DEF HolderInv, SaleIsKept
  <2>5. CASE BuyerRefuses(q)
    <3>1. post[q] = "claimed" /\ post'[q] = "refused" /\ sales' = sales
      BY <1>t, <2>5 DEF BuyerRefuses
    <3>2. row'.postId = row.postId /\ row.postId = Token(q)
      BY <2>5, <3>1, BuyerRefusesRow DEF HolderInv
    <3>3. \A r \in Posts : post[r] \notin {"sold", "done_sold"}
      BY <3>2, Values DEF HolderInv, SaleIsKept
    <3> QED BY <1>t, <1>2, <3>1, <3>2, <3>3, PostMoves DEF HolderInv, SaleIsKept
  <2>6. CASE StoreAcceptance(q)
    <3>1. post[q] = "accepted" /\ post'[q] = "sold" /\ sales' = sales
      BY <1>t, <2>6 DEF StoreAcceptance
    <3>2. row'.postId = RealId(q) /\ row'.status = "Sold" /\ row.postId = Token(q)
      BY <2>6, <3>1, StoreAcceptanceRow DEF HolderInv
    <3>3. \A r \in Posts \ {q} : /\ post[r] \notin {"claimed", "accepted", "refused", "sold", "done_sold"}
                                 /\ r \notin sales
      BY <1>t, <3>2, Values DEF HolderInv, SaleIsKept
    <3> QED BY <1>t, <1>2, <3>1, <3>2, <3>3, PostMoves DEF HolderInv, SaleIsKept
  <2>7. CASE FinishPost(q)
    <3>1. /\ row' = row /\ sales' = sales /\ post[q] \in {"sold", "refused"}
          /\ post'[q] = IF post[q] = "sold" THEN "done_sold" ELSE "done_refused"
      BY <1>t, <2>7 DEF FinishPost
    <3> QED BY <1>t, <1>2, <3>1, PostMoves DEF HolderInv, SaleIsKept
  <2> QED BY <1>2, <2>1, <2>2, <2>3, <2>4, <2>5, <2>6, <2>7 DEF PostNext
<1> QED BY <1>1, <1>2 DEF Next

\* The initial states satisfy every part.
LEMMA InitPatient == Init => SettledInv /\ HolderInv /\ CopyInv
<1> SUFFICES ASSUME Init PROVE SettledInv /\ HolderInv /\ CopyInv
  OBVIOUS
<1>1. /\ \A r \in Posts : post[r] = "idle"
      /\ DOMAIN queue = {} /\ row = NoRow /\ sales = {} /\ ~spawned /\ ping = "new" /\ told = Keep
      /\ \A p \in Promises : cached[p] = NoRow
  BY DEF Init
<1>2. SettledInv
  BY <1>1 DEF SettledInv, Started
<1>3. HolderInv
  BY <1>1 DEF HolderInv, SaleIsKept
<1>4. CopyInv
  BY <1>1 DEF CopyInv, Started
<1> QED BY <1>2, <1>3, <1>4

\* The updates of the ping name the winner's campaign with the winner's promise.
LEMMA PingUpdates ==
    ASSUME PingNext
    PROVE  /\ \/ queue' = queue
              \/ queue' = Append(queue, Creation)
              \/ \E u \in Updates : queue' = Append(queue, u) /\ u.promise = u.campaign /\ u.token = NoToken
           /\ mode' = mode /\ (mode = "sync" => told' \in {told, "winner"})
<1>1. CASE SubmitPing
  BY <1>1 DEF SubmitPing
<1>2. CASE AuctionWon
  BY <1>2, TaskTypes DEF AuctionWon, LeadUpdate
<1>3. CASE AuctionLost \/ AuctionFailed
  BY <1>3 DEF AuctionLost, AuctionFailed
<1>4. ASSUME NEW priced \in BOOLEAN, AnswerPing(priced)
      PROVE  /\ \E u \in Updates : queue' = Append(queue, u) /\ u.promise = u.campaign /\ u.token = NoToken
             /\ mode' = mode /\ told' = "winner"
  <2>1. PICK status \in {"Sold", "PingAccepted"} : queue' = Append(queue, FinalUpdate(status))
    BY <1>4 DEF AnswerPing, AnswerWith
  <2>2. /\ FinalUpdate(status) \in Updates /\ FinalUpdate(status).promise = FinalUpdate(status).campaign
        /\ FinalUpdate(status).token = NoToken
    BY TaskTypes DEF FinalUpdate, LeadUpdate
  <2> QED BY <1>4, <2>1, <2>2 DEF AnswerPing, AnswerWith
<1>5. CASE AnswerLostPing
  BY <1>5, TaskTypes DEF AnswerLostPing, LeadUpdate
<1> QED BY <1>1, <1>2, <1>3, <1>4, <1>5 DEF PingNext

\* Every statement that runs before the first post writes an update of the ping.
LEMMA WrittenKeepsWinner ==
    ASSUME NEW u \in Updates, u.promise = u.campaign, Written(u), row.promise = "winner" => row.campaign = "winner"
    PROVE  row'.promise = "winner" => row'.campaign = "winner"
BY DEF Written, Coalesce, Updates

\* The copies of the lead that requests hold agree with the row on the buyer.
LEMMA CopyStep ==
    ASSUME TypeInv, SettledInv, HolderInv, CopyInv, [Next]_vars
    PROVE  CopyInv'
<1>t. /\ queue \in Seq(Tasks) /\ Len(queue) \in Nat /\ DOMAIN queue = 1 .. Len(queue)
      /\ post \in [Posts -> PostStates] /\ sales \subseteq Posts /\ TypeInv' /\ cached \in [Promises -> Rows \cup {NoRow}]
      /\ row \in Rows \cup {NoRow} /\ snap \in [Posts -> Rows \cup {NoRow}]
  BY QueueOps, TypeStep DEF TypeInv, TypeOK
<1> DEFINE Uniform(q) == \A i \in DOMAIN q : OfPing(q[i]) => q[i].promise = q[i].campaign
           NoPosts(q) == \A i \in DOMAIN q : q[i] # Creation => q[i].token = NoToken
           RowUniform == row # NoRow /\ row.promise = "winner" => row.campaign = "winner"
<1>a. ASSUME NEW t \in Tasks, queue' = Append(queue, t), OfPing(t) => t.promise = t.campaign
      PROVE  Uniform(queue') /\ (NoPosts(queue) /\ (t # Creation => t.token = NoToken) => NoPosts(queue'))
  <2>1. /\ DOMAIN queue' = 1 .. Len(queue) + 1 /\ queue'[Len(queue) + 1] = t
        /\ \A i \in DOMAIN queue : queue'[i] = queue[i]
    BY <1>a, <1>t, QueueOps
  <2> QED BY <1>a, <1>t, <2>1 DEF CopyInv
<1>b. ASSUME queue # <<>>, queue' = Tail(queue) PROVE Uniform(queue') /\ (NoPosts(queue) => NoPosts(queue'))
  <2>1. /\ DOMAIN queue' = 1 .. Len(queue) - 1
        /\ \A i \in 1 .. Len(queue) - 1 : queue'[i] = queue[i + 1] /\ i + 1 \in DOMAIN queue
    BY <1>b, <1>t, QueueOps
  <2> QED BY <2>1 DEF CopyInv
<1>c. Uniform(queue) /\ RowUniform /\ (~Started => NoPosts(queue))
  BY DEF CopyInv
<1>1. CASE PingNext \/ Writer \/ Expire \/ UNCHANGED vars
  <2>1. post' = post /\ snap' = snap /\ sales' = sales /\ cached' = cached /\ mode' = mode /\ (Started' <=> Started)
    BY <1>1, OtherSteps DEF Started
  <2>2. Uniform(queue') /\ (NoPosts(queue) => NoPosts(queue'))
    <3>1. CASE PingNext
      BY <3>1, <1>a, <1>c, PingUpdates, TaskTypes DEF OfPing
    <3>2. CASE WriteCreation \/ WriteUpdate
      BY <3>2, <1>b, WriteCreationRow, WriteUpdateRow
    <3>3. CASE WriteSold \/ SpawnedUpdate
      BY <3>3, <1>c, WriteSoldRow, SpawnedUpdateRow
    <3>4. CASE Expire \/ UNCHANGED vars
      BY <3>4, <1>c DEF Expire, vars
    <3> QED BY <1>1, <3>1, <3>2, <3>3, <3>4 DEF Writer
  <2>3. mode = "sync" => told' \in {Keep, "winner"}
    <3>1. CASE PingNext
      BY <3>1, PingUpdates DEF CopyInv
    <3>2. CASE Writer
      BY <3>2, WriteCreationRow, WriteUpdateRow, WriteSoldRow, SpawnedUpdateRow DEF CopyInv, Writer
    <3>3. CASE Expire \/ UNCHANGED vars
      BY <3>3 DEF Expire, vars, pingVars, CopyInv
    <3> QED BY <1>1, <3>1, <3>2, <3>3
  <2>4. CASE Started
    <3>1. row' = row \/ (row # NoRow /\ SameBuyer(row'))
      BY <1>1, <2>4, WriterAfterPost, PingIsOver, Values DEF Expire, vars, OnlyPostId, SameBuyer
    <3>2. told' = told
      BY <1>1, <2>4, PingIsOver, WriteCreationRow, WriteUpdateRow, WriteSoldRow DEF Writer, Expire, vars, pingVars
    <3>3. row # NoRow => row'.promise = row.promise /\ row'.campaign = row.campaign
      BY <3>1 DEF SameBuyer
    <3>4. row = NoRow => row' = row
      BY <3>1
    <3>5. \A p \in Promises : cached[p] # NoRow => row # NoRow
      BY DEF TypeInv
    <3>6. \A r \in Posts : post[r] \notin {"idle", "not_found"} => row # NoRow
      BY DEF TypeInv
    <3>7. \A r \in sales : post[r] \notin {"idle", "not_found"} /\ r \in Posts
      BY <1>t DEF HolderInv
    <3>8. (RowUniform)'
      BY <1>c, <3>3, <3>4
    <3> QED BY <2>1, <2>2, <2>3, <2>4, <3>2, <3>3, <3>5, <3>6, <3>7, <3>8 DEF CopyInv, SameBuyer
  <2>5. CASE ~Started
    <3>1. /\ \A r \in Posts : post[r] = "idle" /\ r \notin sales
          /\ \A p \in Promises : cached[p] = NoRow
      BY <1>t, <2>5 DEF Started, HolderInv, CopyInv
    <3>2. (RowUniform)'
      <4>1. CASE AuctionLost
        BY <4>1, <1>c, AuctionLostRow, Values
      <4>2. CASE PingNext /\ ~AuctionLost
        BY <4>2, <1>c DEF PingNext, SubmitPing, AuctionWon, AuctionFailed, AnswerPing, AnswerWith, AnswerLostPing
      <4>3. CASE WriteCreation
        BY <4>3, <1>c, WriteCreationRow
      <4>4. CASE SpawnedUpdate
        <5>1. FinalUpdate("Sold") \in Updates /\ FinalUpdate("Sold").promise = FinalUpdate("Sold").campaign
          BY TaskTypes DEF FinalUpdate, LeadUpdate
        <5>2. row' = row \/ Written(FinalUpdate("Sold"))
          BY <4>4, SpawnedUpdateRow
        <5>3. Written(FinalUpdate("Sold")) => row # NoRow
          BY Values DEF Written
        <5> HIDE DEF RowUniform
        <5>4. row' = row => (RowUniform)'
          BY <1>c DEF RowUniform
        <5>5. Written(FinalUpdate("Sold")) => (RowUniform)'
          BY <1>c, <5>1, <5>3, WrittenKeepsWinner DEF RowUniform
        <5> QED BY <5>2, <5>4, <5>5
      <4>5. CASE WriteSold \/ WriteUpdate
        <5>1. queue # <<>> /\ queue[1] \in Updates
          BY <4>5, WriteSoldRow, WriteUpdateRow
        <5>2. queue[1] # Creation /\ 1 \in DOMAIN queue
          BY <1>t, <5>1, Values
        <5>3. queue[1].token = NoToken => queue[1].promise = queue[1].campaign
          BY <1>c, <5>2 DEF OfPing
        <5>4. queue[1].token = NoToken
          BY <1>c, <2>5, <5>2
        <5>5. row' = row \/ Written(queue[1])
          BY <4>5, <5>4, WriteSoldRow, WriteUpdateRow
        <5>6. Written(queue[1]) => row # NoRow
          BY Values DEF Written
        <5> HIDE DEF RowUniform
        <5>7. row' = row => (RowUniform)'
          BY <1>c DEF RowUniform
        <5>8. Written(queue[1]) => (RowUniform)'
          BY <1>c, <5>1, <5>3, <5>4, <5>6, WrittenKeepsWinner DEF RowUniform
        <5> QED BY <5>5, <5>7, <5>8
      <4>6. CASE Expire \/ UNCHANGED vars
        BY <4>6, <1>c DEF Expire, vars
      <4> QED BY <1>1, <4>1, <4>2, <4>3, <4>4, <4>5, <4>6 DEF Writer
    <3> QED BY <1>c, <1>t, <2>1, <2>2, <2>3, <2>5, <3>1, <3>2 DEF CopyInv
  <2> QED BY <2>4, <2>5
<1>2. ASSUME NEW r \in Posts, PostNext(r) PROVE CopyInv'
  <2>1. /\ mode' = mode /\ told' = told /\ Started'
        /\ row # NoRow => row' # NoRow /\ row'.promise = row.promise /\ row'.campaign = row.campaign
        /\ row = NoRow => row' = row
    BY <1>2, <1>t, PostSteps, PostMoves DEF pingVars, Started
  <2>2. Uniform(queue')
    <3>1. CASE queue' = queue
      BY <1>c, <3>1
    <3>2. ASSUME NEW u \in Updates, queue' = Append(queue, u), u.token = r PROVE Uniform(queue')
      BY <1>a, <3>2, TaskTypes, Values DEF OfPing
    <3> QED BY <1>2, <3>1, <3>2, PostSteps
  <2>3. (RowUniform)'
    BY <1>c, <2>1
  <2>4. told # Keep
    <3>1. CASE Started
      BY <3>1 DEF CopyInv
    <3>2. CASE ~Started
      BY <1>2, <3>2 DEF Started, PostNext, Lookup, LookupCached, LookupPromise, LookupLeadId, LookupNothing,
         MayPost, Claim, ClaimAnswerLost, ClaimRefused, BuyerAccepts, RouteFails, BuyerRefuses, StoreAcceptance,
         FinishPost
    <3> QED BY <3>1, <3>2
  <2>5. \A p \in Promises : cached'[p] # NoRow => row # NoRow /\ SameBuyer(cached'[p])
    <3>1. CASE cached' = cached
      BY <3>1 DEF CopyInv, TypeInv
    <3>2. CASE cached' # cached
      <4>1. LookupPromise(r)
        BY <1>2, <3>2 DEF PostNext, Lookup, LookupCached, LookupLeadId, LookupNothing, Claim,
           ClaimAnswerLost, ClaimRefused, BuyerAccepts, RouteFails, BuyerRefuses, StoreAcceptance, FinishPost
      <4>2. row # NoRow /\ cached' = [cached EXCEPT ![told] = row]
        BY <4>1 DEF LookupPromise, HasPromise
      <4> QED BY <1>t, <4>2 DEF CopyInv, SameBuyer
    <3> QED BY <3>1, <3>2
  <2>6. \A q \in Posts : post'[q] \notin {"idle", "not_found"} => row # NoRow /\ SameBuyer(snap'[q])
    <3>1. ASSUME NEW q \in Posts \ {r} PROVE post'[q] \notin {"idle", "not_found"} => row # NoRow /\ SameBuyer(snap'[q])
      BY <1>2, PostMoves DEF CopyInv, TypeInv
    <3>2. CASE post[r] # "idle"
      <4>1. post[r] \notin {"idle", "not_found"} /\ snap' = snap
        BY <1>2, <3>2, PostMoves
      <4> QED BY <3>1, <4>1 DEF CopyInv, TypeInv
    <3>3. CASE post[r] = "idle"
      <4>1. CASE LookupCached(r)
        <5>1. told \in Promises /\ cached[told] # NoRow /\ snap'[r] = cached[told]
          BY <1>t, <2>4, <4>1 DEF LookupCached, Found, TypeInv, TypeOK
        <5> QED BY <3>1, <5>1 DEF CopyInv, TypeInv
      <4>2. CASE LookupPromise(r) \/ LookupLeadId(r)
        <5>1. row # NoRow /\ snap'[r] = row
          BY <1>t, <4>2 DEF LookupPromise, LookupLeadId, HasPromise, Found
        <5> QED BY <3>1, <5>1 DEF SameBuyer
      <4>3. CASE LookupNothing(r)
        <5>1. post'[r] = "not_found"
          BY <1>t, <4>3 DEF LookupNothing
        <5> QED BY <3>1, <5>1
      <4> QED BY <1>2, <3>3, <4>1, <4>2, <4>3 DEF PostNext, Lookup, Claim,
             ClaimAnswerLost, ClaimRefused, BuyerAccepts, RouteFails, BuyerRefuses, StoreAcceptance, FinishPost
    <3> QED BY <3>2, <3>3
  <2>7. /\ \A q \in Posts : post'[q] \in {"claimed", "accepted"} => row # NoRow /\ row.promise = told
        /\ \A q \in sales' : row # NoRow /\ row.promise = told
    <3>1. CASE Claim(r) \/ ClaimAnswerLost(r)
      <4>1. row # NoRow /\ row.promise = told
        BY <3>1, ClaimRow, Values DEF OnlyPostId
      <4> QED BY <4>1
    <3>2. CASE BuyerAccepts(r)
      <4>1. row # NoRow /\ row.promise = told
        BY <3>2 DEF BuyerAccepts, CopyInv, TypeInv
      <4> QED BY <4>1
    <3>3. CASE ~(Claim(r) \/ ClaimAnswerLost(r) \/ BuyerAccepts(r))
      <4>1. sales' = sales /\ post'[r] \notin {"claimed", "accepted"}
        BY <1>2, <1>t, <3>3 DEF PostNext, Lookup, LookupCached, LookupPromise, LookupLeadId, LookupNothing, Found,
           ClaimRefused, RouteFails, BuyerRefuses, StoreAcceptance, FinishPost
      <4>2. \A q \in sales : q \in Posts /\ row # NoRow
        BY <1>t DEF HolderInv, TypeInv
      <4> QED BY <1>2, <4>1, <4>2, PostMoves DEF CopyInv, TypeInv
    <3> QED BY <3>1, <3>2, <3>3
  <2>8. sales' \subseteq Posts
    BY <1>t DEF TypeInv, TypeOK
  <2> QED BY <2>1, <2>2, <2>3, <2>4, <2>5, <2>6, <2>7, <2>8 DEF CopyInv, SameBuyer
<1> QED BY <1>1, <1>2 DEF Next

-----------------------------------------------------------------------------
(* The theorems about a patient publisher.                                  *)

\* The invariant of a patient publisher.
LEMMA PatientHolds ==
    ASSUME Patient
    PROVE  Spec => []PatientInv
<1>1. Init => PatientInv
  BY InitInv, InitPatient DEF PatientInv
<1>2. PatientInv /\ [Next]_vars => PatientInv'
  BY InvStep, SettledStep, HolderStep, CopyStep DEF PatientInv, Inv
<1> QED BY <1>1, <1>2, PTL DEF Spec

\* Of any number of posts that race for a lead, with any database failures, at most
\* one reaches an accepting buyer, if the publisher lets its ping settle first.
THEOREM SoldAtMostOnce ==
    ASSUME Patient
    PROVE  Spec => []AtMostOneSale
<1>1. PatientInv => AtMostOneSale
  <2> SUFFICES ASSUME PatientInv PROVE Cardinality(sales) <= 1
    BY DEF AtMostOneSale
  <2>1. sales \subseteq Posts
    BY DEF PatientInv, Inv, TypeInv, TypeOK
  <2>2. \A r, q \in sales : r = q
    BY <2>1, Values DEF PatientInv, HolderInv
  <2>3. CASE sales = {}
    BY <2>3, FS_EmptySet
  <2>4. CASE sales # {}
    <3>1. PICK r : sales = {r}
      BY <2>2, <2>4
    <3> QED BY <3>1, FS_Singleton
  <2> QED BY <2>3, <2>4
<1> QED BY <1>1, PatientHolds, PTL

\* The status and the buyer's post_id that the router stored survive every later
\* write: the claims of other posts, the resets and the updates still in the queue.
THEOREM SalesAreKept ==
    ASSUME Patient
    PROVE  Spec => []SaleIsKept
<1>1. PatientInv => SaleIsKept
  BY DEF PatientInv, HolderInv
<1> QED BY <1>1, PatientHolds, PTL

\* A lead that was auctioned synchronously is posted with the winner's campaign,
\* whichever copy of the lead the post had looked up.
THEOREM SalesGoToWinner ==
    ASSUME Patient
    PROVE  Spec => []SaleGoesToWinner
<1>1. PatientInv => SaleGoesToWinner
  <2> SUFFICES ASSUME PatientInv, mode = "sync", NEW r \in sales PROVE snap[r].campaign = "winner"
    BY DEF SaleGoesToWinner
  <2>1. r \in Posts /\ post[r] \notin {"idle", "not_found"}
    BY DEF PatientInv, Inv, TypeInv, TypeOK, HolderInv
  <2>2. Started /\ row # NoRow
    BY <2>1 DEF Started, PatientInv, Inv, TypeInv
  <2>3. row.promise = "winner"
    BY <2>2 DEF PatientInv, CopyInv
  <2> QED BY <2>1, <2>2, <2>3 DEF PatientInv, CopyInv, SameBuyer
<1> QED BY <1>1, PatientHolds, PTL
=============================================================================
