--------------------------- MODULE RoutingCatalog ---------------------------
(***************************************************************************)
(* Ping trees, campaigns and the assignment of a publisher, as the          *)
(* dashboard changes them (crates/api/src/routes/dashboard.rs), and the     *)
(* lookups by which a request of that publisher finds the campaigns it is   *)
(* routed to: the pre-checks of create_lead (leads.rs) and route() of       *)
(* ping_tree_router.rs.  All lookups go through the cache, under different  *)
(* keys and lifetimes, and the cache warm-up (cache_warmup.rs) fills some   *)
(* of them; no dashboard operation touches the cache.                       *)
(*                                                                         *)
(* One publisher and one vertical, which always has a live buyer.  All      *)
(* campaigns are the publisher's own and of that vertical.  Names,          *)
(* priorities and revenue shares are left out; ping_tree_campaigns.enabled  *)
(* is never set to false by the program.                                    *)
(***************************************************************************)
EXTENDS CacheService, FiniteSets

CONSTANTS
    Trees, Campaigns,  \* identifiers
    Tokens,            \* a request has a campaign_token: subset of BOOLEAN
    Admins,            \* dashboard requests that may be in progress at once
    PrecheckTtl,       \* lifetime of "prechecks:..." (300 s)
    TreeTtl,           \* lifetime of "pingtree:..." and "campaigns:pingtree:..." (6 h)
    AssocTtl,          \* lifetime of "campaigns:associations:..." (1 h)
    MaxTime, MaxEdits, MaxRounds  \* bounds of the model

ASSUME CatalogAssumption ==
    /\ {PrecheckTtl, TreeTtl, AssocTtl} \subseteq Nat \ {0}
    /\ {MaxTime, MaxEdits, MaxRounds} \subseteq Nat

VARIABLES
    tree,      \* tree[t]: "none", "live" or "deleted"
    campaign,  \* campaign[c]: "none", "active", "paused", "inactive" or "deleted"
    member,    \* ping_tree_campaigns
    assigned,  \* the tree of the publisher's ping_tree_publishers row, or Null
    admin,     \* admin[a]: the next statement of a dashboard request, or Idle
    edits,     \* dashboard requests made so far
    rounds,    \* lead requests and warm-ups so far
    req,       \* req[i]: the lead request that instance i works on
    warm,      \* warm[i]: the warm-up of i is about to look up the publisher's tree
    until      \* history: when facts of the catalogue last ended

catalog == <<tree, campaign, member, assigned>>
cacheVars == <<l1, l2, faults>>
vars == <<now, cacheVars, catalog, admin, edits, rounds, req, warm, until>>

Idle == [stmt |-> "none"]
NoRequest == [stage |-> "idle"]
LongAgo == -100

\* Cache keys.
Prechecks(token) == <<"prechecks", token>>
TreeKey == <<"pingtree">>
ListKey(t) == <<"campaigns:pingtree", t>>
AssocKey(S) == <<"campaigns:associations", S>>
Keys ==
    {Prechecks(token) : token \in Tokens} \cup {TreeKey}
      \cup {ListKey(t) : t \in Trees} \cup {AssocKey(S) : S \in (SUBSET Campaigns) \ {{}}}

-----------------------------------------------------------------------------
(* What the queries return.                                                 *)

Live(t) == tree[t] = "live"
Active(c) == campaign[c] = "active"

\* PingTree::find_for_routing; the publisher has at most one row per vertical.
AssignedTree == IF assigned # Null /\ Live(assigned) THEN assigned ELSE Null

\* PingTreeCampaign::find_enabled_for_ping_tree
Listed(t) == {c \in Campaigns : <<t, c>> \in member /\ Active(c)}

\* Campaign::find_by_ids_with_associations, and of those the active ones.
ActiveOf(S) == {c \in S : Active(c)}

\* The combined query of the pre-checks and its evaluation, for a request with or
\* without a campaign_token.  Without one nothing is said about a missing campaign, and
\* create_lead stops at expect("campaign_id must be present after pre-checks").
PrecheckResult(token) ==
    LET own == {c \in Campaigns : campaign[c] \notin {"none", "deleted"}} IN
    CASE own = {} -> IF token THEN "no_campaign" ELSE "panic"
      [] own # {} /\ ~token /\ AssignedTree = Null -> "ronin"
      [] OTHER -> "ok"

-----------------------------------------------------------------------------
Init ==
    /\ CacheInit(Keys)
    /\ tree \in [Trees -> {"none", "live"}]
    /\ campaign \in [Campaigns -> {"none", "active"}]
    /\ member = {t \in Trees : Live(t)} \X {c \in Campaigns : Active(c)}
    /\ assigned \in {t \in Trees : Live(t)} \cup {Null}
    /\ admin = [a \in Admins |-> Idle] /\ edits = 0 /\ rounds = 0
    /\ req = [i \in Instances |-> NoRequest]
    /\ warm = [i \in Instances |-> FALSE]
    /\ until = [listed |-> [x \in Trees \X Campaigns |-> LongAgo],
                active |-> [c \in Campaigns |-> LongAgo],
                tree |-> [t \in Trees \cup {Null} |-> LongAgo]]

\* Every change of the catalogue records which facts end with it.
Record ==
    until' =
        [listed |-> [x \in Trees \X Campaigns |->
                       IF x[2] \in Listed(x[1]) /\ x[2] \notin Listed(x[1])' THEN now ELSE until.listed[x]],
         active |-> [c \in Campaigns |-> IF Active(c) /\ ~Active(c)' THEN now ELSE until.active[c]],
         tree |-> [t \in Trees \cup {Null} |->
                       IF AssignedTree = t /\ AssignedTree' # t THEN now ELSE until.tree[t]]]

-----------------------------------------------------------------------------
(* The dashboard.                                                           *)

\* A dashboard request starts; next is its second statement, or Idle.
Edit(a, next) ==
    /\ admin[a] = Idle
    /\ edits < MaxEdits
    /\ edits' = edits + 1
    /\ admin' = [admin EXCEPT ![a] = next]
    /\ UNCHANGED <<now, cacheVars, rounds, req, warm>>
    /\ Record

CreatePingTree(a, t) ==
    /\ tree[t] = "none"
    /\ tree' = [tree EXCEPT ![t] = "live"]
    /\ UNCHANGED <<campaign, member, assigned>>
    /\ Edit(a, Idle)

\* A soft delete: memberships and the publisher's assignment stay.
DeletePingTree(a, t) ==
    /\ Live(t)
    /\ tree' = [tree EXCEPT ![t] = "deleted"]
    /\ UNCHANGED <<campaign, member, assigned>>
    /\ Edit(a, Idle)

\* A new campaign is active at once; a tree it was created for is a second statement.
CreateCampaign(a, c) ==
    /\ campaign[c] = "none"
    /\ campaign' = [campaign EXCEPT ![c] = "active"]
    /\ UNCHANGED <<tree, member, assigned>>
    /\ \E next \in {Idle} \cup {[stmt |-> "insert", tree |-> t, campaign |-> c] :
                                  t \in {u \in Trees : tree[u] # "none"}} : Edit(a, next)

DeleteCampaign(a, c) ==
    /\ campaign[c] # "none"
    /\ campaign' = [campaign EXCEPT ![c] = "deleted"]
    /\ UNCHANGED <<tree, member, assigned>>
    /\ Edit(a, Idle)

\* update_campaign reads the campaign and whether it is in any ping tree, deleted ones
\* included (an error counts as no), and decides on the status; the UPDATE is a later
\* statement.
UpdateCampaign(a, c, status) ==
    /\ campaign[c] \notin {"none", "deleted"}
    /\ UNCHANGED catalog
    /\ \E inTree \in {\E t \in Trees : <<t, c>> \in member, FALSE} :
         LET new == IF status = "active" /\ ~inTree THEN "inactive" ELSE status IN
         /\ new # campaign[c]
         /\ Edit(a, [stmt |-> "set", campaign |-> c, status |-> new])

AddCampaign(a, t, c) ==
    /\ Live(t)
    /\ campaign[c] # "none"
    /\ member' = member \cup {<<t, c>>}
    /\ UNCHANGED <<tree, campaign, assigned>>
    /\ Edit(a, Idle)

\* The first of the three statements of remove_campaign_from_ping_tree.
RemoveCampaign(a, t, c) ==
    /\ Live(t)
    /\ member' = member \ {<<t, c>>}
    /\ UNCHANGED <<tree, campaign, assigned>>
    /\ Edit(a, [stmt |-> "count", tree |-> t, campaign |-> c])

\* UNIQUE (publisher_id, vertical): a row for any tree, deleted or not, is in the way.
AddPublisher(a, t) ==
    /\ Live(t)
    /\ assigned = Null
    /\ assigned' = t
    /\ UNCHANGED <<tree, campaign, member>>
    /\ Edit(a, Idle)

RemovePublisher(a, t) ==
    /\ Live(t)
    /\ assigned = t
    /\ assigned' = Null
    /\ UNCHANGED <<tree, campaign, member>>
    /\ Edit(a, Idle)

\* The later statements of a dashboard request.
Continue(a, next) ==
    /\ admin' = [admin EXCEPT ![a] = next]
    /\ UNCHANGED <<now, cacheVars, edits, rounds, req, warm>>
    /\ Record

InsertMember(a) ==
    /\ admin[a].stmt = "insert"
    /\ member' = member \cup {<<admin[a].tree, admin[a].campaign>>}
    /\ UNCHANGED <<tree, campaign, assigned>>
    /\ Continue(a, Idle)

\* An error counts as no other tree.
CountOtherTrees(a) ==
    /\ admin[a].stmt = "count"
    /\ UNCHANGED catalog
    /\ \E other \in {\E t \in Trees \ {admin[a].tree} : <<t, admin[a].campaign>> \in member, FALSE} :
         Continue(a, IF other THEN Idle
                     ELSE [stmt |-> "set", campaign |-> admin[a].campaign, status |-> "inactive"])

SetStatus(a) ==
    /\ admin[a].stmt = "set"
    /\ LET c == admin[a].campaign IN
         campaign' = [campaign EXCEPT ![c] = IF @ \in {"none", "deleted"} THEN @ ELSE admin[a].status]
    /\ UNCHANGED <<tree, member, assigned>>
    /\ Continue(a, Idle)

\* A later statement fails, or the server stops before it: what was done stays.
StatementFails(a) ==
    /\ admin[a] # Idle
    /\ UNCHANGED catalog
    /\ Continue(a, Idle)

Dashboard(a) ==
    \/ \E t \in Trees : CreatePingTree(a, t) \/ DeletePingTree(a, t)
                          \/ AddPublisher(a, t) \/ RemovePublisher(a, t)
    \/ \E c \in Campaigns : CreateCampaign(a, c) \/ DeleteCampaign(a, c)
    \/ \E c \in Campaigns, status \in {"active", "paused", "inactive"} : UpdateCampaign(a, c, status)
    \/ \E t \in Trees, c \in Campaigns : AddCampaign(a, t, c) \/ RemoveCampaign(a, t, c)
    \/ InsertMember(a) \/ CountOtherTrees(a) \/ SetStatus(a) \/ StatementFails(a)

-----------------------------------------------------------------------------
(* A lead request on instance i.                                            *)

Step(i, new) ==
    /\ req' = [req EXCEPT ![i] = new]
    /\ rounds' = IF req[i] = NoRequest THEN rounds + 1 ELSE rounds
    /\ UNCHANGED <<now, catalog, admin, edits, warm, until>>

Done(result) == [stage |-> "done", result |-> result]

\* What the pre-checks say decides whether the request is routed.
AfterPrechecks(i, r) == Step(i, IF r = "ok" THEN [stage |-> "tree"] ELSE Done(r))

\* The pre-checks; when the cache fails they ask the database directly, and when that
\* fails too the configuration is "unverified".
Precheck(i, token) ==
    /\ req[i] = NoRequest
    /\ rounds < MaxRounds
    /\ LET k == Prechecks(token)
           src == PrecheckResult(token)
       IN \/ \E lost \in BOOLEAN : /\ Lookup(i, k, PrecheckTtl, FALSE, src, lost)
                                   /\ AfterPrechecks(i, Found(i, k, FALSE, src, lost))
          \/ \E late \in BOOLEAN : /\ LookupFails(i, k, FALSE, src, late)
                                   /\ \E r \in {src, "unverified"} : AfterPrechecks(i, r)

\* route() goes on with the tree t, or reports that there is none.
WithTree(i, t) ==
    Step(i, IF t = Null THEN Done("not_assigned") ELSE [stage |-> "list", tree |-> t])

\* Mutant: the lookup of the ping tree caches and accepts a missing one.
FindTreeAnyValue(i) ==
    /\ req[i].stage = "tree"
    /\ \E lost \in BOOLEAN :
         /\ Lookup(i, TreeKey, TreeTtl, FALSE, AssignedTree, lost)
         /\ WithTree(i, Found(i, TreeKey, FALSE, AssignedTree, lost))

\* The publisher's ping tree; a missing one is not cached.
FindTree(i) ==
    /\ req[i].stage = "tree"
    /\ \E lost \in BOOLEAN :
         /\ Lookup(i, TreeKey, TreeTtl, TRUE, AssignedTree, lost)
         /\ WithTree(i, Found(i, TreeKey, TRUE, AssignedTree, lost))

\* The enabled campaigns of the tree.
FindList(i) ==
    /\ req[i].stage = "list"
    /\ \E lost \in BOOLEAN :
         LET t == req[i].tree
             S == Found(i, ListKey(t), FALSE, Listed(t), lost)
         IN /\ Lookup(i, ListKey(t), TreeTtl, FALSE, Listed(t), lost)
            /\ Step(i, IF S = {} THEN Done("no_campaigns")
                       ELSE [stage |-> "assoc", tree |-> t, list |-> S])

\* Mutant: the campaigns of the list are taken as they are.
ChosenUnchecked(i, active) == req[i].list

\* The campaigns of the list that are active according to the second lookup.
Chosen(i, active) == req[i].list \cap active

Route(i, active) ==
    Step(i, IF Chosen(i, active) = {} THEN Done("no_valid_campaigns")
            ELSE [stage |-> "done", result |-> "routed", tree |-> req[i].tree,
                  campaigns |-> Chosen(i, active)])

\* The campaigns with their buyers; an error counts as an empty result.
LoadCampaigns(i) ==
    /\ req[i].stage = "assoc"
    /\ LET S == req[i].list IN
         \/ \E lost \in BOOLEAN :
              /\ Lookup(i, AssocKey(S), AssocTtl, FALSE, ActiveOf(S), lost)
              /\ Route(i, Found(i, AssocKey(S), FALSE, ActiveOf(S), lost))
         \/ \E late \in BOOLEAN :
              LookupFails(i, AssocKey(S), FALSE, ActiveOf(S), late) /\ Route(i, {})

\* The cache fails while route() looks up the tree or its list.
RouteFails(i) ==
    /\ \E late \in BOOLEAN :
         \/ /\ req[i].stage = "tree"
            /\ LookupFails(i, TreeKey, TRUE, AssignedTree, late)
         \/ /\ req[i].stage = "list"
            /\ LookupFails(i, ListKey(req[i].tree), FALSE, Listed(req[i].tree), late)
    /\ Step(i, Done("failed"))

\* The request has been answered.
Answer(i) ==
    /\ req[i].stage = "done"
    /\ UNCHANGED cacheVars
    /\ Step(i, NoRequest)

Request(i) ==
    \/ \E token \in Tokens : Precheck(i, token)
    \/ FindTree(i) \/ FindList(i) \/ LoadCampaigns(i) \/ RouteFails(i) \/ Answer(i)

-----------------------------------------------------------------------------
(* The cache warm-up of instance i, and time.                               *)

\* pre_warm_ping_trees selects the publishers that have an active tree ...
WarmSelect(i) ==
    /\ ~warm[i]
    /\ AssignedTree # Null
    /\ rounds < MaxRounds /\ rounds' = rounds + 1
    /\ warm' = [warm EXCEPT ![i] = TRUE]
    /\ UNCHANGED <<now, cacheVars, catalog, admin, edits, req, until>>

\* ... and then looks each of them up, where a missing tree is cached.
WarmTree(i) ==
    /\ warm[i]
    /\ warm' = [warm EXCEPT ![i] = FALSE]
    /\ UNCHANGED <<now, catalog, admin, edits, rounds, req, until>>
    /\ \E b \in BOOLEAN : \/ Lookup(i, TreeKey, TreeTtl, FALSE, AssignedTree, b)
                         \/ LookupFails(i, TreeKey, FALSE, AssignedTree, b)

\* pre_warm_ping_tree_campaigns.
WarmList(i, t) ==
    /\ Live(t)
    /\ rounds < MaxRounds /\ rounds' = rounds + 1
    /\ UNCHANGED <<now, catalog, admin, edits, req, warm, until>>
    /\ \E b \in BOOLEAN : \/ Lookup(i, ListKey(t), TreeTtl, FALSE, Listed(t), b)
                         \/ LookupFails(i, ListKey(t), FALSE, Listed(t), b)

\* A unit of time is long: no request and no warm-up lasts across a tick.
Tick ==
    /\ now < MaxTime
    /\ \A a \in Admins : admin[a] = Idle
    /\ \A i \in Instances : req[i] = NoRequest /\ ~warm[i]
    /\ Clock
    /\ UNCHANGED <<catalog, admin, edits, rounds, req, warm, until>>

Next ==
    \/ \E a \in Admins : Dashboard(a)
    \/ \E i \in Instances : Request(i) \/ WarmSelect(i) \/ WarmTree(i)
    \/ \E i \in Instances, t \in Trees : WarmList(i, t)
    \/ Tick

Spec == Init /\ [][Next]_vars

-----------------------------------------------------------------------------
(* Properties.                                                              *)

\* Lifetime of a key.
TtlOf(k) ==
    IF k[1] = "prechecks" THEN PrecheckTtl
    ELSE IF k[1] = "campaigns:associations" THEN AssocTtl ELSE TreeTtl

\* A value that the in-memory level still returns was read from the database at most
\* one lifetime of its key and one of the in-memory level ago, through whichever
\* instances it travelled.
CacheAge ==
    \A i \in Instances, k \in Keys :
        l1[i][k] # NoEntry => now - l1[i][k].read <= MaxAge(TtlOf(k))

\* When a fact of the catalogue last held.
LastListed(t, c) == IF c \in Listed(t) THEN now ELSE until.listed[<<t, c>>]
LastActive(c) == IF Active(c) THEN now ELSE until.active[c]
LastTree(t) == IF AssignedTree = t THEN now ELSE until.tree[t]

\* A lead goes only to campaigns that were listed in the tree, and active, recently
\* enough, and the tree was the publisher's recently enough.  The activity check has
\* the shorter lifetime: a campaign that is paused or deleted stops receiving leads
\* although the list that names it is still cached.
RoutedWasEligible ==
    \A i \in Instances :
        req[i].stage = "done" /\ req[i].result = "routed" =>
            /\ now - LastTree(req[i].tree) <= MaxAge(TreeTtl)
            /\ \A c \in req[i].campaigns :
                 /\ now - LastListed(req[i].tree, c) <= MaxAge(TreeTtl)
                 /\ now - LastActive(c) <= MaxAge(AssocTtl)

\* "Do not cache None so that when a publisher is newly assigned to a ping tree, the
\* next request sees it": route() reports a missing ping tree only when there is none
\* in the database at that moment, also when the warm-up has cached a missing one.
NotAssignedIsFresh ==
    [][\A i \in Instances :
         req[i].stage = "tree" /\ req'[i] = Done("not_assigned") => AssignedTree = Null]_vars

\* A request is refused for a campaign outside of any ping tree only if the publisher
\* had no ping tree recently.
RoninWasJustified ==
    \A i \in Instances :
        req[i].stage = "done" /\ req[i].result = "ronin" => now - LastTree(Null) <= MaxAge(PrecheckTtl)

\* The comment quoted for NotAssignedIsFresh, of the whole request: one that starts when
\* the publisher has a ping tree is not refused for the lack of one.
NextRequestSeesAssignment ==
    [][\A i \in Instances :
         req[i] = NoRequest /\ req'[i] = Done("ronin") => AssignedTree = Null]_vars
=============================================================================
