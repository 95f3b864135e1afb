----------------------------- MODULE BuyerAdmin -----------------------------
(***************************************************************************)
(* The buyers of an instance and the rule sets of one buyer, edited through *)
(* the dashboard (crates/api/src/routes/dashboard.rs), while leads are sent *)
(* to it and Pulsar judges them.  A ping is judged by the rule set that the *)
(* router finds in the cache; no dashboard operation touches the cache.     *)
(*                                                                         *)
(* A rule set is named by its rule_set_name, which is unique for a buyer.   *)
(* Its ZIP codes live in tables of their own: lists[l] is row l of          *)
(* buyer_zip_lists with its codes.                                          *)
(***************************************************************************)
EXTENDS Requests, QualificationEngine, CacheService, Sequences, FiniteSets, FiniteSetsExt

CONSTANTS
    Buyers, TheBuyer,     \* ids of buyers; the one whose rule sets are edited
    Names,                \* names of buyers
    RuleSets,             \* names of rule sets
    Disused, Earlier,     \* those saved earlier and not active, and their configuration
    Inputs,               \* what a rule set may be saved with: active, config and, by type, zips
    Leads,                \* vertical_data of leads
    RuleTtl,              \* lifetime of "qual:buyers:..." (1 h)
    MaxSaves, MaxLists    \* bounds: saves of rule sets, lists of ZIP codes

ASSUME BuyerAssumption ==
    /\ IsFiniteSet(RuleSets) /\ Disused \subseteq RuleSets
    /\ \A in \in Inputs : in.active \in BOOLEAN
    /\ TheBuyer \in Buyers /\ Buyers \subseteq Nat \ {0}
    /\ RuleTtl \in Nat \ {0} /\ MaxSaves \in Nat /\ MaxLists \in Nat

VARIABLES
    buyers,        \* rows of buyers
    integrations,  \* internal integrations of the vertical that exist
    rules,         \* rows of buyer_qualification_configs of TheBuyer
    saves,         \* number of saves of rule sets
    lists,         \* ZIP lists of TheBuyer, in order of creation
    saved,         \* saved[t]: ZIP codes of type t in saves answered as successful (history)
    unstored,      \* unstored[t]: ZIP codes of type t a statement for which failed (history)
    overlapped,    \* two activations ran at the same time (history)
    gone,          \* gone[c]: when configuration c last ceased to be in force (history)
    judged         \* the newest judgement of a lead

buyerRowVars == <<buyers, integrations>>
ruleVars == <<rules, gone, saves, overlapped>>
zipVars == <<lists, saved, unstored>>
buyerVars == <<buyerRowVars, ruleVars, zipVars, judged>>

NoBuyer == [name |-> "no buyer"]
NoIntegration == 0
NoRuleSet == [config |-> NoConfig]
Types == {"blacklist", "whitelist"}
Configs == {in.config : in \in Inputs} \cup {Earlier, NoConfig}
Never == -100
NotJudged == [lead |-> Nothing]

BuyerInit ==
    /\ buyers = [b \in Buyers |->
                   IF b = TheBuyer
                   THEN [name |-> CHOOSE n \in Names : TRUE, deleted |-> FALSE,
                         status |-> "incomplete", integration |-> NoIntegration]
                   ELSE NoBuyer]
    /\ integrations = {}
    /\ rules = [r \in RuleSets |->
                  IF r \in Disused THEN [config |-> Earlier, active |-> FALSE, born |-> 0] ELSE NoRuleSet]
    /\ saves = 0 /\ overlapped = FALSE
    /\ lists = <<>> /\ saved = [t \in Types |-> {}] /\ unstored = [t \in Types |-> {}]
    /\ gone = [c \in Configs |-> Never]
    /\ judged = NotJudged

LiveBuyer(b) == buyers[b] # NoBuyer /\ ~buyers[b].deleted

-----------------------------------------------------------------------------
(* Buyers.                                                                  *)

\* A name that a live buyer has is refused.
CreateBuyer(s) ==
    /\ Receives(s, "create buyer")
    /\ \E n \in Names, internal \in BOOLEAN :
         IF \E b \in Buyers : LiveBuyer(b) /\ buyers[b].name = n
         THEN Answer(s) ELSE Step(s, "insert buyer", [name |-> n, internal |-> internal])
    /\ UNCHANGED buyerVars

\* An internal buyer gets the Pulsar integration of its vertical.
InsertBuyer(s) ==
    /\ at[s] = "insert buyer"
    /\ \E b \in Buyers :
         /\ buyers[b] = NoBuyer
         /\ buyers' = [buyers EXCEPT ![b] = [name |-> held[s].name, deleted |-> FALSE,
                         status |-> "incomplete", integration |-> NoIntegration]]
         /\ IF held[s].internal THEN Step(s, "find integration", b)
                                ELSE Step(s, "audit", "buyer_created")
    /\ UNCHANGED <<integrations, ruleVars, zipVars, judged>>

FindIntegration(s) ==
    /\ at[s] = "find integration"
    /\ IF integrations # {}
       THEN \E i \in integrations : Step(s, "set integration", [id |-> held[s], integration |-> i])
       ELSE Step(s, "insert integration", held[s])
    /\ UNCHANGED buyerVars

\* The slug is unique: when another request was faster the INSERT fails, and the id that
\* was meant for the new row is used all the same.
InsertIntegration(s) ==
    /\ at[s] = "insert integration"
    /\ integrations' = IF integrations = {} THEN {held[s]} ELSE integrations
    /\ Step(s, "set integration", [id |-> held[s], integration |-> held[s]])
    /\ UNCHANGED <<buyers, ruleVars, zipVars, judged>>

\* Errors are ignored; then the buyer is read again for the answer.
SetIntegration(s) ==
    /\ at[s] = "set integration"
    /\ buyers' \in {buyers, [buyers EXCEPT ![held[s].id].integration = held[s].integration]}
    /\ Step(s, "audit", "buyer_created")
    /\ UNCHANGED <<integrations, ruleVars, zipVars, judged>>

\* What the audit entry calls the change.
ActionType(before, after) ==
    CASE after # before /\ after = "active" -> "buyer_activated"
      [] after # before /\ after = "suspended" -> "buyer_deactivated"
      [] OTHER -> "buyer_updated"

\* Deleted buyers are refused.  The fields given (name and status stand for all of them)
\* are turned into one UPDATE; the audit entry is made from the row read before and the
\* fields given.
UpdateBuyer(s) ==
    /\ Receives(s, "update buyer")
    /\ \E b \in Buyers :
         /\ LiveBuyer(b)
         /\ \E name \in Names, status \in {"active", "suspended", buyers[b].status} :
              Step(s, "write buyer", [id |-> b, name |-> name, status |-> status,
                                      action |-> ActionType(buyers[b].status, status)])
    /\ UNCHANGED buyerVars

\* UPDATE ... WHERE deleted_at IS NULL
WriteBuyer(s) ==
    /\ at[s] = "write buyer"
    /\ LET b == held[s].id IN
         buyers' = IF LiveBuyer(b)
                   THEN [buyers EXCEPT ![b].name = held[s].name, ![b].status = held[s].status]
                   ELSE buyers
    /\ Step(s, "audit", held[s].action)
    /\ UNCHANGED <<integrations, ruleVars, zipVars, judged>>

DeleteBuyer(s) ==
    /\ Receives(s, "delete buyer")
    /\ \E b \in Buyers : LiveBuyer(b) /\ Step(s, "mark buyer deleted", b)
    /\ UNCHANGED buyerVars

MarkBuyerDeleted(s) ==
    /\ at[s] = "mark buyer deleted"
    /\ buyers' = [buyers EXCEPT ![held[s]].deleted = TRUE]
    /\ Step(s, "audit", "buyer_deleted")
    /\ UNCHANGED <<integrations, ruleVars, zipVars, judged>>

-----------------------------------------------------------------------------
(* Saving a rule set: create_buyer_rule_set and update_buyer_rule_set.      *)

\* The step after ZIP codes have been extracted as far as save h goes.
AfterZips(h) ==
    CASE h.todo # {} -> "zip list"
      [] h.todo = {} /\ h.op = "update" /\ h.active -> "deactivate"
      [] OTHER -> "write rule set"

SaveSteps == {"deactivate", "zip list", "create list", "insert zips", "write rule set"}

\* A payload without a configuration: only is_active.
Unsaid == [config |-> "unsaid"]
Switches == {[active |-> b, config |-> Unsaid, zips |-> [t \in Types |-> {}]] : b \in BOOLEAN}

\* A save of in: todo are the types whose ZIP codes (of five digits; others are skipped)
\* are not extracted from the configuration yet.
Saves(op, r, inputs) ==
    {[op |-> op, name |-> r, active |-> in.active, config |-> in.config, zips |-> in.zips,
      left |-> {}, list |-> 0, todo |-> {t \in Types : in.zips[t] # {}},
      cleared |-> FALSE] : in \in inputs}

\* A new active rule set first deactivates the others.
CreateBuyerRuleSet(s) ==
    /\ Receives(s, "create rule set") /\ LiveBuyer(TheBuyer) /\ saves < MaxSaves
    /\ \E r \in RuleSets : \E h \in Saves("create", r, Inputs) :
         Step(s, IF h.active THEN "deactivate" ELSE AfterZips(h), h)
    /\ saves' = saves + 1
    /\ UNCHANGED <<buyerRowVars, rules, gone, overlapped, zipVars, judged>>

\* An update extracts the ZIP codes first and deactivates the others then.
UpdateWith(s, inputs) ==
    /\ saves < MaxSaves
    /\ \E r \in RuleSets :
         /\ rules[r] # NoRuleSet
         /\ \E h \in Saves("update", r, inputs) : Step(s, AfterZips(h), h)
    /\ saves' = saves + 1
    /\ UNCHANGED <<buyerRowVars, rules, gone, overlapped, zipVars, judged>>

UpdateBuyerRuleSet(s) ==
    \/ Receives(s, "update rule set") /\ UpdateWith(s, Inputs)
    \/ Receives(s, "switch rule set") /\ UpdateWith(s, Switches)

\* The time of creation of the youngest rule set, on a clock of its own.
Youngest == Max({0} \cup {rules[r].born : r \in {q \in RuleSets : rules[q] # NoRuleSet}})

InForce == {r \in RuleSets : rules[r] # NoRuleSet /\ rules[r].active /\ rules[r].config.enabled}

\* find_by_buyer_ids: of several rule sets in force the youngest counts.  When it is gone
\* between the two queries the answer is that there is none, as it then is.
FindByBuyerIds ==
    IF InForce = {} THEN NoConfig
    ELSE rules[CHOOSE r \in InForce : \A q \in InForce : rules[q].born <= rules[r].born].config

\* Every change of a row records which configuration ceases to be in force with it.
RecordRules ==
    gone' = [c \in Configs |-> IF c = FindByBuyerIds /\ c # FindByBuyerIds' THEN now ELSE gone[c]]

\* Another save has deactivated the others and not written its own rule set yet.
Activating(s) == \E q \in Slots \ {s} : at[q] \in SaveSteps /\ held[q].cleared

ClearActive(s, scope) ==
    /\ at[s] = "deactivate"
    /\ rules' = [r \in RuleSets |->
                   IF rules[r] # NoRuleSet /\ r \in scope
                   THEN [rules[r] EXCEPT !.active = FALSE] ELSE rules[r]]
    /\ overlapped' = (overlapped \/ Activating(s))
    /\ RecordRules
    /\ LET h == [held[s] EXCEPT !.cleared = TRUE] IN
         Step(s, IF h.op = "create" THEN AfterZips(h) ELSE "write rule set", h)
    /\ UNCHANGED <<buyerRowVars, saves, zipVars, judged>>

\* Mutant: an update leaves the others alone.
DeactivateOthersOnCreate(s) ==
    ClearActive(s, IF held[s].op = "create" THEN RuleSets ELSE {})

\* All rule sets of the buyer, or all but the one that is updated.
DeactivateOthers(s) ==
    ClearActive(s, IF held[s].op = "create" THEN RuleSets ELSE RuleSets \ {held[s].name})

TypeInTurn(h) == IF "blacklist" \in h.todo THEN "blacklist" ELSE "whitelist"

ListsOf(t) == {l \in DOMAIN lists : lists[l].type = t}

\* find_or_create_zip_list takes the oldest list of the type.
FindZipList(s) ==
    /\ at[s] = "zip list"
    /\ LET t == TypeInTurn(held[s])
           h == [held[s] EXCEPT !.left = held[s].zips[t]] IN
         IF ListsOf(t) = {} THEN Step(s, "create list", h)
         ELSE Step(s, "insert zips", [h EXCEPT !.list = CHOOSE l \in ListsOf(t) : \A k \in ListsOf(t) : l <= k])
    /\ UNCHANGED buyerVars

CreateZipList(s) ==
    /\ at[s] = "create list" /\ Len(lists) < MaxLists
    /\ lists' = Append(lists, [type |-> TypeInTurn(held[s]), zips |-> {}])
    /\ Step(s, "insert zips", [held[s] EXCEPT !.list = Len(lists) + 1])
    /\ UNCHANGED <<buyerRowVars, ruleVars, saved, unstored, judged>>

\* One INSERT per ZIP code, ON CONFLICT DO NOTHING; an error is ignored.  After the last
\* one the type is done and leaves the configuration.
InsertZip(s) ==
    /\ at[s] = "insert zips"
    /\ \E z \in held[s].left, works \in BOOLEAN :
         LET t == TypeInTurn(held[s])
             left == held[s].left \ {z}
             h == [held[s] EXCEPT !.left = left, !.todo = IF left = {} THEN @ \ {t} ELSE @] IN
         /\ lists' = IF works THEN [lists EXCEPT ![held[s].list].zips = @ \cup {z}] ELSE lists
         /\ unstored' = IF works THEN unstored ELSE [unstored EXCEPT ![t] = @ \cup {z}]
         /\ Step(s, IF left = {} THEN AfterZips(h) ELSE "insert zips", h)
    /\ UNCHANGED <<buyerRowVars, ruleVars, saved, judged>>

\* A statement before the INSERTs fails: the error is logged, the codes of the type, and
\* of the other one if it comes later, are in no table, and the save goes on.
ExtractionFails(s) ==
    LET h == [held[s] EXCEPT !.todo = {}] IN
    /\ \/ at[s] \in {"zip list", "create list"}
       \/ at[s] = "insert zips" /\ held[s].left = held[s].zips[TypeInTurn(held[s])]
    /\ unstored' = [t \in Types |->
                      IF t \in held[s].todo THEN unstored[t] \cup held[s].zips[t] ELSE unstored[t]]
    /\ Step(s, AfterZips(h), h)
    /\ UNCHANGED <<buyerRowVars, ruleVars, lists, saved, judged>>

\* INSERT, refused when the name is taken, or UPDATE, of no row when the rule set has
\* been deleted.  An UPDATE that does not activate is one without is_active, which stays
\* as it is, or deactivates.  (A rule set is not renamed here.)
WriteRuleSet(s) ==
    LET h == held[s]
        r == h.name
        taken == rules[r] # NoRuleSet IN
    /\ at[s] = "write rule set"
    /\ \E active \in {h.active} \cup (IF h.op = "update" /\ ~h.active /\ taken
                                         THEN {rules[r].active} ELSE {}) :
         rules' = IF h.op = "create" /\ ~taken
                  THEN [rules EXCEPT ![r] = [config |-> h.config, active |-> active, born |-> Youngest + 1]]
                  ELSE IF h.op = "update" /\ taken
                  THEN [rules EXCEPT ![r].config = IF h.config = Unsaid THEN @ ELSE h.config, ![r].active = active]
                  ELSE rules
    /\ saved' = IF h.op = "create" /\ taken THEN saved
                ELSE [t \in Types |-> saved[t] \cup h.zips[t]]
    /\ RecordRules
    /\ IF h.op = "create" /\ taken THEN Answer(s) ELSE Step(s, "audit", "rule_set_saved")
    /\ UNCHANGED <<buyerRowVars, saves, overlapped, lists, unstored, judged>>

\* The ZIP codes stay.
DeleteBuyerRuleSet(s) ==
    /\ Receives(s, "delete rule set")
    /\ \E r \in RuleSets : rules[r] # NoRuleSet /\ rules' = [rules EXCEPT ![r] = NoRuleSet]
    /\ RecordRules
    /\ Step(s, "audit", "rule_set_deleted")
    /\ UNCHANGED <<buyerRowVars, saves, overlapped, zipVars, judged>>

\* Mutant: only the list that saves write to is read.
LoadZipCodesOldest(t) ==
    IF ListsOf(t) = {} THEN {}
    ELSE lists[CHOOSE l \in ListsOf(t) : \A k \in ListsOf(t) : l <= k].zips

\* load_zip_codes_from_tables: the distinct codes of all lists of the type.
LoadZipCodes(t) == UNION {lists[l].zips : l \in ListsOf(t)}

-----------------------------------------------------------------------------
(* Pulsar judges leads.                                                     *)

RoutePingDirect(config, lead) == Accepted(config, lead, "ping")
RoutePostDirect(config, lead) == Accepted(config, lead, "post")
RouteFullpostDirect(config, lead) == RoutePingDirect(config, lead) /\ RoutePostDirect(config, lead)

RuleSetKey == 0

\* The auction on instance i sends a ping, with the rule set that the cache gives.  The
\* warm-up fills the same entry, by the same lookup.
RoutePing(s, i) ==
    /\ Receives(s, "ping")
    /\ \E l \in Leads, lose \in BOOLEAN :
         /\ Lookup(i, RuleSetKey, RuleTtl, FALSE, FindByBuyerIds, lose)
         /\ judged' = [lead |-> l, ruled |-> TRUE,
                        accepted |-> RoutePingDirect(Found(i, RuleSetKey, FALSE, FindByBuyerIds, lose), l)]
    /\ Answer(s)
    /\ UNCHANGED <<now, buyerRowVars, ruleVars, zipVars>>

\* Mutant: the default is what the source answers when it fails, and is cached.
RoutePingWithoutRulesCached(s, i) ==
    /\ Receives(s, "ping")
    /\ ~Usable(l1[i][RuleSetKey], FALSE) /\ ~Usable(l2[RuleSetKey], FALSE)
    /\ faults < MaxFaults /\ faults' = faults + 1
    /\ l1' = [l1 EXCEPT ![i][RuleSetKey] = Entry(NoConfig, L1Ttl)]
    /\ l2' = [l2 EXCEPT ![RuleSetKey] = Entry(NoConfig, RuleTtl)]
    /\ \E l \in Leads : judged' = [lead |-> l, ruled |-> FALSE, accepted |-> RoutePingDirect(NoConfig, l)]
    /\ Answer(s)
    /\ UNCHANGED <<now, buyerRowVars, ruleVars, zipVars>>

\* Redis fails, or the source (like Redis' read, before anything is stored):
\* unwrap_or_default, and the ping is judged without a rule set.
RoutePingWithoutRules(s, i) ==
    /\ Receives(s, "ping")
    /\ \E late \in BOOLEAN : LookupFails(i, RuleSetKey, FALSE, FindByBuyerIds, late)
    /\ \E l \in Leads : judged' = [lead |-> l, ruled |-> FALSE, accepted |-> RoutePingDirect(NoConfig, l)]
    /\ Answer(s)
    /\ UNCHANGED <<now, buyerRowVars, ruleVars, zipVars>>

\* No rule set is given to the router of a post and of a direct fullpost.
JudgeWithoutRules(s, type, accepts) ==
    /\ Receives(s, type)
    /\ \E l \in Leads : judged' = [lead |-> l, ruled |-> FALSE, accepted |-> accepts[l]]
    /\ Answer(s)
    /\ UNCHANGED <<cacheState, buyerRowVars, ruleVars, zipVars>>

RoutePost(s) == JudgeWithoutRules(s, "post", [l \in Leads |-> RoutePostDirect(NoConfig, l)])
RouteFullpost(s) ==
    JudgeWithoutRules(s, "fullpost", [l \in Leads |-> RouteFullpostDirect(NoConfig, l)])

-----------------------------------------------------------------------------
\* Steps of the dashboard, which leave the cache alone.
AdminStep(s) ==
    \/ CreateBuyer(s) \/ InsertBuyer(s) \/ FindIntegration(s) \/ InsertIntegration(s)
    \/ SetIntegration(s) \/ UpdateBuyer(s) \/ WriteBuyer(s)
    \/ DeleteBuyer(s) \/ MarkBuyerDeleted(s)
    \/ CreateBuyerRuleSet(s) \/ UpdateBuyerRuleSet(s) \/ DeactivateOthers(s)
    \/ FindZipList(s) \/ CreateZipList(s) \/ InsertZip(s) \/ ExtractionFails(s)
    \/ WriteRuleSet(s) \/ DeleteBuyerRuleSet(s)

BuyerStep(s) ==
    \/ AdminStep(s) /\ UNCHANGED cacheState
    \/ \E i \in Instances : RoutePing(s, i) \/ RoutePingWithoutRules(s, i)
    \/ RoutePost(s) \/ RouteFullpost(s)

-----------------------------------------------------------------------------
(* Properties.                                                              *)

\* "If setting as active, deactivate all other rule sets for this buyer": at most one
\* rule set is active, unless two activations ran at the same time.
OneActiveRuleSet ==
    Cardinality({r \in RuleSets : rules[r] # NoRuleSet /\ rules[r].active}) <= 1 \/ overlapped

\* "tables are now source of truth": a ZIP code that was part of a save answered with
\* success, and left the configuration with it, is shown with the rule set, also when
\* racing saves have created two lists of one type.  One that is not shown is one whose
\* statement failed, which the handler only logs.
MissingZipsFailed == \A t \in Types : saved[t] \ LoadZipCodes(t) \subseteq unstored[t]

\* Pulsar judges a ping as a configuration says that was in force within the largest age
\* of a cached one, and accepts everything it judges without a rule set: after an edit
\* leads are bought by the old rules for at most that long, and a failing cache lets a
\* lead pass but leaves nothing behind.
RulesAreRecent ==
    judged # NotJudged =>
        IF judged.ruled
        THEN \E c \in Configs :
               /\ c = FindByBuyerIds \/ gone[c] >= now - MaxAge(RuleTtl)
               /\ judged.accepted = Accepted(c, judged.lead, "ping")
        ELSE judged.accepted
=============================================================================
