----------------------- MODULE RoutingCatalog_proofs ------------------------
(***************************************************************************)
(* Proofs about RoutingCatalog, for any number of instances, trees,         *)
(* campaigns and dashboard requests and for any lifetimes.                  *)
(*                                                                         *)
(* The inductive invariant says three things: an entry lives no longer than *)
(* its level allows (CacheInv), its value was what the database said when   *)
(* it was read or later (TruthInv), and what a request has found so far was *)
(* so recently enough (ReqInv).                                             *)
(***************************************************************************)
EXTENDS RoutingCatalog, TLAPS

\* What is known, at time t, of an entry of each level.
L1Entry(e, ttl, t) ==
    /\ e.read \in Int /\ e.ends \in Int
    /\ e.read <= t /\ t < e.ends
    /\ e.ends <= e.read + (ttl - 1) + L1Ttl

L2Entry(e, ttl, t) ==
    /\ e.read \in Int /\ e.ends \in Int
    /\ e.read <= t /\ t < e.ends
    /\ e.ends = e.read + ttl

CacheShape ==
    /\ DOMAIN l1 = Instances
    /\ \A i \in Instances : DOMAIN l1[i] = Keys
    /\ DOMAIN l2 = Keys

CacheInv ==
    /\ now \in Nat
    /\ CacheShape
    /\ \A i \in Instances, k \in Keys : l1[i][k] # NoEntry => L1Entry(l1[i][k], TtlOf(k), now)
    /\ \A k \in Keys : l2[k] # NoEntry => L2Entry(l2[k], TtlOf(k), now)

\* What a lookup of key k on instance i, failed or not, does to the cache.
CacheStep(i, k, src) ==
    /\ DOMAIN l1' = Instances
    /\ \A j \in Instances : DOMAIN l1'[j] = Keys
    /\ DOMAIN l2' = Keys
    /\ \A j \in Instances, x \in Keys :
         \/ l1'[j][x] \in {l1[j][x], NoEntry}
         \/ j = i /\ x = k /\ l1'[j][x] = Entry(src, L1Ttl)
         \/ j = i /\ x = k /\ l2[k] # NoEntry /\ l1'[j][x] = Copy(l2[k])
    /\ \A x \in Keys : \/ l2'[x] = l2[x]
                       \/ x = k /\ l2'[x] = Entry(src, TtlOf(k))

\* All lifetimes are positive.
LEMMA Lifetimes == (\A k : TtlOf(k) \in Nat \ {0}) /\ L1Ttl \in Nat \ {0}
  BY CatalogAssumption, CacheAssumption DEF TtlOf

\* A lookup changes the cache as CacheStep says ...
LEMMA LookupStep ==
  ASSUME CacheShape, NEW i, NEW k, NEW b, NEW skip, NEW src,
         Lookup(i, k, TtlOf(k), skip, src, b)
  PROVE  CacheStep(i, k, src)
  BY DEF CacheShape, CacheStep, Lookup, Hit2, Usable

\* ... and so does a lookup during which Redis fails.
LEMMA LookupFailsStep ==
  ASSUME CacheShape, NEW i, NEW k, NEW b, NEW skip, NEW src,
         LookupFails(i, k, skip, src, b)
  PROVE  CacheStep(i, k, src)
  BY DEF CacheShape, CacheStep, LookupFails

\* A lookup stores no entry that lives longer than it may: an entry of the Redis level
\* is copied while it is alive, so its age is below the lifetime of its key.
LEMMA CacheStepKeeps ==
  ASSUME CacheInv, now' = now, NEW i, NEW k, NEW src, CacheStep(i, k, src)
  PROVE  CacheInv'
<1>1. \A j \in Instances, x \in Keys : l1'[j][x] # NoEntry => L1Entry(l1'[j][x], TtlOf(x), now)
  <2>. SUFFICES ASSUME NEW j \in Instances, NEW x \in Keys, l1'[j][x] # NoEntry
                PROVE  L1Entry(l1'[j][x], TtlOf(x), now)
    OBVIOUS
  <2>1. CASE l1'[j][x] = l1[j][x]
    BY <2>1 DEF CacheInv
  <2>2. CASE x = k /\ l1'[j][x] = Entry(src, L1Ttl)
    BY <2>2, Lifetimes DEF CacheInv, L1Entry, Entry
  <2>3. CASE x = k /\ l2[k] # NoEntry /\ l1'[j][x] = Copy(l2[k])
    BY <2>3, Lifetimes DEF CacheInv, L1Entry, L2Entry, Copy
  <2>. QED BY <2>1, <2>2, <2>3 DEF CacheStep
<1>2. \A x \in Keys : l2'[x] # NoEntry => L2Entry(l2'[x], TtlOf(x), now)
  <2>. SUFFICES ASSUME NEW x \in Keys, l2'[x] # NoEntry
                PROVE  L2Entry(l2'[x], TtlOf(x), now)
    OBVIOUS
  <2>1. CASE l2'[x] = l2[x]
    BY <2>1 DEF CacheInv
  <2>2. CASE x = k /\ l2'[x] = Entry(src, TtlOf(k))
    BY <2>2, Lifetimes DEF CacheInv, L2Entry, Entry
  <2>. QED BY <2>1, <2>2 DEF CacheStep
<1>. QED BY <1>1, <1>2 DEF CacheInv, CacheShape, CacheStep

\* Time passes: entries that stay are still within their lifetime.
LEMMA ClockKeeps ==
  ASSUME CacheInv, Clock
  PROVE  CacheInv'
<1>. DEFINE Left(e) == IF e # NoEntry /\ e.ends <= now + 1 THEN NoEntry ELSE e
<1>1. /\ l1' = [i \in Instances |-> [k \in DOMAIN l1[i] |-> Left(l1[i][k])]]
      /\ l2' = [k \in DOMAIN l2 |-> Left(l2[k])]
      /\ now' = now + 1
  BY DEF Clock
<1>2. \A i \in Instances, k \in Keys :
         l1'[i][k] # NoEntry => l1'[i][k] = l1[i][k] /\ ~(l1[i][k].ends <= now + 1)
  BY <1>1 DEF CacheInv, CacheShape
<1>3. \A k \in Keys : l2'[k] # NoEntry => l2'[k] = l2[k] /\ ~(l2[k].ends <= now + 1)
  BY <1>1 DEF CacheInv, CacheShape
<1>4. now' \in Nat /\ CacheShape'
  BY <1>1 DEF CacheInv, CacheShape
<1>5. \A i \in Instances, k \in Keys : l1'[i][k] # NoEntry => L1Entry(l1'[i][k], TtlOf(k), now')
  BY <1>1, <1>2 DEF CacheInv, L1Entry
<1>6. \A k \in Keys : l2'[k] # NoEntry => L2Entry(l2'[k], TtlOf(k), now')
  BY <1>1, <1>3 DEF CacheInv, L2Entry
<1>. QED BY <1>4, <1>5, <1>6 DEF CacheInv

-----------------------------------------------------------------------------
(* History and truth.                                                       *)

HistInv ==
    /\ assigned \in Trees \cup {Null}
    /\ \A t \in Trees, c \in Campaigns : until.listed[<<t, c>>] \in Int /\ until.listed[<<t, c>>] <= now
    /\ \A c \in Campaigns : until.active[c] \in Int /\ until.active[c] <= now
    /\ \A t \in Trees \cup {Null} : until.tree[t] \in Int /\ until.tree[t] <= now

\* Value v of key k was the database's at time r or later.
WasTrue(k, v, r) ==
    /\ k[1] = "pingtree" /\ v # Null => v \in Trees /\ r <= LastTree(v)
    /\ k[1] = "campaigns:pingtree" => \A c \in v : c \in Campaigns /\ r <= LastListed(k[2], c)
    /\ k[1] = "campaigns:associations" => \A c \in v : c \in Campaigns /\ r <= LastActive(c)
    /\ k[1] = "prechecks" => v # "routed" /\ (v = "ronin" => r <= LastTree(Null))

TruthInv ==
    /\ \A i \in Instances, k \in Keys : l1[i][k] # NoEntry => WasTrue(k, l1[i][k].value, l1[i][k].read)
    /\ \A k \in Keys : l2[k] # NoEntry => WasTrue(k, l2[k].value, l2[k].read)

\* What request r has found so far.
ReqOK(r) ==
    /\ r.stage \in {"list", "assoc"} =>
         r.tree \in Trees /\ now - LastTree(r.tree) <= MaxAge(TreeTtl)
    /\ r.stage = "assoc" =>
         /\ r.list # {}
         /\ \A c \in r.list : c \in Campaigns /\ now - LastListed(r.tree, c) <= MaxAge(TreeTtl)
    /\ r.stage = "done" /\ r.result = "routed" =>
         /\ r.tree \in Trees /\ now - LastTree(r.tree) <= MaxAge(TreeTtl)
         /\ \A c \in r.campaigns :
              /\ c \in Campaigns
              /\ now - LastListed(r.tree, c) <= MaxAge(TreeTtl)
              /\ now - LastActive(c) <= MaxAge(AssocTtl)
    /\ r.stage = "done" /\ r.result = "ronin" => now - LastTree(Null) <= MaxAge(PrecheckTtl)

ReqInv ==
    /\ DOMAIN req = Instances
    /\ \A i \in Instances : ReqOK(req[i])

\* The last moment of a fact is a time, and not in the future.
LEMMA LastIsTime ==
  ASSUME HistInv, now \in Nat
  PROVE  /\ \A t \in Trees, c \in Campaigns : LastListed(t, c) \in Int /\ LastListed(t, c) <= now
         /\ \A c \in Campaigns : LastActive(c) \in Int /\ LastActive(c) <= now
         /\ \A t \in Trees \cup {Null} : LastTree(t) \in Int /\ LastTree(t) <= now
  BY DEF HistInv, LastListed, LastActive, LastTree

\* The key of a list names a tree, and the kind of a key gives its lifetime.
LEMMA KeyForms ==
  ASSUME NEW k \in Keys
  PROVE  /\ k[1] = "campaigns:pingtree" => k[2] \in Trees
         /\ TtlOf(k) = CASE k[1] = "prechecks" -> PrecheckTtl
                         [] k[1] = "campaigns:associations" -> AssocTtl
                         [] k[1] \in {"pingtree", "campaigns:pingtree"} -> TreeTtl
<1>1. \/ \E token \in Tokens : k = <<"prechecks", token>>
      \/ k = <<"pingtree">>
      \/ \E t \in Trees : k = <<"campaigns:pingtree", t>>
      \/ \E S : k = <<"campaigns:associations", S>>
  BY DEF Keys, Prechecks, TreeKey, ListKey, AssocKey
<1>. QED BY <1>1 DEF TtlOf

\* The database's answer is true now.
LEMMA SourceIsTrue ==
  ASSUME HistInv, now \in Nat
  PROVE  /\ WasTrue(TreeKey, AssignedTree, now)
         /\ \A t \in Trees : WasTrue(ListKey(t), Listed(t), now)
         /\ \A S \in SUBSET Campaigns : WasTrue(AssocKey(S), ActiveOf(S), now)
         /\ \A token : WasTrue(Prechecks(token), PrecheckResult(token), now)
<1>1. WasTrue(TreeKey, AssignedTree, now)
  BY DEF WasTrue, TreeKey, AssignedTree, LastTree, HistInv
<1>2. \A t \in Trees : WasTrue(ListKey(t), Listed(t), now)
  BY DEF WasTrue, ListKey, Listed, LastListed
<1>3. \A S \in SUBSET Campaigns : WasTrue(AssocKey(S), ActiveOf(S), now)
  BY DEF WasTrue, AssocKey, ActiveOf, LastActive
<1>4. \A token : /\ PrecheckResult(token) \in {"no_campaign", "panic", "ronin", "ok"}
                 /\ PrecheckResult(token) = "ronin" => AssignedTree = Null
  BY DEF PrecheckResult
<1>5. ASSUME NEW token
      PROVE  WasTrue(Prechecks(token), PrecheckResult(token), now)
  <2>1. PrecheckResult(token) # "routed"
    BY <1>4
  <2>2. AssignedTree = Null => now <= LastTree(Null)
    BY DEF LastTree
  <2>3. PrecheckResult(token) = "ronin" => now <= LastTree(Null)
    BY <1>4, <2>2
  <2>. QED BY <2>1, <2>3 DEF WasTrue, Prechecks
<1>. QED BY <1>1, <1>2, <1>3, <1>5

\* A lookup returns a value that was true at most MaxAge ago.
LEMMA FoundWasTrue ==
  ASSUME CacheInv, TruthInv, NEW i \in Instances, NEW k \in Keys,
         NEW skip, NEW src, NEW b, WasTrue(k, src, now)
  PROVE  \E r \in Int : now - r <= MaxAge(TtlOf(k)) /\ WasTrue(k, Found(i, k, skip, src, b), r)
<1>1. CASE Hit1(i, k, skip, b)
  <2>1. l1[i][k] # NoEntry /\ Found(i, k, skip, src, b) = l1[i][k].value
    BY <1>1 DEF Hit1, Usable, Found
  <2>2. WasTrue(k, l1[i][k].value, l1[i][k].read) /\ L1Entry(l1[i][k], TtlOf(k), now)
    BY <2>1 DEF TruthInv, CacheInv
  <2>. QED BY <2>1, <2>2, Lifetimes DEF L1Entry, MaxAge, CacheInv
<1>2. CASE ~Hit1(i, k, skip, b) /\ Hit2(i, k, skip, b)
  <2>1. l2[k] # NoEntry /\ Found(i, k, skip, src, b) = l2[k].value
    BY <1>2 DEF Hit2, Usable, Found
  <2>2. WasTrue(k, l2[k].value, l2[k].read) /\ L2Entry(l2[k], TtlOf(k), now)
    BY <2>1 DEF TruthInv, CacheInv
  <2>. QED BY <2>1, <2>2, Lifetimes DEF L2Entry, MaxAge, CacheInv
<1>3. CASE ~Hit1(i, k, skip, b) /\ ~Hit2(i, k, skip, b)
  <2>1. Found(i, k, skip, src, b) = src
    BY <1>3 DEF Found
  <2>. QED BY <2>1, Lifetimes DEF MaxAge, CacheInv
<1>. QED BY <1>1, <1>2, <1>3

-----------------------------------------------------------------------------
(* What keeps the invariant.                                                *)

IInv == CacheInv /\ HistInv /\ TruthInv /\ ReqInv

\* A step that leaves time and the catalogue alone leaves truth alone.
LEMMA SameCatalog ==
  ASSUME UNCHANGED <<now, catalog, until>>
  PROVE  /\ HistInv => HistInv'
         /\ \A k, v, r : WasTrue(k, v, r) => WasTrue(k, v, r)'
         /\ \A t, c : LastListed(t, c)' = LastListed(t, c)
         /\ \A c : LastActive(c)' = LastActive(c)
         /\ \A t : LastTree(t)' = LastTree(t)
<1>1. \A t : LastTree(t)' = LastTree(t)
  BY DEF LastTree, AssignedTree, Live, catalog
<1>2. \A c : LastActive(c)' = LastActive(c)
  BY DEF LastActive, Active, catalog
<1>3. \A t, c : LastListed(t, c)' = LastListed(t, c)
  BY DEF LastListed, Listed, Active, catalog
<1>4. HistInv => HistInv'
  BY DEF HistInv, catalog
<1>5. \A k, v, r : WasTrue(k, v, r) => WasTrue(k, v, r)'
  BY <1>1, <1>2, <1>3 DEF WasTrue
<1>. QED BY <1>1, <1>2, <1>3, <1>4, <1>5

\* A lookup stores only what the database says or what the Redis level had.
LEMMA CacheStepIsTrue ==
  ASSUME CacheInv, TruthInv, UNCHANGED <<now, catalog, until>>,
         NEW i, NEW k \in Keys, NEW src, WasTrue(k, src, now), CacheStep(i, k, src)
  PROVE  TruthInv'
<1>1. \A j \in Instances, x \in Keys :
        l1'[j][x] # NoEntry => WasTrue(x, l1'[j][x].value, l1'[j][x].read)
  <2>. SUFFICES ASSUME NEW j \in Instances, NEW x \in Keys, l1'[j][x] # NoEntry
                PROVE  WasTrue(x, l1'[j][x].value, l1'[j][x].read)
    OBVIOUS
  <2>1. CASE l1'[j][x] = l1[j][x]
    BY <2>1 DEF TruthInv
  <2>2. CASE x = k /\ l1'[j][x] = Entry(src, L1Ttl)
    BY <2>2 DEF Entry
  <2>3. CASE x = k /\ l2[k] # NoEntry /\ l1'[j][x] = Copy(l2[k])
    BY <2>3 DEF TruthInv, Copy
  <2>. QED BY <2>1, <2>2, <2>3 DEF CacheStep
<1>2. \A x \in Keys : l2'[x] # NoEntry => WasTrue(x, l2'[x].value, l2'[x].read)
  <2>. SUFFICES ASSUME NEW x \in Keys, l2'[x] # NoEntry
                PROVE  WasTrue(x, l2'[x].value, l2'[x].read)
    OBVIOUS
  <2>1. CASE l2'[x] = l2[x]
    BY <2>1 DEF TruthInv
  <2>2. CASE x = k /\ l2'[x] = Entry(src, TtlOf(k))
    BY <2>2 DEF Entry
  <2>. QED BY <2>1, <2>2 DEF CacheStep
<1>3. \A x, v, r : WasTrue(x, v, r) => WasTrue(x, v, r)'
  BY SameCatalog
<1>. QED BY <1>1, <1>2, <1>3 DEF TruthInv

\* A change of the catalogue never moves the last moment of a fact back.
LEMMA LastGrows ==
  ASSUME HistInv, now \in Nat, now' = now, Record
  PROVE  /\ \A t \in Trees, c \in Campaigns : LastListed(t, c) <= LastListed(t, c)'
         /\ \A c \in Campaigns : LastActive(c) <= LastActive(c)'
         /\ \A t \in Trees \cup {Null} : LastTree(t) <= LastTree(t)'
         /\ assigned' \in Trees \cup {Null} => HistInv'
<1>1. /\ \A t \in Trees, c \in Campaigns :
           until'.listed[<<t, c>>] =
             IF c \in Listed(t) /\ c \notin Listed(t)' THEN now ELSE until.listed[<<t, c>>]
      /\ \A c \in Campaigns :
           until'.active[c] = IF Active(c) /\ ~Active(c)' THEN now ELSE until.active[c]
      /\ \A t \in Trees \cup {Null} :
           until'.tree[t] = IF AssignedTree = t /\ AssignedTree' # t THEN now ELSE until.tree[t]
  BY DEF Record
<1>2. \A t \in Trees, c \in Campaigns : LastListed(t, c) <= LastListed(t, c)'
  <2>. SUFFICES ASSUME NEW t \in Trees, NEW c \in Campaigns
                PROVE  LastListed(t, c) <= LastListed(t, c)'
    OBVIOUS
  <2>. DEFINE u == until.listed[<<t, c>>]
  <2>1. u \in Int /\ u <= now
    BY DEF HistInv
  <2>2. LastListed(t, c) = IF c \in Listed(t) THEN now ELSE u
    BY DEF LastListed
  <2>3. LastListed(t, c)' = IF c \in Listed(t)' THEN now
                            ELSE IF c \in Listed(t) /\ c \notin Listed(t)' THEN now ELSE u
    BY <1>1 DEF LastListed
  <2>. HIDE DEF u
  <2>. QED BY <2>1, <2>2, <2>3
<1>3. \A c \in Campaigns : LastActive(c) <= LastActive(c)'
  BY <1>1 DEF HistInv, LastActive
<1>4. \A t \in Trees \cup {Null} : LastTree(t) <= LastTree(t)'
  BY <1>1 DEF HistInv, LastTree
<1>5. assigned' \in Trees \cup {Null} => HistInv'
  BY <1>1 DEF HistInv
<1>. QED BY <1>2, <1>3, <1>4, <1>5

\* Any change of the catalogue that records what ends with it keeps the invariant.
LEMMA DashboardKeeps ==
  ASSUME IInv, UNCHANGED <<now, cacheVars, req>>, Record, assigned' \in Trees \cup {Null}
  PROVE  IInv'
<1>1. now \in Nat /\ now' = now /\ HistInv /\ HistInv'
  <2>1. now \in Nat /\ now' = now /\ HistInv
    BY DEF IInv, CacheInv
  <2>. QED BY <2>1, LastGrows
<1>2. /\ \A t \in Trees, c \in Campaigns :
           LastListed(t, c) \in Int /\ LastListed(t, c)' \in Int /\ LastListed(t, c) <= LastListed(t, c)'
      /\ \A c \in Campaigns :
           LastActive(c) \in Int /\ LastActive(c)' \in Int /\ LastActive(c) <= LastActive(c)'
      /\ \A t \in Trees \cup {Null} :
           LastTree(t) \in Int /\ LastTree(t)' \in Int /\ LastTree(t) <= LastTree(t)'
  <2>1. HistInv /\ now \in Nat => /\ \A t \in Trees, c \in Campaigns : LastListed(t, c) \in Int
                                  /\ \A c \in Campaigns : LastActive(c) \in Int
                                  /\ \A t \in Trees \cup {Null} : LastTree(t) \in Int
    BY LastIsTime
  <2>2. HistInv' /\ now' \in Nat => /\ \A t \in Trees, c \in Campaigns : LastListed(t, c)' \in Int
                                    /\ \A c \in Campaigns : LastActive(c)' \in Int
                                    /\ \A t \in Trees \cup {Null} : LastTree(t)' \in Int
    BY DEF HistInv, LastListed, LastActive, LastTree
  <2>. QED BY <1>1, <2>1, <2>2, LastGrows
<1>3. ASSUME NEW k \in Keys, NEW v, NEW r \in Int, WasTrue(k, v, r)
      PROVE  WasTrue(k, v, r)'
  BY <1>2, <1>3, KeyForms DEF WasTrue
<1>4. CacheInv'
  BY DEF IInv, CacheInv, CacheShape, cacheVars
<1>5. TruthInv'
  BY <1>3 DEF IInv, TruthInv, CacheInv, L1Entry, L2Entry, cacheVars
<1>6. ReqInv'
  <2>1. MaxAge(TreeTtl) \in Int /\ MaxAge(AssocTtl) \in Int /\ MaxAge(PrecheckTtl) \in Int
    BY CatalogAssumption, CacheAssumption DEF MaxAge
  <2>2. ASSUME NEW r, ReqOK(r) PROVE ReqOK(r)'
    BY <1>1, <1>2, <2>1, <2>2 DEF ReqOK
  <2>. QED BY <2>2 DEF IInv, ReqInv
<1>. QED BY <1>1, <1>4, <1>5, <1>6 DEF IInv

\* Every statement of every dashboard request is such a change.
LEMMA DashboardStep ==
  ASSUME IInv, NEW a \in Admins, Dashboard(a)
  PROVE  IInv'
<1>. USE DEF Edit, Continue
<1>. DEFINE Good == /\ UNCHANGED <<now, cacheVars, req>> /\ Record
                    /\ assigned' \in Trees \cup {Null}
<1>1. assigned \in Trees \cup {Null}
  BY DEF IInv, HistInv
<1>2. ASSUME NEW t \in Trees, CreatePingTree(a, t) \/ DeletePingTree(a, t)
                                \/ AddPublisher(a, t) \/ RemovePublisher(a, t)
      PROVE  Good
  BY <1>1, <1>2 DEF CreatePingTree, DeletePingTree, AddPublisher, RemovePublisher
<1>3. ASSUME NEW c \in Campaigns, CreateCampaign(a, c) \/ DeleteCampaign(a, c)
      PROVE  Good
  BY <1>1, <1>3 DEF CreateCampaign, DeleteCampaign
<1>4. ASSUME NEW c \in Campaigns, NEW status, UpdateCampaign(a, c, status)
      PROVE  Good
  BY <1>1, <1>4 DEF UpdateCampaign, catalog
<1>5. ASSUME NEW t \in Trees, NEW c \in Campaigns, AddCampaign(a, t, c) \/ RemoveCampaign(a, t, c)
      PROVE  Good
  BY <1>1, <1>5 DEF AddCampaign, RemoveCampaign
<1>6. ASSUME InsertMember(a) \/ CountOtherTrees(a) \/ SetStatus(a) \/ StatementFails(a)
      PROVE  Good
  BY <1>1, <1>6 DEF InsertMember, CountOtherTrees, SetStatus, StatementFails, catalog
<1>7. Good
  BY <1>2, <1>3, <1>4, <1>5, <1>6 DEF Dashboard
<1>. QED BY <1>7, DashboardKeeps

\* A lookup whose caller only stores the value keeps the invariant.
LEMMA LookupKeeps ==
  ASSUME IInv, UNCHANGED <<now, catalog, until>>, NEW i, NEW k \in Keys, NEW src,
         WasTrue(k, src, now), CacheStep(i, k, src)
  PROVE  CacheInv' /\ HistInv' /\ TruthInv'
<1>1. CacheInv /\ TruthInv /\ HistInv /\ now' = now
  BY DEF IInv
<1>. QED BY <1>1, CacheStepKeeps, CacheStepIsTrue, SameCatalog

\* A step of instance i that leaves time and the catalogue alone.
LEMMA RequestKeeps ==
  ASSUME ReqInv, UNCHANGED <<now, catalog, until>>, NEW i \in Instances, NEW new,
         req' = [req EXCEPT ![i] = new], ReqOK(new)
  PROVE  ReqInv'
<1>1. \A r : ReqOK(r) => ReqOK(r)'
  BY SameCatalog DEF ReqOK
<1>. QED BY <1>1 DEF ReqInv

\* The keys that requests and the warm-up use.
LEMMA KeysAndTtls ==
  /\ TreeKey \in Keys /\ TtlOf(TreeKey) = TreeTtl
  /\ \A t \in Trees : ListKey(t) \in Keys /\ TtlOf(ListKey(t)) = TreeTtl
  /\ \A S \in SUBSET Campaigns : S # {} => AssocKey(S) \in Keys /\ TtlOf(AssocKey(S)) = AssocTtl
  /\ \A token \in Tokens : Prechecks(token) \in Keys /\ TtlOf(Prechecks(token)) = PrecheckTtl
  BY DEF Keys, TtlOf, TreeKey, ListKey, AssocKey, Prechecks

\* The ages of the properties are numbers.
LEMMA Ages == /\ MaxAge(TreeTtl) \in Nat /\ MaxAge(AssocTtl) \in Nat
              /\ MaxAge(PrecheckTtl) \in Nat
  BY CatalogAssumption, CacheAssumption DEF MaxAge

\* The pre-checks: a refusal as ronin was found true recently enough.
LEMMA PrecheckStep ==
  ASSUME IInv, NEW i \in Instances, NEW token \in Tokens, Precheck(i, token)
  PROVE  IInv'
<1>. DEFINE k == Prechecks(token)
            src == PrecheckResult(token)
            new(r) == IF r = "ok" THEN [stage |-> "tree"] ELSE Done(r)
<1>1. now \in Nat /\ CacheInv /\ CacheShape /\ HistInv /\ TruthInv /\ ReqInv
  BY DEF IInv, CacheInv
<1>2. k \in Keys /\ TtlOf(k) = PrecheckTtl /\ WasTrue(k, src, now)
  BY <1>1, KeysAndTtls, SourceIsTrue
<1>3. UNCHANGED <<now, catalog, until>>
  BY DEF Precheck, AfterPrechecks, Step
<1>4. PICK r : /\ req' = [req EXCEPT ![i] = new(r)]
               /\ CacheStep(i, k, src)
               /\ \E t \in Int : now - t <= MaxAge(PrecheckTtl) /\ WasTrue(k, r, t)
  <2>1. CASE \E lost \in BOOLEAN : /\ Lookup(i, k, PrecheckTtl, FALSE, src, lost)
                                   /\ AfterPrechecks(i, Found(i, k, FALSE, src, lost))
    <3>1. PICK lost \in BOOLEAN : /\ Lookup(i, k, PrecheckTtl, FALSE, src, lost)
                                  /\ AfterPrechecks(i, Found(i, k, FALSE, src, lost))
      BY <2>1
    <3>2. CacheStep(i, k, src)
      BY <1>1, <1>2, <3>1, LookupStep
    <3>3. \E t \in Int : now - t <= MaxAge(PrecheckTtl) /\ WasTrue(k, Found(i, k, FALSE, src, lost), t)
      BY <1>1, <1>2, FoundWasTrue
    <3>. QED BY <3>1, <3>2, <3>3 DEF AfterPrechecks, Step
  <2>2. CASE \E late \in BOOLEAN : /\ LookupFails(i, k, FALSE, src, late)
                                   /\ \E r \in {src, "unverified"} : AfterPrechecks(i, r)
    <3>1. PICK late \in BOOLEAN, r \in {src, "unverified"} :
            LookupFails(i, k, FALSE, src, late) /\ AfterPrechecks(i, r)
      BY <2>2
    <3>2. CacheStep(i, k, src)
      BY <1>1, <3>1, LookupFailsStep
    <3>3. WasTrue(k, r, now) /\ now - now <= MaxAge(PrecheckTtl)
      BY <1>1, <1>2, Ages DEF WasTrue, Prechecks
    <3>4. req' = [req EXCEPT ![i] = new(r)]
      BY <3>1 DEF AfterPrechecks, Step
    <3>5. \E t \in Int : now - t <= MaxAge(PrecheckTtl) /\ WasTrue(k, r, t)
      BY <1>1, <3>3
    <3>. HIDE DEF k, src, new
    <3>. QED BY <3>2, <3>4, <3>5
  <2>3. \/ \E lost \in BOOLEAN : /\ Lookup(i, k, PrecheckTtl, FALSE, src, lost)
                                 /\ AfterPrechecks(i, Found(i, k, FALSE, src, lost))
        \/ \E late \in BOOLEAN : /\ LookupFails(i, k, FALSE, src, late)
                                 /\ \E r \in {src, "unverified"} : AfterPrechecks(i, r)
    BY DEF Precheck
  <2>. HIDE DEF k, src, new
  <2>. QED BY <2>1, <2>2, <2>3
<1>5. ReqOK(new(r))
  <2>1. CASE r = "ronin"
    <3>1. now - LastTree(Null) <= MaxAge(PrecheckTtl)
      BY <1>1, <1>4, <2>1, LastIsTime, Ages DEF WasTrue, Prechecks
    <3>. QED BY <2>1, <3>1 DEF ReqOK, Done
  <2>2. CASE r = "routed"
    BY <1>4, <2>2 DEF WasTrue, Prechecks
  <2>3. CASE r # "ronin" /\ r # "routed"
    BY <2>3 DEF ReqOK, Done
  <2>. QED BY <2>1, <2>2, <2>3
<1>. HIDE DEF k, src, new
<1>. QED BY <1>1, <1>2, <1>3, <1>4, <1>5, LookupKeeps, RequestKeeps DEF IInv

\* The tree that is found was the publisher's recently enough.
LEMMA FindTreeStep ==
  ASSUME IInv, NEW i \in Instances, FindTree(i)
  PROVE  IInv'
<1>. DEFINE new(t) == IF t = Null THEN Done("not_assigned") ELSE [stage |-> "list", tree |-> t]
<1>1. now \in Nat /\ CacheInv /\ CacheShape /\ HistInv /\ TruthInv /\ ReqInv
  BY DEF IInv, CacheInv
<1>2. TreeKey \in Keys /\ TtlOf(TreeKey) = TreeTtl /\ WasTrue(TreeKey, AssignedTree, now)
  BY <1>1, KeysAndTtls, SourceIsTrue
<1>3. PICK lost \in BOOLEAN : /\ Lookup(i, TreeKey, TreeTtl, TRUE, AssignedTree, lost)
                              /\ WithTree(i, Found(i, TreeKey, TRUE, AssignedTree, lost))
  BY DEF FindTree
<1>. DEFINE t == Found(i, TreeKey, TRUE, AssignedTree, lost)
<1>4. UNCHANGED <<now, catalog, until>> /\ req' = [req EXCEPT ![i] = new(t)]
  BY <1>3 DEF WithTree, Step
<1>5. CacheStep(i, TreeKey, AssignedTree)
  BY <1>1, <1>2, <1>3, LookupStep
<1>6. \E r \in Int : now - r <= MaxAge(TreeTtl) /\ WasTrue(TreeKey, t, r)
  BY <1>1, <1>2, FoundWasTrue
<1>. HIDE DEF t
<1>7. t # Null => t \in Trees /\ now - LastTree(t) <= MaxAge(TreeTtl)
  BY <1>1, <1>6, LastIsTime, Ages DEF WasTrue, TreeKey
<1>8. ReqOK(new(t))
  BY <1>7 DEF ReqOK, Done
<1>. HIDE DEF new
<1>. QED BY <1>1, <1>2, <1>4, <1>5, <1>8, LookupKeeps, RequestKeeps DEF IInv

\* The campaigns of the list were in it recently enough.
LEMMA FindListStep ==
  ASSUME IInv, NEW i \in Instances, FindList(i)
  PROVE  IInv'
<1>. DEFINE t == req[i].tree
            new(S) == IF S = {} THEN Done("no_campaigns")
                      ELSE [stage |-> "assoc", tree |-> t, list |-> S]
<1>1. now \in Nat /\ CacheInv /\ CacheShape /\ HistInv /\ TruthInv /\ ReqInv
  BY DEF IInv, CacheInv
<1>2. t \in Trees /\ now - LastTree(t) <= MaxAge(TreeTtl)
  BY <1>1 DEF FindList, ReqInv, ReqOK
<1>3. PICK lost \in BOOLEAN :
        /\ Lookup(i, ListKey(t), TreeTtl, FALSE, Listed(t), lost)
        /\ Step(i, new(Found(i, ListKey(t), FALSE, Listed(t), lost)))
  BY DEF FindList
<1>. DEFINE S == Found(i, ListKey(t), FALSE, Listed(t), lost)
<1>4. UNCHANGED <<now, catalog, until>> /\ req' = [req EXCEPT ![i] = new(S)]
  BY <1>3 DEF Step
<1>. HIDE DEF t
<1>5. ListKey(t) \in Keys /\ TtlOf(ListKey(t)) = TreeTtl /\ WasTrue(ListKey(t), Listed(t), now)
  BY <1>1, <1>2, KeysAndTtls, SourceIsTrue
<1>6. CacheStep(i, ListKey(t), Listed(t))
  BY <1>1, <1>3, <1>5, LookupStep
<1>7. \E r \in Int : now - r <= MaxAge(TreeTtl) /\ WasTrue(ListKey(t), S, r)
  BY <1>1, <1>5, FoundWasTrue
<1>. HIDE DEF S
<1>8. \A c \in S : c \in Campaigns /\ now - LastListed(t, c) <= MaxAge(TreeTtl)
  BY <1>1, <1>2, <1>7, LastIsTime, Ages DEF WasTrue, ListKey
<1>9. ReqOK(new(S))
  BY <1>2, <1>8 DEF ReqOK, Done
<1>. HIDE DEF new
<1>. QED BY <1>1, <1>4, <1>5, <1>6, <1>9, LookupKeeps, RequestKeeps DEF IInv

\* The campaigns that are chosen were in the list, and active, recently enough.
LEMMA LoadCampaignsStep ==
  ASSUME IInv, NEW i \in Instances, LoadCampaigns(i)
  PROVE  IInv'
<1>. DEFINE S == req[i].list
            k == AssocKey(S)
            new(A) == IF Chosen(i, A) = {} THEN Done("no_valid_campaigns")
                      ELSE [stage |-> "done", result |-> "routed", tree |-> req[i].tree,
                            campaigns |-> Chosen(i, A)]
<1>1. now \in Nat /\ CacheInv /\ CacheShape /\ HistInv /\ TruthInv /\ ReqInv
  BY DEF IInv, CacheInv
<1>2. /\ req[i].tree \in Trees /\ now - LastTree(req[i].tree) <= MaxAge(TreeTtl)
      /\ S # {} /\ S \in SUBSET Campaigns
      /\ \A c \in S : now - LastListed(req[i].tree, c) <= MaxAge(TreeTtl)
  BY <1>1 DEF LoadCampaigns, ReqInv, ReqOK
<1>3. k \in Keys /\ TtlOf(k) = AssocTtl /\ WasTrue(k, ActiveOf(S), now)
  BY <1>1, <1>2, KeysAndTtls, SourceIsTrue
<1>4. UNCHANGED <<now, catalog, until>>
  BY DEF LoadCampaigns, Route, Step
<1>5. PICK A : /\ req' = [req EXCEPT ![i] = new(A)]
               /\ CacheStep(i, k, ActiveOf(S))
               /\ \E r \in Int : now - r <= MaxAge(AssocTtl) /\ WasTrue(k, A, r)
  <2>1. CASE \E lost \in BOOLEAN : /\ Lookup(i, k, AssocTtl, FALSE, ActiveOf(S), lost)
                                   /\ Route(i, Found(i, k, FALSE, ActiveOf(S), lost))
    <3>1. PICK lost \in BOOLEAN : /\ Lookup(i, k, AssocTtl, FALSE, ActiveOf(S), lost)
                                  /\ Route(i, Found(i, k, FALSE, ActiveOf(S), lost))
      BY <2>1
    <3>2. CacheStep(i, k, ActiveOf(S))
      BY <1>1, <1>3, <3>1, LookupStep
    <3>3. \E r \in Int : now - r <= MaxAge(AssocTtl) /\ WasTrue(k, Found(i, k, FALSE, ActiveOf(S), lost), r)
      BY <1>1, <1>3, FoundWasTrue
    <3>4. req' = [req EXCEPT ![i] = new(Found(i, k, FALSE, ActiveOf(S), lost))]
      BY <3>1 DEF Route, Step
    <3>. HIDE DEF k, new
    <3>. QED BY <3>2, <3>3, <3>4
  <2>2. CASE \E late \in BOOLEAN : LookupFails(i, k, FALSE, ActiveOf(S), late) /\ Route(i, {})
    <3>1. PICK late \in BOOLEAN : LookupFails(i, k, FALSE, ActiveOf(S), late) /\ Route(i, {})
      BY <2>2
    <3>2. CacheStep(i, k, ActiveOf(S))
      BY <1>1, <3>1, LookupFailsStep
    <3>3. \E r \in Int : now - r <= MaxAge(AssocTtl) /\ WasTrue(k, {}, r)
      <4>1. now \in Int /\ now - now <= MaxAge(AssocTtl) /\ WasTrue(k, {}, now)
        BY <1>1, Ages DEF WasTrue, AssocKey
      <4>. QED BY <4>1
    <3>4. req' = [req EXCEPT ![i] = new({})]
      BY <3>1 DEF Route, Step
    <3>. HIDE DEF k, new
    <3>. QED BY <3>2, <3>3, <3>4
  <2>3. \/ \E lost \in BOOLEAN : /\ Lookup(i, k, AssocTtl, FALSE, ActiveOf(S), lost)
                                 /\ Route(i, Found(i, k, FALSE, ActiveOf(S), lost))
        \/ \E late \in BOOLEAN : LookupFails(i, k, FALSE, ActiveOf(S), late) /\ Route(i, {})
    BY DEF LoadCampaigns
  <2>. HIDE DEF k, new
  <2>. QED BY <2>1, <2>2, <2>3
<1>6. \A c \in A : c \in Campaigns /\ now - LastActive(c) <= MaxAge(AssocTtl)
  BY <1>1, <1>5, LastIsTime, Ages DEF WasTrue, AssocKey
<1>7. ReqOK(new(A))
  BY <1>2, <1>6 DEF ReqOK, Done, Chosen
<1>. HIDE DEF k, new
<1>. QED BY <1>1, <1>3, <1>4, <1>5, <1>7, LookupKeeps, RequestKeeps DEF IInv

\* A failure of the cache ends the request.
LEMMA RouteFailsStep ==
  ASSUME IInv, NEW i \in Instances, RouteFails(i)
  PROVE  IInv'
<1>1. now \in Nat /\ CacheInv /\ CacheShape /\ HistInv /\ TruthInv /\ ReqInv
  BY DEF IInv, CacheInv
<1>2. UNCHANGED <<now, catalog, until>> /\ req' = [req EXCEPT ![i] = Done("failed")]
  BY DEF RouteFails, Step
<1>3. \/ CacheStep(i, TreeKey, AssignedTree)
      \/ req[i].tree \in Trees /\ CacheStep(i, ListKey(req[i].tree), Listed(req[i].tree))
  BY <1>1, LookupFailsStep DEF RouteFails, ReqInv, ReqOK
<1>4. CacheInv' /\ HistInv' /\ TruthInv'
  BY <1>1, <1>2, <1>3, KeysAndTtls, SourceIsTrue, LookupKeeps
<1>5. ReqOK(Done("failed"))
  BY DEF ReqOK, Done
<1>. QED BY <1>1, <1>2, <1>4, <1>5, RequestKeeps DEF IInv

\* An answered request leaves the instance idle.
LEMMA AnswerStep ==
  ASSUME IInv, NEW i \in Instances, Answer(i)
  PROVE  IInv'
<1>1. UNCHANGED <<now, catalog, until>> /\ UNCHANGED cacheVars /\ req' = [req EXCEPT ![i] = NoRequest]
  BY DEF Answer, Step
<1>2. ReqOK(NoRequest)
  BY DEF ReqOK, NoRequest
<1>3. CacheInv'
  BY <1>1 DEF IInv, CacheInv, CacheShape, cacheVars
<1>4. TruthInv'
  BY <1>1, SameCatalog DEF IInv, TruthInv, cacheVars
<1>. QED BY <1>1, <1>2, <1>3, <1>4, SameCatalog, RequestKeeps DEF IInv

\* A step that changes neither time, nor the catalogue, nor a request.
LEMMA SameRequests ==
  ASSUME IInv, UNCHANGED <<now, catalog, until, req>>
  PROVE  ReqInv'
<1>1. \A r : ReqOK(r) => ReqOK(r)'
  BY SameCatalog DEF ReqOK
<1>. QED BY <1>1 DEF IInv, ReqInv

\* The warm-up stores what the database says, a missing tree included.
LEMMA WarmStep ==
  ASSUME IInv, NEW i \in Instances,
         WarmSelect(i) \/ WarmTree(i) \/ \E t \in Trees : WarmList(i, t)
  PROVE  IInv'
<1>1. now \in Nat /\ CacheInv /\ CacheShape /\ HistInv /\ TruthInv /\ ReqInv
  BY DEF IInv, CacheInv
<1>2. UNCHANGED <<now, catalog, until, req>>
  BY DEF WarmSelect, WarmTree, WarmList
<1>3. CASE WarmSelect(i)
  <2>1. UNCHANGED <<l1, l2>>
    BY <1>3 DEF WarmSelect, cacheVars
  <2>2. CacheInv'
    BY <1>1, <1>2, <2>1 DEF CacheInv, CacheShape
  <2>3. TruthInv' /\ HistInv'
    BY <1>1, <1>2, <2>1, SameCatalog DEF TruthInv
  <2>. QED BY <1>2, <2>2, <2>3, SameRequests DEF IInv
<1>4. CASE WarmTree(i)
  <2>1. CacheStep(i, TreeKey, AssignedTree)
    BY <1>1, <1>4, KeysAndTtls, LookupStep, LookupFailsStep DEF WarmTree
  <2>. QED BY <1>1, <1>2, <2>1, KeysAndTtls, SourceIsTrue, LookupKeeps, SameRequests DEF IInv
<1>5. CASE \E t \in Trees : WarmList(i, t)
  <2>1. PICK t \in Trees : WarmList(i, t)
    BY <1>5
  <2>2. CacheStep(i, ListKey(t), Listed(t))
    BY <1>1, <2>1, KeysAndTtls, LookupStep, LookupFailsStep DEF WarmList
  <2>. QED BY <1>1, <1>2, <2>2, KeysAndTtls, SourceIsTrue, LookupKeeps, SameRequests DEF IInv
<1>. QED BY <1>3, <1>4, <1>5

\* Time passes between requests: what was true stays true of the past.
LEMMA TickStep ==
  ASSUME IInv, Tick
  PROVE  IInv'
<1>1. /\ now \in Nat /\ CacheInv /\ HistInv /\ TruthInv /\ ReqInv
      /\ Clock /\ UNCHANGED <<catalog, until, req>> /\ now' = now + 1
      /\ \A i \in Instances : req[i] = NoRequest
  BY DEF IInv, CacheInv, Tick, Clock
<1>2. CacheInv'
  BY <1>1, ClockKeeps
<1>3. HistInv'
  BY <1>1 DEF HistInv, catalog
<1>4. ReqInv'
  BY <1>1 DEF ReqInv, ReqOK, NoRequest
<1>5. /\ \A t \in Trees, c \in Campaigns : LastListed(t, c) <= LastListed(t, c)'
      /\ \A c \in Campaigns : LastActive(c) <= LastActive(c)'
      /\ \A t \in Trees \cup {Null} : LastTree(t) <= LastTree(t)'
  <2>1. ASSUME NEW t \in Trees, NEW c \in Campaigns
        PROVE  LastListed(t, c) <= LastListed(t, c)'
    <3>. DEFINE u == until.listed[<<t, c>>]
    <3>1. u \in Int /\ u <= now
      BY <1>1 DEF HistInv
    <3>2. LastListed(t, c) = IF c \in Listed(t) THEN now ELSE u
      BY DEF LastListed
    <3>3. Listed(t)' = Listed(t)
      BY <1>1 DEF Listed, Active, catalog
    <3>4. LastListed(t, c)' = IF c \in Listed(t) THEN now + 1 ELSE u
      BY <1>1, <3>3 DEF LastListed
    <3>. HIDE DEF u
    <3>. QED BY <1>1, <3>1, <3>2, <3>4
  <2>2. \A c \in Campaigns : LastActive(c) <= LastActive(c)'
    BY <1>1 DEF HistInv, LastActive, Active, catalog
  <2>3. \A t \in Trees \cup {Null} : LastTree(t) <= LastTree(t)'
    BY <1>1 DEF HistInv, LastTree, AssignedTree, Live, catalog
  <2>. QED BY <2>1, <2>2, <2>3
<1>6. /\ \A t \in Trees, c \in Campaigns : LastListed(t, c) \in Int /\ LastListed(t, c)' \in Int
      /\ \A c \in Campaigns : LastActive(c) \in Int /\ LastActive(c)' \in Int
      /\ \A t \in Trees \cup {Null} : LastTree(t) \in Int /\ LastTree(t)' \in Int
  <2>1. now' \in Nat
    BY <1>1
  <2>. QED BY <1>1, <1>3, <2>1 DEF HistInv, LastListed, LastActive, LastTree
<1>7. \A v : \A k \in Keys, r \in Int : WasTrue(k, v, r) => WasTrue(k, v, r)'
  BY <1>5, <1>6, KeyForms DEF WasTrue
<1>8. TruthInv'
  <2>. DEFINE Left(e) == IF e # NoEntry /\ e.ends <= now + 1 THEN NoEntry ELSE e
  <2>1. /\ l1' = [i \in Instances |-> [k \in DOMAIN l1[i] |-> Left(l1[i][k])]]
        /\ l2' = [k \in DOMAIN l2 |-> Left(l2[k])]
    BY <1>1 DEF Clock
  <2>2. \A i \in Instances, k \in Keys : l1'[i][k] # NoEntry => l1'[i][k] = l1[i][k]
    BY <1>1, <2>1 DEF CacheInv, CacheShape
  <2>3. \A k \in Keys : l2'[k] # NoEntry => l2'[k] = l2[k]
    BY <1>1, <2>1 DEF CacheInv, CacheShape
  <2>4. /\ \A i \in Instances, k \in Keys : l1[i][k] # NoEntry => l1[i][k].read \in Int
        /\ \A k \in Keys : l2[k] # NoEntry => l2[k].read \in Int
    BY <1>1 DEF CacheInv, L1Entry, L2Entry
  <2>. QED BY <1>1, <1>7, <2>2, <2>3, <2>4 DEF TruthInv
<1>. QED BY <1>2, <1>3, <1>4, <1>8 DEF IInv

-----------------------------------------------------------------------------
(* The theorems.                                                            *)

\* The cache is empty and no request runs.
LEMMA InitHolds ==
  ASSUME Init
  PROVE  IInv
<1>1. CacheInv /\ TruthInv
  BY DEF Init, CacheInit, CacheInv, CacheShape, TruthInv
<1>2. HistInv
  BY DEF Init, CacheInit, HistInv, LongAgo
<1>3. ReqInv
  BY DEF Init, ReqInv, ReqOK, NoRequest
<1>. QED BY <1>1, <1>2, <1>3 DEF IInv

\* Every step keeps the invariant.
LEMMA NextKeeps ==
  ASSUME IInv, [Next]_vars
  PROVE  IInv'
<1>1. CASE \E a \in Admins : Dashboard(a)
  BY <1>1, DashboardStep
<1>2. CASE \E i \in Instances : Request(i)
  <2>. PICK i \in Instances : Request(i)
    BY <1>2
  <2>. QED BY PrecheckStep, FindTreeStep, FindListStep, LoadCampaignsStep, RouteFailsStep,
              AnswerStep DEF Request
<1>3. CASE \E i \in Instances : WarmSelect(i) \/ WarmTree(i) \/ \E t \in Trees : WarmList(i, t)
  BY <1>3, WarmStep
<1>4. CASE Tick
  BY <1>4, TickStep
<1>5. CASE UNCHANGED vars
  <2>1. UNCHANGED <<now, catalog, until, req>> /\ UNCHANGED <<l1, l2>>
    BY <1>5 DEF vars, cacheVars
  <2>2. CacheInv' /\ TruthInv' /\ HistInv'
    BY <2>1, SameCatalog DEF IInv, CacheInv, CacheShape, TruthInv
  <2>. QED BY <2>1, <2>2, SameRequests DEF IInv
<1>. QED BY <1>1, <1>2, <1>3, <1>4, <1>5 DEF Next

\* The invariant of the cache, the history and the requests holds throughout, whatever
\* the dashboard, the requests and the warm-up of all instances do in between.
THEOREM CatalogInvariant == Spec => []IInv
  BY InitHolds, NextKeeps, PTL DEF Spec

\* A value in the in-memory level of any instance was read from the database at most
\* one lifetime of its key and one of that level ago: copying an entry from Redis starts
\* its lifetime anew, but only once (cache.rs, get_or_insert_with).
THEOREM CacheAgeBound == Spec => []CacheAge
<1>1. IInv => CacheAge
  BY Lifetimes DEF IInv, CacheInv, CacheAge, L1Entry, MaxAge
<1>. QED BY <1>1, CatalogInvariant, PTL

\* A lead is routed only to campaigns that were in the tree, and active, within the ages
\* their cache keys allow, and the tree was the publisher's within that of its key
\* (ping_tree_router.rs, route).
THEOREM RoutedLeadsWereEligible == Spec => []RoutedWasEligible
<1>1. IInv => RoutedWasEligible
  BY DEF IInv, ReqInv, ReqOK, RoutedWasEligible
<1>. QED BY <1>1, CatalogInvariant, PTL

\* The pre-checks refuse a request as ronin only if the publisher had no ping tree
\* within the age of the pre-check's key (leads.rs, create_lead).
THEOREM RoninRefusalsAreJustified == Spec => []RoninWasJustified
<1>1. IInv => RoninWasJustified
  BY DEF IInv, ReqInv, ReqOK, RoninWasJustified
<1>. QED BY <1>1, CatalogInvariant, PTL

\* route() reports a missing ping tree only when the database has none at that moment,
\* whatever the warm-up has cached (cache.rs, get_or_insert_with_skip_none).
THEOREM MissingTreeIsFresh == Spec => NotAssignedIsFresh
<1>. DEFINE Fresh == \A i \in Instances :
              req[i].stage = "tree" /\ req'[i] = Done("not_assigned") => AssignedTree = Null
<1>1. ASSUME IInv, [Next]_vars
      PROVE  [Fresh]_vars
  <2>. SUFFICES ASSUME Next, NEW i \in Instances,
                       req[i].stage = "tree", req'[i] = Done("not_assigned")
                PROVE  AssignedTree = Null
    BY <1>1
  <2>1. DOMAIN req = Instances
    BY <1>1 DEF IInv, ReqInv
  <2>2. req'[i] # req[i]
    BY DEF Done
  <2>3. PICK j \in Instances : Request(j)
    BY <2>2 DEF Next, Dashboard, Tick, WarmSelect, WarmTree, WarmList, Edit, Continue,
                CreatePingTree, DeletePingTree, AddPublisher, RemovePublisher, CreateCampaign,
                DeleteCampaign, UpdateCampaign, AddCampaign, RemoveCampaign, InsertMember,
                CountOtherTrees, SetStatus, StatementFails
  <2>4. \E x : Step(j, x)
    BY <2>3 DEF Request, Precheck, AfterPrechecks, FindTree, WithTree, FindList, LoadCampaigns,
                Route, RouteFails, Answer
  <2>5. j = i
    BY <2>1, <2>2, <2>4 DEF Step
  <2>6. CASE FindTree(i)
    <3>1. PICK b \in BOOLEAN : WithTree(i, Found(i, TreeKey, TRUE, AssignedTree, b))
      BY <2>6 DEF FindTree
    <3>2. Found(i, TreeKey, TRUE, AssignedTree, b) = Null
      BY <2>1, <3>1 DEF WithTree, Step, Done
    <3>. QED BY <3>2 DEF Found, Hit1, Hit2, Usable
  <2>7. CASE RouteFails(i)
    BY <2>1, <2>7 DEF RouteFails, Step, Done
  <2>8. /\ \A token : ~Precheck(i, token)
        /\ ~FindList(i) /\ ~LoadCampaigns(i) /\ ~Answer(i)
    <3>1. req[i] # NoRequest
      BY DEF NoRequest
    <3>2. \A token : ~Precheck(i, token)
      BY <3>1 DEF Precheck
    <3>3. ~FindList(i)
      BY DEF FindList
    <3>4. ~LoadCampaigns(i)
      BY DEF LoadCampaigns
    <3>5. ~Answer(i)
      BY DEF Answer
    <3>. QED BY <3>2, <3>3, <3>4, <3>5
  <2>9. Request(i)
    BY <2>3, <2>5
  <2>. QED BY <2>6, <2>7, <2>8, <2>9 DEF Request
<1>2. IInv /\ [Next]_vars => [Fresh]_vars
  BY <1>1
<1>. QED BY <1>2, CatalogInvariant, PTL DEF Spec, NotAssignedIsFresh
=============================================================================
