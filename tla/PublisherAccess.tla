--------------------------- MODULE PublisherAccess ---------------------------
(***************************************************************************)
(* The publishers of an instance, edited through the dashboard              *)
(* (crates/api/src/routes/dashboard.rs), and the API keys by which their    *)
(* lead requests are let in (crates/api/src/middleware/api_auth.rs).        *)
(*                                                                         *)
(* The lookup of a key goes through the cache, and so does the answer that  *)
(* there is no such key; no dashboard operation touches the cache.  Keys    *)
(* are numbered as they are generated.                                      *)
(***************************************************************************)
EXTENDS Requests, CacheService

CONSTANTS
    Publishers, Emails,
    ThePublisher,       \* the one that exists already
    KeyTtl,             \* lifetime of "publisher:api_key:..." (1 h)
    MaxKeys             \* bound: keys generated

ASSUME PublisherAssumption ==
    /\ ThePublisher \in Publishers
    /\ KeyTtl \in Nat \ {0} /\ MaxKeys \in Nat \ {0}

VARIABLES
    publishers,  \* rows of publishers
    keys,        \* API keys generated so far
    verdict,     \* the newest decision about a key
    ended        \* history: when a key last ceased to be valid, and to be invalid

publisherVars == <<publishers, keys, verdict, ended>>

NoPublisher == [email |-> "no publisher"]
NoVerdict == [key |-> 0]
ApiKeys == 1..MaxKeys
LongAgo == -100

NewPublisher(e, k) ==
    [email |-> e, active |-> TRUE, deleted |-> FALSE, key |-> k, hmac |-> FALSE, used |-> FALSE]

PublisherInit ==
    /\ \E e \in Emails :
         publishers = [p \in Publishers |-> IF p = ThePublisher THEN NewPublisher(e, 1) ELSE NoPublisher]
    /\ keys = 1
    /\ verdict = NoVerdict
    /\ ended = [k \in ApiKeys |-> [valid |-> LongAgo, invalid |-> LongAgo]]

LivePublisher(p) == publishers[p] # NoPublisher /\ ~publishers[p].deleted

\* find_by_api_key: the publisher that has the key and is not deleted, as it is now.
FindByApiKey(k) ==
    {[id |-> p, active |-> publishers[p].active] :
       p \in {q \in Publishers : LivePublisher(q) /\ publishers[q].key = k}}

\* Publisher::active; what is found is not deleted.
IsActive(row) == row.active

Valid(k) == \E row \in FindByApiKey(k) : row.active

\* Every change of a row records which keys cease to be valid or invalid with it.
RecordKeys ==
    /\ ended' = [k \in ApiKeys |->
                   [valid |-> IF Valid(k) /\ ~Valid(k)' THEN now ELSE ended[k].valid,
                    invalid |-> IF ~Valid(k) /\ Valid(k)' THEN now ELSE ended[k].invalid]]
    /\ UNCHANGED <<cacheState, verdict>>

-----------------------------------------------------------------------------
(* The dashboard.                                                           *)

\* Refused when a live publisher has the address.
CreatePublisher(s) ==
    /\ Receives(s, "create publisher")
    /\ \E e \in Emails :
         IF \E p \in Publishers : LivePublisher(p) /\ publishers[p].email = e
         THEN Answer(s) ELSE Step(s, "insert publisher", e)
    /\ UNCHANGED <<cacheState, publisherVars>>

\* No index makes addresses unique any more.  The publisher is active at once.
InsertPublisher(s) ==
    /\ at[s] = "insert publisher" /\ keys < MaxKeys
    /\ \E p \in Publishers :
         /\ publishers[p] = NoPublisher
         /\ publishers' = [publishers EXCEPT ![p] = NewPublisher(held[s], keys + 1)]
    /\ keys' = keys + 1
    /\ Step(s, "audit", "publisher_created")
    /\ RecordKeys

\* The operations that first read the publisher, which must not be deleted.
ReadPublisher(s, op, next) ==
    /\ Receives(s, op)
    /\ \E p \in Publishers : LivePublisher(p) /\ Step(s, next, p)
    /\ UNCHANGED <<cacheState, publisherVars>>

UpdatePublisher(s) == ReadPublisher(s, "update publisher", "write publisher")
DeletePublisher(s) == ReadPublisher(s, "delete publisher", "mark publisher deleted")
RegenerateApiKey(s) == ReadPublisher(s, "regenerate key", "write key")
GenerateHmacSecret(s) == ReadPublisher(s, "generate hmac", "write hmac")

\* UPDATE ... WHERE deleted_at IS NULL, with an address or a status.  The row is read
\* again for the audit entry.
WritePublisher(s) ==
    /\ at[s] = "write publisher"
    /\ \E e \in Emails, active \in BOOLEAN :
         publishers' = IF LivePublisher(held[s])
                       THEN [publishers EXCEPT ![held[s]].email = e, ![held[s]].active = active]
                       ELSE publishers
    /\ Step(s, "audit", "publisher_updated")
    /\ RecordKeys /\ UNCHANGED keys

MarkPublisherDeleted(s) ==
    /\ at[s] = "mark publisher deleted"
    /\ publishers' = [publishers EXCEPT ![held[s]].deleted = TRUE]
    /\ Step(s, "audit", "publisher_deleted")
    /\ RecordKeys /\ UNCHANGED keys

\* The new key is shown even if the publisher was deleted meanwhile and no row written.
WriteKey(s) ==
    /\ at[s] = "write key" /\ keys < MaxKeys
    /\ publishers' = IF LivePublisher(held[s])
                     THEN [publishers EXCEPT ![held[s]].key = keys + 1] ELSE publishers
    /\ keys' = keys + 1
    /\ Step(s, "audit", "publisher_api_key_rotated")
    /\ RecordKeys

WriteHmacSecret(s) ==
    /\ at[s] = "write hmac"
    /\ publishers' = IF LivePublisher(held[s])
                     THEN [publishers EXCEPT ![held[s]].hmac = TRUE] ELSE publishers
    /\ Step(s, "audit", "publisher_hmac_secret_generated")
    /\ RecordKeys /\ UNCHANGED keys

-----------------------------------------------------------------------------
(* A lead request on instance i presents a key that was generated.          *)

\* Let in what was found and is active, as far as the row that was found says.
Admit(s, k, found) ==
    LET granted == \E row \in found : IsActive(row) IN
    /\ verdict' = [key |-> k, granted |-> granted, time |-> now]
    /\ IF granted THEN \E row \in found : Step(s, "record request", row.id) ELSE Answer(s)

\* api_key_auth_middleware; a key that is not found is cached as well.
Authenticate(s, i) ==
    /\ Receives(s, "use key")
    /\ \E k \in 1..keys, lose \in BOOLEAN :
         /\ Lookup(i, k, KeyTtl, FALSE, FindByApiKey(k), lose)
         /\ Admit(s, k, Found(i, k, FALSE, FindByApiKey(k), lose))
    /\ UNCHANGED <<now, publishers, keys, ended>>

\* The cache fails: the answer is an error, whatever the key.
AuthenticateFails(s, i) ==
    /\ Receives(s, "use key")
    /\ \E k \in 1..keys, late \in BOOLEAN : LookupFails(i, k, FALSE, FindByApiKey(k), late)
    /\ Answer(s)
    /\ UNCHANGED <<now, publishers, keys, verdict, ended>>

\* The request is counted, also for a publisher deleted meanwhile; errors are ignored.
RecordRequest(s) ==
    /\ at[s] = "record request"
    /\ publishers' \in {publishers, [publishers EXCEPT ![held[s]].used = TRUE]}
    /\ Answer(s)
    /\ RecordKeys /\ UNCHANGED keys

-----------------------------------------------------------------------------
PublisherStep(s) ==
    \/ CreatePublisher(s) \/ InsertPublisher(s)
    \/ UpdatePublisher(s) \/ WritePublisher(s)
    \/ DeletePublisher(s) \/ MarkPublisherDeleted(s)
    \/ RegenerateApiKey(s) \/ WriteKey(s)
    \/ GenerateHmacSecret(s) \/ WriteHmacSecret(s)
    \/ \E i \in Instances : Authenticate(s, i) \/ AuthenticateFails(s, i)
    \/ RecordRequest(s)

-----------------------------------------------------------------------------
(* Properties.                                                              *)

\* A key is let in, or refused, only if it was valid, or invalid, within the largest age
\* of a cached publisher: a rotated key, a suspended or deleted publisher and a
\* reactivated one are treated as they were for at most that long.
KeyDecisionsAreRecent ==
    verdict # NoVerdict =>
        LET k == verdict.key
            bound == verdict.time - MaxAge(KeyTtl) IN
        IF verdict.granted THEN Valid(k) \/ ended[k].valid >= bound
                           ELSE ~Valid(k) \/ ended[k].invalid >= bound
=============================================================================
