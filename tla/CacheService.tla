---------------------------- MODULE CacheService ----------------------------
(***************************************************************************)
(* The two-level cache of crates/core/src/cache.rs: an in-memory level per  *)
(* server instance with one lifetime for all entries, and a Redis level     *)
(* shared by the instances with a lifetime per key.  Nothing invalidates    *)
(* the entries modelled here; they expire.                                  *)
(*                                                                         *)
(* The module offers the lookups as operators on now, l1 and l2; the module *)
(* that uses it names the keys, their lifetimes and the source.  Time is    *)
(* counted in whole units: an entry lives up to the tick at which it ends.  *)
(***************************************************************************)
EXTENDS Integers

CONSTANTS
    Instances,  \* the server processes
    L1Ttl,      \* lifetime of an entry of the in-memory level (1 h)
    MaxFaults   \* bound: entries lost early and failures of Redis

ASSUME CacheAssumption == L1Ttl \in Nat \ {0} /\ MaxFaults \in Nat

VARIABLES
    now,  \* the time
    l1,   \* l1[i][k]: entry of instance i's in-memory level
    l2,   \* l2[k]: entry of the Redis level
    faults

cacheState == <<now, l1, l2, faults>>

NoEntry == [value |-> "no entry"]
Null == "null"    \* a cached None, serialized

\* A value, when it was read at the source (history), and when the entry ends.
Entry(v, ttl) == [value |-> v, read |-> now, ends |-> now + ttl]

\* An entry of the Redis level, copied into the in-memory level.
Copy(e) == [value |-> e.value, read |-> e.read, ends |-> now + L1Ttl]

CacheInit(keys) ==
    /\ now = 0
    /\ l1 = [i \in Instances |-> [k \in keys |-> NoEntry]]
    /\ l2 = [k \in keys |-> NoEntry]
    /\ faults = 0

\* With skip, the value is deserialized as T and not as Option<T>: Null is no value.
Usable(e, skip) == e # NoEntry /\ (skip => e.value # Null)

\* Where a lookup finds its value.  An entry of the in-memory level may be lost before
\* it ends: the level was full, or the instance restarted.
Hit1(i, k, skip, lost) == ~lost /\ Usable(l1[i][k], skip)
Hit2(i, k, skip, lost) == ~Hit1(i, k, skip, lost) /\ Usable(l2[k], skip)
Stored(i, k, skip, src, lost) ==
    /\ ~Hit1(i, k, skip, lost) /\ ~Hit2(i, k, skip, lost)
    /\ ~(skip /\ src = Null)

\* The value of a lookup when the source would say src.
Found(i, k, skip, src, lost) ==
    IF Hit1(i, k, skip, lost) THEN l1[i][k].value
    ELSE IF Hit2(i, k, skip, lost) THEN l2[k].value ELSE src

Lose(i, k, lost) ==
    /\ lost => l1[i][k] # NoEntry /\ faults < MaxFaults
    /\ faults' = IF lost THEN faults + 1 ELSE faults

\* Mutant: a hit at the in-memory level prolongs the entry (time to idle).
LookupIdle(i, k, ttl, skip, src, lost) ==
    /\ Lose(i, k, lost)
    /\ l1' = [l1 EXCEPT ![i][k] =
                IF Hit1(i, k, skip, lost) THEN Copy(@)
                ELSE IF Hit2(i, k, skip, lost) THEN Copy(l2[k])
                ELSE IF Stored(i, k, skip, src, lost) THEN Entry(src, L1Ttl)
                ELSE IF lost THEN NoEntry ELSE @]
    /\ l2' = [l2 EXCEPT ![k] = IF Stored(i, k, skip, src, lost) THEN Entry(src, ttl) ELSE @]

\* get_or_insert_with, and get_or_insert_with_skip_none when skip: the in-memory
\* level, the Redis level, the source.  A hit at the Redis level is copied into the
\* in-memory level, where its lifetime starts anew; a value of the source is stored in
\* both.
Lookup(i, k, ttl, skip, src, lost) ==
    /\ Lose(i, k, lost)
    /\ l1' = [l1 EXCEPT ![i][k] =
                IF Hit2(i, k, skip, lost) THEN Copy(l2[k])
                ELSE IF Stored(i, k, skip, src, lost) THEN Entry(src, L1Ttl)
                ELSE IF lost THEN NoEntry ELSE @]
    /\ l2' = [l2 EXCEPT ![k] = IF Stored(i, k, skip, src, lost) THEN Entry(src, ttl) ELSE @]

\* Redis fails, and the lookup returns an error: on the read, before anything is
\* stored, or (late) on the write, when the in-memory level already has the entry.
LookupFails(i, k, skip, src, late) ==
    /\ ~Usable(l1[i][k], skip)
    /\ faults < MaxFaults /\ faults' = faults + 1
    /\ late => ~Usable(l2[k], skip) /\ ~(skip /\ src = Null)
    /\ l1' = [l1 EXCEPT ![i][k] = IF late THEN Entry(src, L1Ttl) ELSE @]
    /\ UNCHANGED l2

\* Mutant: entries of the in-memory level stay.
ClockNoExpiry ==
    LET Left(e) == IF e # NoEntry /\ e.ends <= now + 1 THEN NoEntry ELSE e IN
    /\ now' = now + 1
    /\ l1' = l1
    /\ l2' = [k \in DOMAIN l2 |-> Left(l2[k])]
    /\ UNCHANGED faults

\* A unit of time passes, and entries whose lifetime is over go away.
Clock ==
    LET Left(e) == IF e # NoEntry /\ e.ends <= now + 1 THEN NoEntry ELSE e IN
    /\ now' = now + 1
    /\ l1' = [i \in Instances |-> [k \in DOMAIN l1[i] |-> Left(l1[i][k])]]
    /\ l2' = [k \in DOMAIN l2 |-> Left(l2[k])]
    /\ UNCHANGED faults

\* The largest age of a value that a lookup may return: an entry may be copied from
\* the Redis level in the last unit of its life there.
MaxAge(ttl) == (ttl - 1) + (L1Ttl - 1)
=============================================================================
