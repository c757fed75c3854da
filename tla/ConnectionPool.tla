--------------------------- MODULE ConnectionPool ---------------------------
(***************************************************************************)
(* OracleConnectionPoolManager (and RdbConnectionPoolManager, which is the *)
(* same program but for the isPoolExhausted test) for one registered       *)
(* database, with the administrator's update of DbConfigAdminController    *)
(* that evicts its pools.                                                  *)
(*                                                                         *)
(* A revision of the registered entry has an address: the part of it that  *)
(* is in the pool key (host, port, SID, user).  Two revisions that differ  *)
(* only in the password or the pool sizes have the same address.           *)
(***************************************************************************)
EXTENDS Integers, FiniteSets

CONSTANTS
  Caller,           \* request and sampler threads
  Admin,            \* calls of updateDbConfig
  Addr,             \* pool keys
  MaxRev,           \* bound on the revisions of the entry
  Pool,             \* identities of HikariDataSource objects
  Lock,             \* identities of ReentrantLock objects
  Nil

Rev == 0..MaxRev
ASSUME RevAssumption == MaxRev \in Nat /\ Addr # {}
ASSUME NilAssumption == Nil \notin Caller \cup Pool \cup Lock \cup Addr

VARIABLES
  rev,      \* the stored revision of the entry
  addrOf,   \* the pool key of each revision
  pools,    \* pools: key -> pool
  made,     \* the revision each pool was created from
  open,     \* pools that are not closed
  failed,   \* failedPools: none, inside the cooldown, or past it
  lockOf,   \* poolLocks: key -> lock
  holder,   \* the thread holding each lock
  caller,   \* threads inside getConnection
  admin     \* threads inside updateDbConfig

poolVars == <<rev, addrOf, pools, made, open, failed, lockOf, holder, caller, admin>>

-----------------------------------------------------------------------------
Idle == [pc |-> "idle", rev |-> 0, ds |-> Nil, lock |-> Nil]
Key(t) == addrOf[caller[t].rev]

PoolTypeOK ==
  /\ rev \in Rev
  /\ addrOf \in [Rev -> Addr]
  /\ pools \in [Addr -> Pool \cup {Nil}]
  /\ made \in [Pool -> Rev]
  /\ open \subseteq Pool
  /\ failed \in [Addr -> {"none", "recent", "expired"}]
  /\ lockOf \in [Addr -> Lock \cup {Nil}]
  /\ holder \in [Lock -> Caller \cup {Nil}]
  /\ caller \in [Caller -> [pc : {"idle", "check", "expire", "lookup", "lock", "locked",
                                  "create", "put", "borrow", "failing"},
                            rev : Rev, ds : Pool \cup {Nil}, lock : Lock \cup {Nil}]]
  /\ admin \in [Admin -> [pc : {"idle", "evict", "remove", "failed", "locks"},
                          todo : SUBSET Addr, key : Addr \cup {Nil}]]

PoolInit ==
  /\ rev = 0
  /\ addrOf = [r \in Rev |-> CHOOSE a \in Addr : TRUE]
  /\ pools = [a \in Addr |-> Nil]
  /\ made = [p \in Pool |-> 0]
  /\ open = {}
  /\ failed = [a \in Addr |-> "none"]
  /\ lockOf = [a \in Addr |-> Nil]
  /\ holder = [l \in Lock |-> Nil]
  /\ caller = [t \in Caller |-> Idle]
  /\ admin = [d \in Admin |-> [pc |-> "idle", todo |-> {}, key |-> Nil]]

\* Objects nothing refers to any more; a closed pool or an unused lock is garbage.
FreePools == {p \in Pool : /\ p \notin open
                           /\ \A a \in Addr : pools[a] # p
                           /\ \A t \in Caller : caller[t].ds # p}
FreeLocks == {l \in Lock : /\ holder[l] = Nil
                           /\ \A a \in Addr : lockOf[a] # l
                           /\ \A t \in Caller : caller[t].lock # l}
\* Which identity a new object gets makes no difference.
New(Free) == CHOOSE x \in Free : TRUE

Goes(t, pc) == caller' = [caller EXCEPT ![t].pc = pc]
Ends(t) == caller' = [caller EXCEPT ![t] = Idle]
Unlock(t) == holder' = [holder EXCEPT ![caller[t].lock] = Nil]

-----------------------------------------------------------------------------
(* getConnection                                                           *)

\* The caller resolves the entry (DatabaseConfigService.resolve) and calls.
Call(t) ==
  /\ caller[t].pc = "idle"
  /\ caller' = [caller EXCEPT ![t] = [Idle EXCEPT !.pc = "check", !.rev = rev]]
  /\ UNCHANGED <<rev, addrOf, pools, made, open, failed, lockOf, holder, admin>>

\* checkCooldown: failedPools.get; inside the cooldown the call is refused.
CheckCooldown(t) ==
  /\ caller[t].pc = "check"
  /\ CASE failed[Key(t)] = "recent" -> Ends(t)
       [] failed[Key(t)] = "expired" -> Goes(t, "expire")
       [] OTHER -> Goes(t, "lookup")
  /\ UNCHANGED <<rev, addrOf, pools, made, open, failed, lockOf, holder, admin>>

\* failedPools.remove(poolKey), whatever the map holds by now.
ForgetFailure(t) ==
  /\ caller[t].pc = "expire"
  /\ failed' = [failed EXCEPT ![Key(t)] = "none"]
  /\ Goes(t, "lookup")
  /\ UNCHANGED <<rev, addrOf, pools, made, open, lockOf, holder, admin>>

\* pools.get finds a pool.
Found(t) ==
  /\ caller[t].pc = "lookup"
  /\ pools[Key(t)] # Nil
  /\ caller' = [caller EXCEPT ![t].pc = "borrow", ![t].ds = pools[Key(t)]]
  /\ UNCHANGED <<rev, addrOf, pools, made, open, failed, lockOf, holder, admin>>

\* pools.get finds none: poolLocks.computeIfAbsent gives the lock of the key.
FetchLock(t) ==
  /\ caller[t].pc = "lookup"
  /\ pools[Key(t)] = Nil
  /\ lockOf[Key(t)] # Nil \/ FreeLocks # {}
  /\ LET l == IF lockOf[Key(t)] # Nil THEN lockOf[Key(t)] ELSE New(FreeLocks) IN
       /\ lockOf' = [lockOf EXCEPT ![Key(t)] = l]
       /\ caller' = [caller EXCEPT ![t].pc = "lock", ![t].lock = l]
  /\ UNCHANGED <<rev, addrOf, pools, made, open, failed, holder, admin>>

Acquire(t) ==
  /\ caller[t].pc = "lock"
  /\ holder[caller[t].lock] = Nil
  /\ holder' = [holder EXCEPT ![caller[t].lock] = t]
  /\ Goes(t, "locked")
  /\ UNCHANGED <<rev, addrOf, pools, made, open, failed, lockOf, admin>>

\* Mutant: the refusal leaves without unlock.
RefusedHoldingLock(t) ==
  /\ caller[t].pc = "locked"
  /\ failed[Key(t)] = "recent"
  /\ Ends(t)
  /\ UNCHANGED <<rev, addrOf, pools, made, open, failed, lockOf, holder, admin>>

\* Mutant: the pool is not looked up again under the lock.
CreateUnchecked(t) ==
  /\ caller[t].pc = "locked"
  /\ failed[Key(t)] # "recent"
  /\ failed' = [failed EXCEPT ![Key(t)] = "none"]
  /\ Goes(t, "create")
  /\ UNCHANGED <<rev, addrOf, pools, made, open, lockOf, holder, admin>>

\* Under the lock: the cooldown again, then pools.get again.
RefusedLocked(t) ==
  /\ caller[t].pc = "locked"
  /\ failed[Key(t)] = "recent"
  /\ Unlock(t)
  /\ Ends(t)
  /\ UNCHANGED <<rev, addrOf, pools, made, open, failed, lockOf, admin>>

LookupLocked(t) ==
  /\ caller[t].pc = "locked"
  /\ failed[Key(t)] # "recent"
  /\ failed' = [failed EXCEPT ![Key(t)] = "none"]
  /\ IF pools[Key(t)] # Nil
     THEN /\ caller' = [caller EXCEPT ![t].pc = "borrow", ![t].lock = Nil, ![t].ds = pools[Key(t)]]
          /\ Unlock(t)
     ELSE Goes(t, "create") /\ UNCHANGED holder
  /\ UNCHANGED <<rev, addrOf, pools, made, open, lockOf, admin>>

\* createPool: opens a pool with the resolved entry; it never waits for the database.
CreatePool(t) ==
  /\ caller[t].pc = "create"
  /\ FreePools # {}
  /\ LET p == New(FreePools) IN
       /\ open' = open \cup {p}
       /\ made' = [made EXCEPT ![p] = caller[t].rev]
       /\ caller' = [caller EXCEPT ![t].pc = "put", ![t].ds = p]
  /\ UNCHANGED <<rev, addrOf, pools, failed, lockOf, holder, admin>>

PutPool(t) ==
  /\ caller[t].pc = "put"
  /\ pools' = [pools EXCEPT ![Key(t)] = caller[t].ds]
  /\ Unlock(t)
  /\ caller' = [caller EXCEPT ![t].pc = "borrow", ![t].lock = Nil]
  /\ UNCHANGED <<rev, addrOf, made, open, failed, lockOf, admin>>

\* ds.getConnection() gives a connection, or (Oracle) times out on a pool in use.
Borrow(t) ==
  /\ caller[t].pc = "borrow"
  /\ caller[t].ds \in open
  /\ Ends(t)
  /\ UNCHANGED <<rev, addrOf, pools, made, open, failed, lockOf, holder, admin>>

\* The attempt fails: the database is down, the pool has been closed, or (RDB)
\* the pool is in use.
AttemptFails(t) ==
  /\ caller[t].pc = "borrow"
  /\ Goes(t, "failing")
  /\ UNCHANGED <<rev, addrOf, pools, made, open, failed, lockOf, holder, admin>>

\* failedPools.put(poolKey, Instant.now())
RememberFailure(t) ==
  /\ caller[t].pc = "failing"
  /\ failed' = [failed EXCEPT ![Key(t)] = "recent"]
  /\ Ends(t)
  /\ UNCHANGED <<rev, addrOf, pools, made, open, lockOf, holder, admin>>

\* COOLDOWN after the last failure of a key.
CooldownEnds(a) ==
  /\ failed[a] = "recent"
  /\ failed' = [failed EXCEPT ![a] = "expired"]
  /\ UNCHANGED <<rev, addrOf, pools, made, open, lockOf, holder, caller, admin>>

-----------------------------------------------------------------------------
(* updateDbConfig: the new revision is committed, then evictPoolsForDbId   *)

Update(d) ==
  /\ admin[d].pc = "idle"
  /\ rev < MaxRev
  /\ rev' = rev + 1
  /\ \E a \in Addr : addrOf' = [addrOf EXCEPT ![rev + 1] = a]
  /\ admin' = [admin EXCEPT ![d].pc = "evict", ![d].todo = Addr]
  /\ UNCHANGED <<pools, made, open, failed, lockOf, holder, caller>>

\* pools.get(key), close().
EvictClose(d, a) ==
  /\ admin[d].pc = "evict"
  /\ a \in admin[d].todo
  /\ IF pools[a] = Nil
     THEN admin' = [admin EXCEPT ![d].todo = @ \ {a}] /\ UNCHANGED open
     ELSE /\ admin' = [admin EXCEPT ![d].pc = "remove", ![d].key = a]
          /\ open' = open \ {pools[a]}
  /\ UNCHANGED <<rev, addrOf, pools, made, failed, lockOf, holder, caller>>

\* The iterator removes the key, whatever it maps to by now.
EvictRemove(d) ==
  /\ admin[d].pc = "remove"
  /\ pools' = [pools EXCEPT ![admin[d].key] = Nil]
  /\ admin' = [admin EXCEPT ![d].pc = "evict", ![d].todo = @ \ {admin[d].key}, ![d].key = Nil]
  /\ UNCHANGED <<rev, addrOf, made, open, failed, lockOf, holder, caller>>

EvictFailed(d) ==
  /\ admin[d].pc = "evict"
  /\ admin[d].todo = {}
  /\ failed' = [a \in Addr |-> "none"]
  /\ admin' = [admin EXCEPT ![d].pc = "locks"]
  /\ UNCHANGED <<rev, addrOf, pools, made, open, lockOf, holder, caller>>

EvictLocks(d) ==
  /\ admin[d].pc = "locks"
  /\ lockOf' = [a \in Addr |-> Nil]
  /\ admin' = [admin EXCEPT ![d].pc = "idle"]
  /\ UNCHANGED <<rev, addrOf, pools, made, open, failed, holder, caller>>

-----------------------------------------------------------------------------
CallerStep(t) ==
  \/ CheckCooldown(t) \/ ForgetFailure(t) \/ Found(t) \/ FetchLock(t) \/ Acquire(t)
  \/ RefusedLocked(t) \/ LookupLocked(t) \/ CreatePool(t) \/ PutPool(t)
  \/ Borrow(t) \/ AttemptFails(t) \/ RememberFailure(t)
EvictStep(d) == (\E a \in Addr : EvictClose(d, a)) \/ EvictRemove(d) \/ EvictFailed(d) \/ EvictLocks(d)

PoolNext ==
  \/ \E t \in Caller : Call(t) \/ CallerStep(t)
  \/ \E a \in Addr : CooldownEnds(a)
  \/ \E d \in Admin : Update(d) \/ EvictStep(d)

PoolSpec == PoolInit /\ [][PoolNext]_poolVars

\* Threads that can run do run; the locks are unfair, and a thread that finds
\* one taken again and again has no promise of its own.
FairSpec ==
  /\ PoolSpec
  /\ \A t \in Caller : WF_poolVars(CallerStep(t))
  /\ \A d \in Admin : WF_poolVars(EvictStep(d))

-----------------------------------------------------------------------------
(* Properties                                                              *)

Quiet == (\A t \in Caller : caller[t].pc = "idle") /\ (\A d \in Admin : admin[d].pc = "idle")
InHands(p) == \E t \in Caller : caller[t].pc = "put" /\ caller[t].ds = p

\* As long as nobody edits the entry, a key never has two live pools: the
\* per-key lock makes look-up and creation one step for the other threads.
OnePoolPerKey ==
  rev = 0 => \A p, q \in open : addrOf[made[p]] = addrOf[made[q]] => p = q

\* A pool that eviction has closed does not stay behind in the map, where every
\* later request would get it and fail: at most the evicting thread is between
\* the close and the removal of that key.
NoClosedPoolCached ==
  \A a \in Addr : pools[a] # Nil /\ pools[a] \notin open =>
    \E d \in Admin : admin[d].pc = "remove" /\ admin[d].key = a

\* No pool leaks: a live pool is in the map, where requests find it and the
\* next eviction closes it, or in the hands of the thread about to put it there.
NoPoolLeaks == \A p \in open : InHands(p) \/ \E a \in Addr : pools[a] = p

\* "The next request builds a fresh pool instead of talking to the old target":
\* when nobody is inside an operation, the pool found under the key of the
\* stored entry was made from that entry.
PoolIsOfStoredEntry ==
  Quiet /\ pools[addrOf[rev]] # Nil => made[pools[addrOf[rev]]] = rev

\* Every call returns: no thread waits for ever for the lock of a key, although
\* eviction drops locks that are held.
CallsReturn == \A t \in Caller : caller[t].pc # "idle" ~> caller[t].pc = "idle"

\* The map knows the pools that live and no others: one per key while nobody edits the
\* entry, and none that was closed, but for the step of the thread that closes it.
MapKnowsLivePools == PoolTypeOK /\ OnePoolPerKey /\ NoClosedPoolCached
=============================================================================
