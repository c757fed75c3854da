---------------------------- MODULE DatabaseProofs ----------------------------
(***************************************************************************)
(* Proofs about the registered databases: how their configuration is kept  *)
(* (ConfigStore) and how their connections are pooled (ConnectionPool).    *)
(*                                                                         *)
(* ConfigStore: for every set of instances, passwords, keys and every      *)
(* databases.json, and any number of starts and edits.                     *)
(*                                                                         *)
(* ConnectionPool: for any number of threads, editing administrators, keys *)
(* and revisions, a key has one live pool while nobody edits its entry,    *)
(* and no closed pool stays behind in the map.                             *)
(***************************************************************************)
EXTENDS ConfigStore, ConnectionPool, TLAPS

-----------------------------------------------------------------------------
(* The pool manager                                                        *)

Holding == {"locked", "create", "put"}

\* A pool about to be put is live, not in the map, and in one thread's hands.
Handed ==
  /\ \A t \in Caller : caller[t].pc = "put" =>
       caller[t].ds \in open /\ \A a \in Addr : pools[a] # caller[t].ds
  /\ \A t, u \in Caller :
       caller[t].pc = "put" /\ caller[u].pc = "put" /\ caller[t].ds = caller[u].ds => t = u

\* The map has no pool under two keys.
OneKeyPerPool == \A a, b \in Addr : pools[a] # Nil /\ pools[a] = pools[b] => a = b

\* From the look-up of the lock to the put a thread has a lock; in between it holds it.
Locked ==
  \A t \in Caller :
    /\ caller[t].pc \in Holding \cup {"lock"} => caller[t].lock \in Lock
    /\ caller[t].pc \in Holding => holder[caller[t].lock] = t

\* Before the first edit there is one key in use and one lock, nobody evicts, and
\* a live pool is in the map or about to be put there, when the map has none.
Untouched ==
  rev = 0 =>
    /\ \A d \in Admin : admin[d].pc = "idle"
    /\ \A t \in Caller : caller[t].rev = 0
    /\ \A t \in Caller : caller[t].pc \in Holding \cup {"lock"} => caller[t].lock = lockOf[addrOf[0]]
    /\ \A t \in Caller : caller[t].pc \in {"create", "put"} => pools[addrOf[0]] = Nil
    /\ \A p \in open : InHands(p) \/ pools[addrOf[0]] = p

PoolInv == PoolTypeOK /\ Handed /\ OneKeyPerPool /\ Locked /\ Untouched /\ NoClosedPoolCached

-----------------------------------------------------------------------------
\* A thread that is not the one that steps is where it was.
LEMMA Others ==
  ASSUME PoolTypeOK, NEW t \in Caller,
         NEW c \in [pc : {"idle", "check", "expire", "lookup", "lock", "locked",
                          "create", "put", "borrow", "failing"},
                    rev : Rev, ds : Pool \cup {Nil}, lock : Lock \cup {Nil}],
         caller' = [caller EXCEPT ![t] = c]
  PROVE  /\ caller'[t] = c
         /\ \A u \in Caller : u # t => caller'[u] = caller[u]
         /\ caller' \in [Caller -> [pc : {"idle", "check", "expire", "lookup", "lock", "locked",
                                          "create", "put", "borrow", "failing"},
                                    rev : Rev, ds : Pool \cup {Nil}, lock : Lock \cup {Nil}]]
  BY DEF PoolTypeOK

\* A step of a thread outside the critical section, which changes no pool and no lock.
LEMMA OutsideStep ==
  ASSUME PoolInv, NEW t \in Caller,
         NEW c \in [pc : {"idle", "check", "expire", "lookup", "borrow", "failing"},
                    rev : Rev, ds : Pool \cup {Nil}, lock : Lock \cup {Nil}],
         c.rev = 0 \/ c.rev = caller[t].rev \/ c.rev = rev,
         caller' = [caller EXCEPT ![t] = c],
         caller[t].pc \notin {"put", "locked", "create"},
         failed' \in [Addr -> {"none", "recent", "expired"}],
         UNCHANGED <<rev, addrOf, pools, made, open, lockOf, holder, admin>>
  PROVE  PoolInv'
<1>1. c \in [pc : {"idle", "check", "expire", "lookup", "lock", "locked",
                   "create", "put", "borrow", "failing"},
             rev : Rev, ds : Pool \cup {Nil}, lock : Lock \cup {Nil}]
  OBVIOUS
<1>2. /\ caller'[t] = c /\ (\A u \in Caller : u # t => caller'[u] = caller[u])
      /\ PoolTypeOK'
  BY <1>1, Others DEF PoolInv, PoolTypeOK
<1>3. \A u \in Caller : /\ caller'[u].pc \in {"lock", "locked", "create", "put"} => u # t
                        /\ caller[u].pc = "put" => u # t
  BY <1>2
<1>4. Handed' /\ OneKeyPerPool' /\ NoClosedPoolCached'
  BY <1>2, <1>3 DEF PoolInv, Handed, OneKeyPerPool, NoClosedPoolCached
<1>5. Locked'
  BY <1>2, <1>3 DEF PoolInv, Locked, Holding
<1>6. Untouched'
  <2> SUFFICES ASSUME rev = 0
               PROVE  Untouched'
    BY DEF Untouched
  <2>1. \A u \in Caller : caller'[u].rev = 0
    BY <1>2 DEF PoolInv, Untouched
  <2>2. \A p \in open : InHands(p)' \/ pools[addrOf[0]] = p
    BY <1>2, <1>3 DEF PoolInv, Untouched, InHands
  <2> QED
    BY <1>2, <1>3, <2>1, <2>2 DEF PoolInv, Untouched, Holding
<1> QED
  BY <1>2, <1>4, <1>5, <1>6 DEF PoolInv

\* The steps that touch neither the map nor a lock.
LEMMA CallStep ==
  ASSUME PoolInv, NEW t \in Caller,
         Call(t) \/ CheckCooldown(t) \/ ForgetFailure(t) \/ Found(t) \/ Borrow(t) \/ AttemptFails(t)
           \/ RememberFailure(t)
  PROVE  PoolInv'
<1> DEFINE Record(pcs) == [pc : pcs, rev : Rev, ds : Pool \cup {Nil}, lock : Lock \cup {Nil}]
           Outside == {"idle", "check", "expire", "lookup", "borrow", "failing"}
<1>1. /\ caller[t].rev \in Rev /\ caller[t].ds \in Pool \cup {Nil} /\ caller[t].lock \in Lock \cup {Nil}
      /\ rev \in Rev /\ 0 \in Rev /\ Key(t) \in Addr /\ pools[Key(t)] \in Pool \cup {Nil}
  BY RevAssumption DEF PoolInv, PoolTypeOK, Rev, Key
<1>2. failed' \in [Addr -> {"none", "recent", "expired"}]
  BY <1>1 DEF PoolInv, PoolTypeOK, Call, CheckCooldown, ForgetFailure, Found, Borrow, AttemptFails, RememberFailure
<1>3. /\ UNCHANGED <<rev, addrOf, pools, made, open, lockOf, holder, admin>>
      /\ caller[t].pc \notin {"put", "locked", "create"}
  BY DEF Call, CheckCooldown, ForgetFailure, Found, Borrow, AttemptFails, RememberFailure
<1>4. Idle \in Record(Outside) /\ Idle.rev = 0
  BY <1>1 DEF Idle
<1>5. CASE Call(t)
  <2>1. [Idle EXCEPT !.pc = "check", !.rev = rev] \in Record(Outside)
    BY <1>1 DEF Idle
  <2>2. [Idle EXCEPT !.pc = "check", !.rev = rev].rev = rev
    BY DEF Idle
  <2>3. caller' = [caller EXCEPT ![t] = [Idle EXCEPT !.pc = "check", !.rev = rev]]
    BY <1>5 DEF Call
  <2> QED
    BY <1>2, <1>3, <2>1, <2>2, <2>3, OutsideStep
<1>6. CASE Ends(t)
  BY <1>2, <1>3, <1>4, <1>6, OutsideStep DEF Ends
<1>7. CASE \E pc \in Outside : Goes(t, pc)
  <2>1. PICK pc \in Outside : Goes(t, pc)
    BY <1>7
  <2> DEFINE c == [caller[t] EXCEPT !.pc = pc]
  <2>2. c \in Record(Outside) /\ c.rev = caller[t].rev
    BY DEF PoolInv, PoolTypeOK
  <2>3. caller' = [caller EXCEPT ![t] = c]
    BY <2>1 DEF Goes
  <2> HIDE DEF c
  <2> QED
    BY <1>2, <1>3, <2>2, <2>3, OutsideStep
<1>8. CASE Found(t)
  <2> DEFINE c == [caller[t] EXCEPT !.pc = "borrow", !.ds = pools[Key(t)]]
  <2>1. c \in Record(Outside) /\ c.rev = caller[t].rev
    BY <1>1 DEF PoolInv, PoolTypeOK
  <2>2. caller' = [caller EXCEPT ![t] = c]
    BY <1>8 DEF Found
  <2> HIDE DEF c
  <2> QED
    BY <1>2, <1>3, <2>1, <2>2, OutsideStep
<1> QED
  BY <1>5, <1>6, <1>7, <1>8 DEF CheckCooldown, ForgetFailure, Borrow, AttemptFails, RememberFailure

\* Which object a new one is makes no difference, as long as nothing refers to it.
LEMMA NewIsFree == \A Free : Free # {} => New(Free) \in Free
  BY DEF New

\* The lock of the key is found or made; which one does not matter before the first edit.
LEMMA FetchLockStep ==
  ASSUME PoolInv, NEW t \in Caller, FetchLock(t)
  PROVE  PoolInv'
<1> DEFINE l == IF lockOf[Key(t)] # Nil THEN lockOf[Key(t)] ELSE New(FreeLocks)
           c == [caller[t] EXCEPT !.pc = "lock", !.lock = l]
<1>1. Key(t) \in Addr
  BY DEF PoolInv, PoolTypeOK, Key
<1>2. l \in Lock
  <2>1. FreeLocks # {} => New(FreeLocks) \in Lock
    <3>1. FreeLocks # {} => New(FreeLocks) \in FreeLocks
      BY NewIsFree
    <3> QED
      BY <3>1 DEF FreeLocks
  <2>2. lockOf[Key(t)] \in Lock \cup {Nil} /\ (lockOf[Key(t)] # Nil \/ FreeLocks # {})
    BY <1>1 DEF FetchLock, PoolInv, PoolTypeOK
  <2> QED
    BY <2>1, <2>2
<1>3. /\ lockOf' = [lockOf EXCEPT ![Key(t)] = l]
      /\ caller' = [caller EXCEPT ![t] = c]
      /\ UNCHANGED <<rev, addrOf, pools, made, open, failed, holder, admin>>
      /\ caller[t].pc = "lookup"
      /\ lockOf[Key(t)] # Nil => l = lockOf[Key(t)]
  BY DEF FetchLock
<1> HIDE DEF l
<1>4. /\ caller'[t] = c /\ (\A u \in Caller : u # t => caller'[u] = caller[u])
      /\ c.pc = "lock" /\ c.lock = l /\ c.rev = caller[t].rev /\ PoolTypeOK'
  BY <1>1, <1>2, <1>3, Others DEF PoolInv, PoolTypeOK
<1> HIDE DEF c
<1>5. Handed' /\ OneKeyPerPool' /\ NoClosedPoolCached'
  BY <1>3, <1>4 DEF PoolInv, Handed, OneKeyPerPool, NoClosedPoolCached
<1>6. Locked'
  BY <1>2, <1>3, <1>4 DEF PoolInv, Locked, Holding
<1>7. Untouched'
  <2> SUFFICES ASSUME rev = 0
               PROVE  Untouched'
    BY <1>3 DEF Untouched
  <2>1. Key(t) = addrOf[0] /\ addrOf[0] \in Addr
    BY <1>1 DEF PoolInv, Untouched, Key
  <2>2. \A u \in Caller : caller[u].pc \in Holding \cup {"lock"} => l = lockOf[addrOf[0]]
    BY <1>3, <2>1, NilAssumption DEF PoolInv, Untouched, Locked
  <2>3. lockOf'[addrOf[0]] = l
    BY <1>3, <2>1 DEF PoolInv, PoolTypeOK
  <2>4. \A p \in open : InHands(p)' \/ pools[addrOf[0]] = p
    BY <1>3, <1>4 DEF PoolInv, Untouched, InHands
  <2> QED
    BY <1>3, <1>4, <2>2, <2>3, <2>4 DEF PoolInv, Untouched, Holding
<1> QED
  BY <1>4, <1>5, <1>6, <1>7 DEF PoolInv

\* While nobody has edited, one thread at a time is between the lock and the put.
LEMMA OneHolder ==
  ASSUME PoolInv, rev = 0, NEW t \in Caller, NEW u \in Caller,
         caller[t].pc \in Holding, caller[u].pc \in Holding
  PROVE  t = u
  BY DEF PoolInv, Untouched, Locked

\* The lock is taken when nobody holds it.
LEMMA AcquireStep ==
  ASSUME PoolInv, NEW t \in Caller, Acquire(t)
  PROVE  PoolInv'
<1> DEFINE c == [caller[t] EXCEPT !.pc = "locked"]
<1>1. /\ caller' = [caller EXCEPT ![t] = c] /\ holder' = [holder EXCEPT ![caller[t].lock] = t]
      /\ caller[t].pc = "lock" /\ caller[t].lock \in Lock /\ holder[caller[t].lock] = Nil
      /\ UNCHANGED <<rev, addrOf, pools, made, open, failed, lockOf, admin>>
  BY DEF Acquire, Goes, PoolInv, Locked
<1>2. /\ caller'[t] = c /\ (\A u \in Caller : u # t => caller'[u] = caller[u])
      /\ c.pc = "locked" /\ c.lock = caller[t].lock /\ c.rev = caller[t].rev /\ PoolTypeOK'
  BY <1>1, Others DEF PoolInv, PoolTypeOK
<1> HIDE DEF c
<1>3. Handed' /\ OneKeyPerPool' /\ NoClosedPoolCached'
  BY <1>1, <1>2 DEF PoolInv, Handed, OneKeyPerPool, NoClosedPoolCached
<1>4. Locked'
  <2>1. \A u \in Caller : caller[u].pc \in Holding => caller[u].lock # caller[t].lock
    BY <1>1, NilAssumption DEF PoolInv, Locked
  <2>2. holder'[caller[t].lock] = t /\ \A l \in Lock : l # caller[t].lock => holder'[l] = holder[l]
    BY <1>1 DEF PoolInv, PoolTypeOK
  <2> QED
    BY <1>1, <1>2, <2>1, <2>2 DEF PoolInv, Locked, Holding
<1>5. Untouched'
  BY <1>1, <1>2 DEF PoolInv, Untouched, Holding, InHands
<1> QED
  BY <1>2, <1>3, <1>4, <1>5 DEF PoolInv

\* A thread gives the lock back without a pool to put: it was refused, or found one.
LEMMA UnlockStep ==
  ASSUME PoolInv, NEW t \in Caller, caller[t].pc = "locked", Unlock(t),
         NEW c \in [pc : {"idle", "borrow"}, rev : Rev, ds : Pool \cup {Nil}, lock : Lock \cup {Nil}],
         c.rev = 0 \/ c.rev = caller[t].rev,
         caller' = [caller EXCEPT ![t] = c],
         failed' \in [Addr -> {"none", "recent", "expired"}],
         UNCHANGED <<rev, addrOf, pools, made, open, lockOf, admin>>
  PROVE  PoolInv'
<1>1. /\ caller[t].lock \in Lock /\ holder' = [holder EXCEPT ![caller[t].lock] = Nil]
      /\ \A u \in Caller : u # t /\ caller[u].pc \in Holding => caller[u].lock # caller[t].lock
  BY DEF Unlock, PoolInv, Locked, Holding
<1>2. /\ caller'[t] = c /\ (\A u \in Caller : u # t => caller'[u] = caller[u]) /\ PoolTypeOK'
  BY <1>1, Others DEF PoolInv, PoolTypeOK
<1>3. Handed' /\ OneKeyPerPool' /\ NoClosedPoolCached'
  BY <1>2 DEF PoolInv, Handed, OneKeyPerPool, NoClosedPoolCached
<1>4. Locked'
  <2>1. \A l \in Lock : l # caller[t].lock => holder'[l] = holder[l]
    BY <1>1 DEF PoolInv, PoolTypeOK
  <2> QED
    BY <1>1, <1>2, <2>1 DEF PoolInv, Locked, Holding
<1>5. Untouched'
  BY <1>2 DEF PoolInv, Untouched, Holding, InHands
<1> QED
  BY <1>2, <1>3, <1>4, <1>5 DEF PoolInv

\* Under the lock: refused, a pool found after all, or the creation begins.
LEMMA LockedStep ==
  ASSUME PoolInv, NEW t \in Caller, RefusedLocked(t) \/ LookupLocked(t)
  PROVE  PoolInv'
<1>1. /\ Key(t) \in Addr /\ pools[Key(t)] \in Pool \cup {Nil} /\ caller[t].rev \in Rev /\ 0 \in Rev
      /\ caller[t].pc = "locked"
      /\ UNCHANGED <<rev, addrOf, pools, made, open, lockOf, admin>>
  BY RevAssumption DEF PoolInv, PoolTypeOK, Key, Rev, RefusedLocked, LookupLocked
<1>2. failed' \in [Addr -> {"none", "recent", "expired"}]
  BY <1>1 DEF PoolInv, PoolTypeOK, RefusedLocked, LookupLocked
<1>3. CASE RefusedLocked(t)
  <2>1. caller' = [caller EXCEPT ![t] = Idle] /\ Unlock(t)
    BY <1>3 DEF RefusedLocked, Ends
  <2>2. /\ Idle \in [pc : {"idle", "borrow"}, rev : Rev, ds : Pool \cup {Nil}, lock : Lock \cup {Nil}]
        /\ Idle.rev = 0
    BY <1>1 DEF Idle
  <2> QED
    BY <1>1, <1>2, <2>1, <2>2, UnlockStep
<1>4. CASE LookupLocked(t) /\ pools[Key(t)] # Nil
  <2> DEFINE c == [caller[t] EXCEPT !.pc = "borrow", !.lock = Nil, !.ds = pools[Key(t)]]
  <2>1. caller' = [caller EXCEPT ![t] = c] /\ Unlock(t)
    BY <1>4 DEF LookupLocked
  <2>2. /\ c \in [pc : {"idle", "borrow"}, rev : Rev, ds : Pool \cup {Nil}, lock : Lock \cup {Nil}]
        /\ c.rev = caller[t].rev
    BY <1>1 DEF PoolInv, PoolTypeOK
  <2> HIDE DEF c
  <2> QED
    BY <1>1, <1>2, <2>1, <2>2, UnlockStep
<1>5. CASE LookupLocked(t) /\ pools[Key(t)] = Nil
  <2> DEFINE c == [caller[t] EXCEPT !.pc = "create"]
  <2>1. caller' = [caller EXCEPT ![t] = c] /\ holder' = holder
    BY <1>5 DEF LookupLocked, Goes
  <2>2. /\ caller'[t] = c /\ (\A u \in Caller : u # t => caller'[u] = caller[u])
        /\ c.pc = "create" /\ c.lock = caller[t].lock /\ c.rev = caller[t].rev /\ PoolTypeOK'
    BY <1>1, <1>2, <2>1, Others DEF PoolInv, PoolTypeOK
  <2> HIDE DEF c
  <2>3. Handed' /\ OneKeyPerPool' /\ NoClosedPoolCached'
    BY <1>1, <2>2 DEF PoolInv, Handed, OneKeyPerPool, NoClosedPoolCached
  <2>4. Locked'
    BY <1>1, <2>1, <2>2 DEF PoolInv, Locked, Holding
  <2>5. Untouched'
    <3>1. rev = 0 => Key(t) = addrOf[0]
      BY DEF PoolInv, Untouched, Key
    <3> QED
      BY <1>1, <1>5, <2>2, <3>1 DEF PoolInv, Untouched, Holding, InHands
  <2> QED
    BY <2>2, <2>3, <2>4, <2>5 DEF PoolInv
<1> QED
  BY <1>3, <1>4, <1>5

\* A new pool is one that nobody holds and the map does not have.
LEMMA CreateStep ==
  ASSUME PoolInv, NEW t \in Caller, CreatePool(t)
  PROVE  PoolInv'
<1> DEFINE p == New(FreePools)
           c == [caller[t] EXCEPT !.pc = "put", !.ds = p]
<1>1. /\ p \in Pool /\ p \notin open
      /\ (\A a \in Addr : pools[a] # p) /\ (\A u \in Caller : caller[u].ds # p)
  <2>1. p \in FreePools
    BY NewIsFree DEF CreatePool
  <2> HIDE DEF p
  <2> QED
    BY <2>1 DEF FreePools
<1>2. /\ open' = open \cup {p} /\ made' = [made EXCEPT ![p] = caller[t].rev]
      /\ caller' = [caller EXCEPT ![t] = c] /\ caller[t].pc = "create"
      /\ UNCHANGED <<rev, addrOf, pools, failed, lockOf, holder, admin>>
  BY DEF CreatePool
<1> HIDE DEF p
<1>3. /\ caller'[t] = c /\ (\A u \in Caller : u # t => caller'[u] = caller[u])
      /\ c.pc = "put" /\ c.ds = p /\ c.lock = caller[t].lock /\ c.rev = caller[t].rev
  BY <1>1, <1>2 DEF PoolInv, PoolTypeOK
<1>4. PoolTypeOK'
  <2>1. c \in [pc : {"idle", "check", "expire", "lookup", "lock", "locked",
                                "create", "put", "borrow", "failing"},
                          rev : Rev, ds : Pool \cup {Nil}, lock : Lock \cup {Nil}]
    <3>1. caller[t] \in [pc : {"idle", "check", "expire", "lookup", "lock", "locked",
                                  "create", "put", "borrow", "failing"},
                            rev : Rev, ds : Pool \cup {Nil}, lock : Lock \cup {Nil}]
      BY DEF PoolInv, PoolTypeOK
    <3> QED
      BY <1>1, <3>1
  <2>2. made' \in [Pool -> Rev] /\ open' \subseteq Pool
    BY <1>1, <1>2 DEF PoolInv, PoolTypeOK
  <2> HIDE DEF c
  <2> QED
    BY <1>2, <2>1, <2>2, Others DEF PoolInv, PoolTypeOK
<1> HIDE DEF c
<1>5. Handed'
  BY <1>1, <1>2, <1>3 DEF PoolInv, Handed
<1>6. OneKeyPerPool' /\ NoClosedPoolCached'
  BY <1>2 DEF PoolInv, OneKeyPerPool, NoClosedPoolCached
<1>7. Locked'
  BY <1>2, <1>3 DEF PoolInv, Locked, Holding
<1>8. Untouched'
  BY <1>2, <1>3 DEF PoolInv, Untouched, Holding, InHands
<1> QED
  BY <1>4, <1>5, <1>6, <1>7, <1>8 DEF PoolInv

\* The pool goes from the hands of its thread into the map, and the lock back.
LEMMA PutStep ==
  ASSUME PoolInv, NEW t \in Caller, PutPool(t)
  PROVE  PoolInv'
<1> DEFINE c == [caller[t] EXCEPT !.pc = "borrow", !.lock = Nil]
<1>1. /\ pools' = [pools EXCEPT ![Key(t)] = caller[t].ds] /\ caller[t].pc = "put" /\ Key(t) \in Addr
      /\ holder' = [holder EXCEPT ![caller[t].lock] = Nil] /\ caller' = [caller EXCEPT ![t] = c]
      /\ UNCHANGED <<rev, addrOf, made, open, failed, lockOf, admin>>
  BY DEF PutPool, Unlock, PoolInv, PoolTypeOK, Key
<1>2. /\ caller[t].ds \in open /\ caller[t].ds \in Pool /\ caller[t].lock \in Lock
      /\ \A a \in Addr : pools[a] # caller[t].ds
      /\ \A u \in Caller : u # t /\ caller[u].pc = "put" => caller[u].ds # caller[t].ds
      /\ \A u \in Caller : u # t /\ caller[u].pc \in Holding => caller[u].lock # caller[t].lock
  BY <1>1 DEF PoolInv, PoolTypeOK, Handed, Locked, Holding
<1>3. /\ caller'[t] = c /\ (\A u \in Caller : u # t => caller'[u] = caller[u])
      /\ c.pc = "borrow" /\ c.rev = caller[t].rev /\ c.ds = caller[t].ds
  BY <1>1 DEF PoolInv, PoolTypeOK
<1>4. PoolTypeOK'
  <2>1. c \in [pc : {"idle", "check", "expire", "lookup", "lock", "locked",
                                "create", "put", "borrow", "failing"},
                          rev : Rev, ds : Pool \cup {Nil}, lock : Lock \cup {Nil}]
    <3>1. caller[t] \in [pc : {"idle", "check", "expire", "lookup", "lock", "locked",
                                  "create", "put", "borrow", "failing"},
                            rev : Rev, ds : Pool \cup {Nil}, lock : Lock \cup {Nil}]
      BY DEF PoolInv, PoolTypeOK
    <3> QED
      BY <3>1
  <2>2. pools' \in [Addr -> Pool \cup {Nil}] /\ holder' \in [Lock -> Caller \cup {Nil}]
    BY <1>1, <1>2 DEF PoolInv, PoolTypeOK
  <2> HIDE DEF c
  <2> QED
    BY <1>1, <2>1, <2>2, Others DEF PoolInv, PoolTypeOK
<1>5. pools'[Key(t)] = caller[t].ds /\ \A a \in Addr : a # Key(t) => pools'[a] = pools[a]
  BY <1>1 DEF PoolInv, PoolTypeOK
<1> HIDE DEF c
<1>6. Handed'
  <2>1. \A u \in Caller : caller'[u].pc = "put" => u # t /\ caller'[u] = caller[u] /\ caller[u].pc = "put"
    BY <1>3
  <2>2. \A u \in Caller : u # t /\ caller[u].pc = "put" =>
          caller[u].ds \in open' /\ \A a \in Addr : pools'[a] # caller[u].ds
    BY <1>1, <1>2, <1>5 DEF PoolInv, Handed
  <2>3. \A u, v \in Caller :
          caller[u].pc = "put" /\ caller[v].pc = "put" /\ caller[u].ds = caller[v].ds => u = v
    BY DEF PoolInv, Handed
  <2>4. \A u, v \in Caller :
          caller'[u].pc = "put" /\ caller'[v].pc = "put" /\ caller'[u].ds = caller'[v].ds => u = v
    <3> SUFFICES ASSUME NEW u \in Caller, NEW v \in Caller, caller'[u].pc = "put", caller'[v].pc = "put",
                        caller'[u].ds = caller'[v].ds
                 PROVE  u = v
      OBVIOUS
    <3>1. caller'[u] = caller[u] /\ caller'[v] = caller[v]
      BY <2>1
    <3> QED
      BY <2>3, <3>1
  <2>5. \A u \in Caller : caller'[u].pc = "put" =>
          caller'[u].ds \in open' /\ \A a \in Addr : pools'[a] # caller'[u].ds
    BY <2>1, <2>2
  <2> QED
    BY <2>4, <2>5 DEF Handed
<1>7. OneKeyPerPool' /\ NoClosedPoolCached'
  BY <1>1, <1>2, <1>5 DEF PoolInv, OneKeyPerPool, NoClosedPoolCached
<1>8. Locked'
  <2>1. \A l \in Lock : l # caller[t].lock => holder'[l] = holder[l]
    BY <1>1, <1>2 DEF PoolInv, PoolTypeOK
  <2> QED
    BY <1>2, <1>3, <2>1 DEF PoolInv, Locked, Holding
<1>9. Untouched'
  <2> SUFFICES ASSUME rev = 0
               PROVE  Untouched'
    BY <1>1 DEF Untouched
  <2>1. Key(t) = addrOf[0]
    BY DEF PoolInv, Untouched, Key
  <2>2. \A u \in Caller : u # t => caller'[u].pc \notin {"create", "put"}
    BY <1>1, <1>3, OneHolder DEF Holding
  <2>3. pools[addrOf[0]] = Nil
    BY <1>1 DEF PoolInv, Untouched
  <2>4. \A p \in open : p = caller[t].ds
    <3>1. \A p \in open : InHands(p)
      BY <2>3, NilAssumption DEF PoolInv, Untouched, PoolTypeOK
    <3> QED
      BY <1>1, <3>1, OneHolder DEF InHands, Holding
  <2> QED
    BY <1>1, <1>3, <1>5, <2>1, <2>2, <2>4 DEF PoolInv, Untouched, Holding
<1> QED
  BY <1>4, <1>6, <1>7, <1>8, <1>9 DEF PoolInv

-----------------------------------------------------------------------------
\* An administrator who does not step is where he was.
LEMMA OtherAdmins ==
  ASSUME PoolTypeOK, NEW d \in Admin,
         NEW c \in [pc : {"idle", "evict", "remove", "failed", "locks"},
                   todo : SUBSET Addr, key : Addr \cup {Nil}],
         admin' = [admin EXCEPT ![d] = c]
  PROVE  /\ admin'[d] = c
         /\ \A e \in Admin : e # d => admin'[e] = admin[e]
         /\ admin' \in [Admin -> [pc : {"idle", "evict", "remove", "failed", "locks"},
                                 todo : SUBSET Addr, key : Addr \cup {Nil}]]
  BY DEF PoolTypeOK

\* The administrator: an edit ends the time in which nobody has edited, and only the
\* thread that closed a pool of the map has the removal of its key before it.
LEMMA AdminStep ==
  ASSUME PoolInv, NEW d \in Admin, Update(d) \/ EvictStep(d)
  PROVE  PoolInv'
<1> DEFINE Step == [pc : {"idle", "evict", "remove", "failed", "locks"},
                    todo : SUBSET Addr, key : Addr \cup {Nil}]
<1>1. caller' = caller /\ holder' = holder /\ made' = made
  BY DEF Update, EvictStep, EvictClose, EvictRemove, EvictFailed, EvictLocks
<1>2. rev' \in Rev /\ addrOf' \in [Rev -> Addr] /\ rev' # 0
  <2>1. CASE Update(d)
    BY <2>1, RevAssumption DEF Update, PoolInv, PoolTypeOK, Rev
  <2>2. CASE EvictStep(d)
    <3>1. admin[d].pc # "idle" /\ rev' = rev /\ addrOf' = addrOf
      BY <2>2 DEF EvictStep, EvictClose, EvictRemove, EvictFailed, EvictLocks
    <3> QED
      BY <3>1 DEF PoolInv, PoolTypeOK, Untouched
  <2> QED
    BY <2>1, <2>2
<1>3. Untouched'
  BY <1>2 DEF Untouched
<1>4. Locked'
  BY <1>1 DEF PoolInv, Locked, Holding
<1>5. CASE Update(d)
  <2>1. /\ UNCHANGED <<pools, open, failed, lockOf>>
        /\ admin' = [admin EXCEPT ![d].pc = "evict", ![d].todo = Addr] /\ admin[d].pc = "idle"
    BY <1>5 DEF Update
  <2>2. PoolTypeOK'
    <3> DEFINE c == [admin[d] EXCEPT !.pc = "evict", !.todo = Addr]
    <3>1. admin[d] \in Step
      BY DEF PoolInv, PoolTypeOK
    <3>2. c \in Step
      BY <3>1
    <3>3. admin' = [admin EXCEPT ![d] = c]
      BY <2>1
    <3> HIDE DEF c
    <3>4. admin' \in [Admin -> Step]
      BY <3>2, <3>3, OtherAdmins DEF PoolInv
    <3> QED
      BY <1>1, <1>2, <2>1, <3>4 DEF PoolInv, PoolTypeOK
  <2>3. \A e \in Admin : admin[e].pc = "remove" => admin'[e] = admin[e]
    BY <2>1 DEF PoolInv, PoolTypeOK
  <2>4. Handed' /\ OneKeyPerPool' /\ NoClosedPoolCached'
    <3>1. Handed' /\ OneKeyPerPool'
      BY <1>1, <2>1 DEF PoolInv, Handed, OneKeyPerPool
    <3>2. NoClosedPoolCached'
      <4> SUFFICES ASSUME NEW b \in Addr, pools[b] # Nil, pools[b] \notin open
                   PROVE  \E e \in Admin : admin'[e].pc = "remove" /\ admin'[e].key = b
        BY <2>1 DEF NoClosedPoolCached
      <4>1. PICK e \in Admin : admin[e].pc = "remove" /\ admin[e].key = b
        BY DEF PoolInv, NoClosedPoolCached
      <4> QED
        BY <2>3, <4>1
    <3> QED
      BY <3>1, <3>2
  <2> QED
    BY <1>3, <1>4, <2>2, <2>4 DEF PoolInv
<1>6. CASE \E a \in Addr : EvictClose(d, a)
  <2>1. PICK a \in Addr : EvictClose(d, a)
    BY <1>6
  <2>2. UNCHANGED <<pools, failed, lockOf>> /\ admin[d].pc = "evict"
    BY <2>1 DEF EvictClose
  <2>3. CASE pools[a] = Nil
    <3>1. admin' = [admin EXCEPT ![d].todo = @ \ {a}] /\ open' = open
      BY <2>1, <2>3 DEF EvictClose
    <3>2. PoolTypeOK'
      <4>1. admin' \in [Admin -> Step]
        BY <3>1 DEF PoolInv, PoolTypeOK
      <4> QED
        BY <1>1, <1>2, <2>2, <3>1, <4>1 DEF PoolInv, PoolTypeOK
    <3>3. \A e \in Admin : admin[e].pc = "remove" => admin'[e] = admin[e]
      BY <2>2, <3>1 DEF PoolInv, PoolTypeOK
    <3>4. Handed' /\ OneKeyPerPool' /\ NoClosedPoolCached'
      BY <1>1, <2>2, <3>1, <3>3 DEF PoolInv, Handed, OneKeyPerPool, NoClosedPoolCached
    <3> QED
      BY <1>3, <1>4, <3>2, <3>4 DEF PoolInv
  <2>4. CASE pools[a] # Nil
    <3>1. /\ admin' = [admin EXCEPT ![d].pc = "remove", ![d].key = a]
          /\ open' = open \ {pools[a]}
      BY <2>1, <2>4 DEF EvictClose
    <3>2. PoolTypeOK'
      <4> DEFINE c == [admin[d] EXCEPT !.pc = "remove", !.key = a]
      <4>1. admin[d] \in Step
        BY DEF PoolInv, PoolTypeOK
      <4>2. c \in Step
        BY <4>1
      <4>3. admin' = [admin EXCEPT ![d] = c]
        BY <3>1
      <4> HIDE DEF c
      <4>4. admin' \in [Admin -> Step]
        BY <4>2, <4>3, OtherAdmins DEF PoolInv
      <4>5. open' \subseteq Pool
        BY <3>1 DEF PoolInv, PoolTypeOK
      <4> QED
        BY <1>1, <1>2, <2>2, <4>4, <4>5 DEF PoolInv, PoolTypeOK
    <3>3. /\ \A e \in Admin : admin[e].pc = "remove" => admin'[e] = admin[e]
          /\ admin'[d].pc = "remove" /\ admin'[d].key = a
      BY <2>2, <3>1 DEF PoolInv, PoolTypeOK
    <3>4. Handed' /\ OneKeyPerPool'
      BY <1>1, <2>2, <3>1 DEF PoolInv, Handed, OneKeyPerPool
    <3>5. NoClosedPoolCached'
      <4> SUFFICES ASSUME NEW b \in Addr, pools[b] # Nil, pools[b] \notin open'
                   PROVE  \E e \in Admin : admin'[e].pc = "remove" /\ admin'[e].key = b
        BY <2>2 DEF NoClosedPoolCached
      <4>1. CASE pools[b] = pools[a]
        <5>1. b = a
          BY <4>1 DEF PoolInv, OneKeyPerPool
        <5> QED
          BY <3>3, <5>1
      <4>2. CASE pools[b] # pools[a]
        <5>1. pools[b] \notin open
          BY <3>1, <4>2
        <5>2. PICK e \in Admin : admin[e].pc = "remove" /\ admin[e].key = b
          BY <5>1 DEF PoolInv, NoClosedPoolCached
        <5> QED
          BY <3>3, <5>2
      <4> QED
        BY <4>1, <4>2
    <3> QED
      BY <1>3, <1>4, <3>2, <3>4, <3>5 DEF PoolInv
  <2> QED
    BY <2>3, <2>4
<1>7. CASE EvictRemove(d)
  <2>1. /\ pools' = [pools EXCEPT ![admin[d].key] = Nil] /\ UNCHANGED <<open, failed, lockOf>>
        /\ admin' = [admin EXCEPT ![d].pc = "evict", ![d].todo = @ \ {admin[d].key}, ![d].key = Nil]
    BY <1>7 DEF EvictRemove
  <2>2. PoolTypeOK'
    <3> DEFINE c == [admin[d] EXCEPT !.pc = "evict", !.todo = @ \ {admin[d].key}, !.key = Nil]
    <3>1. admin[d] \in Step
      BY DEF PoolInv, PoolTypeOK
    <3>2. c \in Step
      BY <3>1
    <3>3. admin' = [admin EXCEPT ![d] = c]
      BY <2>1
    <3> HIDE DEF c
    <3>4. admin' \in [Admin -> Step]
      BY <3>2, <3>3, OtherAdmins DEF PoolInv
    <3>5. pools' \in [Addr -> Pool \cup {Nil}]
      BY <2>1 DEF PoolInv, PoolTypeOK
    <3> QED
      BY <1>1, <1>2, <2>1, <3>4, <3>5 DEF PoolInv, PoolTypeOK
  <2>3. /\ \A e \in Admin : e # d => admin'[e] = admin[e]
        /\ \A a \in Addr : pools'[a] = IF a = admin[d].key THEN Nil ELSE pools[a]
    BY <2>1 DEF PoolInv, PoolTypeOK
  <2>4. Handed'
    BY <1>1, <2>1, <2>3, NilAssumption DEF PoolInv, Handed, PoolTypeOK
  <2>5. OneKeyPerPool'
    BY <2>3 DEF PoolInv, OneKeyPerPool
  <2>6. NoClosedPoolCached'
    <3> SUFFICES ASSUME NEW b \in Addr, pools'[b] # Nil, pools'[b] \notin open'
                 PROVE  \E e \in Admin : admin'[e].pc = "remove" /\ admin'[e].key = b
      BY DEF NoClosedPoolCached
    <3>1. b # admin[d].key /\ pools[b] # Nil /\ pools[b] \notin open
      BY <2>1, <2>3
    <3>2. PICK e \in Admin : admin[e].pc = "remove" /\ admin[e].key = b
      BY <3>1 DEF PoolInv, NoClosedPoolCached
    <3> QED
      BY <2>3, <3>1, <3>2
  <2> QED
    BY <1>3, <1>4, <2>2, <2>4, <2>5, <2>6 DEF PoolInv
<1>8. CASE EvictFailed(d) \/ EvictLocks(d)
  <2>1. /\ UNCHANGED <<pools, open>> /\ admin[d].pc \in {"evict", "locks"}
        /\ \E pc \in {"locks", "idle"} : admin' = [admin EXCEPT ![d].pc = pc]
        /\ failed' \in [Addr -> {"none", "recent", "expired"}]
        /\ lockOf' \in [Addr -> Lock \cup {Nil}]
    BY <1>8 DEF EvictFailed, EvictLocks, PoolInv, PoolTypeOK
  <2>2. PoolTypeOK'
    <3>1. PICK pc \in {"locks", "idle"} : admin' = [admin EXCEPT ![d].pc = pc]
      BY <2>1
    <3>2. admin' \in [Admin -> [pc : {"idle", "evict", "remove", "failed", "locks"},
                                todo : SUBSET Addr, key : Addr \cup {Nil}]]
      BY <3>1 DEF PoolInv, PoolTypeOK
    <3> QED
      BY <1>1, <1>2, <2>1, <3>2 DEF PoolInv, PoolTypeOK
  <2>3. \A e \in Admin : admin[e].pc = "remove" => admin'[e] = admin[e]
    BY <2>1 DEF PoolInv, PoolTypeOK
  <2>4. Handed' /\ OneKeyPerPool' /\ NoClosedPoolCached'
    BY <1>1, <2>1, <2>3 DEF PoolInv, Handed, OneKeyPerPool, NoClosedPoolCached
  <2> QED
    BY <1>3, <1>4, <2>2, <2>4 DEF PoolInv
<1> QED
  BY <1>5, <1>6, <1>7, <1>8 DEF EvictStep

-----------------------------------------------------------------------------
\* At the start there is no pool and no lock.
LEMMA InitInv == PoolInit => PoolInv
<1> SUFFICES ASSUME PoolInit
             PROVE  PoolInv
  OBVIOUS
<1>1. 0 \in Rev /\ (CHOOSE a \in Addr : TRUE) \in Addr
  BY RevAssumption DEF Rev
<1>2. PoolTypeOK
  BY <1>1 DEF PoolInit, PoolTypeOK, Idle
<1>3. \A t \in Caller : caller[t].pc = "idle" /\ caller[t].rev = 0
  BY DEF PoolInit, Idle
<1>4. \A a \in Addr : pools[a] = Nil
  BY DEF PoolInit
<1>5. Handed /\ Locked
  <2>1. Handed
    BY <1>3 DEF Handed
  <2>2. \A t \in Caller : caller[t].pc \notin Holding \cup {"lock"} /\ caller[t].pc \notin Holding
    BY <1>3 DEF Holding
  <2>3. Locked
    BY <2>2 DEF Locked
  <2> QED
    BY <2>1, <2>3
<1>6. OneKeyPerPool /\ NoClosedPoolCached
  BY <1>4 DEF OneKeyPerPool, NoClosedPoolCached
<1>7. Untouched
  BY <1>3 DEF PoolInit, Untouched, Holding
<1> QED
  BY <1>2, <1>5, <1>6, <1>7 DEF PoolInv

\* Every step keeps the invariant.
LEMMA NextInv ==
  ASSUME PoolInv, [PoolNext]_poolVars
  PROVE  PoolInv'
<1>1. CASE \E t \in Caller : Call(t) \/ CallerStep(t)
  <2>1. PICK t \in Caller : Call(t) \/ CallerStep(t)
    BY <1>1
  <2>2. CASE Call(t) \/ CheckCooldown(t) \/ ForgetFailure(t) \/ Found(t) \/ Borrow(t)
               \/ AttemptFails(t) \/ RememberFailure(t)
    BY <2>2, CallStep
  <2>3. CASE FetchLock(t) \/ Acquire(t)
    BY <2>3, FetchLockStep, AcquireStep
  <2>4. CASE RefusedLocked(t) \/ LookupLocked(t)
    BY <2>4, LockedStep
  <2>5. CASE CreatePool(t) \/ PutPool(t)
    BY <2>5, CreateStep, PutStep
  <2> QED
    BY <2>1, <2>2, <2>3, <2>4, <2>5 DEF CallerStep
<1>2. CASE \E a \in Addr : CooldownEnds(a)
  <2>1. /\ failed' \in [Addr -> {"none", "recent", "expired"}]
        /\ UNCHANGED <<rev, addrOf, pools, made, open, lockOf, holder, caller, admin>>
    BY <1>2 DEF CooldownEnds, PoolInv, PoolTypeOK
  <2>2. PoolTypeOK'
    BY <2>1 DEF PoolInv, PoolTypeOK
  <2> QED
    BY <2>1, <2>2 DEF PoolInv, Handed, OneKeyPerPool, Locked, Untouched, NoClosedPoolCached, InHands
<1>3. CASE \E d \in Admin : Update(d) \/ EvictStep(d)
  BY <1>3, AdminStep
<1>4. CASE UNCHANGED poolVars
  BY <1>4 DEF poolVars, PoolInv, PoolTypeOK, Handed, OneKeyPerPool, Locked, Untouched, NoClosedPoolCached, InHands
<1> QED
  BY <1>1, <1>2, <1>3, <1>4 DEF PoolNext

\* Before the first edit the lock makes look-up and creation one step.
LEMMA OneLivePool == PoolInv => OnePoolPerKey
<1> SUFFICES ASSUME PoolInv, rev = 0, NEW p \in open, NEW q \in open
             PROVE  p = q
  BY DEF OnePoolPerKey
<1>1. CASE \E t \in Caller : caller[t].pc = "put"
  <2>1. PICK t \in Caller : caller[t].pc = "put"
    BY <1>1
  <2>2. pools[addrOf[0]] = Nil
    BY <2>1 DEF PoolInv, Untouched
  <2>3. InHands(p) /\ InHands(q)
    BY <2>2, NilAssumption DEF PoolInv, Untouched, PoolTypeOK
  <2> QED
    BY <2>3, OneHolder DEF InHands, Holding
<1>2. CASE \A t \in Caller : caller[t].pc # "put"
  BY <1>2 DEF PoolInv, Untouched, InHands
<1> QED
  BY <1>1, <1>2

\* For any number of threads and administrators: before the first edit a key has at most
\* one live pool, however getConnection is interleaved with itself; and a pool that
\* evictPoolsForDbId closed is in the map only until the same thread removes its key.
THEOREM MapIsTrue == PoolSpec => []MapKnowsLivePools
<1>1. PoolInit => PoolInv
  BY InitInv
<1>2. PoolInv /\ [PoolNext]_poolVars => PoolInv'
  BY NextInv
<1>3. PoolInv => MapKnowsLivePools
  BY OneLivePool DEF PoolInv, MapKnowsLivePools
<1> QED
  BY <1>1, <1>2, <1>3, PTL DEF PoolSpec

-----------------------------------------------------------------------------
(* The configuration store                                                 *)

USE GeneratedAssumption, NoneAssumption, RowAssumption, FileAssumption, BoundAssumption

-----------------------------------------------------------------------------
(* Stored values                                                           *)

\* A key ring can encrypt.
Usable(ring) == ring.active \in KeyId /\ ring.keys[ring.active] \in KeyValue

\* A value that a start with this key ring has nothing more to do for.
Current(v, ring) == v.form = "blank" \/ (v.form = "enc" /\ v.keyId = ring.active)
RowCurrent(r, ring) == Current(r.password, ring) /\ Current(r.account, ring)

\* A password can be encrypted with a usable key ring.
LEMMA EncryptTyped ==
  ASSUME NEW ring, Usable(ring), NEW s \in Secret
  PROVE  /\ Encrypt(s, ring) \in Stored
         /\ Encrypt(s, ring).secret = s
         /\ Current(Encrypt(s, ring), ring)
BY DEF Usable, Encrypt, Enc, Stored, Current

\* Only blank and damaged values stand for no password.
LEMMA StoredSecret ==
  ASSUME NEW v \in Stored
  PROVE  /\ v.secret \in Secret \cup {None}
         /\ v.form \in {"legacy", "enc"} => v.secret \in Secret
         /\ v.form \in {"blank", "damaged", "legacy", "enc"}
BY DEF Stored, Blank, Damaged, Legacy, Enc

\* Re-encryption keeps the password; what it cannot read it does not touch.
LEMMA ReencryptedValue ==
  ASSUME NEW ring, Usable(ring), NEW v \in Stored, ~Stuck(v, ring)
  PROVE  /\ Reencrypted(v, ring) \in Stored
         /\ Reencrypted(v, ring).secret = v.secret
         /\ Current(Reencrypted(v, ring), ring)
<1>1. CASE NeedsReencrypt(v, ring)
  <2>1. v.secret \in Secret
    BY <1>1, StoredSecret DEF Stuck, Readable, NeedsReencrypt
  <2> QED BY <1>1, <2>1, EncryptTyped DEF Reencrypted
<1>2. CASE ~NeedsReencrypt(v, ring)
  BY <1>2 DEF Reencrypted, NeedsReencrypt, Current
<1> QED BY <1>1, <1>2

\* The same for a row, of which the import and the scan write both columns.
LEMMA ReencryptedRow ==
  ASSUME NEW ring, Usable(ring), NEW r \in Row
  PROVE  /\ RowReencrypted(r, ring) \in Row
         /\ Clear(RowReencrypted(r, ring)) = Clear(r)
         /\ ~RowStuck(r, ring) => RowCurrent(RowReencrypted(r, ring), ring)
<1>1. CASE RowStuck(r, ring)
  BY <1>1 DEF RowReencrypted
<1>2. CASE ~RowStuck(r, ring)
  <2>1. r.password \in Stored /\ r.account \in Stored
    BY DEF Row
  <2> DEFINE p == Reencrypted(r.password, ring)
             a == Reencrypted(r.account, ring)
  <2>2. p \in Stored /\ p.secret = r.password.secret /\ Current(p, ring)
    BY <1>2, <2>1, ReencryptedValue DEF RowStuck
  <2>3. a \in Stored /\ a.secret = r.account.secret /\ Current(a, ring)
    BY <1>2, <2>1, ReencryptedValue DEF RowStuck
  <2>4. RowReencrypted(r, ring) = [password |-> p, account |-> a]
    BY <1>2 DEF RowReencrypted
  <2> HIDE DEF p, a
  <2> QED BY <1>2, <2>2, <2>3, <2>4 DEF Row, Clear, RowCurrent
<1> QED BY <1>1, <1>2

\* What is in the file can be read without a key, or not at all.
LEMMA FileRows ==
  ASSUME NEW d \in DOMAIN LegacyFile
  PROVE  /\ d \in Id /\ LegacyFile[d] \in Row
         /\ \A f \in {"password", "account"} : LegacyFile[d][f] # Damaged =>
              \A ring : Readable(LegacyFile[d][f], ring)
<1>1. FileValue \subseteq Stored /\ \A v \in FileValue : v = Damaged \/ v.form \in {"blank", "legacy"}
  BY DEF FileValue, Stored, Blank, Legacy
<1> QED
  BY <1>1 DEF Row, Readable

\* The passwords of a row in clear.
LEMMA ClearTyped == ASSUME NEW r \in Row PROVE Clear(r) \in ClearRow
BY StoredSecret DEF Row, Clear, ClearRow

\* A field of the form: the password given, or the value kept.
LEMMA GivenValue ==
  ASSUME Usable(loaded), NEW s \in Secret \cup {None}, NEW kept \in Stored
  PROVE  /\ Given(s, kept) \in Stored
         /\ Given(s, kept).secret = IF s = None THEN kept.secret ELSE s
         /\ Current(kept, loaded) => Current(Given(s, kept), loaded)
BY EncryptTyped DEF Given

\* A blank field.
LEMMA BlankValue == /\ Blank \in Stored /\ Blank.secret = None
                    /\ \A ring : Current(Blank, ring)
BY DEF Blank, Stored, Current

-----------------------------------------------------------------------------
(* The inductive invariant                                                 *)

\* A start that is past its key has a key; so has a written key file.
KeysReady ==
  /\ phase \in Running => Usable(loaded)
  /\ keyFile.state = "written" => Usable(keyFile)

\* The import runs before the first start is complete and never again after;
\* the scan visits rows that exist.
StartOrder ==
  /\ opened => migrated
  /\ phase \in {"scan", "ready", "up"} => migrated
  /\ phase = "import" => ~migrated /\ todo \subseteq DOMAIN LegacyFile
  /\ phase = "scan" => todo \subseteq Present

\* The rows the scan has left behind, or all of them when it is over.
Scanned == IF phase = "scan" THEN Present \ todo ELSE Present
HealedSoFar ==
  phase \in {"scan", "ready", "up"} => \A d \in Scanned \ reported : RowCurrent(rows[d], loaded)

StoreInv == TypeOK /\ KeysReady /\ StartOrder /\ SecretsKept /\ HealedSoFar

\* Before the first start there are no rows and no keys.
LEMMA Initially == Init => StoreInv
<1> SUFFICES ASSUME Init PROVE StoreInv
  OBVIOUS
<1>1. NoKeys \in KeyRing /\ NoKeys.state # "written"
  BY DEF NoKeys, KeyRing
<1>2. TypeOK
  <2>1. rows \in [Id -> Row \cup {None}] /\ entered \in [Id -> ClearRow \cup {None}]
    BY DEF Init
  <2>2. boots \in 0..MaxBoots /\ edits \in 0..MaxEdits
    BY DEF Init
  <2> QED BY <1>1, <2>1, <2>2 DEF Init, TypeOK
<1>3. KeysReady /\ StartOrder /\ SecretsKept /\ HealedSoFar
  BY <1>1 DEF Init, KeysReady, StartOrder, SecretsKept, HealedSoFar, Running
<1> QED BY <1>2, <1>3 DEF StoreInv

\* Once the keys are known, init goes on to the import or to the scan.
LEMMA InitStoreKeeps ==
  ASSUME StoreInv, NEW ring \in KeyRing, Usable(ring), InitStore(ring),
         keyFile'.state = "written" => Usable(keyFile'), keyFile' \in KeyRing,
         spare' \subseteq spare, boots' \in 0..MaxBoots,
         UNCHANGED <<rows, migrated, entered, opened, edits>>
  PROVE  StoreInv'
<1> USE DEF StoreInv
<1>1. Present' = Present /\ Present \subseteq Id
  BY DEF Present
<1>2. TypeOK'
  BY <1>1 DEF InitStore, TypeOK, Running
<1>3. KeysReady' /\ StartOrder' /\ SecretsKept'
  BY <1>1 DEF InitStore, KeysReady, StartOrder, SecretsKept
<1>4. HealedSoFar'
  BY <1>1 DEF InitStore, HealedSoFar, Scanned
<1> QED BY <1>2, <1>3, <1>4

\* The keys of a start.
LEMMA StartKeeps == ASSUME StoreInv, Start PROVE StoreInv'
<1> USE DEF StoreInv
<1>1. CASE StartWithKey
  <2>1. keyFile \in KeyRing /\ Usable(keyFile) /\ InitStore(keyFile) /\ keyFile' = keyFile
    BY <1>1 DEF StartWithKey, KeysReady, TypeOK
  <2>2. boots' \in 0..MaxBoots
    BY <1>1 DEF StartWithKey, TypeOK
  <2> QED BY <1>1, <2>1, <2>2, InitStoreKeeps DEF StartWithKey
<1>2. CASE StartRefused
  <2>1. TypeOK'
    BY <1>2 DEF StartRefused, TypeOK
  <2> QED BY <1>2, <2>1 DEF StartRefused, KeysReady, StartOrder, SecretsKept, HealedSoFar, Running
<1>3. CASE StartWithoutKey
  <2>1. keyFile' \in KeyRing /\ keyFile'.state = "torn"
    BY <1>3 DEF StartWithoutKey, NoKeys, KeyRing
  <2>2. TypeOK'
    BY <1>3, <2>1 DEF StartWithoutKey, TypeOK
  <2> QED BY <1>3, <2>1, <2>2 DEF StartWithoutKey, KeysReady, StartOrder, SecretsKept, HealedSoFar, Running
<1>4. ASSUME NEW m \in KeyValue, SaveKey(m) PROVE StoreInv'
  <2>1. /\ keyFile' = [state |-> "written", active |-> Generated,
                       keys |-> [NoKeys.keys EXCEPT ![Generated] = m]]
        /\ NoKeys.keys = [i \in KeyId |-> None]
    BY <1>4 DEF SaveKey, NoKeys
  <2>2. keyFile' \in KeyRing /\ Usable(keyFile')
    BY <2>1 DEF KeyRing, Usable
  <2>3. /\ InitStore(keyFile') /\ spare' \subseteq spare /\ boots' \in 0..MaxBoots
        /\ UNCHANGED <<rows, migrated, entered, opened, edits>>
    BY <1>4 DEF SaveKey, TypeOK
  <2> QED BY <2>2, <2>3, InitStoreKeeps
<1> QED BY <1>1, <1>2, <1>3, <1>4 DEF Start

\* Writing one row, and what the administrator meant by it, keeps the secrets.
LEMMA RowWritten ==
  ASSUME TypeOK, SecretsKept, NEW d \in Id, NEW r \in Row,
         rows' = [rows EXCEPT ![d] = r],
         \/ entered' = [entered EXCEPT ![d] = Clear(r)]
         \/ entered' = entered /\ rows[d] # None /\ Clear(r) = Clear(rows[d])
  PROVE  /\ SecretsKept'
         /\ rows' \in [Id -> Row \cup {None}]
         /\ entered' \in [Id -> ClearRow \cup {None}]
         /\ Present' = Present \cup {d}
         /\ rows'[d] = r /\ \A e \in Id \ {d} : rows'[e] = rows[e]
<1>1. Clear(r) \in ClearRow
  BY ClearTyped
<1>2. /\ rows' \in [Id -> Row \cup {None}]
      /\ rows'[d] = r /\ \A e \in Id \ {d} : rows'[e] = rows[e]
  BY DEF TypeOK
<1>3. Present' = Present \cup {d}
  BY <1>2 DEF Present
<1>4. CASE entered' = [entered EXCEPT ![d] = Clear(r)]
  <2>1. entered' \in [Id -> ClearRow \cup {None}]
    BY <1>1, <1>4 DEF TypeOK
  <2>2. entered'[d] = Clear(r) /\ \A e \in Id \ {d} : entered'[e] = entered[e]
    BY <1>4 DEF TypeOK
  <2> QED BY <1>1, <1>2, <1>3, <2>1, <2>2 DEF SecretsKept
<1>5. CASE entered' = entered /\ rows[d] # None /\ Clear(r) = Clear(rows[d])
  BY <1>2, <1>3, <1>5 DEF SecretsKept, TypeOK
<1> QED BY <1>4, <1>5

\* The one-time import of databases.json.
LEMMA ImportKeeps ==
  ASSUME StoreInv, ImportNothing \/ EndImport \/ \E d \in Id : ImportRow(d)
  PROVE  StoreInv'
<1> USE DEF StoreInv
<1>1. CASE ImportNothing
  <2>1. TypeOK'
    BY <1>1 DEF ImportNothing, TypeOK
  <2> QED BY <1>1, <2>1 DEF ImportNothing, KeysReady, StartOrder, SecretsKept, HealedSoFar, Running
<1>2. CASE EndImport
  <2>1. Present' = Present /\ Present \subseteq Id
    BY <1>2 DEF EndImport, Present
  <2>2. TypeOK'
    BY <1>2, <2>1 DEF EndImport, TypeOK, Running
  <2>3. KeysReady' /\ StartOrder' /\ SecretsKept'
    BY <1>2, <2>1 DEF EndImport, KeysReady, StartOrder, SecretsKept, Running
  <2>4. HealedSoFar'
    BY <1>2, <2>1 DEF EndImport, HealedSoFar, Scanned
  <2> QED BY <2>2, <2>3, <2>4
<1>3. ASSUME NEW d \in Id, ImportRow(d) PROVE StoreInv'
  <2> DEFINE r == RowReencrypted(LegacyFile[d], loaded)
  <2>1. phase = "import" /\ d \in DOMAIN LegacyFile /\ Usable(loaded) /\ ~opened
    BY <1>3 DEF ImportRow, KeysReady, StartOrder, Running
  <2>2. r \in Row /\ Clear(r) = Clear(LegacyFile[d])
    BY <2>1, FileRows, ReencryptedRow
  <2>3. rows' = [rows EXCEPT ![d] = r] /\ entered' = [entered EXCEPT ![d] = Clear(r)]
    BY <1>3, <2>1, <2>2 DEF ImportRow
  <2>4. SecretsKept' /\ rows' \in [Id -> Row \cup {None}] /\ entered' \in [Id -> ClearRow \cup {None}]
    <3> HIDE DEF r
    <3> QED BY <2>2, <2>3, RowWritten
  <2>5. TypeOK'
    BY <1>3, <2>4 DEF ImportRow, TypeOK
  <2>6. KeysReady' /\ StartOrder' /\ HealedSoFar'
    BY <1>3, <2>1 DEF ImportRow, KeysReady, StartOrder, HealedSoFar
  <2> QED BY <2>4, <2>5, <2>6
<1> QED BY <1>1, <1>2, <1>3

\* The scan, the end of the start, and a crash.
LEMMA ScanKeeps ==
  ASSUME StoreInv, EndScan \/ Ready \/ Crash \/ \E d \in Id : ScanRow(d)
  PROVE  StoreInv'
<1> USE DEF StoreInv
<1>1. CASE EndScan
  <2>1. TypeOK'
    BY <1>1 DEF EndScan, TypeOK, Running
  <2>2. Present' = Present
    BY <1>1 DEF EndScan, Present
  <2>3. KeysReady' /\ StartOrder' /\ SecretsKept'
    BY <1>1 DEF EndScan, KeysReady, StartOrder, SecretsKept, Running
  <2>4. HealedSoFar'
    BY <1>1, <2>2 DEF EndScan, HealedSoFar, Scanned
  <2> QED BY <2>1, <2>3, <2>4
<1>2. CASE Ready
  <2>1. TypeOK'
    BY <1>2 DEF Ready, TypeOK, Running
  <2>2. Present' = Present
    BY <1>2 DEF Ready, Present
  <2>3. KeysReady' /\ StartOrder' /\ SecretsKept'
    BY <1>2 DEF Ready, KeysReady, StartOrder, SecretsKept, Running
  <2>4. HealedSoFar'
    BY <1>2, <2>2 DEF Ready, HealedSoFar, Scanned
  <2> QED BY <2>1, <2>3, <2>4
<1>3. CASE Crash
  <2>1. NoKeys \in KeyRing
    BY DEF NoKeys, KeyRing
  <2>2. TypeOK'
    BY <1>3, <2>1 DEF Crash, TypeOK
  <2> QED BY <1>3, <2>2 DEF Crash, KeysReady, StartOrder, SecretsKept, HealedSoFar, Running
<1>4. ASSUME NEW d \in Id, ScanRow(d) PROVE StoreInv'
  <2> DEFINE r == RowReencrypted(rows[d], loaded)
  <2>1. phase = "scan" /\ d \in Present /\ rows[d] \in Row /\ Usable(loaded)
    BY <1>4 DEF ScanRow, StartOrder, KeysReady, Running, Present, TypeOK
  <2>2. /\ r \in Row /\ Clear(r) = Clear(rows[d])
        /\ ~RowStuck(rows[d], loaded) => RowCurrent(r, loaded)
    BY <2>1, ReencryptedRow
  <2>3. rows' = [rows EXCEPT ![d] = r] /\ entered' = entered /\ rows[d] # None
    BY <1>4, <2>1 DEF ScanRow, Present
  <2>4. /\ SecretsKept' /\ rows' \in [Id -> Row \cup {None}]
        /\ Present' = Present
        /\ rows'[d] = r /\ \A e \in Id \ {d} : rows'[e] = rows[e]
    <3> HIDE DEF r
    <3>1. /\ SecretsKept' /\ rows' \in [Id -> Row \cup {None}]
          /\ Present' = Present \cup {d}
          /\ rows'[d] = r /\ \A e \in Id \ {d} : rows'[e] = rows[e]
      BY <2>2, <2>3, RowWritten
    <3> QED BY <2>1, <3>1
  <2>5. TypeOK'
    BY <1>4, <2>4 DEF ScanRow, TypeOK
  <2>6. KeysReady' /\ StartOrder'
    BY <1>4, <2>1, <2>4 DEF ScanRow, KeysReady, StartOrder
  <2>7. HealedSoFar'
    <3> HIDE DEF r
    <3>1. reported' = IF RowStuck(rows[d], loaded) THEN reported \cup {d} ELSE reported
      BY <1>4 DEF ScanRow
    <3>2. /\ phase' = "scan" /\ loaded' = loaded
          /\ Scanned' \subseteq Scanned \cup {d} /\ Scanned \subseteq Id
      BY <1>4, <2>1, <2>4 DEF ScanRow, Scanned, Present
    <3>3. \A e \in Scanned \ reported : RowCurrent(rows[e], loaded)
      BY <2>1 DEF HealedSoFar
    <3>4. ASSUME NEW e \in Scanned' \ reported' PROVE RowCurrent(rows'[e], loaded)
      <4>1. CASE e = d
        BY <2>2, <2>4, <3>1, <3>4, <4>1
      <4>2. CASE e # d
        BY <2>4, <3>1, <3>2, <3>3, <3>4, <4>2
      <4> QED BY <4>1, <4>2
    <3>5. \A e \in Scanned' \ reported' : RowCurrent(rows'[e], loaded')
      BY <3>2, <3>4
    <3> QED BY <3>5 DEF HealedSoFar
  <2> QED BY <2>4, <2>5, <2>6, <2>7
<1> QED BY <1>1, <1>2, <1>3, <1>4

-----------------------------------------------------------------------------
(* The administrator and the operator                                      *)

\* A row written by the administrator is current unless it kept what it had.
LEMMA EditKeeps ==
  ASSUME StoreInv, Edit, NEW d \in Id, NEW r \in Row,
         rows' = [rows EXCEPT ![d] = r], entered' = [entered EXCEPT ![d] = Clear(r)],
         RowCurrent(r, loaded) \/ (rows[d] # None /\ d \in reported)
  PROVE  StoreInv'
<1> USE DEF StoreInv
<1>1. /\ SecretsKept' /\ rows' \in [Id -> Row \cup {None}] /\ entered' \in [Id -> ClearRow \cup {None}]
      /\ Present' = Present \cup {d}
      /\ rows'[d] = r /\ \A e \in Id \ {d} : rows'[e] = rows[e]
  BY RowWritten
<1>2. TypeOK'
  BY <1>1 DEF Edit, TypeOK
<1>3. KeysReady' /\ StartOrder'
  BY <1>1 DEF Edit, KeysReady, StartOrder
<1>4. /\ phase \in {"ready", "up"} /\ UNCHANGED <<phase, loaded, reported>>
      /\ Scanned = Present /\ Scanned' = Present \cup {d} /\ Present \subseteq Id
  BY <1>1 DEF Edit, Scanned, Present
<1>5. ASSUME NEW e \in Scanned' \ reported' PROVE RowCurrent(rows'[e], loaded)
  <2>1. CASE e = d
    BY <1>1, <1>4, <1>5, <2>1
  <2>2. CASE e # d
    BY <1>1, <1>4, <1>5, <2>2 DEF HealedSoFar
  <2> QED BY <2>1, <2>2
<1>6. \A e \in Scanned' \ reported' : RowCurrent(rows'[e], loaded')
  BY <1>4, <1>5
<1> QED BY <1>1, <1>2, <1>3, <1>6 DEF HealedSoFar

\* The administration page.
LEMMA AdminKeeps == ASSUME StoreInv, Administration PROVE StoreInv'
<1> USE DEF StoreInv
<1>0. Edit => Usable(loaded)
  BY DEF Edit, KeysReady, Running
<1>1. ASSUME NEW d \in Id, NEW p \in Secret, NEW a \in Secret \cup {None}, CreateInstance(d, p, a)
      PROVE  StoreInv'
  <2> DEFINE r == [password |-> Given(p, Blank), account |-> Given(a, Blank)]
  <2>1. Edit /\ Usable(loaded) /\ rows' = [rows EXCEPT ![d] = r]
        /\ entered' = [entered EXCEPT ![d] = [password |-> p, account |-> a]]
    BY <1>0, <1>1 DEF CreateInstance
  <2>2. /\ Given(p, Blank) \in Stored /\ Given(p, Blank).secret = p /\ Current(Given(p, Blank), loaded)
        /\ Given(a, Blank) \in Stored /\ Given(a, Blank).secret = a /\ Current(Given(a, Blank), loaded)
    BY <2>1, GivenValue, BlankValue
  <2>3. r \in Row /\ Clear(r) = [password |-> p, account |-> a] /\ RowCurrent(r, loaded)
    BY <2>2 DEF Row, Clear, RowCurrent
  <2> HIDE DEF r
  <2> QED BY <2>1, <2>3, EditKeeps
<1>2. ASSUME NEW d \in Id, NEW p \in Secret \cup {None}, NEW a \in Secret \cup {None},
             NEW keep \in BOOLEAN, UpdateInstance(d, p, a, keep)
      PROVE  StoreInv'
  <2> DEFINE old == rows[d]
             kept == IF keep THEN old.account ELSE Blank
             r == [password |-> Given(p, old.password), account |-> Given(a, kept)]
             meant == [password |-> IF p = None THEN entered[d].password ELSE p,
                       account |-> IF a = None /\ keep THEN entered[d].account ELSE a]
  <2>1. /\ Edit /\ Usable(loaded) /\ old # None /\ old \in Row
        /\ entered[d] = Clear(old)
    BY <1>0, <1>2 DEF UpdateInstance, TypeOK, SecretsKept
  <2>2. rows' = [rows EXCEPT ![d] = r] /\ entered' = [entered EXCEPT ![d] = meant]
    BY <1>2 DEF UpdateInstance, TypeOK
  <2>3. /\ old.password \in Stored /\ old.account \in Stored /\ kept \in Stored
        /\ kept.secret = IF keep THEN old.account.secret ELSE None
        /\ Current(old.account, loaded) => Current(kept, loaded)
    BY <2>1, BlankValue DEF Row
  <2>4. /\ Given(p, old.password) \in Stored
        /\ Given(p, old.password).secret = IF p = None THEN old.password.secret ELSE p
        /\ Current(old.password, loaded) => Current(Given(p, old.password), loaded)
    BY <2>1, <2>3, GivenValue
  <2>5. /\ Given(a, kept) \in Stored
        /\ Given(a, kept).secret = IF a = None THEN kept.secret ELSE a
        /\ Current(kept, loaded) => Current(Given(a, kept), loaded)
    BY <2>1, <2>3, GivenValue
  <2>6. r \in Row /\ Clear(r) = meant
    BY <2>1, <2>3, <2>4, <2>5 DEF Row, Clear
  <2>7. RowCurrent(old, loaded) => RowCurrent(r, loaded)
    BY <2>3, <2>4, <2>5 DEF RowCurrent
  <2>8. RowCurrent(old, loaded) \/ d \in reported
    BY <2>1 DEF Edit, HealedSoFar, Scanned, Present
  <2> HIDE DEF r, meant, old
  <2>9. rows[d] = old
    BY DEF old
  <2> QED BY <2>1, <2>2, <2>6, <2>7, <2>8, <2>9, EditKeeps
<1>3. ASSUME NEW d \in Id, DeleteInstance(d) PROVE StoreInv'
  <2>1. /\ rows' \in [Id -> Row \cup {None}] /\ entered' \in [Id -> ClearRow \cup {None}]
        /\ rows'[d] = None /\ entered'[d] = None
        /\ \A e \in Id \ {d} : rows'[e] = rows[e] /\ entered'[e] = entered[e]
    BY <1>3 DEF DeleteInstance, TypeOK
  <2>2. TypeOK'
    BY <1>3, <2>1 DEF DeleteInstance, Edit, TypeOK
  <2>3. KeysReady' /\ StartOrder' /\ SecretsKept'
    BY <1>3, <2>1 DEF DeleteInstance, Edit, KeysReady, StartOrder, SecretsKept
  <2>4. Present' \subseteq Present \ {d} /\ Scanned' = Present' /\ Scanned = Present
    BY <1>3, <2>1 DEF DeleteInstance, Edit, Present, Scanned
  <2>5. HealedSoFar'
    BY <1>3, <2>1, <2>4 DEF DeleteInstance, Edit, HealedSoFar, Present
  <2> QED BY <2>2, <2>3, <2>5
<1> QED BY <1>1, <1>2, <1>3 DEF Administration

\* The key file and the roll-back.
LEMMA OperatorKeeps ==
  ASSUME StoreInv,
         \/ \E i \in KeyId, m \in KeyValue : RotateKey(i, m)
         \/ DropOldKeys \/ LoseKeyFile \/ RollBackImport
         \/ \E d \in Id, s \in Secret : RollBack(d, s)
  PROVE  StoreInv'
<1> USE DEF StoreInv
<1>1. ASSUME NEW i \in KeyId, NEW m \in KeyValue, RotateKey(i, m) PROVE StoreInv'
  <2>1. keyFile' \in KeyRing /\ Usable(keyFile')
    BY <1>1 DEF RotateKey, TypeOK, KeyRing, Usable
  <2>2. TypeOK'
    BY <1>1, <2>1 DEF RotateKey, TypeOK
  <2> QED BY <1>1, <2>1, <2>2 DEF RotateKey, KeysReady, StartOrder, SecretsKept, HealedSoFar, Scanned, Present
<1>2. CASE DropOldKeys
  <2>1. keyFile' \in KeyRing /\ (keyFile.state = "written" => Usable(keyFile')) /\ keyFile'.state = keyFile.state
    BY <1>2 DEF DropOldKeys, TypeOK, KeyRing, Usable, KeysReady
  <2>2. TypeOK'
    BY <1>2, <2>1 DEF DropOldKeys, TypeOK
  <2> QED BY <1>2, <2>1, <2>2 DEF DropOldKeys, KeysReady, StartOrder, SecretsKept, HealedSoFar, Scanned, Present
<1>3. CASE LoseKeyFile
  <2>1. NoKeys \in KeyRing /\ NoKeys.state # "written"
    BY DEF NoKeys, KeyRing
  <2>2. TypeOK'
    BY <1>3, <2>1 DEF LoseKeyFile, TypeOK
  <2> QED BY <1>3, <2>1, <2>2 DEF LoseKeyFile, KeysReady, StartOrder, SecretsKept, HealedSoFar, Running
<1>4. ASSUME NEW d \in Id, NEW s \in Secret, RollBack(d, s) PROVE StoreInv'
  <2> DEFINE r == [rows[d] EXCEPT !.password = Legacy(s)]
  <2>1. rows[d] \in Row /\ rows[d] # None /\ entered[d] = Clear(rows[d])
    BY <1>4 DEF RollBack, TypeOK, SecretsKept
  <2>2. Legacy(s) \in Stored /\ Legacy(s).secret = s
    BY DEF Legacy, Stored
  <2>3. r \in Row /\ Clear(r) = [Clear(rows[d]) EXCEPT !.password = s]
    BY <2>1, <2>2 DEF Row, Clear
  <2>4. rows' = [rows EXCEPT ![d] = r] /\ entered' = [entered EXCEPT ![d] = Clear(r)]
    BY <1>4, <2>1, <2>3 DEF RollBack
  <2>5. /\ SecretsKept' /\ rows' \in [Id -> Row \cup {None}] /\ entered' \in [Id -> ClearRow \cup {None}]
    <3> HIDE DEF r
    <3> QED BY <2>3, <2>4, RowWritten
  <2>6. TypeOK'
    BY <1>4, <2>5 DEF RollBack, TypeOK
  <2> QED BY <1>4, <2>5, <2>6 DEF RollBack, KeysReady, StartOrder, HealedSoFar, Running
<1>5. CASE RollBackImport
  <2>1. PICK listed \in {{}, DOMAIN LegacyFile} :
          /\ rows' = [d \in Id |-> IF d \in listed THEN LegacyFile[d] ELSE rows[d]]
          /\ entered' = [d \in Id |-> IF d \in listed THEN Clear(LegacyFile[d]) ELSE entered[d]]
    BY <1>5 DEF RollBackImport
  <2>2. \A d \in listed : LegacyFile[d] \in Row /\ LegacyFile[d] # None
                          /\ Clear(LegacyFile[d]) \in ClearRow /\ Clear(LegacyFile[d]) # None
    BY FileRows, ClearTyped
  <2>3. rows' \in [Id -> Row \cup {None}] /\ entered' \in [Id -> ClearRow \cup {None}]
    BY <2>1, <2>2 DEF TypeOK
  <2>4. TypeOK'
    BY <1>5, <2>3 DEF RollBackImport, TypeOK
  <2>5. SecretsKept'
    BY <2>1, <2>2 DEF SecretsKept
  <2> QED BY <1>5, <2>4, <2>5 DEF RollBackImport, KeysReady, StartOrder, HealedSoFar, Running
<1> QED BY <1>1, <1>2, <1>3, <1>4, <1>5

-----------------------------------------------------------------------------
(* The rotation of keys                                                    *)

\* The key a start encrypts with is in the file as long as it runs; a file that is
\* not written has no keys.
KeysInFile ==
  /\ phase \in Running =>
       keyFile.state = "written" /\ keyFile.keys[loaded.active] = loaded.keys[loaded.active]
  /\ phase = "savingKey" => keyFile.state # "written"
  /\ keyFile.state # "written" => keyFile.keys = NoKeys.keys

Undamaged(r) == r.password # Damaged /\ r.account # Damaged

\* Until an import is complete the rows are those of the file, and a row of which
\* a value is damaged is as it is there: importing it once more takes nothing away.
RowsOfFile ==
  ~migrated => \A d \in Present :
    d \in DOMAIN LegacyFile /\ (rows[d] = LegacyFile[d] \/ Undamaged(LegacyFile[d]))

RotationInv == KeysInFile /\ RowsOfFile

Fields == {"password", "account"}

\* What a start encrypts the key file can decrypt.
LEMMA EncryptedReadable ==
  ASSUME KeysInFile, phase \in Running, NEW s
  PROVE  Readable(Encrypt(s, loaded), keyFile)
BY DEF KeysInFile, Readable, Encrypt, Enc

\* Import and scan leave a value that the key file can decrypt one that it can.
LEMMA ReencryptedReadable ==
  ASSUME KeysInFile, phase \in Running, NEW r \in Row, NEW f \in Fields, Readable(r[f], keyFile)
  PROVE  Readable(RowReencrypted(r, loaded)[f], keyFile)
<1>1. \A v \in {r.password, r.account} :
        Readable(v, keyFile) => Readable(Reencrypted(v, loaded), keyFile)
  BY EncryptedReadable DEF Reencrypted
<1>2. CASE RowStuck(r, loaded)
  BY <1>2 DEF RowReencrypted
<1>3. CASE ~RowStuck(r, loaded)
  <2>1. RowReencrypted(r, loaded) =
          [password |-> Reencrypted(r.password, loaded), account |-> Reencrypted(r.account, loaded)]
    BY <1>3 DEF RowReencrypted
  <2>2. RowReencrypted(r, loaded)[f] = Reencrypted(r[f], loaded)
    BY <2>1 DEF Fields
  <2> QED BY <1>1, <2>2 DEF Fields
<1> QED BY <1>2, <1>3

\* A row with a damaged value is skipped.
LEMMA DamagedIsStuck ==
  ASSUME NEW r, ~Undamaged(r), NEW ring
  PROVE  RowReencrypted(r, ring) = r
BY DEF Undamaged, RowReencrypted, RowStuck, Stuck, NeedsReencrypt, Readable, Damaged

\* No row, no key.
LEMMA RotationInit == Init => RotationInv
BY DEF Init, RotationInv, KeysInFile, RowsOfFile, Present, NoKeys, Running

\* The key of the running start stays in the file.
LEMMA KeysStay == ASSUME StoreInv, KeysInFile, [Next]_vars PROVE KeysInFile'
<1>1. CASE UNCHANGED vars
  BY <1>1 DEF vars, KeysInFile
<1>2. CASE StartWithKey
  BY <1>2 DEF StartWithKey, InitStore, KeysInFile, Running
<1>3. CASE StartRefused
  BY <1>3 DEF StartRefused, KeysInFile, Running
<1>4. CASE StartWithoutKey
  BY <1>4 DEF StartWithoutKey, KeysInFile, Running, NoKeys
<1>5. ASSUME NEW m \in KeyValue, SaveKey(m) PROVE KeysInFile'
  BY <1>5 DEF SaveKey, InitStore, KeysInFile, Running
<1>6. CASE Store
  <2>1. /\ UNCHANGED <<loaded, keyFile>> /\ phase \in Running /\ phase' # "savingKey"
    BY <1>6 DEF Store, ImportNothing, EndImport, EndScan, Ready, ImportRow, ScanRow, Running
  <2> QED BY <2>1 DEF KeysInFile
<1>7. CASE Administration
  <2>1. UNCHANGED <<loaded, keyFile, phase>>
    BY <1>7 DEF Administration, CreateInstance, UpdateInstance, DeleteInstance, Edit
  <2> QED BY <2>1 DEF KeysInFile
<1>8. CASE Crash
  BY <1>8 DEF Crash, KeysInFile, Running
<1>9. ASSUME NEW i \in KeyId, NEW m \in KeyValue, RotateKey(i, m) PROVE KeysInFile'
  <2>1. /\ keyFile.state = "written" /\ keyFile'.state = "written" /\ UNCHANGED <<phase, loaded>>
        /\ keyFile.keys[i] = None
        /\ \A j \in KeyId \ {i} : keyFile'.keys[j] = keyFile.keys[j]
    BY <1>9 DEF RotateKey, StoreInv, TypeOK, KeyRing
  <2>2. phase \in Running => loaded.active \in KeyId /\ loaded.keys[loaded.active] \in KeyValue
    BY DEF StoreInv, KeysReady, Usable
  <2>3. phase \in Running => loaded.active # i
    BY <2>1, <2>2 DEF KeysInFile
  <2> QED BY <2>1, <2>2, <2>3 DEF KeysInFile
<1>10. CASE DropOldKeys
  <2>1. /\ keyFile'.state = keyFile.state /\ UNCHANGED <<phase, loaded>> /\ phase \in Running
        /\ loaded.active = keyFile.active /\ keyFile.active \in KeyId \cup {None}
        /\ keyFile' = [keyFile EXCEPT !.keys =
                         [i \in KeyId |-> IF i = keyFile.active THEN @[i] ELSE None]]
    BY <1>10 DEF DropOldKeys, StoreInv, TypeOK, KeyRing, Running
  <2>2. loaded.active \in KeyId
    BY <2>1 DEF StoreInv, KeysReady, Usable
  <2>3. keyFile'.keys[keyFile.active] = keyFile.keys[keyFile.active]
    BY <2>1, <2>2 DEF StoreInv, TypeOK, KeyRing
  <2> QED BY <2>1, <2>3 DEF KeysInFile, Running
<1>11. CASE LoseKeyFile
  BY <1>11 DEF LoseKeyFile, KeysInFile, Running, NoKeys
<1>12. CASE RollBackImport \/ \E d \in Id, s \in Secret : RollBack(d, s)
  <2>1. UNCHANGED <<phase, loaded, keyFile>>
    BY <1>12 DEF RollBackImport, RollBack
  <2> QED BY <2>1 DEF KeysInFile
<1> QED
  BY <1>1, <1>2, <1>3, <1>4, <1>5, <1>6, <1>7, <1>8, <1>9, <1>10, <1>11, <1>12 DEF Next, Start, Environment

\* Before an import is complete only an import writes rows.
LEMMA RowsStayOfFile == ASSUME StoreInv, RowsOfFile, [Next]_vars PROVE RowsOfFile'
<1>1. CASE UNCHANGED <<rows, migrated>>
  BY <1>1 DEF RowsOfFile, Present
<1>2. CASE migrated'
  BY <1>2 DEF RowsOfFile
<1>3. ASSUME NEW d \in Id, ImportRow(d) PROVE RowsOfFile'
  <2>1. /\ d \in DOMAIN LegacyFile /\ ~migrated
        /\ rows' = [rows EXCEPT ![d] = RowReencrypted(LegacyFile[d], loaded)]
    BY <1>3 DEF ImportRow, StoreInv, StartOrder
  <2>2. /\ rows'[d] = LegacyFile[d] \/ Undamaged(LegacyFile[d])
        /\ \A e \in Id \ {d} : rows'[e] = rows[e]
    BY <2>1, DamagedIsStuck DEF StoreInv, TypeOK
  <2> QED BY <2>1, <2>2 DEF RowsOfFile, Present
<1>4. UNCHANGED <<rows, migrated>> \/ migrated' \/ \E d \in Id : ImportRow(d)
  <2>1. CASE Start
    BY <2>1 DEF Start, StartWithKey, StartRefused, StartWithoutKey, SaveKey
  <2>2. CASE Store
    BY <2>2 DEF Store, ImportNothing, EndImport, EndScan, Ready, ScanRow, StoreInv, StartOrder
  <2>3. CASE Administration
    BY <2>3 DEF Administration, CreateInstance, UpdateInstance, DeleteInstance, Edit, StoreInv, StartOrder
  <2>4. CASE Environment
    <3>1. (\E d \in Id, s \in Secret : RollBack(d, s)) => migrated'
      BY DEF RollBack
    <3> QED BY <2>4, <3>1 DEF Environment, Crash, RotateKey, DropOldKeys, LoseKeyFile, RollBackImport
  <2>5. CASE UNCHANGED vars
    BY <2>5 DEF vars
  <2> QED BY <2>1, <2>2, <2>3, <2>4, <2>5 DEF Next
<1> QED BY <1>1, <1>2, <1>3, <1>4

\* A value that the key file can decrypt is still one after a step, if the row and
\* the file are still there.
Lasting(d, f) ==
  Readable(rows[d][f], keyFile) /\ rows'[d] # None /\ keyFile'.state = "written"
    => Readable(rows'[d][f], keyFile')

\* Steps that change the key file, and no row.
LEMMA KeyStepLosesNothing ==
  ASSUME StoreInv, RotationInv, NEW d \in Present, NEW f \in Fields,
         \/ Start \/ DropOldKeys \/ LoseKeyFile
         \/ \E i \in KeyId, m \in KeyValue : RotateKey(i, m)
  PROVE  Lasting(d, f)
<1> DEFINE v == rows[d][f]
<1>1. rows[d] \in Row /\ v \in Stored
  BY DEF StoreInv, TypeOK, Present, Row, Fields
<1> SUFFICES ASSUME Readable(v, keyFile), keyFile'.state = "written", rows' = rows
             PROVE  Readable(v, keyFile')
  BY DEF Lasting, Start, StartWithKey, StartRefused, StartWithoutKey, SaveKey, InitStore, DropOldKeys,
         LoseKeyFile, RotateKey
<1>2. v.form \in {"blank", "legacy"}
      \/ (v.form = "enc" /\ v.keyId \in KeyId /\ v.key \in KeyValue /\ keyFile.keys[v.keyId] = v.key)
  BY <1>1 DEF Readable, Stored, Blank, Damaged, Legacy, Enc
<1>3. CASE v.form \in {"blank", "legacy"}
  BY <1>3 DEF Readable
<1>4. CASE v.form = "enc" /\ v.keyId \in KeyId /\ v.key \in KeyValue /\ keyFile.keys[v.keyId] = v.key
  <2> HIDE DEF v
  <2>1. keyFile.state = "written"
    BY <1>4 DEF RotationInv, KeysInFile, NoKeys
  <2>2. CASE keyFile' = keyFile
    BY <1>4, <2>2 DEF Readable
  <2>3. ASSUME NEW i \in KeyId, NEW m \in KeyValue, RotateKey(i, m) PROVE keyFile'.keys[v.keyId] = v.key
    BY <1>4, <2>3 DEF RotateKey, StoreInv, TypeOK, KeyRing
  <2>4. CASE DropOldKeys
    <3>1. /\ phase = "up" /\ reported = {} /\ loaded.active = keyFile.active
          /\ keyFile' = [keyFile EXCEPT !.keys =
                           [i \in KeyId |-> IF i = keyFile.active THEN @[i] ELSE None]]
      BY <2>4 DEF DropOldKeys
    <3>2. RowCurrent(rows[d], loaded)
      BY <3>1 DEF StoreInv, HealedSoFar, Scanned
    <3>3. v.keyId = keyFile.active
      BY <1>4, <3>1, <3>2 DEF v, RowCurrent, Current, Fields
    <3>4. keyFile'.keys[v.keyId] = v.key
      BY <1>4, <3>1, <3>3 DEF StoreInv, TypeOK, KeyRing
    <3> QED BY <1>4, <3>4 DEF Readable
  <2>5. CASE Start
    BY <2>1, <2>2, <2>5 DEF Start, StartWithKey, StartRefused, StartWithoutKey, SaveKey, RotationInv, KeysInFile
  <2>6. CASE LoseKeyFile
    BY <2>6 DEF LoseKeyFile, NoKeys
  <2> QED BY <1>4, <2>3, <2>4, <2>5, <2>6 DEF Readable
<1> QED BY <1>2, <1>3, <1>4

\* Steps of a start that write rows.
LEMMA StartLosesNothing ==
  ASSUME StoreInv, RotationInv, NEW d \in Present, NEW f \in Fields, Store
  PROVE  Lasting(d, f)
<1>1. keyFile' = keyFile /\ d \in Id /\ rows[d] \in Row
  BY DEF Store, ImportNothing, EndImport, EndScan, Ready, ImportRow, ScanRow, StoreInv, TypeOK, Present
<1>2. CASE UNCHANGED rows
  BY <1>1, <1>2 DEF Lasting
<1>3. ASSUME NEW e \in Id, ScanRow(e) PROVE Lasting(d, f)
  <2>1. phase \in Running /\ rows' = [rows EXCEPT ![e] = RowReencrypted(rows[e], loaded)]
    BY <1>3 DEF ScanRow, Running
  <2>2. rows'[d] = IF d = e THEN RowReencrypted(rows[d], loaded) ELSE rows[d]
    BY <1>1, <2>1 DEF StoreInv, TypeOK
  <2> QED BY <1>1, <2>1, <2>2, ReencryptedReadable DEF RotationInv, Lasting
<1>4. ASSUME NEW e \in Id, ImportRow(e) PROVE Lasting(d, f)
  <2>1. /\ phase \in Running /\ ~migrated /\ e \in DOMAIN LegacyFile
        /\ rows' = [rows EXCEPT ![e] = RowReencrypted(LegacyFile[e], loaded)]
    BY <1>4 DEF ImportRow, Running, StoreInv, StartOrder
  <2>2. rows'[d] = IF d = e THEN RowReencrypted(LegacyFile[d], loaded) ELSE rows[d]
    BY <1>1, <2>1 DEF StoreInv, TypeOK
  <2>3. CASE d = e /\ Undamaged(LegacyFile[d])
    <3>1. LegacyFile[d] \in Row /\ Readable(LegacyFile[d][f], keyFile)
      BY <2>1, <2>3, FileRows DEF Undamaged, Fields
    <3> QED BY <1>1, <2>1, <2>2, <2>3, <3>1, ReencryptedReadable DEF RotationInv, Lasting
  <2>4. CASE d = e /\ ~Undamaged(LegacyFile[d])
    BY <1>1, <2>1, <2>2, <2>4, DamagedIsStuck DEF RotationInv, RowsOfFile, Lasting
  <2>5. CASE d # e
    BY <1>1, <2>2, <2>5 DEF Lasting
  <2> QED BY <2>3, <2>4, <2>5
<1> QED BY <1>2, <1>3, <1>4 DEF Store, ImportNothing, EndImport, EndScan, Ready

\* Steps of the administrator, a crash, and the previous version.
LEMMA EditLosesNothing ==
  ASSUME StoreInv, RotationInv, NEW d \in Present, NEW f \in Fields,
         Administration \/ Crash \/ RollBackImport \/ \E e \in Id, s \in Secret : RollBack(e, s)
  PROVE  Lasting(d, f)
<1>1. keyFile' = keyFile /\ d \in Id /\ rows[d] \in Row /\ rows[d] # None
  BY DEF Administration, CreateInstance, UpdateInstance, DeleteInstance, Edit, Crash, RollBackImport, RollBack,
         StoreInv, TypeOK, Present
<1>2. CASE UNCHANGED rows
  BY <1>1, <1>2 DEF Lasting
<1>3. CASE Administration
  <2>1. /\ phase \in Running
        /\ \/ rows'[d] \in {rows[d], None}
           \/ \E p, a \in Secret \cup {None}, keep \in BOOLEAN :
                rows'[d] = [password |-> Given(p, rows[d].password),
                            account |-> Given(a, IF keep THEN rows[d].account ELSE Blank)]
    BY <1>1, <1>3 DEF Administration, CreateInstance, UpdateInstance, DeleteInstance, Edit, Running,
                      StoreInv, TypeOK
  <2>2. Readable(Blank, keyFile)
    BY DEF Readable, Blank
  <2>3. \A p \in Secret \cup {None}, kept \in {rows[d].password, rows[d].account, Blank} :
          Readable(kept, keyFile) => Readable(Given(p, kept), keyFile)
    BY <2>1, EncryptedReadable DEF RotationInv, Given
  <2>4. CASE rows'[d] \in {rows[d], None}
    BY <1>1, <2>4 DEF Lasting
  <2>5. ASSUME NEW p \in Secret \cup {None}, NEW a \in Secret \cup {None}, NEW keep \in BOOLEAN,
               rows'[d] = [password |-> Given(p, rows[d].password),
                           account |-> Given(a, IF keep THEN rows[d].account ELSE Blank)]
        PROVE  Lasting(d, f)
    <3>1. CASE f = "password"
      <4>1. rows'[d][f] = Given(p, rows[d].password)
        BY <2>5, <3>1
      <4> QED BY <1>1, <2>3, <3>1, <4>1 DEF Lasting
    <3>2. CASE f = "account"
      <4>1. rows'[d][f] = Given(a, IF keep THEN rows[d].account ELSE Blank)
        BY <2>5, <3>2
      <4> QED BY <1>1, <2>2, <2>3, <3>2, <4>1 DEF Lasting
    <3> QED BY <3>1, <3>2 DEF Fields
  <2> QED BY <2>1, <2>4, <2>5
<1>4. CASE RollBackImport
  <2>1. ~migrated /\ (rows'[d] = rows[d] \/ (d \in DOMAIN LegacyFile /\ rows'[d] = LegacyFile[d]))
    BY <1>1, <1>4 DEF RollBackImport
  <2>2. d \in DOMAIN LegacyFile /\ (rows[d] = LegacyFile[d] \/ Undamaged(LegacyFile[d]))
    BY <2>1 DEF RotationInv, RowsOfFile
  <2>3. Undamaged(LegacyFile[d]) => Readable(LegacyFile[d][f], keyFile)
    BY <2>2, FileRows DEF Undamaged, Fields
  <2> QED BY <1>1, <2>1, <2>2, <2>3 DEF Lasting
<1>5. ASSUME NEW e \in Id, NEW s \in Secret, RollBack(e, s) PROVE Lasting(d, f)
  <2>1. rows'[d] = IF d = e THEN [rows[d] EXCEPT !.password = Legacy(s)] ELSE rows[d]
    BY <1>1, <1>5 DEF RollBack, StoreInv, TypeOK
  <2>2. Readable(Legacy(s), keyFile)
    BY DEF Readable, Legacy
  <2>3. rows'[d][f] \in {rows[d][f], Legacy(s)}
    BY <1>1, <2>1 DEF Row, Fields
  <2> QED BY <1>1, <2>2, <2>3 DEF Lasting
<1> QED BY <1>2, <1>3, <1>4, <1>5 DEF Crash

-----------------------------------------------------------------------------
(* Theorems                                                                *)

\* Types, keys, the order of a start, the passwords and the progress of the scan
\* hold together through any crashes, rotations, edits and roll-backs.
THEOREM StoreInvariant == Spec => []StoreInv
<1>1. StoreInv /\ [Next]_vars => StoreInv'
  <2> SUFFICES ASSUME StoreInv, [Next]_vars PROVE StoreInv'
    OBVIOUS
  <2>1. CASE UNCHANGED vars
    BY <2>1 DEF vars, StoreInv, TypeOK, KeysReady, StartOrder, SecretsKept, HealedSoFar, Scanned, Present
  <2>2. CASE Start
    BY <2>2, StartKeeps
  <2>3. CASE Store
    BY <2>3, ImportKeeps, ScanKeeps DEF Store
  <2>4. CASE Administration
    BY <2>4, AdminKeeps
  <2>5. CASE Environment
    BY <2>5, ScanKeeps, OperatorKeeps DEF Environment
  <2> QED BY <2>1, <2>2, <2>3, <2>4, <2>5 DEF Next
<1> QED BY <1>1, Initially, PTL DEF Spec

\* What is stored always stands for what the administrator last meant
\* (migrateFromJsonFile, reencryptAllPasswords, updateInstance with blank fields).
THEOREM SecretsAreKept == Spec => []SecretsKept
<1>1. StoreInv => SecretsKept
  BY DEF StoreInv
<1> QED BY <1>1, StoreInvariant, PTL

\* After a start no password is in clear or under an old key, unless its
\* instance was reported (the self-healing scan of reencryptAllPasswords).
THEOREM ScanHeals == Spec => []Healed
<1>1. StoreInv => Healed
  <2> SUFFICES ASSUME StoreInv, phase \in {"ready", "up"}, NEW d \in Present \ reported
               PROVE  Current(rows[d].password, loaded) /\ Current(rows[d].account, loaded)
    BY DEF Healed, Current
  <2> QED BY DEF StoreInv, HealedSoFar, Scanned, RowCurrent
<1> QED BY <1>1, StoreInvariant, PTL

\* A password that the key file can decrypt stays one, for any number of keys, starts,
\* crashes and roll-backs, until the file is lost: an old key is dropped only after
\* a start that re-encrypted every row (reencryptAllPasswords), and importing
\* databases.json once more after a crash takes nothing away (migrateFromJsonFile).
THEOREM RotationKeeps == Spec => RotationLosesNothing
<1>1. StoreInv /\ RotationInv /\ [Next]_vars => RotationInv'
  BY KeysStay, RowsStayOfFile DEF RotationInv
<1>2. Spec => []RotationInv
  BY <1>1, RotationInit, StoreInvariant, PTL DEF Spec
<1>3. StoreInv /\ RotationInv /\ [Next]_vars =>
        [\A d \in Present, f \in {"password", "account"} :
           Readable(rows[d][f], keyFile) /\ rows'[d] # None /\ keyFile'.state = "written"
             => Readable(rows'[d][f], keyFile')]_vars
  <2> SUFFICES ASSUME StoreInv, RotationInv, Next, NEW d \in Present, NEW f \in Fields
               PROVE  Lasting(d, f)
    BY DEF Lasting, Fields
  <2> QED
    BY KeyStepLosesNothing, StartLosesNothing, EditLosesNothing DEF Next, Environment
<1> QED
  BY <1>2, <1>3, StoreInvariant, PTL DEF Spec, RotationLosesNothing
=============================================================================
