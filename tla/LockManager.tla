---------------------------- MODULE LockManager ----------------------------
(***************************************************************************)
(* The lock manager of src/transaction/concurrency: strict no-wait locking *)
(* of records and tables.  Every public method runs under the one mutex    *)
(* latch_, so each is one atomic action.  A conflict throws                *)
(* TransactionAbortException at once, nobody ever waits on the queue's     *)
(* condition variable.                                                     *)
(*                                                                         *)
(* The specification lets every transaction call every method in any       *)
(* order: what is shown of it holds whatever the callers do.  Definitions  *)
(* named Definition_Change are deliberately wrong variants of the one that *)
(* follows, used to see that a property would notice the mistake.          *)
(***************************************************************************)
EXTENDS Integers, FiniteSets, FiniteSetsExt

CONSTANTS Txn,     \* transaction ids
          Record,  \* record-level LockDataIds: (table file, rid)
          Table    \* table-level LockDataIds

ASSUME LockAssumption == IsFiniteSet(Txn) /\ Record \cap Table = {}

VARIABLES state,       \* Transaction::state_
          lock_set,    \* Transaction::lock_set_
          lock_table,  \* LockManager::lock_table_
          result       \* how the transaction's latest call ended

lm_vars == <<state, lock_set, lock_table, result>>

DataId == Record \cup Table

TransactionState == {"DEFAULT", "GROWING", "SHRINKING", "COMMITTED", "ABORTED"}
Finished == {"COMMITTED", "ABORTED"}

\* The enumerators of LockMode and the integers static_cast<int> gives them.
ModeInt == [SHARED |-> 0, EXLUCSIVE |-> 1, INTENTION_SHARED |-> 2,
            INTENTION_EXCLUSIVE |-> 3, S_IX |-> 4]
LockMode == {"SHARED", "EXLUCSIVE", "INTENTION_SHARED", "INTENTION_EXCLUSIVE", "S_IX"}

\* static_cast<GroupLockMode>(i) for i >= 1; enumerator 0 is NON_LOCK.
GroupOfInt == <<"IS", "IX", "S", "X", "SIX">>
GroupLockMode == {"NON_LOCK", "IS", "IX", "S", "X", "SIX"}

\* A LockRequestQueue.  A transaction has at most one request in a queue (every
\* method looks for it before it appends one) and the order of the requests is
\* never used, so request_queue_ is a function; "NONE" is no request.  A missing
\* entry of lock_table_ and an empty queue behave alike.
LockRequestQueue ==
    [mode : [Txn -> LockMode \cup {"NONE"}], group : GroupLockMode,
     shared_lock_num : Nat, IX_lock_num : Nat]

EmptyQueue == [mode |-> [t \in Txn |-> "NONE"], group |-> "NON_LOCK",
               shared_lock_num |-> 0, IX_lock_num |-> 0]

\* What the lock methods do to their caller: return true, return false, throw.
Result == {"none", "true", "false", "throw"}

-----------------------------------------------------------------------------
Mode(t, d) == lock_table[d].mode[t]
Group(d) == lock_table[d].group
Holds(t, d) == Mode(t, d) # "NONE"
HeldBy(t) == {d \in DataId : Holds(t, d)}

OnlyRequest_NotChecked(t, d) == TRUE

\* request_queue_.size() == 1, in the branches where t's request is in the queue.
OnlyRequest(t, d) == \A u \in Txn \ {t} : ~Holds(u, d)

Return(t, r) == result' = [result EXCEPT ![t] = r]

\* Put t's request for d into mode m and update the queue's summary.
SetRequest(t, d, m, g, shared, ix) ==
    lock_table' = [lock_table EXCEPT ![d] =
        [mode |-> [@.mode EXCEPT ![t] = m], group |-> g,
         shared_lock_num |-> @.shared_lock_num + shared,
         IX_lock_num |-> @.IX_lock_num + ix]]

AppendRequest_NotInLockSet(t, d, m, g, shared, ix) ==
    SetRequest(t, d, m, g, shared, ix) /\ UNCHANGED lock_set /\ Return(t, "true")

UpgradeRequest_NotCounted(t, d, m, g, shared, ix) ==
    SetRequest(t, d, m, g, 0, 0) /\ UNCHANGED lock_set /\ Return(t, "true")

\* The four ways a lock method ends once check_lock has let it in.
AppendRequest(t, d, m, g, shared, ix) ==
    /\ SetRequest(t, d, m, g, shared, ix)
    /\ lock_set' = [lock_set EXCEPT ![t] = @ \cup {d}]
    /\ Return(t, "true")

UpgradeRequest(t, d, m, g, shared, ix) ==
    /\ SetRequest(t, d, m, g, shared, ix)
    /\ UNCHANGED lock_set
    /\ Return(t, "true")

AlreadyGranted(t) == UNCHANGED <<lock_table, lock_set>> /\ Return(t, "true")
Throw(t) == UNCHANGED <<lock_table, lock_set>> /\ Return(t, "throw")

-----------------------------------------------------------------------------
LMInit ==
    /\ state = [t \in Txn |-> "DEFAULT"]
    /\ lock_set = [t \in Txn |-> {}]
    /\ lock_table = [d \in DataId |-> EmptyQueue]
    /\ result = [t \in Txn |-> "none"]

check_lock_WhileShrinking(t) ==
    state[t] \notin Finished /\ state' = [state EXCEPT ![t] = "GROWING"]

\* check_lock lets the call in; the first lock starts the growing phase.
check_lock(t) ==
    /\ state[t] \in {"DEFAULT", "GROWING"}
    /\ state' = [state EXCEPT ![t] = "GROWING"]

\* check_lock turns the call away, whichever lock method it was.
check_lock_fails(t) ==
    /\ \/ state[t] \in Finished /\ Return(t, "false")
       \/ state[t] = "SHRINKING" /\ Return(t, "throw")
    /\ UNCHANGED <<state, lock_set, lock_table>>

lock_shared_on_record_NotQueued(t, d) == check_lock(t) /\ AlreadyGranted(t)

lock_shared_on_record(t, d) ==
    /\ check_lock(t)
    /\ \/ Holds(t, d) /\ AlreadyGranted(t)
       \/ ~Holds(t, d) /\ Group(d) \in {"X", "IX", "SIX"} /\ Throw(t)
       \/ /\ ~Holds(t, d) /\ Group(d) \notin {"X", "IX", "SIX"}
          /\ AppendRequest(t, d, "SHARED", "S", 1, 0)

lock_exclusive_on_record(t, d) ==
    /\ check_lock(t)
    /\ \/ Mode(t, d) = "EXLUCSIVE" /\ AlreadyGranted(t)
       \/ /\ Mode(t, d) = "SHARED" /\ OnlyRequest(t, d)
          /\ UpgradeRequest(t, d, "EXLUCSIVE", "X", 0, 0)
       \/ /\ Holds(t, d) /\ Mode(t, d) # "EXLUCSIVE"
          /\ ~(Mode(t, d) = "SHARED" /\ OnlyRequest(t, d))
          /\ Throw(t)
       \/ ~Holds(t, d) /\ Group(d) # "NON_LOCK" /\ Throw(t)
       \/ /\ ~Holds(t, d) /\ Group(d) = "NON_LOCK"
          /\ AppendRequest(t, d, "EXLUCSIVE", "X", 0, 0)

lock_shared_on_table(t, d) ==
    /\ check_lock(t)
    /\ \/ Mode(t, d) \in {"SHARED", "EXLUCSIVE", "S_IX"} /\ AlreadyGranted(t)
       \/ /\ Mode(t, d) = "INTENTION_SHARED" /\ Group(d) \in {"S", "IS"}
          /\ UpgradeRequest(t, d, "SHARED", "S", 1, 0)
       \/ /\ Mode(t, d) = "INTENTION_EXCLUSIVE" /\ lock_table[d].IX_lock_num = 1
          /\ UpgradeRequest(t, d, "S_IX", "SIX", 1, 0)
       \/ /\ \/ Mode(t, d) = "INTENTION_SHARED" /\ Group(d) \notin {"S", "IS"}
             \/ Mode(t, d) = "INTENTION_EXCLUSIVE" /\ lock_table[d].IX_lock_num # 1
          /\ Throw(t)
       \/ ~Holds(t, d) /\ Group(d) \in {"X", "IX", "SIX"} /\ Throw(t)
       \/ /\ ~Holds(t, d) /\ Group(d) \notin {"X", "IX", "SIX"}
          /\ AppendRequest(t, d, "SHARED", "S", 1, 0)

lock_exclusive_on_table(t, d) ==
    /\ check_lock(t)
    /\ \/ Mode(t, d) = "EXLUCSIVE" /\ AlreadyGranted(t)
       \/ /\ Holds(t, d) /\ Mode(t, d) # "EXLUCSIVE" /\ OnlyRequest(t, d)
          /\ UpgradeRequest(t, d, "EXLUCSIVE", "X", 0, 0)
       \/ Holds(t, d) /\ Mode(t, d) # "EXLUCSIVE" /\ ~OnlyRequest(t, d) /\ Throw(t)
       \/ ~Holds(t, d) /\ Group(d) # "NON_LOCK" /\ Throw(t)
       \/ /\ ~Holds(t, d) /\ Group(d) = "NON_LOCK"
          /\ AppendRequest(t, d, "EXLUCSIVE", "X", 0, 0)

lock_IS_on_table(t, d) ==
    /\ check_lock(t)
    /\ \/ Holds(t, d) /\ AlreadyGranted(t)
       \/ ~Holds(t, d) /\ Group(d) = "X" /\ Throw(t)
       \/ /\ ~Holds(t, d) /\ Group(d) # "X"
          /\ AppendRequest(t, d, "INTENTION_SHARED",
                           IF Group(d) = "NON_LOCK" THEN "IS" ELSE Group(d), 0, 0)

lock_IX_on_table(t, d) ==
    /\ check_lock(t)
    /\ \/ Mode(t, d) \in {"INTENTION_EXCLUSIVE", "S_IX", "EXLUCSIVE"} /\ AlreadyGranted(t)
       \/ /\ Mode(t, d) = "SHARED" /\ lock_table[d].shared_lock_num = 1
          /\ UpgradeRequest(t, d, "S_IX", "SIX", 0, 1)
       \/ /\ Mode(t, d) = "INTENTION_SHARED" /\ Group(d) \in {"IS", "IX"}
          /\ UpgradeRequest(t, d, "INTENTION_EXCLUSIVE", "IX", 0, 1)
       \/ /\ \/ Mode(t, d) = "SHARED" /\ lock_table[d].shared_lock_num # 1
             \/ Mode(t, d) = "INTENTION_SHARED" /\ Group(d) \notin {"IS", "IX"}
          /\ Throw(t)
       \/ ~Holds(t, d) /\ Group(d) \in {"S", "SIX", "X"} /\ Throw(t)
       \/ /\ ~Holds(t, d) /\ Group(d) \notin {"S", "SIX", "X"}
          /\ AppendRequest(t, d, "INTENTION_EXCLUSIVE", "IX", 0, 1)

RecomputedGroup_NotShifted(modes) ==
    IF modes = {} THEN "NON_LOCK"
    ELSE GroupOfInt[Max({ModeInt[m] : m \in modes \cup {"INTENTION_SHARED"}})]

\* The group mode unlock recomputes for a queue that still holds `modes': the
\* greatest LockMode integer, from INTENTION_SHARED up, plus one.
RecomputedGroup(modes) ==
    IF modes = {} THEN "NON_LOCK"
    ELSE GroupOfInt[Max({ModeInt[m] : m \in modes \cup {"INTENTION_SHARED"}}) + 1]

RemoveRequest_AlwaysDecrements(q, t) ==
    [mode |-> [q.mode EXCEPT ![t] = "NONE"],
     group |-> RecomputedGroup({q.mode[u] : u \in Txn \ {t}} \ {"NONE"}),
     shared_lock_num |-> q.shared_lock_num - 1, IX_lock_num |-> q.IX_lock_num - 1]

\* The queue after unlock erased t's request and updated the counters.
RemoveRequest(q, t) ==
    [mode |-> [q.mode EXCEPT ![t] = "NONE"],
     group |-> RecomputedGroup({q.mode[u] : u \in Txn \ {t}} \ {"NONE"}),
     shared_lock_num |-> q.shared_lock_num - (IF q.mode[t] \in {"SHARED", "S_IX"} THEN 1 ELSE 0),
     IX_lock_num |-> q.IX_lock_num - (IF q.mode[t] \in {"INTENTION_EXCLUSIVE", "S_IX"} THEN 1 ELSE 0)]

\* unlock of a finished transaction returns false and changes nothing.
unlock(t, d) ==
    /\ state[t] \notin Finished
    /\ state' = [state EXCEPT ![t] = IF @ = "GROWING" THEN "SHRINKING" ELSE @]
    /\ lock_table' = IF Holds(t, d)
                     THEN [lock_table EXCEPT ![d] = RemoveRequest(@, t)]
                     ELSE lock_table
    /\ UNCHANGED lock_set
    /\ Return(t, "true")

\* The caller's end of a transaction: lock_set_->clear() and set_state.
finish(t) ==
    /\ state[t] \notin Finished
    /\ \E s \in Finished : state' = [state EXCEPT ![t] = s]
    /\ lock_set' = [lock_set EXCEPT ![t] = {}]
    /\ UNCHANGED lock_table
    /\ Return(t, "none")

LMNext ==
    \E t \in Txn :
        \/ check_lock_fails(t)
        \/ \E d \in Record : lock_shared_on_record(t, d) \/ lock_exclusive_on_record(t, d)
        \/ \E d \in Table : \/ lock_shared_on_table(t, d) \/ lock_exclusive_on_table(t, d)
                            \/ lock_IS_on_table(t, d) \/ lock_IX_on_table(t, d)
        \/ \E d \in DataId : unlock(t, d)
        \/ finish(t)

LMSpec == LMInit /\ [][LMNext]_lm_vars

-----------------------------------------------------------------------------
\* The variables hold values of the classes' member types, and the counters that
\* unlock decrements never go below zero.
LMTypeOK ==
    /\ state \in [Txn -> TransactionState]
    /\ lock_set \in [Txn -> SUBSET DataId]
    /\ lock_table \in [DataId -> LockRequestQueue]
    /\ result \in [Txn -> Result]

\* The multi-granularity compatibility matrix.
CompatibleWith ==
    [SHARED |-> {"SHARED", "INTENTION_SHARED"},
     EXLUCSIVE |-> {},
     INTENTION_SHARED |-> {"SHARED", "INTENTION_SHARED", "INTENTION_EXCLUSIVE", "S_IX"},
     INTENTION_EXCLUSIVE |-> {"INTENTION_SHARED", "INTENTION_EXCLUSIVE"},
     S_IX |-> {"INTENTION_SHARED"}]

\* No two transactions ever hold incompatible locks on one record or table,
\* although the lock methods consult only the queue's group mode, its size and
\* two counters, and unlock and upgrades let these drift from the requests.
LockCompatibility ==
    \A d \in DataId : \A t, u \in Txn :
        t # u /\ Holds(t, d) /\ Holds(u, d) => Mode(u, d) \in CompatibleWith[Mode(t, d)]

\* The summary of a queue never understates its requests: the group mode is at
\* least as exclusive as every request in it, the counters are at least the
\* numbers of S and IX locks held.  Every grant and upgrade decision rests on it.
SharedHolders(d) == {t \in Txn : Mode(t, d) \in {"SHARED", "S_IX"}}
IXHolders(d) == {t \in Txn : Mode(t, d) \in {"INTENTION_EXCLUSIVE", "S_IX"}}

GroupCovers ==
    [NONE |-> GroupLockMode, SHARED |-> {"S"}, EXLUCSIVE |-> {"X"},
     INTENTION_SHARED |-> GroupLockMode \ {"NON_LOCK"},
     INTENTION_EXCLUSIVE |-> {"IX", "X"}, S_IX |-> {"SIX"}]

SummarySound ==
    \A d \in DataId :
        /\ \A t \in Txn : Group(d) \in GroupCovers[Mode(t, d)]
        /\ Cardinality(SharedHolders(d)) <= lock_table[d].shared_lock_num
        /\ Cardinality(IXHolders(d)) <= lock_table[d].IX_lock_num

\* Every lock a live transaction holds is in its lock_set_: commit and abort walk
\* that set to release locks, so a lock missing from it would never be released.
LocksTracked ==
    \A t \in Txn : state[t] \notin Finished => HeldBy(t) \subseteq lock_set[t]

\* Two-phase locking: a transaction that has given up a lock, or ended, never
\* holds a lock it did not hold before.
TwoPhase ==
    [][\A t \in Txn :
         /\ (HeldBy(t) \ HeldBy(t)' # {}) => state'[t] \notin {"DEFAULT", "GROWING"}
         /\ state[t] \notin {"DEFAULT", "GROWING"} =>
                HeldBy(t)' \subseteq HeldBy(t) /\ state'[t] \notin {"DEFAULT", "GROWING"}]_lm_vars
=============================================================================
