------------------------------ MODULE Sessions ------------------------------
(***************************************************************************)
(* Client sessions (rmdb.cpp), the transaction manager and the record      *)
(* accesses of the executors, on top of the lock manager.  One server      *)
(* thread serves each connection; threads interleave between the calls     *)
(* that take a mutex, and between being granted a record lock and copying  *)
(* the record.  The set of records is fixed here: statements read and      *)
(* update them, in an order the constant Plan gives (module Plans has the  *)
(* executors' orders); inserts and deletes, which change the set, are left *)
(* out.                                                                    *)
(*                                                                         *)
(* seen, readers, writers and precedes are history variables: what each    *)
(* transaction last saw of each record, who accessed it, and the           *)
(* transitively closed order that conflicting accesses impose.             *)
(***************************************************************************)
EXTENDS LockManager, Sequences

CONSTANTS Client,    \* connection slots, each served by one thread at a time
          Plan,      \* the sequences of record accesses a DML statement may make
          MaxTxn     \* bound on the number of transactions begun

Access == {"read", "write"} \X Record

ASSUME SessionAssumption ==
    MaxTxn \in Nat /\ Txn = 0 .. MaxTxn - 1 /\ Plan \subseteq Seq(Access)

INVALID_TXN_ID == -1
Free == "free"       \* no thread has TransactionManager::latch_

VARIABLES next_txn_id,  \* TransactionManager::next_txn_id_
          latch,        \* the thread inside TransactionManager::latch_, or Free
          txn_mode,     \* Transaction::txn_mode_: begun by an explicit BEGIN
          pc,           \* where each thread is in client_handler
          txn_id,       \* client_handler's txn_id
          stmt,         \* kind of the statement being executed
          todo,         \* record accesses it has left
          db,           \* which transaction wrote each record last
          seen, readers, writers, precedes

session_vars == <<next_txn_id, latch, txn_mode, pc, txn_id, stmt, todo>>
data_vars == <<db, seen, readers, writers, precedes>>
vars == <<lm_vars, session_vars, data_vars>>

Kind == {"begin", "commit", "rollback", "error", "dml"}
NoStmt == "none"
Place == {"gone", "waiting", "received", "parse", "run", "copy", "end", "unlock"}
Writer == Txn \cup {INVALID_TXN_ID}   \* INVALID_TXN_ID: never written
Unseen == -2

live_EvenIfFinished(t) == t # INVALID_TXN_ID

\* The test SetTransaction makes before it reuses the session's transaction.
live(t) == t # INVALID_TXN_ID /\ state[t] \notin Finished

Init ==
    /\ LMInit
    /\ next_txn_id = 0 /\ latch = Free
    /\ txn_mode = [t \in Txn |-> FALSE]
    /\ pc = [c \in Client |-> "gone"]
    /\ txn_id = [c \in Client |-> INVALID_TXN_ID]
    /\ stmt = [c \in Client |-> NoStmt]
    /\ todo = [c \in Client |-> <<>>]
    /\ db = [r \in Record |-> INVALID_TXN_ID]
    /\ seen = [t \in Txn |-> [r \in Record |-> Unseen]]
    /\ readers = [r \in Record |-> {}] /\ writers = [r \in Record |-> {}]
    /\ precedes = {}

Goto(c, place) == pc' = [pc EXCEPT ![c] = place]

\* Send the response and go back to read().
Answer(c) == Goto(c, "waiting") /\ stmt' = [stmt EXCEPT ![c] = NoStmt]

-----------------------------------------------------------------------------
\* start_server accepts a connection and its thread enters client_handler.
connect(c) ==
    /\ pc[c] = "gone"
    /\ Goto(c, "waiting")
    /\ UNCHANGED <<lm_vars, next_txn_id, latch, txn_mode, txn_id, stmt, todo, data_vars>>

\* The client closes the connection or says exit, and the thread and its txn_id
\* are gone.  The transaction, if any, is neither committed nor aborted and keeps
\* its locks.
disconnect(c) ==
    /\ pc[c] = "waiting"
    /\ Goto(c, "gone")
    /\ txn_id' = [txn_id EXCEPT ![c] = INVALID_TXN_ID]
    /\ UNCHANGED <<lm_vars, next_txn_id, latch, txn_mode, stmt, todo, data_vars>>

\* MaxTxn bounds the transactions: nobody asks for one that cannot be begun.
IdLeft == next_txn_id + Cardinality({c \in Client : pc[c] = "received" /\ ~live(txn_id[c])}) < MaxTxn

\* read() delivers the next statement.
receive(c) ==
    /\ pc[c] = "waiting"
    /\ live(txn_id[c]) \/ IdLeft
    /\ \E k \in Kind : stmt' = [stmt EXCEPT ![c] = k]
    /\ Goto(c, "received")
    /\ UNCHANGED <<lm_vars, next_txn_id, latch, txn_mode, txn_id, todo, data_vars>>

begin_SameId(c) ==
    /\ txn_id' = [txn_id EXCEPT ![c] = next_txn_id]
    /\ txn_mode' = [txn_mode EXCEPT ![next_txn_id] = FALSE]
    /\ next_txn_id' = next_txn_id

begin_IdAfterIncrement(c) ==
    /\ txn_id' = [txn_id EXCEPT ![c] = next_txn_id + 1]
    /\ txn_mode' = [txn_mode EXCEPT ![next_txn_id] = FALSE]
    /\ next_txn_id' = next_txn_id + 1

\* TransactionManager::begin(nullptr), followed by set_txn_mode(false).
begin(c) ==
    /\ txn_id' = [txn_id EXCEPT ![c] = next_txn_id]
    /\ txn_mode' = [txn_mode EXCEPT ![next_txn_id] = FALSE]
    /\ next_txn_id' = next_txn_id + 1

\* get_transaction and begin each take latch_ for a moment.
SetTransaction(c) ==
    /\ pc[c] = "received" /\ latch = Free
    /\ IF live(txn_id[c]) THEN UNCHANGED <<txn_id, txn_mode, next_txn_id>>
       ELSE next_txn_id < MaxTxn /\ begin(c)
    /\ Goto(c, "parse")
    /\ UNCHANGED <<lm_vars, latch, stmt, todo, data_vars>>

\* Parse and analyse under buffer_mutex, plan, and what a utility statement does.
\* An RMDBError is reported and leaves the transaction as it is.
analyze(c) ==
    /\ pc[c] = "parse"
    /\ \/ stmt[c] = "error" /\ Answer(c) /\ UNCHANGED <<txn_mode, todo>>
       \/ /\ stmt[c] = "begin" /\ Answer(c) /\ UNCHANGED todo
          /\ txn_mode' = [txn_mode EXCEPT ![txn_id[c]] = TRUE]
       \/ stmt[c] \in {"commit", "rollback"} /\ Goto(c, "end") /\ UNCHANGED <<txn_mode, todo, stmt>>
       \/ /\ stmt[c] = "dml" /\ Goto(c, "run") /\ UNCHANGED <<txn_mode, stmt>>
          /\ \E plan \in Plan : todo' = [todo EXCEPT ![c] = plan]
    /\ UNCHANGED <<lm_vars, next_txn_id, latch, txn_id, data_vars>>

\* get_record and update_record lock the record before they fetch its page; the
\* exception of a refused lock unwinds to client_handler, which aborts.
lock_record(c) ==
    LET t == txn_id[c]
        op == Head(todo[c])[1]
        r == Head(todo[c])[2]
    IN /\ pc[c] = "run" /\ todo[c] # <<>>
       /\ IF op = "read" THEN lock_shared_on_record(t, r) ELSE lock_exclusive_on_record(t, r)
       /\ \/ /\ result'[t] = "throw" /\ Goto(c, "end")
             /\ stmt' = [stmt EXCEPT ![c] = "rollback"]
             /\ todo' = [todo EXCEPT ![c] = <<>>]
          \/ result'[t] # "throw" /\ Goto(c, "copy") /\ UNCHANGED <<stmt, todo>>
       /\ UNCHANGED <<next_txn_id, latch, txn_mode, txn_id, data_vars>>

\* The transactions whose earlier accesses to r conflict with op.
Conflicting(t, op, r) ==
    (IF op = "read" THEN writers[r] ELSE writers[r] \cup readers[r]) \ {t}

\* The transitive closure of R with an arc from every member of S to t added.
AddArcs(R, S, t) ==
    R \cup ((S \cup {u \in Txn : \E v \in S : <<u, v>> \in R}) \X
           ({t} \cup {u \in Txn : <<t, u>> \in R}))

\* memcpy out of or into the slot of a record whose lock was granted.
copy_record(c) ==
    LET t == txn_id[c]
        op == Head(todo[c])[1]
        r == Head(todo[c])[2]
    IN /\ pc[c] = "copy"
       /\ db' = IF op = "write" THEN [db EXCEPT ![r] = t] ELSE db
       /\ seen' = [seen EXCEPT ![t][r] = db'[r]]
       /\ readers' = [readers EXCEPT ![r] = @ \cup {t}]
       /\ writers' = IF op = "write" THEN [writers EXCEPT ![r] = @ \cup {t}] ELSE writers
       /\ precedes' = AddArcs(precedes, Conflicting(t, op, r), t)
       /\ todo' = [todo EXCEPT ![c] = Tail(@)]
       /\ Goto(c, "run")
       /\ UNCHANGED <<lm_vars, next_txn_id, latch, txn_mode, txn_id, stmt>>

\* The statement is done and its result sent.  The code that would commit the
\* transaction of a single statement here is commented out.
respond(c) ==
    /\ pc[c] = "run" /\ todo[c] = <<>>
    /\ Answer(c)
    /\ UNCHANGED <<lm_vars, next_txn_id, latch, txn_mode, txn_id, todo, data_vars>>

enter_end_ClearsLockSet(c) ==
    /\ pc[c] = "end" /\ latch = Free
    /\ latch' = c
    /\ lock_set' = [lock_set EXCEPT ![txn_id[c]] = {}]
    /\ Goto(c, "unlock")
    /\ UNCHANGED <<state, lock_table, result, next_txn_id, txn_mode, txn_id, stmt, todo, data_vars>>

\* commit and abort: take latch_.  write_set_ is empty in every run, because no
\* executor appends to it, so that abort's undo loop has nothing to restore.
enter_end(c) ==
    /\ pc[c] = "end" /\ latch = Free
    /\ latch' = c
    /\ Goto(c, "unlock")
    /\ UNCHANGED <<lm_vars, next_txn_id, txn_mode, txn_id, stmt, todo, data_vars>>


\* The part of lock_set_ their loop has not reached.
StillLocked(t) == {d \in lock_set[t] : Holds(t, d)}

\* One turn of their loop over lock_set_, in the order of an unordered_set.
release_one(c) ==
    /\ pc[c] = "unlock"
    /\ \E d \in StillLocked(txn_id[c]) : unlock(txn_id[c], d)
    /\ UNCHANGED <<session_vars, data_vars>>

\* The loop is over: clear lock_set_, set the state and release latch_.
end_txn(c) ==
    /\ pc[c] = "unlock" /\ StillLocked(txn_id[c]) = {}
    /\ finish(txn_id[c])
    /\ state'[txn_id[c]] = IF stmt[c] = "commit" THEN "COMMITTED" ELSE "ABORTED"
    /\ latch' = Free
    /\ Answer(c)
    /\ UNCHANGED <<next_txn_id, txn_mode, txn_id, todo, data_vars>>

\* What a thread does by itself once it has a statement.
work(c) ==
    \/ SetTransaction(c) \/ analyze(c) \/ lock_record(c) \/ copy_record(c)
    \/ respond(c) \/ enter_end(c) \/ release_one(c) \/ end_txn(c)

Next == \E c \in Client : connect(c) \/ disconnect(c) \/ receive(c) \/ work(c)

Spec == Init /\ [][Next]_vars

\* Every thread is scheduled.
FairSpec == Spec /\ \A c \in Client : WF_vars(work(c))

-----------------------------------------------------------------------------
\* Every variable holds a value of its type.
TypeOK ==
    /\ LMTypeOK
    /\ next_txn_id \in 0 .. MaxTxn
    /\ latch \in Client \cup {Free}
    /\ txn_mode \in [Txn -> BOOLEAN]
    /\ pc \in [Client -> Place]
    /\ txn_id \in [Client -> Writer]
    /\ stmt \in [Client -> Kind \cup {NoStmt}]
    /\ todo \in [Client -> Seq(Access)]
    /\ db \in [Record -> Writer]
    /\ seen \in [Txn -> [Record -> Writer \cup {Unseen}]]
    /\ readers \in [Record -> SUBSET Txn] /\ writers \in [Record -> SUBSET Txn]
    /\ precedes \in SUBSET (Txn \X Txn)

\* Conflicting record accesses put the transactions in an order without cycles,
\* with locks taken one record at a time, upgraded while others read, refused
\* at any point, and released one by one by commit and abort.
Serializable == \A t \in Txn : <<t, t>> \notin precedes

\* Until a transaction starts to release locks, no other can change what it has
\* read or written: the copy made after the lock call returned is still current.
RepeatableReads ==
    \A t \in Txn, r \in Record :
        state[t] = "GROWING" /\ seen[t][r] # Unseen => db[r] = seen[t][r]

\* commit and abort leave no lock behind: what they walk is lock_set_, what must
\* be empty afterwards are the queues.
FinishedHoldNothing == \A t \in Txn : state[t] \in Finished => HeldBy(t) = {}

\* A statement only ever locks for a live transaction that has not begun to
\* release locks, so that the lock methods never return false, which get_record
\* and update_record would ignore, and never throw LOCK_ON_SHIRINKING.
ExecutesInGrowingPhase ==
    \A c \in Client : pc[c] \in {"run", "copy"} => state[txn_id[c]] \in {"DEFAULT", "GROWING"}

\* No two connections work for the same live transaction: the assertion on the
\* thread id in get_transaction.
OwnTransaction ==
    \A c, d \in Client :
        c # d /\ txn_id[c] # INVALID_TXN_ID => txn_id[c] # txn_id[d]


\* transaction_manager.cpp:91 says abort rolls all writes back; no executor
\* records its writes, so that they stay.
AbortedWritesUndone == \A r \in Record : db[r] # INVALID_TXN_ID => state[db[r]] # "ABORTED"
=============================================================================
