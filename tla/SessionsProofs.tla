--------------------------- MODULE SessionsProofs ---------------------------
(***************************************************************************)
(* Proofs about client sessions, for any clients, records and number of    *)
(* transactions and any plans of record accesses: the sessions use the     *)
(* lock manager as its specification allows, and the locks they take make  *)
(* every execution serializable.                                           *)
(*                                                                         *)
(* The inductive invariant has three parts: who owns which transaction and *)
(* in which phase it is, what a thread about to copy a record holds, and   *)
(* what a transaction that has not begun to release holds of what it has   *)
(* accessed.  Everything about the lock table itself is inherited from the *)
(* lock manager's theorems through the refinement.                         *)
(***************************************************************************)
EXTENDS Sessions, LockManagerProofs

Growing == {"DEFAULT", "GROWING"}

\* Session state of a thread c.
SessionOK(c) ==
    /\ pc[c] \in {"parse", "run", "copy", "end", "unlock"} =>
            txn_id[c] # INVALID_TXN_ID /\ state[txn_id[c]] \notin Finished
    /\ txn_id[c] # INVALID_TXN_ID =>
            /\ txn_id[c] < next_txn_id
            /\ pc[c] # "unlock" => state[txn_id[c]] # "SHRINKING"
    /\ pc[c] = "copy" =>
            /\ todo[c] # <<>>
            /\ Mode(txn_id[c], Head(todo[c])[2]) \in
                  IF Head(todo[c])[1] = "read" THEN {"SHARED", "EXLUCSIVE"} ELSE {"EXLUCSIVE"}

\* What transaction t holds and has done.
TxnOK(t) ==
    /\ t >= next_txn_id => state[t] = "DEFAULT"
    /\ state[t] \in Finished => HeldBy(t) = {}
    /\ \A r \in Record :
          /\ Mode(t, r) \in {"NONE", "SHARED", "EXLUCSIVE"}
          /\ t \in writers[r] => t \in readers[r]
          /\ seen[t][r] # Unseen => t \in readers[r]
          /\ state[t] \in Growing =>
                /\ t \in readers[r] => Holds(t, r)
                /\ t \in writers[r] => Mode(t, r) = "EXLUCSIVE"
                /\ seen[t][r] # Unseen => db[r] = seen[t][r]
    /\ \A u \in Txn : <<t, u>> \in precedes => state[t] \notin Growing

SInv ==
    /\ TypeOK
    /\ LMInv
    /\ PhaseInv
    /\ \A c \in Client : SessionOK(c)
    /\ OwnTransaction
    /\ \A t \in Txn : TxnOK(t)
    /\ Serializable

USE SessionAssumption DEF INVALID_TXN_ID

\* The part of SInv that is not inherited from the lock manager.
OwnInv ==
    /\ TypeOK
    /\ \A c \in Client : SessionOK(c)
    /\ OwnTransaction
    /\ \A t \in Txn : TxnOK(t)
    /\ Serializable

\* The accesses a thread still has to make are accesses to records.
LEMMA NextAccess ==
    ASSUME TypeOK, NEW c \in Client, todo[c] # <<>>
    PROVE  /\ Head(todo[c]) \in Access /\ Tail(todo[c]) \in Seq(Access)
           /\ Head(todo[c])[1] \in {"read", "write"} /\ Head(todo[c])[2] \in Record
<1>1. todo[c] \in Seq(Access)
  BY DEF TypeOK
<1>2. Head(todo[c]) \in Access /\ Tail(todo[c]) \in Seq(Access)
  BY <1>1
<1> QED
  BY <1>2 DEF Access

\* What the record lock methods do to the modes and to their caller.
LEMMA RecordLockCall ==
    ASSUME LMTypeOK, NEW t \in Txn, NEW r \in Record, NEW op \in {"read", "write"},
           IF op = "read" THEN lock_shared_on_record(t, r) ELSE lock_exclusive_on_record(t, r),
           Mode(t, r) \in {"NONE", "SHARED", "EXLUCSIVE"}
    PROVE  /\ state[t] \in Growing /\ state' = [state EXCEPT ![t] = "GROWING"]
           /\ \A u \in Txn, d \in DataId : u # t \/ d # r => Mode(u, d)' = Mode(u, d)
           /\ \/ Mode(t, r)' = Mode(t, r)
              \/ Mode(t, r) = "NONE" /\ Mode(t, r)' = "SHARED"
              \/ Mode(t, r)' = "EXLUCSIVE"
           /\ result'[t] # "throw" =>
                Mode(t, r)' \in IF op = "read" THEN {"SHARED", "EXLUCSIVE"} ELSE {"EXLUCSIVE"}
<1> r \in DataId
  BY DEF DataId
<1>1. state[t] \in Growing /\ state' = [state EXCEPT ![t] = "GROWING"]
  BY DEF lock_shared_on_record, lock_exclusive_on_record, check_lock, Growing
<1>2. CASE UNCHANGED lock_table /\ result' = [result EXCEPT ![t] = "throw"]
  BY <1>1, <1>2 DEF Mode, LMTypeOK
<1>3. CASE /\ UNCHANGED lock_table
           /\ Mode(t, r) \in IF op = "read" THEN {"SHARED", "EXLUCSIVE"} ELSE {"EXLUCSIVE"}
  BY <1>1, <1>3 DEF Mode
<1>4. ASSUME NEW m \in {"SHARED", "EXLUCSIVE"}, NEW g, NEW sh,
             SetRequest(t, r, m, g, sh, 0), m = "SHARED" => op = "read" /\ Mode(t, r) = "NONE"
      PROVE  /\ \A u \in Txn, d \in DataId : u # t \/ d # r => Mode(u, d)' = Mode(u, d)
             /\ Mode(t, r)' = m
  BY <1>4 DEF SetRequest, Mode, LMTypeOK, LockRequestQueue
<1>5. CASE op = "read" /\ ~Holds(t, r) /\ SetRequest(t, r, "SHARED", "S", 1, 0)
  BY <1>1, <1>4, <1>5 DEF Holds
<1>6. CASE SetRequest(t, r, "EXLUCSIVE", "X", 0, 0)
  BY <1>1, <1>4, <1>6
<1>7. CASE op = "read"
  BY <1>2, <1>3, <1>5, <1>7
     DEF lock_shared_on_record, AlreadyGranted, Throw, AppendRequest, Return, Holds
<1>8. CASE op = "write"
  BY <1>2, <1>3, <1>6, <1>8
     DEF lock_exclusive_on_record, AlreadyGranted, Throw, AppendRequest, UpgradeRequest, Return
<1> QED
  BY <1>7, <1>8

\* Every step of the sessions is a step of the lock manager or leaves it alone.
LEMMA StepRefines ==
    ASSUME OwnInv, [Next]_vars
    PROVE  [LMNext]_lm_vars
<1>1. ASSUME NEW c \in Client, lock_record(c) PROVE LMNext
  <2>1. txn_id[c] \in Txn /\ Head(todo[c])[2] \in Record
    BY <1>1, NextAccess DEF lock_record, OwnInv, SessionOK, TypeOK, Writer
  <2> QED
    BY <1>1, <2>1 DEF lock_record, LMNext
<1>2. ASSUME NEW c \in Client, release_one(c) PROVE LMNext
  <2>1. txn_id[c] \in Txn
    BY <1>2 DEF release_one, OwnInv, SessionOK, TypeOK, Writer
  <2>2. lock_set[txn_id[c]] \subseteq DataId
    BY <2>1 DEF OwnInv, TypeOK, LMTypeOK
  <2> QED
    BY <1>2, <2>1, <2>2 DEF release_one, StillLocked, LMNext
<1>3. ASSUME NEW c \in Client, end_txn(c) PROVE LMNext
  <2>1. txn_id[c] \in Txn
    BY <1>3 DEF end_txn, OwnInv, SessionOK, TypeOK, Writer
  <2> QED
    BY <1>3, <2>1 DEF end_txn, LMNext
<1>4. ASSUME NEW c \in Client,
             connect(c) \/ disconnect(c) \/ receive(c) \/ SetTransaction(c) \/ analyze(c)
             \/ copy_record(c) \/ respond(c) \/ enter_end(c)
      PROVE  UNCHANGED lm_vars
  BY <1>4 DEF connect, disconnect, receive, SetTransaction, analyze, copy_record, respond, enter_end
<1>5. CASE UNCHANGED vars
  BY <1>5 DEF vars
<1> QED
  BY <1>1, <1>2, <1>3, <1>4, <1>5 DEF Next, work

-----------------------------------------------------------------------------
\* Steps that touch neither the lock manager nor the data.
LEMMA QuietStep ==
    ASSUME OwnInv, NEW c \in Client,
           connect(c) \/ disconnect(c) \/ receive(c) \/ SetTransaction(c) \/ analyze(c)
           \/ respond(c) \/ enter_end(c)
    PROVE  OwnInv'
<1> USE DEF Goto, Answer
<1>1. UNCHANGED <<lm_vars, data_vars>>
  BY DEF connect, disconnect, receive, SetTransaction, analyze, respond, enter_end
<1>2. UNCHANGED <<state, lock_set, lock_table, result, db, seen, readers, writers, precedes>>
  BY <1>1 DEF lm_vars, data_vars
<1>3. /\ next_txn_id \in 0 .. MaxTxn /\ txn_id \in [Client -> Writer] /\ txn_mode \in [Txn -> BOOLEAN]
      /\ pc \in [Client -> Place] /\ stmt \in [Client -> Kind \cup {NoStmt}]
      /\ todo \in [Client -> Seq(Access)] /\ latch \in Client \cup {Free}
  BY DEF OwnInv, TypeOK
<1>4. \/ UNCHANGED <<txn_id, next_txn_id>>
      \/ UNCHANGED next_txn_id /\ txn_id' = [txn_id EXCEPT ![c] = INVALID_TXN_ID]
         /\ pc' = [pc EXCEPT ![c] = "gone"]
      \/ /\ next_txn_id < MaxTxn /\ next_txn_id' = next_txn_id + 1
         /\ txn_id' = [txn_id EXCEPT ![c] = next_txn_id]
         /\ pc' = [pc EXCEPT ![c] = "parse"]
  BY DEF connect, disconnect, receive, SetTransaction, analyze, respond, enter_end, begin
<1>5. next_txn_id' \in 0 .. MaxTxn /\ txn_id' \in [Client -> Writer] /\ next_txn_id' >= next_txn_id
  <2>1. CASE /\ UNCHANGED next_txn_id
             /\ UNCHANGED txn_id \/ txn_id' = [txn_id EXCEPT ![c] = INVALID_TXN_ID]
    <3>1. txn_id' \in [Client -> Writer]
      BY <2>1, <1>3 DEF Writer
    <3> QED
      BY <2>1, <3>1, <1>3
  <2>2. CASE /\ next_txn_id < MaxTxn /\ next_txn_id' = next_txn_id + 1
             /\ txn_id' = [txn_id EXCEPT ![c] = next_txn_id]
    <3>1. next_txn_id \in Txn
      BY <2>2, <1>3
    <3>2. txn_id' \in [Client -> Writer]
      BY <2>2, <3>1, <1>3 DEF Writer
    <3> QED
      BY <2>2, <3>2, <1>3
  <2> QED
    BY <2>1, <2>2, <1>4
<1>6. TypeOK'
  <2>1. LMTypeOK'
    BY <1>2 DEF OwnInv, TypeOK, LMTypeOK
  <2>2. db' \in [Record -> Writer] /\ seen' \in [Txn -> [Record -> Writer \cup {Unseen}]]
        /\ readers' \in [Record -> SUBSET Txn] /\ writers' \in [Record -> SUBSET Txn]
        /\ precedes' \in SUBSET (Txn \X Txn)
    BY <1>2 DEF OwnInv, TypeOK
  <2>3. pc' \in [Client -> Place]
    BY Zenon, <1>3 DEF connect, disconnect, receive, SetTransaction, analyze, respond, enter_end, Place
  <2>4. stmt' \in [Client -> Kind \cup {NoStmt}]
    BY Zenon, <1>3 DEF connect, disconnect, receive, SetTransaction, analyze, respond, enter_end
  <2>5. todo' \in [Client -> Seq(Access)]
    BY Zenon, <1>3 DEF connect, disconnect, receive, SetTransaction, analyze, respond, enter_end
  <2>6. txn_mode' \in [Txn -> BOOLEAN]
    BY Zenon, <1>3 DEF connect, disconnect, receive, SetTransaction, analyze, respond, enter_end, begin
  <2>7. latch' \in Client \cup {Free}
    BY <1>3 DEF connect, disconnect, receive, SetTransaction, analyze, respond, enter_end
  <2> QED
    BY <2>1, <2>2, <2>3, <2>4, <2>5, <2>6, <2>7, <1>5 DEF TypeOK
<1>7. ASSUME NEW e \in Client PROVE SessionOK(e)'
  <2>1. SessionOK(e) /\ SessionOK(c)
    BY DEF OwnInv
  <2>2. CASE e # c
    <3>1. pc'[e] = pc[e] /\ todo'[e] = todo[e]
      BY <2>2, <1>3 DEF connect, disconnect, receive, SetTransaction, analyze, respond, enter_end
    <3>2. txn_id'[e] = txn_id[e]
      BY <2>2, <1>3, <1>4
    <3>3. txn_id[e] # INVALID_TXN_ID => txn_id[e] < next_txn_id'
      <4>1. txn_id[e] \in Writer
        BY <1>3
      <4>2. txn_id[e] # INVALID_TXN_ID => txn_id[e] < next_txn_id
        BY <2>1 DEF SessionOK
      <4> QED
        BY <4>1, <4>2, <1>3, <1>5 DEF Writer
    <3>4. \A t, d : Mode(t, d)' = Mode(t, d)
      BY <1>2 DEF Mode
    <3> HIDE DEF INVALID_TXN_ID
    <3> QED
      BY Zenon, <2>1, <3>1, <3>2, <3>3, <3>4, <1>2 DEF SessionOK, Mode
  <2>3. CASE e = c
    <3>1. pc'[c] # "copy" /\ (pc'[c] # "unlock" => pc[c] # "unlock")
      BY <1>3 DEF connect, disconnect, receive, SetTransaction, analyze, respond, enter_end
    <3>2. CASE pc'[c] = "parse"
      <4>1. SetTransaction(c)
        BY <3>2, <1>3 DEF connect, disconnect, receive, SetTransaction, analyze, respond, enter_end
      <4>2. CASE live(txn_id[c]) /\ UNCHANGED <<txn_id, next_txn_id>>
        BY Zenon, <4>1, <4>2, <3>1, <3>2, <2>1, <2>3, <1>2 DEF SessionOK, live, SetTransaction
      <4>3. CASE next_txn_id < MaxTxn /\ begin(c)
        <5>1. next_txn_id \in Txn /\ TxnOK(next_txn_id)
          BY <4>3, <1>3 DEF OwnInv
        <5>2. txn_id'[c] = next_txn_id /\ next_txn_id' = next_txn_id + 1
          <6>1. txn_id \in [Client -> Writer]
            BY DEF OwnInv, TypeOK
          <6> QED
            BY <6>1, <4>3 DEF begin
        <5>3. state'[next_txn_id] = "DEFAULT"
          <6>1. next_txn_id >= next_txn_id
            BY DEF OwnInv, TypeOK
          <6> QED
            BY <6>1, <5>1, <1>2 DEF TxnOK
        <5> QED
          <6>1. next_txn_id # INVALID_TXN_ID /\ next_txn_id < next_txn_id + 1
            BY <1>3
          <6>2. "DEFAULT" \notin Finished /\ "DEFAULT" # "SHRINKING"
            BY DEF Finished
          <6>3. pc'[e] # "copy"
            BY <3>2, <2>3
          <6> HIDE DEF INVALID_TXN_ID
          <6> QED
            BY Zenon, <6>1, <6>2, <6>3, <5>2, <5>3, <2>3 DEF SessionOK
      <4> QED
        BY <4>1, <4>2, <4>3 DEF SetTransaction
    <3>3. CASE pc'[c] # "parse"
      <4>1. pc'[c] \in {"run", "end", "unlock"} => pc[c] \in {"parse", "end"} /\ UNCHANGED txn_id
        BY Zenon, <3>3, <1>3 DEF connect, disconnect, receive, SetTransaction, analyze, respond, enter_end
      <4>2. UNCHANGED next_txn_id /\ (txn_id'[c] = txn_id[c] \/ txn_id'[c] = INVALID_TXN_ID)
        BY <3>3, <1>3, <1>4
      <4> QED
        BY Zenon, <4>1, <4>2, <3>1, <3>3, <2>1, <2>3, <1>2 DEF SessionOK
    <3> QED
      BY <2>3, <3>2, <3>3
  <2> QED
    BY <2>2, <2>3
<1>8. OwnTransaction'
  <2>1. \A e \in Client : txn_id[e] # INVALID_TXN_ID => txn_id[e] < next_txn_id
    BY Zenon DEF OwnInv, SessionOK
  <2> QED
    BY <2>1, <1>3, <1>4 DEF OwnInv, OwnTransaction
<1>9. ASSUME NEW t \in Txn PROVE TxnOK(t)'
  <2>1. TxnOK(t)
    BY DEF OwnInv
  <2>2. HeldBy(t)' = HeldBy(t) /\ \A d : Mode(t, d)' = Mode(t, d) /\ (Holds(t, d)' <=> Holds(t, d))
    BY Zenon, <1>2 DEF HeldBy, Holds, Mode
  <2>3. t >= next_txn_id' => t >= next_txn_id
    BY <1>3, <1>5
  <2> QED
    BY Zenon, <2>1, <2>2, <2>3, <1>2 DEF TxnOK
<1> QED
  BY <1>2, <1>6, <1>7, <1>8, <1>9 DEF OwnInv, Serializable

\* Asking for a record lock: granted, upgraded or refused.
LEMMA LockRecordStep ==
    ASSUME OwnInv, LMTypeOK', NEW c \in Client, lock_record(c)
    PROVE  OwnInv'
<1>1. /\ pc[c] = "run" /\ todo[c] # <<>> /\ SessionOK(c)
      /\ UNCHANGED <<next_txn_id, latch, txn_mode, txn_id, db, seen, readers, writers, precedes>>
  BY Zenon DEF lock_record, OwnInv, data_vars
<1>0. PICK t \in Txn, op \in {"read", "write"}, r \in Record :
        t = txn_id[c] /\ op = Head(todo[c])[1] /\ r = Head(todo[c])[2]
  BY Zenon, <1>1, NextAccess DEF OwnInv, SessionOK, TypeOK, Writer
<1>2. t \in Txn /\ t < next_txn_id /\ TxnOK(t)
  BY Zenon, <1>0, <1>1 DEF OwnInv, SessionOK
<1>3. r \in DataId
  BY DEF DataId
<1>4. Mode(t, r) \in {"NONE", "SHARED", "EXLUCSIVE"}
  BY Zenon, <1>2, <1>3 DEF TxnOK
<1>5. IF op = "read" THEN lock_shared_on_record(t, r) ELSE lock_exclusive_on_record(t, r)
  BY <1>0 DEF lock_record
<1>6. \/ /\ result'[t] = "throw" /\ pc' = [pc EXCEPT ![c] = "end"]
         /\ stmt' = [stmt EXCEPT ![c] = "rollback"] /\ todo' = [todo EXCEPT ![c] = <<>>]
      \/ result'[t] # "throw" /\ pc' = [pc EXCEPT ![c] = "copy"] /\ UNCHANGED <<stmt, todo>>
  BY Zenon, <1>0 DEF lock_record, Goto
<1>7. /\ state[t] \in Growing /\ state' = [state EXCEPT ![t] = "GROWING"]
      /\ \A u \in Txn, d \in DataId : u # t \/ d # r => Mode(u, d)' = Mode(u, d)
      /\ \/ Mode(t, r)' = Mode(t, r)
         \/ Mode(t, r) = "NONE" /\ Mode(t, r)' = "SHARED"
         \/ Mode(t, r)' = "EXLUCSIVE"
      /\ result'[t] # "throw" =>
           Mode(t, r)' \in IF op = "read" THEN {"SHARED", "EXLUCSIVE"} ELSE {"EXLUCSIVE"}
  BY SMTT(60), <1>2, <1>3, <1>4, <1>5, RecordLockCall DEF OwnInv, TypeOK
<1>8. /\ state'[t] = "GROWING"
      /\ \A u \in Txn \ {t} : state'[u] = state[u]
  BY Zenon, <1>2, <1>7 DEF OwnInv, TypeOK, LMTypeOK
<1>9. TypeOK'
  <2>1. /\ <<>> \in Seq(Access) /\ "end" \in Place /\ "copy" \in Place /\ "rollback" \in Kind
        /\ pc \in [Client -> Place] /\ stmt \in [Client -> Kind \cup {NoStmt}]
        /\ todo \in [Client -> Seq(Access)]
    BY DEF OwnInv, TypeOK, Place, Kind
  <2>2. pc' \in [Client -> Place]
    BY <1>6, <2>1
  <2>3. stmt' \in [Client -> Kind \cup {NoStmt}]
    BY <1>6, <2>1
  <2>4. todo' \in [Client -> Seq(Access)]
    BY <1>6, <2>1
  <2>5. /\ next_txn_id \in 0 .. MaxTxn /\ latch \in Client \cup {Free} /\ txn_mode \in [Txn -> BOOLEAN]
        /\ txn_id \in [Client -> Writer] /\ db \in [Record -> Writer]
        /\ seen \in [Txn -> [Record -> Writer \cup {Unseen}]]
        /\ readers \in [Record -> SUBSET Txn] /\ writers \in [Record -> SUBSET Txn]
        /\ precedes \in SUBSET (Txn \X Txn)
    BY DEF OwnInv, TypeOK
  <2> QED
    BY <1>1, <2>2, <2>3, <2>4, <2>5 DEF TypeOK
<1>10. ASSUME NEW e \in Client PROVE SessionOK(e)'
  <2>1. pc'[c] \in {"end", "copy"} /\ (e # c => pc'[e] = pc[e] /\ todo'[e] = todo[e])
    BY Zenon, <1>6 DEF OwnInv, TypeOK
  <2>2. CASE e = c
    <3>1. pc'[c] = "copy" => todo'[c] = todo[c] /\ result'[t] # "throw"
      BY <1>6 DEF OwnInv, TypeOK
    <3> QED
      BY Zenon, <1>0, <1>1, <1>2, <1>7, <1>8, <2>1, <2>2, <3>1 DEF SessionOK, Mode, Finished
  <2>3. CASE e # c
    <3>1. SessionOK(e)
      BY DEF OwnInv
    <3>2. txn_id[e] # INVALID_TXN_ID => txn_id[e] \in Txn \ {t}
      BY <2>3, <1>0, <1>2 DEF OwnInv, OwnTransaction, TypeOK, Writer
    <3>3. pc[e] = "copy" => Head(todo[e])[2] \in DataId /\ txn_id[e] # INVALID_TXN_ID
      BY Zenon, <3>1, NextAccess DEF SessionOK, OwnInv, DataId
    <3>4. pc[e] = "copy" => Mode(txn_id[e], Head(todo[e])[2])' = Mode(txn_id[e], Head(todo[e])[2])
      <4> SUFFICES ASSUME pc[e] = "copy"
                   PROVE  Mode(txn_id[e], Head(todo[e])[2])' = Mode(txn_id[e], Head(todo[e])[2])
        OBVIOUS
      <4>1. UNCHANGED <<txn_id, todo[e]>>
        BY Zenon, <1>1, <2>1, <2>3
      <4>2. PICK u \in Txn, d \in DataId : u # t /\ u = txn_id[e] /\ d = Head(todo[e])[2]
        BY Zenon, <3>2, <3>3
      <4>3. lock_table'[d].mode[u] = lock_table[d].mode[u]
        BY Zenon, <4>2, <1>7 DEF Mode
      <4> QED
        BY Zenon, <4>1, <4>2, <4>3 DEF Mode
    <3>5. txn_id[e] # INVALID_TXN_ID => state'[txn_id[e]] = state[txn_id[e]]
      BY <3>2, <1>8
    <3> QED
      BY Zenon, <3>1, <3>4, <3>5, <2>1, <2>3, <1>1 DEF SessionOK
  <2> QED
    BY <2>2, <2>3
<1>11. ASSUME NEW u \in Txn PROVE TxnOK(u)'
  <2>1. TxnOK(u)
    BY DEF OwnInv
  <2>2. CASE u # t
    <3>1. HeldBy(u)' = HeldBy(u)
      BY <2>2, <1>7 DEF HeldBy, Holds
    <3>2. \A d \in Record : Mode(u, d)' = Mode(u, d)
      BY <2>2, <1>7 DEF DataId
    <3> QED
      BY <2>1, <2>2, <3>1, <3>2, <1>1, <1>8 DEF TxnOK, Holds
  <2>3. CASE u = t
    <3>1. \A d \in Record : \/ Mode(t, d)' = Mode(t, d)
                            \/ Mode(t, d) = "NONE" /\ Mode(t, d)' = "SHARED"
                            \/ Mode(t, d)' = "EXLUCSIVE"
      BY <1>2, <1>7 DEF DataId
    <3>2. state'[t] \notin Finished /\ state'[t] \in Growing /\ ~(t >= next_txn_id')
      BY <1>1, <1>2, <1>8 DEF Finished, Growing, OwnInv, TypeOK
    <3> QED
      BY <2>1, <2>3, <3>1, <3>2, <1>1, <1>7 DEF TxnOK, Holds
  <2> QED
    BY <2>2, <2>3
<1> QED
  BY <1>1, <1>9, <1>10, <1>11 DEF OwnInv, OwnTransaction, Serializable

\* Copying a record: the lock held keeps conflicting transactions away until
\* they have begun to release.
LEMMA CopyRecordStep ==
    ASSUME OwnInv, LMInv, NEW c \in Client, copy_record(c)
    PROVE  OwnInv'
<1>0. pc[c] = "copy" /\ SessionOK(c) /\ todo[c] # <<>>
  BY DEF copy_record, OwnInv, SessionOK
<1> PICK t \in Txn, op \in {"read", "write"}, r \in Record :
        t = txn_id[c] /\ op = Head(todo[c])[1] /\ r = Head(todo[c])[2]
  BY <1>0, NextAccess DEF OwnInv, SessionOK, TypeOK, Writer
<1> DEFINE S == Conflicting(t, op, r)
<1>1. /\ pc[c] = "copy" /\ SessionOK(c)
      /\ UNCHANGED <<state, lock_set, lock_table, result, next_txn_id, latch, txn_mode, txn_id, stmt>>
      /\ db' = IF op = "write" THEN [db EXCEPT ![r] = t] ELSE db
      /\ seen' = [seen EXCEPT ![t][r] = db'[r]]
      /\ readers' = [readers EXCEPT ![r] = @ \cup {t}]
      /\ writers' = IF op = "write" THEN [writers EXCEPT ![r] = @ \cup {t}] ELSE writers
      /\ precedes' = AddArcs(precedes, S, t)
      /\ todo' = [todo EXCEPT ![c] = Tail(@)]
      /\ pc' = [pc EXCEPT ![c] = "run"]
  BY DEF copy_record, OwnInv, lm_vars, Goto
<1>2. TxnOK(t) /\ state[t] \in Growing
  BY <1>1 DEF OwnInv, SessionOK, TypeOK, LMTypeOK, Writer, Growing, Finished, TransactionState
<1>3. r \in DataId /\ Tail(todo[c]) \in Seq(Access)
  BY <1>1, NextAccess DEF OwnInv, DataId, SessionOK
<1>4. Mode(t, r) \in {"SHARED", "EXLUCSIVE"} /\ (op = "write" => Mode(t, r) = "EXLUCSIVE")
  BY <1>1, <1>3 DEF SessionOK
<1>5. \A u \in S : u \in Txn \ {t} /\ (u \in writers[r] \/ (op = "write" /\ u \in readers[r]))
  <2>1. writers[r] \subseteq Txn /\ readers[r] \subseteq Txn
    BY DEF OwnInv, TypeOK
  <2> QED
    BY <2>1 DEF Conflicting
<1> HIDE DEF S
<1>6. ASSUME NEW u \in Txn, u # t, state[u] \in Growing,
             u \in writers[r] \/ (op = "write" /\ u \in readers[r])
      PROVE  FALSE
  <2>1. TxnOK(u) /\ TableOK
    BY DEF OwnInv, LMInv, LMTypeOK, TableOK
  <2>2. Holds(u, r) /\ Holds(t, r) /\ (u \in writers[r] => Mode(u, r) = "EXLUCSIVE")
    BY <1>3, <1>4, <1>6, <2>1 DEF TxnOK, Holds
  <2>3. Mode(u, r) \in CompatibleWith[Mode(t, r)] /\ Mode(t, r) \in CompatibleWith[Mode(u, r)]
    BY Zenon, <1>2, <1>3, <1>6, <2>1, <2>2, PairFacts
  <2> QED
    BY <1>4, <1>6, <2>2, <2>3, Matrices
<1>7. \A u \in S : state[u] \notin Growing
  BY <1>5, <1>6
<1>8. \A u, v : <<u, v>> \in precedes' <=>
            \/ <<u, v>> \in precedes
            \/ /\ u \in S \/ (u \in Txn /\ \E w \in S : <<u, w>> \in precedes)
               /\ v = t
  <2>1. \A u \in Txn : <<t, u>> \notin precedes
    BY <1>2 DEF TxnOK
  <2> QED
    BY Zenon, <1>1, <2>1 DEF AddArcs
<1>9. \A u, v \in Txn : <<u, v>> \in precedes' => state[u] \notin Growing
  BY Zenon, <1>5, <1>7, <1>8 DEF OwnInv, TxnOK
<1>10. Serializable'
  <2> SUFFICES ASSUME NEW u \in Txn, <<u, u>> \in precedes' PROVE FALSE
    BY Zenon DEF Serializable
  <2>1. <<u, u>> \notin precedes
    BY DEF OwnInv, Serializable
  <2>2. u = t
    BY <1>8, <2>1
  <2> QED
    BY <1>2, <1>9, <2>2
<1>11. TypeOK'
  <2>1. LMTypeOK'
    BY Zenon, <1>1 DEF OwnInv, TypeOK, LMTypeOK
  <2>2. db' \in [Record -> Writer] /\ db'[r] \in Writer
    BY <1>1, <1>2, <1>3 DEF OwnInv, TypeOK, Writer
  <2>3. seen' \in [Txn -> [Record -> Writer \cup {Unseen}]]
    BY Zenon, <1>1, <1>2, <1>3, <2>2 DEF OwnInv, TypeOK
  <2>4. readers' \in [Record -> SUBSET Txn] /\ writers' \in [Record -> SUBSET Txn]
    <3>1. readers \in [Record -> SUBSET Txn] /\ writers \in [Record -> SUBSET Txn]
      BY DEF OwnInv, TypeOK
    <3>2. readers' \in [Record -> SUBSET Txn]
      <4>1. readers' = [readers EXCEPT ![r] = @ \cup {t}]
        BY <1>1
      <4> QED
        BY <4>1, <3>1
    <3>3. writers' \in [Record -> SUBSET Txn]
      <4>1. UNCHANGED writers \/ writers' = [writers EXCEPT ![r] = @ \cup {t}]
        BY <1>1
      <4> QED
        BY <4>1, <3>1
    <3> QED
      BY <3>2, <3>3
  <2>5. precedes' \in SUBSET (Txn \X Txn)
    BY Zenon, <1>1, <1>2, <1>5 DEF OwnInv, TypeOK, AddArcs
  <2>6. pc' \in [Client -> Place] /\ todo' \in [Client -> Seq(Access)]
    BY Zenon, <1>1, <1>3 DEF OwnInv, TypeOK, Place
  <2> QED
    BY Zenon, <1>1, <2>1, <2>2, <2>3, <2>4, <2>5, <2>6 DEF OwnInv, TypeOK
<1>12. ASSUME NEW e \in Client PROVE SessionOK(e)'
  <2>1. SessionOK(e)
    BY DEF OwnInv
  <2>2. /\ e = c => pc'[e] = "run" /\ pc[e] = "copy"
        /\ e # c => pc'[e] = pc[e] /\ todo'[e] = todo[e]
    BY Zenon, <1>1 DEF OwnInv, TypeOK
  <2> QED
    BY Zenon, <1>1, <2>1, <2>2 DEF SessionOK, Mode
<1>13. ASSUME NEW u \in Txn PROVE TxnOK(u)'
  <2>1. TxnOK(u)
    BY DEF OwnInv
  <2>2. HeldBy(u)' = HeldBy(u) /\ \A d \in DataId : Mode(u, d)' = Mode(u, d) /\ Holds(u, d)' = Holds(u, d)
    BY <1>1 DEF HeldBy, Holds, Mode
  <2>3. ASSUME NEW q \in Record
        PROVE  /\ Mode(u, q)' \in {"NONE", "SHARED", "EXLUCSIVE"}
               /\ u \in writers'[q] => u \in readers'[q]
               /\ seen'[u][q] # Unseen => u \in readers'[q]
               /\ state'[u] \in Growing =>
                     /\ u \in readers'[q] => Holds(u, q)'
                     /\ u \in writers'[q] => Mode(u, q)' = "EXLUCSIVE"
                     /\ seen'[u][q] # Unseen => db'[q] = seen'[u][q]
    <3>1. q \in DataId
      BY DEF DataId
    <3>2. /\ readers'[q] = IF q = r THEN readers[q] \cup {t} ELSE readers[q]
          /\ writers'[q] = IF q = r /\ op = "write" THEN writers[q] \cup {t} ELSE writers[q]
          /\ db'[q] = IF q = r /\ op = "write" THEN t ELSE db[q]
          /\ seen'[u][q] = IF u = t /\ q = r THEN db'[r] ELSE seen[u][q]
      BY Zenon, <1>1, <1>2, <1>3 DEF OwnInv, TypeOK
    <3>3. CASE u = t /\ q = r
      <4>1. /\ t \in readers'[r] /\ seen'[t][r] = db'[r] /\ Mode(t, r)' = Mode(t, r)
            /\ Holds(t, r)' /\ Mode(t, r) \in {"SHARED", "EXLUCSIVE"}
        BY Zenon, <1>4, <2>2, <3>1, <3>2, <3>3 DEF Holds
      <4>2. t \in writers'[r] /\ state[t] \in Growing => Mode(t, r) = "EXLUCSIVE"
        BY Zenon, <1>4, <2>1, <3>2, <3>3 DEF TxnOK
      <4> QED
        BY Zenon, <1>1, <4>1, <4>2, <3>3
    <3>4. CASE u # t /\ q = r
      <4>1. /\ u \in readers'[r] <=> u \in readers[r]
            /\ u \in writers'[r] <=> u \in writers[r]
            /\ seen'[u][r] = seen[u][r] /\ Mode(u, r)' = Mode(u, r) /\ Holds(u, r)' = Holds(u, r)
        BY Zenon, <2>2, <3>1, <3>2, <3>4
      <4>2. state[u] \in Growing /\ seen[u][r] # Unseen => db'[r] = seen[u][r]
        BY Zenon, <1>6, <2>1, <3>2, <3>4 DEF TxnOK
      <4> QED
        BY Zenon, <1>1, <2>1, <3>4, <4>1, <4>2 DEF TxnOK
    <3>5. CASE q # r
      BY <1>1, <2>1, <2>2, <3>1, <3>2, <3>5 DEF TxnOK
    <3> QED
      BY Zenon, <3>3, <3>4, <3>5
  <2> QED
    BY Zenon, <1>1, <1>9, <2>1, <2>2, <2>3 DEF TxnOK
<1> QED
  BY <1>1, <1>10, <1>11, <1>12, <1>13 DEF OwnInv, OwnTransaction

\* One turn of the release loop: the transaction is in its shrinking phase.
LEMMA ReleaseStep ==
    ASSUME OwnInv, PhaseInv, LMTypeOK', NEW c \in Client, release_one(c)
    PROVE  OwnInv'
<1>1. /\ pc[c] = "unlock" /\ SessionOK(c)
      /\ UNCHANGED <<next_txn_id, latch, txn_mode, pc, txn_id, stmt, todo>>
      /\ UNCHANGED <<db, seen, readers, writers, precedes>>
  BY Zenon DEF release_one, OwnInv, session_vars, data_vars
<1> PICK t \in Txn : t = txn_id[c]
  BY <1>1 DEF OwnInv, SessionOK, TypeOK, Writer
<1>2. PICK d \in DataId : d \in lock_set[t] /\ Holds(t, d) /\ unlock(t, d)
  BY DEF release_one, StillLocked, OwnInv, TypeOK, LMTypeOK
<1>3. state[t] \in {"GROWING", "SHRINKING"}
  <2>1. state[t] # "DEFAULT"
    BY <1>2 DEF PhaseInv, HeldBy
  <2> QED
    BY <1>1, <2>1 DEF SessionOK, Finished, OwnInv, TypeOK, LMTypeOK, TransactionState
<1>4. state'[t] = "SHRINKING" /\ \A u \in Txn \ {t} : state'[u] = state[u]
  BY Zenon, <1>2, <1>3 DEF unlock, OwnInv, TypeOK, LMTypeOK
<1>5. /\ \A u \in Txn, e \in DataId : u # t \/ e # d => Mode(u, e)' = Mode(u, e)
      /\ Mode(t, d)' = "NONE"
  <2>1. /\ DOMAIN lock_table = DataId
        /\ DOMAIN lock_table[d].mode = Txn
    BY DEF OwnInv, TypeOK, LMTypeOK, LockRequestQueue
  <2>2. lock_table' = [lock_table EXCEPT ![d] = RemoveRequest(lock_table[d], t)]
    BY Zenon, <1>2 DEF unlock
  <2>3. /\ lock_table'[d] = RemoveRequest(lock_table[d], t)
        /\ \A e \in DataId \ {d} : lock_table'[e] = lock_table[e]
    BY <2>1, <2>2
  <2>4. RemoveRequest(lock_table[d], t).mode = [lock_table[d].mode EXCEPT ![t] = "NONE"]
    BY DEF RemoveRequest
  <2>5. lock_table'[d].mode = [lock_table[d].mode EXCEPT ![t] = "NONE"]
    BY <2>3, <2>4
  <2> QED
    BY <2>1, <2>3, <2>5 DEF Mode
<1>6. ASSUME NEW e \in Client PROVE SessionOK(e)'
  <2>1. SessionOK(e)
    BY DEF OwnInv
  <2>2. CASE e = c
    BY <1>1, <1>4, <2>1, <2>2 DEF SessionOK, Finished
  <2>3. CASE e # c
    <3>1. txn_id[e] # INVALID_TXN_ID => txn_id[e] \in Txn \ {t}
      BY <2>3 DEF OwnInv, OwnTransaction, TypeOK, Writer
    <3>2. pc[e] = "copy" => Head(todo[e])[2] \in DataId /\ txn_id[e] # INVALID_TXN_ID
      BY Zenon, <2>1, NextAccess DEF SessionOK, OwnInv, DataId
    <3>3. pc[e] = "copy" => Mode(txn_id[e], Head(todo[e])[2])' = Mode(txn_id[e], Head(todo[e])[2])
      BY Zenon, <1>1, <1>5, <3>1, <3>2 DEF Mode
    <3>4. txn_id[e] # INVALID_TXN_ID => state'[txn_id[e]] = state[txn_id[e]]
      BY <1>4, <3>1
    <3> QED
      BY Zenon, <1>1, <2>1, <3>3, <3>4 DEF SessionOK
  <2> QED
    BY <2>2, <2>3
<1>7. ASSUME NEW u \in Txn PROVE TxnOK(u)'
  <2>1. TxnOK(u)
    BY DEF OwnInv
  <2>2. CASE u = t
    <3>1. state'[t] \notin Finished /\ state'[t] \notin Growing /\ ~(t >= next_txn_id')
      <4>1. state'[t] \notin Finished /\ state'[t] \notin Growing
        BY <1>4 DEF Finished, Growing
      <4>2. t < next_txn_id
        BY Zenon, <1>1 DEF SessionOK
      <4> QED
        BY <4>1, <4>2, <1>1 DEF OwnInv, TypeOK
    <3>2. \A q \in Record : Mode(t, q)' \in {"NONE", "SHARED", "EXLUCSIVE"}
      BY Zenon, <1>5, <2>1, <2>2 DEF TxnOK, DataId
    <3> QED
      BY <1>1, <2>1, <2>2, <3>1, <3>2 DEF TxnOK
  <2>3. CASE u # t
    <3>1. HeldBy(u)' = HeldBy(u)
      BY <2>3, <1>5 DEF HeldBy, Holds
    <3>2. \A q \in Record : Mode(u, q)' = Mode(u, q)
      BY <2>3, <1>5 DEF DataId
    <3> QED
      BY <2>1, <2>3, <3>1, <3>2, <1>1, <1>4 DEF TxnOK, Holds
  <2> QED
    BY <2>2, <2>3
<1>8. TypeOK'
  BY <1>1 DEF OwnInv, TypeOK
<1> QED
  BY Zenon, <1>1, <1>6, <1>7, <1>8 DEF OwnInv, OwnTransaction, Serializable

\* The end of commit and abort: every lock in lock_set_ has been released, and
\* by LocksTracked there are no others.
LEMMA EndStep ==
    ASSUME OwnInv, PhaseInv, LMTypeOK', NEW c \in Client, end_txn(c)
    PROVE  OwnInv'
<1>1. /\ pc[c] = "unlock" /\ SessionOK(c)
      /\ UNCHANGED <<next_txn_id, txn_mode, txn_id, todo, lock_table, db, seen, readers, writers, precedes>>
      /\ pc' = [pc EXCEPT ![c] = "waiting"] /\ stmt' = [stmt EXCEPT ![c] = NoStmt] /\ latch' = Free
  BY DEF end_txn, finish, OwnInv, data_vars, Goto, Answer
<1> PICK t \in Txn : t = txn_id[c]
  BY Zenon, <1>1 DEF OwnInv, SessionOK, TypeOK, Writer
<1>2. StillLocked(t) = {} /\ finish(t)
  BY Zenon DEF end_txn
<1>3. HeldBy(t) = {}
  <2>1. HeldBy(t) \subseteq lock_set[t]
    BY <1>2 DEF finish, PhaseInv, LocksTracked
  <2> QED
    BY <1>2, <2>1 DEF StillLocked, HeldBy
<1>4. state'[t] \in Finished /\ \A u \in Txn \ {t} : state'[u] = state[u]
  BY <1>2 DEF finish, OwnInv, TypeOK, LMTypeOK
<1>5. TypeOK'
  BY <1>1 DEF OwnInv, TypeOK, Place
<1>6. ASSUME NEW e \in Client PROVE SessionOK(e)'
  <2>1. SessionOK(e)
    BY DEF OwnInv
  <2>2. CASE e = c
    <3>1. pc'[e] = "waiting"
      BY <1>1, <2>2 DEF OwnInv, TypeOK
    <3> QED
      BY <1>1, <1>4, <2>1, <2>2, <3>1 DEF SessionOK, Finished
  <2>3. CASE e # c
    <3>1. txn_id[e] # INVALID_TXN_ID => txn_id[e] \in Txn \ {t}
      BY <2>3 DEF OwnInv, OwnTransaction, TypeOK, Writer
    <3>2. pc'[e] = pc[e]
      BY <1>1, <2>3 DEF OwnInv, TypeOK
    <3>3. txn_id[e] # INVALID_TXN_ID => state'[txn_id[e]] = state[txn_id[e]]
      BY <1>4, <3>1
    <3> QED
      BY Zenon, <1>1, <2>1, <3>2, <3>3 DEF SessionOK, Mode
  <2> QED
    BY <2>2, <2>3
<1>7. ASSUME NEW u \in Txn PROVE TxnOK(u)'
  <2>1. TxnOK(u)
    BY DEF OwnInv
  <2>2. HeldBy(u)' = HeldBy(u) /\ \A d \in Record : Mode(u, d)' = Mode(u, d) /\ Holds(u, d)' = Holds(u, d)
    BY <1>1 DEF HeldBy, Holds, Mode
  <2>3. CASE u = t
    <3>1. state'[t] \notin Growing /\ ~(t >= next_txn_id')
      <4>1. state'[t] \notin Growing
        BY <1>4 DEF Finished, Growing
      <4>2. t < next_txn_id
        BY <1>1 DEF SessionOK
      <4> QED
        BY <4>1, <4>2, <1>1 DEF OwnInv, TypeOK
    <3> QED
      BY Zenon, <1>1, <1>3, <2>1, <2>2, <2>3, <3>1 DEF TxnOK
  <2>4. CASE u # t
    BY Zenon, <1>1, <1>4, <2>1, <2>2, <2>4 DEF TxnOK
  <2> QED
    BY <2>3, <2>4
<1> QED
  BY <1>1, <1>5, <1>6, <1>7 DEF OwnInv, OwnTransaction, Serializable

-----------------------------------------------------------------------------
\* The server starts in a sound state.
LEMMA SInitSound == Init => SInv
<1> SUFFICES ASSUME Init PROVE SInv
  OBVIOUS
<1>1. LMInv /\ LMTypeOK
  BY LMInitSound DEF Init, LMInv
<1>2. \A t \in Txn : HeldBy(t) = {} /\ \A r \in Record : Mode(t, r) = "NONE"
  BY DEF Init, LMInit, EmptyQueue, HeldBy, Holds, Mode, DataId
<1>3. PhaseInv
  BY <1>1, <1>2 DEF PhaseInv, LocksTracked
<1>4. TypeOK
  <2>1. <<>> \in Seq(Access)
    OBVIOUS
  <2> QED
    BY <1>1, <2>1 DEF Init, TypeOK, Place, Writer
<1>5. \A c \in Client : SessionOK(c)
  BY DEF Init, SessionOK
<1>6. \A t \in Txn : TxnOK(t)
  BY <1>2 DEF Init, LMInit, TxnOK, Finished
<1> QED
  BY <1>1, <1>3, <1>4, <1>5, <1>6 DEF Init, SInv, OwnTransaction, Serializable

\* Every step of every thread keeps the state of the server sound.
LEMMA SNextSound == SInv /\ [Next]_vars => SInv'
<1> SUFFICES ASSUME SInv, [Next]_vars PROVE SInv'
  OBVIOUS
<1>1. OwnInv
  BY DEF SInv, OwnInv
<1>2. LMInv /\ [LMNext]_lm_vars
  BY <1>1, StepRefines DEF SInv
<1>3. LMInv' /\ LMTypeOK'
  BY <1>2, LMNextSound DEF LMInv
<1>4. PhaseInv'
  BY <1>2, <1>3, PhaseStep DEF SInv
<1>5. OwnInv'
  <2>1. CASE UNCHANGED vars
    <3>1. /\ UNCHANGED <<state, lock_set, lock_table, result, next_txn_id, latch, txn_mode, pc, txn_id,
                          stmt, todo, db, seen, readers, writers, precedes>>
      BY <2>1 DEF vars, lm_vars, session_vars, data_vars
    <3>2. TypeOK'
      BY <1>1, <3>1 DEF OwnInv, TypeOK, LMTypeOK
    <3>3. \A c \in Client : SessionOK(c)'
      BY Zenon, <1>1, <3>1 DEF OwnInv, SessionOK, Mode
    <3>4. \A t \in Txn : TxnOK(t)'
      <4> SUFFICES ASSUME NEW t \in Txn PROVE TxnOK(t)'
        OBVIOUS
      <4>1. HeldBy(t)' = HeldBy(t) /\ \A d : Mode(t, d)' = Mode(t, d) /\ (Holds(t, d)' <=> Holds(t, d))
        BY Zenon, <3>1 DEF HeldBy, Holds, Mode
      <4>2. TxnOK(t)
        BY <1>1 DEF OwnInv
      <4> QED
        BY Zenon, <3>1, <4>1, <4>2 DEF TxnOK
    <3> QED
      BY <1>1, <3>1, <3>2, <3>3, <3>4 DEF OwnInv, OwnTransaction, Serializable
  <2>2. CASE Next
    BY <1>1, <1>2, <1>3, <2>2, QuietStep, LockRecordStep, CopyRecordStep, ReleaseStep, EndStep
       DEF Next, work, SInv
  <2> QED
    BY <2>1, <2>2
<1> QED
  BY <1>3, <1>4, <1>5 DEF SInv, OwnInv

\* The inductive invariant of the sessions holds in every reachable state: locks
\* cover what was read and written, and only finished transactions precede others.
THEOREM SInvHolds == Spec => []SInv
BY SInitSound, SNextSound, PTL DEF Spec

\* The variables of sessions, transactions and data keep their types.
THEOREM SessionsTypeCorrect == Spec => []TypeOK
<1>1. SInv => TypeOK
  BY DEF SInv
<1> QED
  BY <1>1, SInvHolds, PTL

\* Client sessions use the lock manager only in ways its specification allows,
\* so that every theorem about it holds of the running server.
THEOREM SessionsRefineLockManager == Spec => LMSpec
<1>1. Init => LMInit
  BY DEF Init
<1>2. SInv /\ [Next]_vars => [LMNext]_lm_vars
  <2> SUFFICES ASSUME SInv, [Next]_vars PROVE [LMNext]_lm_vars
    OBVIOUS
  <2>1. OwnInv
    BY DEF SInv, OwnInv
  <2> QED
    BY <2>1, StepRefines
<1> QED
  BY <1>1, <1>2, SInvHolds, PTL DEF Spec, LMSpec

\* Every execution of record reads and updates is conflict serializable, however
\* the threads of any number of clients interleave.
THEOREM SerializableExecutions == Spec => []Serializable
<1>1. SInv => Serializable
  BY DEF SInv
<1> QED
  BY <1>1, SInvHolds, PTL

\* What a transaction read or wrote stays current until it starts to release.
THEOREM ReadsRepeatable == Spec => []RepeatableReads
<1>1. SInv => RepeatableReads
  BY Zenon DEF SInv, TxnOK, RepeatableReads, Growing
<1> QED
  BY <1>1, SInvHolds, PTL

\* A committed or aborted transaction holds no lock.
THEOREM NoLockLeft == Spec => []FinishedHoldNothing
<1>1. SInv => FinishedHoldNothing
  BY DEF SInv, TxnOK, FinishedHoldNothing
<1> QED
  BY <1>1, SInvHolds, PTL

\* Statements only lock for transactions that are live and have released nothing.
THEOREM LocksInGrowingPhase == Spec => []ExecutesInGrowingPhase
<1>1. SInv => ExecutesInGrowingPhase
  BY DEF SInv, SessionOK, ExecutesInGrowingPhase, TypeOK, LMTypeOK, Writer, TransactionState, Finished
<1> QED
  BY <1>1, SInvHolds, PTL

\* No two connections ever work for one transaction, so that the assertion on the
\* thread id in get_transaction never fails.
THEOREM TransactionsNotShared == Spec => []OwnTransaction
<1>1. SInv => OwnTransaction
  BY DEF SInv
<1> QED
  BY <1>1, SInvHolds, PTL
=============================================================================
