------------------------- MODULE LockManagerProofs -------------------------
(***************************************************************************)
(* Proofs about the lock manager, for any finite set of transactions and   *)
(* any sets of records and tables.                                         *)
(*                                                                         *)
(* The inductive invariant is a property of each queue on its own: its     *)
(* requests are pairwise compatible and its summary (group mode and        *)
(* counters) does not understate them.  Two lemmas carry the argument:     *)
(* putting a request into a mode the summary permits keeps a queue sound,  *)
(* and so does removing one.                                               *)
(***************************************************************************)
EXTENDS LockManager, FiniteSetTheorems, TLAPS

USE LockAssumption

\* The transactions of queue q whose request is in one of the modes M.
In(q, M) == {t \in Txn : q.mode[t] \in M}

SharedModes == {"SHARED", "S_IX"}
IXModes == {"INTENTION_EXCLUSIVE", "S_IX"}

QueueOK(q) ==
    /\ \A t, u \in Txn : t # u /\ q.mode[t] # "NONE" /\ q.mode[u] # "NONE" =>
                            q.mode[u] \in CompatibleWith[q.mode[t]]
    /\ \A t \in Txn : q.group \in GroupCovers[q.mode[t]]
    /\ Cardinality(In(q, SharedModes)) <= q.shared_lock_num
    /\ Cardinality(In(q, IXModes)) <= q.IX_lock_num

LMInv == LMTypeOK /\ \A d \in DataId : QueueOK(lock_table[d])

\* The queue that SetRequest leaves.
Updated(q, t, m, g, shared, ix) ==
    [mode |-> [q.mode EXCEPT ![t] = m], group |-> g,
     shared_lock_num |-> q.shared_lock_num + shared,
     IX_lock_num |-> q.IX_lock_num + ix]

-----------------------------------------------------------------------------
\* The mode matrices that grant and unlock decisions use, row by row.
LEMMA Matrices ==
    /\ \A m, n \in LockMode : n \in CompatibleWith[m] <=> m \in CompatibleWith[n]
    /\ \A n : n \in CompatibleWith["SHARED"] <=> n \in {"SHARED", "INTENTION_SHARED"}
    /\ \A n : n \notin CompatibleWith["EXLUCSIVE"]
    /\ \A n : n \in CompatibleWith["INTENTION_SHARED"] <=>
                n \in {"SHARED", "INTENTION_SHARED", "INTENTION_EXCLUSIVE", "S_IX"}
    /\ \A n : n \in CompatibleWith["INTENTION_EXCLUSIVE"] <=>
                n \in {"INTENTION_SHARED", "INTENTION_EXCLUSIVE"}
    /\ \A n : n \in CompatibleWith["S_IX"] <=> n = "INTENTION_SHARED"
    /\ \A g \in GroupLockMode : g \in GroupCovers["NONE"]
    /\ \A g : g \in GroupCovers["SHARED"] <=> g = "S"
    /\ \A g : g \in GroupCovers["EXLUCSIVE"] <=> g = "X"
    /\ \A g : g \in GroupCovers["INTENTION_SHARED"] <=> g \in GroupLockMode \ {"NON_LOCK"}
    /\ \A g : g \in GroupCovers["INTENTION_EXCLUSIVE"] <=> g \in {"IX", "X"}
    /\ \A g : g \in GroupCovers["S_IX"] <=> g = "SIX"
BY DEF CompatibleWith, GroupCovers, LockMode, GroupLockMode

\* Holders of a mode form a finite set, whose size changes by at most one when
\* one request changes.
LEMMA HolderCount ==
    ASSUME NEW q \in LockRequestQueue, NEW t \in Txn, NEW m \in LockMode \cup {"NONE"},
           NEW M \in SUBSET LockMode,
           NEW r, r.mode = [q.mode EXCEPT ![t] = m]
    PROVE  /\ Cardinality(In(q, M)) \in Nat
           /\ Cardinality(In(r, M)) \in Nat
           /\ Cardinality(In(r, M)) = Cardinality(In(q, M))
                + (IF m \in M THEN 1 ELSE 0) - (IF q.mode[t] \in M THEN 1 ELSE 0)
<1> DEFINE A == In(q, M) \ {t}
<1>1. IsFiniteSet(In(q, M)) /\ IsFiniteSet(A)
  BY FS_Subset DEF In
<1>2. In(q, M) = IF q.mode[t] \in M THEN A \cup {t} ELSE A
  BY DEF In
<1>3. In(r, M) = IF m \in M THEN A \cup {t} ELSE A
  BY DEF In, LockRequestQueue
<1>4. t \notin A
  OBVIOUS
<1>5. Cardinality(A) \in Nat /\ Cardinality(A \cup {t}) = Cardinality(A) + 1
  BY <1>1, <1>4, FS_AddElement, FS_CardinalityType
<1> HIDE DEF A
<1> QED
  BY <1>2, <1>3, <1>5

\* A set of holders counted as at most one has no second member.
LEMMA AtMostOne ==
    ASSUME NEW q \in LockRequestQueue, NEW M \in SUBSET LockMode, NEW t \in Txn, NEW u \in Txn,
           Cardinality(In(q, M)) <= 1, q.mode[t] \in M, q.mode[u] \in M
    PROVE  t = u
<1>1. IsFiniteSet(In(q, M)) /\ {t, u} \in SUBSET In(q, M)
  BY FS_Subset DEF In
<1>2. SUFFICES ASSUME t # u PROVE FALSE
  OBVIOUS
<1>3. IsFiniteSet({t}) /\ Cardinality({t}) = 1
  BY FS_Singleton
<1>4. Cardinality({t} \cup {u}) = 2
  <2>1. u \notin {t}
    BY <1>2
  <2>2. Cardinality({t} \cup {u}) = Cardinality({t}) + 1
    BY <2>1, <1>3, FS_AddElement
  <2> QED
    BY <2>2, <1>3
<1>5. {t} \cup {u} = {t, u}
  OBVIOUS
<1>6. Cardinality({t, u}) <= Cardinality(In(q, M))
  BY <1>1, FS_Subset
<1>7. Cardinality(In(q, M)) \in Nat
  BY <1>1, FS_CardinalityType
<1> QED
  BY <1>4, <1>5, <1>6, <1>7

\* Granting: a queue stays sound when t's request goes into a mode m compatible
\* with the others, the new group mode covers every request, and the counters
\* are incremented when t joins the S or the IX holders.
LEMMA GrantKeepsQueueOK ==
    ASSUME NEW q \in LockRequestQueue, QueueOK(q), NEW t \in Txn, NEW m \in LockMode,
           NEW g \in GroupLockMode, NEW shared \in {0, 1}, NEW ix \in {0, 1},
           g \in GroupCovers[m],
           \A u \in Txn \ {t} : q.mode[u] # "NONE" =>
                q.mode[u] \in CompatibleWith[m] /\ g \in GroupCovers[q.mode[u]],
           m \in SharedModes => shared = 1 \/ q.mode[t] \in SharedModes,
           m \in IXModes => ix = 1 \/ q.mode[t] \in IXModes
    PROVE  /\ Updated(q, t, m, g, shared, ix) \in LockRequestQueue
           /\ QueueOK(Updated(q, t, m, g, shared, ix))
<1> DEFINE r == Updated(q, t, m, g, shared, ix)
<1>1. /\ r \in LockRequestQueue
      /\ r.mode = [q.mode EXCEPT ![t] = m]
      /\ r.group = g
      /\ r.shared_lock_num = q.shared_lock_num + shared
      /\ r.IX_lock_num = q.IX_lock_num + ix
      /\ q.shared_lock_num \in Int /\ q.IX_lock_num \in Int
  BY DEF Updated, LockRequestQueue
<1>2. /\ r.mode[t] = m
      /\ \A u \in Txn \ {t} : r.mode[u] = q.mode[u]
      /\ \A u \in Txn : q.mode[u] \in LockMode \cup {"NONE"}
  BY <1>1 DEF LockRequestQueue
<1> HIDE DEF r
<1>3. \A a, b \in Txn : a # b /\ r.mode[a] # "NONE" /\ r.mode[b] # "NONE" =>
                            r.mode[b] \in CompatibleWith[r.mode[a]]
  <2> SUFFICES ASSUME NEW a \in Txn, NEW b \in Txn, a # b,
                      r.mode[a] # "NONE", r.mode[b] # "NONE"
               PROVE  r.mode[b] \in CompatibleWith[r.mode[a]]
    OBVIOUS
  <2>1. CASE a = t
    BY <2>1, <1>2
  <2>2. CASE b = t
    <3>1. q.mode[a] \in CompatibleWith[m] /\ q.mode[a] \in LockMode
      BY <2>2, <1>2
    <3>2. m \in CompatibleWith[q.mode[a]]
      BY <3>1, Matrices
    <3> QED
      BY <2>2, <3>2, <1>2
  <2>3. CASE a # t /\ b # t
    BY <2>3, <1>2 DEF QueueOK
  <2> QED
    BY <2>1, <2>2, <2>3
<1>4. \A u \in Txn : r.group \in GroupCovers[r.mode[u]]
  BY <1>1, <1>2, Matrices
<1>5. SharedModes \in SUBSET LockMode /\ IXModes \in SUBSET LockMode
  BY DEF SharedModes, IXModes, LockMode
<1>6. Cardinality(In(r, SharedModes)) <= r.shared_lock_num
  BY <1>1, <1>5, HolderCount DEF QueueOK
<1>7. Cardinality(In(r, IXModes)) <= r.IX_lock_num
  BY <1>1, <1>5, HolderCount DEF QueueOK
<1> QED
  BY <1>1, <1>3, <1>4, <1>6, <1>7 DEF QueueOK, r

\* The group mode unlock computes for the requests that remain.
LEMMA RecomputedGroupValue ==
    ASSUME NEW modes \in SUBSET LockMode
    PROVE  /\ RecomputedGroup(modes) \in GroupLockMode
           /\ modes # {} => RecomputedGroup(modes) # "NON_LOCK"
           /\ "S_IX" \in modes => RecomputedGroup(modes) = "SIX"
           /\ "INTENTION_EXCLUSIVE" \in modes /\ "S_IX" \notin modes => RecomputedGroup(modes) = "X"
           /\ "INTENTION_EXCLUSIVE" \notin modes /\ "S_IX" \notin modes /\ modes # {} =>
                RecomputedGroup(modes) = "S"
<1> DEFINE T == {ModeInt[m] : m \in modes \cup {"INTENTION_SHARED"}}
<1>1. /\ T \subseteq 0..4 /\ 2 \in T
      /\ "S_IX" \in modes <=> 4 \in T
      /\ "INTENTION_EXCLUSIVE" \in modes <=> 3 \in T
  BY DEF ModeInt, LockMode
<1>2. ASSUME NEW x \in T, \A y \in T : x >= y
      PROVE  Max(T) = x
  <2>1. Max(T) \in T /\ \A y \in T : Max(T) >= y
    BY <1>2 DEF Max
  <2>2. x \in Int /\ Max(T) \in Int /\ x >= Max(T) /\ Max(T) >= x
    BY <2>1, <1>1, <1>2
  <2> HIDE DEF T
  <2> QED
    BY <2>2
<1>3. RecomputedGroup(modes) = IF modes = {} THEN "NON_LOCK" ELSE GroupOfInt[Max(T) + 1]
  BY DEF RecomputedGroup
<1> HIDE DEF T
<1>4. CASE 4 \in T
  <2>1. Max(T) = 4
    BY <1>1, <1>2, <1>4
  <2> QED
    BY <2>1, <1>1, <1>3, <1>4 DEF GroupOfInt, GroupLockMode
<1>5. CASE 4 \notin T /\ 3 \in T
  <2>1. Max(T) = 3
    BY <1>1, <1>2, <1>5
  <2> QED
    BY <2>1, <1>1, <1>3, <1>5 DEF GroupOfInt, GroupLockMode
<1>6. CASE 4 \notin T /\ 3 \notin T
  <2>1. Max(T) = 2
    BY <1>1, <1>2, <1>6
  <2> QED
    BY <2>1, <1>1, <1>3, <1>6 DEF GroupOfInt, GroupLockMode
<1> QED
  BY <1>4, <1>5, <1>6

\* Releasing: a sound queue stays sound when unlock removes t's request,
\* whatever group mode the remaining requests are then given.
LEMMA ReleaseKeepsQueueOK ==
    ASSUME NEW q \in LockRequestQueue, QueueOK(q), NEW t \in Txn, q.mode[t] # "NONE"
    PROVE  RemoveRequest(q, t) \in LockRequestQueue /\ QueueOK(RemoveRequest(q, t))
<1> DEFINE r == RemoveRequest(q, t)
           modes == {q.mode[u] : u \in Txn \ {t}} \ {"NONE"}
<1>1. modes \in SUBSET LockMode /\ \A u \in Txn : q.mode[u] \in LockMode \cup {"NONE"}
  BY DEF LockRequestQueue
<1>2. /\ r.mode = [q.mode EXCEPT ![t] = "NONE"]
      /\ r.group = RecomputedGroup(modes)
      /\ r.shared_lock_num = q.shared_lock_num - (IF q.mode[t] \in SharedModes THEN 1 ELSE 0)
      /\ r.IX_lock_num = q.IX_lock_num - (IF q.mode[t] \in IXModes THEN 1 ELSE 0)
      /\ q.shared_lock_num \in Int /\ q.IX_lock_num \in Int
  BY DEF RemoveRequest, SharedModes, IXModes, LockRequestQueue
<1>4. r.mode[t] = "NONE" /\ \A u \in Txn \ {t} : r.mode[u] = q.mode[u]
  BY <1>2 DEF LockRequestQueue
<1>5. \A u \in Txn \ {t} : q.mode[u] # "NONE" => q.mode[u] \in modes
  OBVIOUS
<1>6. \A n \in modes : \E u \in Txn \ {t} : q.mode[u] = n /\ n # "NONE"
  OBVIOUS
<1> HIDE DEF r, modes
<1>7. \A a, b \in Txn : a # b /\ r.mode[a] # "NONE" /\ r.mode[b] # "NONE" =>
                            r.mode[b] \in CompatibleWith[r.mode[a]]
  BY <1>4 DEF QueueOK
<1>8. ASSUME NEW u \in Txn PROVE r.group \in GroupCovers[r.mode[u]]
  <2>1. CASE r.mode[u] = "NONE"
    BY <2>1, <1>1, <1>2, RecomputedGroupValue, Matrices
  <2>2. CASE r.mode[u] # "NONE"
    <3>1. /\ u # t /\ r.mode[u] = q.mode[u] /\ q.mode[u] \in modes
          /\ q.mode[u] \in CompatibleWith[q.mode[t]]
          /\ q.mode[t] \in CompatibleWith[q.mode[u]]
      BY <2>2, <1>4, <1>5 DEF QueueOK
    <3>2. \A n \in modes : n = q.mode[u] \/ n \in CompatibleWith[q.mode[u]]
      BY <3>1, <1>6 DEF QueueOK
    <3>3. q.mode[u] \in LockMode \ {"EXLUCSIVE"}
      BY <3>1, <1>1, <2>2, Matrices
    <3>4. CASE q.mode[u] = "SHARED"
      <4>1. "INTENTION_EXCLUSIVE" \notin modes /\ "S_IX" \notin modes /\ modes # {}
        BY <3>1, <3>2, <3>4, Matrices
      <4> QED
        BY <4>1, <3>1, <3>4, <1>1, <1>2, RecomputedGroupValue, Matrices
    <3>5. CASE q.mode[u] = "INTENTION_EXCLUSIVE"
      <4>1. "INTENTION_EXCLUSIVE" \in modes /\ "S_IX" \notin modes
        BY <3>1, <3>2, <3>5, Matrices
      <4> QED
        BY <4>1, <3>1, <3>5, <1>1, <1>2, RecomputedGroupValue, Matrices
    <3>6. CASE q.mode[u] = "S_IX"
      BY <3>1, <3>6, <1>1, <1>2, RecomputedGroupValue, Matrices
    <3>7. CASE q.mode[u] = "INTENTION_SHARED"
      BY <3>1, <3>7, <1>1, <1>2, RecomputedGroupValue, Matrices
    <3> QED
      BY <3>3, <3>4, <3>5, <3>6, <3>7 DEF LockMode
  <2> QED
    BY <2>1, <2>2
<1>9. SharedModes \in SUBSET LockMode /\ IXModes \in SUBSET LockMode
      /\ "NONE" \notin SharedModes /\ "NONE" \notin IXModes
  BY DEF SharedModes, IXModes, LockMode
<1>10. Cardinality(In(r, SharedModes)) <= r.shared_lock_num
  BY <1>2, <1>9, HolderCount DEF QueueOK
<1>11. Cardinality(In(r, IXModes)) <= r.IX_lock_num
  BY <1>2, <1>9, HolderCount DEF QueueOK
<1>12. r.shared_lock_num \in Nat /\ r.IX_lock_num \in Nat
  <2>1. Cardinality(In(r, SharedModes)) \in Nat /\ Cardinality(In(r, IXModes)) \in Nat
    BY <1>2, <1>9, HolderCount
  <2> QED
    BY <2>1, <1>2, <1>10, <1>11
<1>13. r \in LockRequestQueue
  BY <1>1, <1>2, <1>12, RecomputedGroupValue DEF r, modes, RemoveRequest, LockRequestQueue
<1> QED
  BY <1>7, <1>8, <1>10, <1>11, <1>13 DEF QueueOK, r

-----------------------------------------------------------------------------
\* What the part of LMInv about the lock table becomes after a step.
TableOK == lock_table \in [DataId -> LockRequestQueue] /\ \A d \in DataId : QueueOK(lock_table[d])

\* SetRequest keeps the table sound under the conditions of GrantKeepsQueueOK.
LEMMA GrantStep ==
    ASSUME TableOK, NEW t \in Txn, NEW d \in DataId, NEW m \in LockMode,
           NEW g \in GroupLockMode, NEW shared \in {0, 1}, NEW ix \in {0, 1},
           SetRequest(t, d, m, g, shared, ix),
           g \in GroupCovers[m],
           \A u \in Txn \ {t} : Holds(u, d) =>
                Mode(u, d) \in CompatibleWith[m] /\ g \in GroupCovers[Mode(u, d)],
           m \in SharedModes => shared = 1 \/ Mode(t, d) \in SharedModes,
           m \in IXModes => ix = 1 \/ Mode(t, d) \in IXModes
    PROVE  TableOK'
<1> DEFINE r == Updated(lock_table[d], t, m, g, shared, ix)
<1>1. lock_table[d] \in LockRequestQueue /\ QueueOK(lock_table[d])
  BY DEF TableOK
<1>2. r \in LockRequestQueue /\ QueueOK(r)
  BY <1>1, GrantKeepsQueueOK DEF Holds, Mode
<1>3. lock_table' = [lock_table EXCEPT ![d] = r]
  BY DEF SetRequest, Updated
<1> HIDE DEF r
<1> QED
  BY <1>2, <1>3 DEF TableOK, QueueOK, In

\* What a sound table says of one request and the group mode of its queue.
LEMMA RequestFacts ==
    ASSUME TableOK, NEW u \in Txn, NEW d \in DataId
    PROVE  /\ Mode(u, d) \in LockMode \cup {"NONE"}
           /\ Group(d) \in GroupLockMode
           /\ Group(d) \in GroupCovers[Mode(u, d)]
           /\ Holds(u, d) => Group(d) # "NON_LOCK"
           /\ Mode(u, d) = "SHARED" => Group(d) = "S"
           /\ Mode(u, d) = "EXLUCSIVE" => Group(d) = "X"
           /\ Mode(u, d) = "INTENTION_EXCLUSIVE" => Group(d) \in {"IX", "X"}
           /\ Mode(u, d) = "S_IX" => Group(d) = "SIX"
<1>1. lock_table[d] \in LockRequestQueue /\ QueueOK(lock_table[d])
  BY DEF TableOK
<1>2. /\ Mode(u, d) \in LockMode \cup {"NONE"} /\ Group(d) \in GroupLockMode
      /\ Group(d) \in GroupCovers[Mode(u, d)]
  BY <1>1 DEF Mode, Group, LockRequestQueue, QueueOK
<1> QED
  BY <1>2, Matrices DEF Holds, LockMode

\* The requests of two transactions in one queue of a sound table.
LEMMA PairFacts ==
    ASSUME TableOK, NEW t \in Txn, NEW u \in Txn, NEW d \in DataId, t # u,
           Holds(t, d), Holds(u, d)
    PROVE  Mode(u, d) \in CompatibleWith[Mode(t, d)]
BY DEF TableOK, QueueOK, Mode, Holds

\* lock_shared_on_record keeps the table sound, whether it grants or refuses.
LEMMA SharedOnRecord ==
    ASSUME TableOK, NEW t \in Txn, NEW d \in Record, lock_shared_on_record(t, d)
    PROVE  TableOK'
<1>1. CASE UNCHANGED lock_table
  BY <1>1 DEF TableOK, QueueOK, In
<1>2. CASE ~Holds(t, d) /\ Group(d) \notin {"X", "IX", "SIX"} /\ SetRequest(t, d, "SHARED", "S", 1, 0)
  <2>1. d \in DataId
    BY DEF DataId
  <2>2. \A u \in Txn \ {t} : Holds(u, d) => Mode(u, d) \in {"SHARED", "INTENTION_SHARED"}
    BY <1>2, <2>1, RequestFacts DEF Holds, LockMode
  <2>3. \A u \in Txn \ {t} : Holds(u, d) =>
            Mode(u, d) \in CompatibleWith["SHARED"] /\ "S" \in GroupCovers[Mode(u, d)]
    BY <2>2, Matrices DEF GroupLockMode
  <2>4. /\ "SHARED" \in LockMode /\ "S" \in GroupLockMode /\ "S" \in GroupCovers["SHARED"]
        /\ "SHARED" \notin IXModes
    BY Matrices DEF LockMode, GroupLockMode, IXModes
  <2> QED
    BY <1>2, <2>1, <2>3, <2>4, GrantStep
<1> QED
  BY <1>1, <1>2 DEF lock_shared_on_record, AlreadyGranted, Throw, AppendRequest

\* Taking or upgrading to the exclusive lock when nobody else has a request.
LEMMA ExclusiveGrant ==
    ASSUME TableOK, NEW t \in Txn, NEW d \in DataId, OnlyRequest(t, d),
           SetRequest(t, d, "EXLUCSIVE", "X", 0, 0)
    PROVE  TableOK'
<1>1. /\ "EXLUCSIVE" \in LockMode /\ "X" \in GroupLockMode /\ "X" \in GroupCovers["EXLUCSIVE"]
      /\ "EXLUCSIVE" \notin IXModes /\ "EXLUCSIVE" \notin SharedModes
  BY Matrices DEF LockMode, GroupLockMode, IXModes, SharedModes
<1> QED
  BY <1>1, GrantStep DEF OnlyRequest

\* lock_exclusive_on_record keeps the table sound: new, upgraded or refused.
LEMMA ExclusiveOnRecord ==
    ASSUME TableOK, NEW t \in Txn, NEW d \in Record, lock_exclusive_on_record(t, d)
    PROVE  TableOK'
<1>1. CASE UNCHANGED lock_table
  BY <1>1 DEF TableOK, QueueOK, In
<1>2. CASE /\ OnlyRequest(t, d) \/ Group(d) = "NON_LOCK"
           /\ SetRequest(t, d, "EXLUCSIVE", "X", 0, 0)
  <2>1. d \in DataId
    BY DEF DataId
  <2>2. OnlyRequest(t, d)
    BY <1>2, <2>1, RequestFacts DEF OnlyRequest
  <2> QED
    BY <1>2, <2>1, <2>2, ExclusiveGrant
<1> QED
  BY <1>1, <1>2 DEF lock_exclusive_on_record, AlreadyGranted, Throw, AppendRequest, UpgradeRequest

\* lock_exclusive_on_table keeps the table sound: new, upgraded or refused.
LEMMA ExclusiveOnTable ==
    ASSUME TableOK, NEW t \in Txn, NEW d \in Table, lock_exclusive_on_table(t, d)
    PROVE  TableOK'
<1>1. CASE UNCHANGED lock_table
  BY <1>1 DEF TableOK, QueueOK, In
<1>2. CASE /\ OnlyRequest(t, d) \/ Group(d) = "NON_LOCK"
           /\ SetRequest(t, d, "EXLUCSIVE", "X", 0, 0)
  <2>1. d \in DataId
    BY DEF DataId
  <2>2. OnlyRequest(t, d)
    BY <1>2, <2>1, RequestFacts DEF OnlyRequest
  <2> QED
    BY <1>2, <2>1, <2>2, ExclusiveGrant
<1> QED
  BY <1>1, <1>2 DEF lock_exclusive_on_table, AlreadyGranted, Throw, AppendRequest, UpgradeRequest

\* lock_shared_on_table keeps the table sound: new, upgraded to S or SIX, or refused.
LEMMA SharedOnTable ==
    ASSUME TableOK, NEW t \in Txn, NEW d \in Table, lock_shared_on_table(t, d)
    PROVE  TableOK'
<1> d \in DataId
  BY DEF DataId
<1>1. CASE UNCHANGED lock_table
  BY <1>1 DEF TableOK, QueueOK, In
<1>2. CASE Group(d) \notin {"X", "IX", "SIX"} /\ SetRequest(t, d, "SHARED", "S", 1, 0)
  <2>2. \A u \in Txn \ {t} : Holds(u, d) => Mode(u, d) \in {"SHARED", "INTENTION_SHARED"}
    BY <1>2, RequestFacts DEF Holds, LockMode
  <2>3. \A u \in Txn \ {t} : Holds(u, d) =>
            Mode(u, d) \in CompatibleWith["SHARED"] /\ "S" \in GroupCovers[Mode(u, d)]
    BY <2>2, Matrices DEF GroupLockMode
  <2>4. /\ "SHARED" \in LockMode /\ "S" \in GroupLockMode /\ "S" \in GroupCovers["SHARED"]
        /\ "SHARED" \notin IXModes
    BY Matrices DEF LockMode, GroupLockMode, IXModes
  <2> QED
    BY <1>2, <2>3, <2>4, GrantStep
<1>3. CASE /\ Mode(t, d) = "INTENTION_EXCLUSIVE" /\ lock_table[d].IX_lock_num = 1
           /\ SetRequest(t, d, "S_IX", "SIX", 1, 0)
  <2>1. /\ lock_table[d] \in LockRequestQueue
        /\ Cardinality(In(lock_table[d], IXModes)) <= 1
    BY <1>3 DEF TableOK, QueueOK
  <2>2. \A u \in Txn \ {t} : Mode(u, d) \notin IXModes
    BY <1>3, <2>1, AtMostOne DEF Mode, IXModes, LockMode
  <2>3. \A u \in Txn \ {t} : Holds(u, d) => Mode(u, d) = "INTENTION_SHARED"
    BY <1>3, <2>2, PairFacts, Matrices DEF Holds, IXModes
  <2>4. /\ "S_IX" \in LockMode /\ "SIX" \in GroupLockMode /\ "SIX" \in GroupCovers["S_IX"]
        /\ "SIX" \in GroupCovers["INTENTION_SHARED"]
        /\ "INTENTION_SHARED" \in CompatibleWith["S_IX"]
        /\ Mode(t, d) \in IXModes
    BY <1>3, Matrices DEF LockMode, GroupLockMode, IXModes
  <2> QED
    BY <1>3, <2>3, <2>4, GrantStep
<1> QED
  BY <1>1, <1>2, <1>3 DEF lock_shared_on_table, AlreadyGranted, Throw, AppendRequest, UpgradeRequest

\* lock_IS_on_table keeps the table sound.
LEMMA ISOnTable ==
    ASSUME TableOK, NEW t \in Txn, NEW d \in Table, lock_IS_on_table(t, d)
    PROVE  TableOK'
<1> d \in DataId
  BY DEF DataId
<1> DEFINE g == IF Group(d) = "NON_LOCK" THEN "IS" ELSE Group(d)
<1>1. CASE UNCHANGED lock_table
  BY <1>1 DEF TableOK, QueueOK, In
<1>2. CASE Group(d) # "X" /\ SetRequest(t, d, "INTENTION_SHARED", g, 0, 0)
  <2>1. g \in GroupLockMode \ {"NON_LOCK"} /\ "INTENTION_SHARED" \in LockMode
    BY RequestFacts DEF GroupLockMode, LockMode
  <2>2. \A u \in Txn \ {t} : Holds(u, d) =>
            /\ Group(d) # "NON_LOCK" /\ Group(d) \in GroupCovers[Mode(u, d)]
            /\ Mode(u, d) \in {"SHARED", "INTENTION_SHARED", "INTENTION_EXCLUSIVE", "S_IX"}
    BY <1>2, RequestFacts DEF Holds, LockMode
  <2>3. \A u \in Txn \ {t} : Holds(u, d) =>
            Mode(u, d) \in CompatibleWith["INTENTION_SHARED"] /\ g \in GroupCovers[Mode(u, d)]
    BY <2>2, Matrices
  <2>4. /\ g \in GroupCovers["INTENTION_SHARED"]
        /\ "INTENTION_SHARED" \notin IXModes /\ "INTENTION_SHARED" \notin SharedModes
    BY <2>1, Matrices DEF IXModes, SharedModes
  <2> HIDE DEF g
  <2> QED
    BY <1>2, <2>1, <2>3, <2>4, GrantStep
<1> QED
  BY <1>1, <1>2 DEF lock_IS_on_table, AlreadyGranted, Throw, AppendRequest

\* lock_IX_on_table keeps the table sound: new, upgraded to IX or SIX, or refused.
LEMMA IXOnTable ==
    ASSUME TableOK, NEW t \in Txn, NEW d \in Table, lock_IX_on_table(t, d)
    PROVE  TableOK'
<1> d \in DataId
  BY DEF DataId
<1>1. CASE UNCHANGED lock_table
  BY <1>1 DEF TableOK, QueueOK, In
<1>2. CASE Group(d) \notin {"S", "SIX", "X"} /\ SetRequest(t, d, "INTENTION_EXCLUSIVE", "IX", 0, 1)
  <2>1. \A u \in Txn \ {t} : Holds(u, d) => Mode(u, d) \in {"INTENTION_SHARED", "INTENTION_EXCLUSIVE"}
    BY <1>2, RequestFacts DEF Holds, LockMode
  <2>2. \A u \in Txn \ {t} : Holds(u, d) =>
            Mode(u, d) \in CompatibleWith["INTENTION_EXCLUSIVE"] /\ "IX" \in GroupCovers[Mode(u, d)]
    BY <2>1, Matrices DEF GroupLockMode
  <2>3. /\ "INTENTION_EXCLUSIVE" \in LockMode /\ "IX" \in GroupLockMode
        /\ "IX" \in GroupCovers["INTENTION_EXCLUSIVE"] /\ "INTENTION_EXCLUSIVE" \notin SharedModes
    BY Matrices DEF LockMode, GroupLockMode, SharedModes
  <2> QED
    BY <1>2, <2>2, <2>3, GrantStep
<1>3. CASE /\ Mode(t, d) = "SHARED" /\ lock_table[d].shared_lock_num = 1
           /\ SetRequest(t, d, "S_IX", "SIX", 0, 1)
  <2>1. /\ lock_table[d] \in LockRequestQueue
        /\ Cardinality(In(lock_table[d], SharedModes)) <= 1
    BY <1>3 DEF TableOK, QueueOK
  <2>2. \A u \in Txn \ {t} : Mode(u, d) \notin SharedModes
    BY <1>3, <2>1, AtMostOne DEF Mode, SharedModes, LockMode
  <2>3. \A u \in Txn \ {t} : Holds(u, d) => Mode(u, d) = "INTENTION_SHARED"
    BY <1>3, <2>2, PairFacts, Matrices DEF Holds, SharedModes
  <2>4. /\ "S_IX" \in LockMode /\ "SIX" \in GroupLockMode /\ "SIX" \in GroupCovers["S_IX"]
        /\ "SIX" \in GroupCovers["INTENTION_SHARED"]
        /\ "INTENTION_SHARED" \in CompatibleWith["S_IX"]
        /\ Mode(t, d) \in SharedModes
    BY <1>3, Matrices DEF LockMode, GroupLockMode, SharedModes
  <2> QED
    BY <1>3, <2>3, <2>4, GrantStep
<1> QED
  BY <1>1, <1>2, <1>3 DEF lock_IX_on_table, AlreadyGranted, Throw, AppendRequest, UpgradeRequest

\* unlock keeps the table sound although it recomputes the group mode by a cast.
LEMMA Unlock ==
    ASSUME TableOK, NEW t \in Txn, NEW d \in DataId, unlock(t, d)
    PROVE  TableOK'
<1>1. CASE UNCHANGED lock_table
  BY <1>1 DEF TableOK, QueueOK, In
<1>2. CASE Holds(t, d) /\ lock_table' = [lock_table EXCEPT ![d] = RemoveRequest(@, t)]
  <2> DEFINE r == RemoveRequest(lock_table[d], t)
  <2>1. lock_table[d] \in LockRequestQueue /\ QueueOK(lock_table[d])
    BY DEF TableOK
  <2>2. r \in LockRequestQueue /\ QueueOK(r)
    BY <1>2, <2>1, ReleaseKeepsQueueOK DEF Holds, Mode
  <2>3. lock_table' = [lock_table EXCEPT ![d] = r]
    BY <1>2
  <2> HIDE DEF r
  <2> QED
    BY <2>2, <2>3 DEF TableOK, QueueOK, In
<1> QED
  BY <1>1, <1>2 DEF unlock

-----------------------------------------------------------------------------
\* The empty lock table is sound.
LEMMA LMInitSound == LMInit => LMInv
<1> SUFFICES ASSUME LMInit PROVE LMInv
  OBVIOUS
<1>1. EmptyQueue \in LockRequestQueue
  BY DEF EmptyQueue, LockRequestQueue, GroupLockMode
<1>2. LMTypeOK
  BY <1>1 DEF LMInit, LMTypeOK, TransactionState, Result
<1>3. \A M \in SUBSET LockMode : In(EmptyQueue, M) = {}
  BY DEF In, EmptyQueue, LockMode
<1>4. QueueOK(EmptyQueue)
  <2>1. \A t \in Txn : EmptyQueue.mode[t] = "NONE"
    BY DEF EmptyQueue
  <2>2. \A t \in Txn : EmptyQueue.group \in GroupCovers[EmptyQueue.mode[t]]
    BY <2>1, Matrices DEF EmptyQueue, GroupLockMode
  <2>3. /\ Cardinality(In(EmptyQueue, SharedModes)) <= EmptyQueue.shared_lock_num
        /\ Cardinality(In(EmptyQueue, IXModes)) <= EmptyQueue.IX_lock_num
    <3>1. SharedModes \in SUBSET LockMode /\ IXModes \in SUBSET LockMode
      BY DEF SharedModes, IXModes, LockMode
    <3>2. In(EmptyQueue, SharedModes) = {} /\ In(EmptyQueue, IXModes) = {}
      BY <1>3, <3>1
    <3>3. EmptyQueue.shared_lock_num = 0 /\ EmptyQueue.IX_lock_num = 0
      BY DEF EmptyQueue
    <3>4. Cardinality({}) = 0
      BY FS_EmptySet
    <3> QED
      BY <3>2, <3>3, <3>4
  <2> QED
    BY <2>1, <2>2, <2>3 DEF QueueOK
<1>5. \A d \in DataId : lock_table[d] = EmptyQueue
  BY DEF LMInit
<1> QED
  BY <1>2, <1>4, <1>5 DEF LMInv

\* Besides the lock table, a lock call that check_lock lets in changes the
\* caller's phase, adds at most the object asked for to its lock_set_, and returns.
LEMMA LockCall ==
    ASSUME NEW t \in Txn, NEW d \in DataId,
           \/ lock_shared_on_record(t, d) \/ lock_exclusive_on_record(t, d)
           \/ lock_shared_on_table(t, d) \/ lock_exclusive_on_table(t, d)
           \/ lock_IS_on_table(t, d) \/ lock_IX_on_table(t, d)
    PROVE  /\ check_lock(t)
           /\ UNCHANGED lock_set \/ lock_set' = [lock_set EXCEPT ![t] = @ \cup {d}]
           /\ Return(t, "true") \/ Return(t, "throw")
<1> USE DEF AlreadyGranted, Throw, AppendRequest, UpgradeRequest
<1>1. CASE lock_shared_on_record(t, d)
  BY <1>1 DEF lock_shared_on_record
<1>2. CASE lock_exclusive_on_record(t, d)
  BY <1>2 DEF lock_exclusive_on_record
<1>3. CASE lock_shared_on_table(t, d)
  BY <1>3 DEF lock_shared_on_table
<1>4. CASE lock_exclusive_on_table(t, d)
  BY <1>4 DEF lock_exclusive_on_table
<1>5. CASE lock_IS_on_table(t, d)
  BY <1>5 DEF lock_IS_on_table
<1>6. CASE lock_IX_on_table(t, d)
  BY <1>6 DEF lock_IX_on_table
<1> QED
  BY <1>1, <1>2, <1>3, <1>4, <1>5, <1>6

\* That bookkeeping keeps the types.
LEMMA LockCallTypes ==
    ASSUME LMTypeOK, NEW t \in Txn, NEW d \in DataId, check_lock(t),
           UNCHANGED lock_set \/ lock_set' = [lock_set EXCEPT ![t] = @ \cup {d}],
           Return(t, "true") \/ Return(t, "throw")
    PROVE  /\ state' \in [Txn -> TransactionState]
           /\ lock_set' \in [Txn -> SUBSET DataId] /\ result' \in [Txn -> Result]
<1>1. state' \in [Txn -> TransactionState]
  BY DEF check_lock, LMTypeOK, TransactionState
<1>2. lock_set' \in [Txn -> SUBSET DataId]
  BY DEF LMTypeOK
<1>3. result' \in [Txn -> Result]
  BY DEF Return, LMTypeOK, Result
<1> QED
  BY <1>1, <1>2, <1>3

\* Every call of the lock manager keeps the lock table sound.
LEMMA LMNextSound == LMInv /\ [LMNext]_lm_vars => LMInv'
<1> SUFFICES ASSUME LMInv, [LMNext]_lm_vars PROVE LMInv'
  OBVIOUS
<1> USE DEF LMInv
<1>1. TableOK
  BY DEF LMTypeOK, TableOK
<1>2. CASE UNCHANGED lm_vars
  BY <1>2 DEF lm_vars, LMTypeOK, QueueOK, In
<1>3. ASSUME NEW t \in Txn, check_lock_fails(t)
      PROVE  TableOK' /\ state' \in [Txn -> TransactionState]
             /\ lock_set' \in [Txn -> SUBSET DataId] /\ result' \in [Txn -> Result]
  BY <1>1, <1>3 DEF check_lock_fails, Return, TableOK, QueueOK, In, LMTypeOK, Result
<1>4. ASSUME NEW t \in Txn, NEW d \in Record,
             lock_shared_on_record(t, d) \/ lock_exclusive_on_record(t, d)
      PROVE  TableOK' /\ state' \in [Txn -> TransactionState]
             /\ lock_set' \in [Txn -> SUBSET DataId] /\ result' \in [Txn -> Result]
  <2>1. TableOK'
    BY <1>1, <1>4, SharedOnRecord, ExclusiveOnRecord
  <2>2. d \in DataId
    BY DEF DataId
  <2> QED
    BY <2>1, <2>2, <1>4, LockCall, LockCallTypes
<1>5. ASSUME NEW t \in Txn, NEW d \in Table,
             \/ lock_shared_on_table(t, d) \/ lock_exclusive_on_table(t, d)
             \/ lock_IS_on_table(t, d) \/ lock_IX_on_table(t, d)
      PROVE  TableOK' /\ state' \in [Txn -> TransactionState]
             /\ lock_set' \in [Txn -> SUBSET DataId] /\ result' \in [Txn -> Result]
  <2>1. TableOK'
    BY <1>1, <1>5, SharedOnTable, ExclusiveOnTable, ISOnTable, IXOnTable
  <2>2. d \in DataId
    BY DEF DataId
  <2> QED
    BY <2>1, <2>2, <1>5, LockCall, LockCallTypes
<1>6. ASSUME NEW t \in Txn, NEW d \in DataId, unlock(t, d)
      PROVE  TableOK' /\ state' \in [Txn -> TransactionState]
             /\ lock_set' \in [Txn -> SUBSET DataId] /\ result' \in [Txn -> Result]
  <2>1. TableOK'
    BY <1>1, <1>6, Unlock
  <2> QED
    BY <2>1, <1>6 DEF unlock, Return, Result, LMTypeOK, TransactionState
<1>7. ASSUME NEW t \in Txn, finish(t)
      PROVE  TableOK' /\ state' \in [Txn -> TransactionState]
             /\ lock_set' \in [Txn -> SUBSET DataId] /\ result' \in [Txn -> Result]
  BY <1>1, <1>7 DEF finish, Return, Result, Finished, TableOK, QueueOK, In, LMTypeOK, TransactionState
<1>8. CASE LMNext
  <2>1. TableOK' /\ state' \in [Txn -> TransactionState]
        /\ lock_set' \in [Txn -> SUBSET DataId] /\ result' \in [Txn -> Result]
    BY <1>3, <1>4, <1>5, <1>6, <1>7, <1>8 DEF LMNext
  <2> QED
    BY <2>1 DEF TableOK, LMTypeOK
<1> QED
  BY <1>2, <1>8

\* The lock table is sound in every reachable state: each queue has compatible
\* requests and a group mode and counters that do not understate them.
THEOREM LMInvHolds == LMSpec => []LMInv
BY LMInitSound, LMNextSound, PTL DEF LMSpec

\* Members of the lock manager's classes always hold values of their types.
THEOREM TypeCorrect == LMSpec => []LMTypeOK
<1>1. LMInv => LMTypeOK
  BY DEF LMInv
<1> QED
  BY <1>1, LMInvHolds, PTL

\* No two transactions ever hold incompatible locks on a record or a table:
\* what check-and-append in the six lock methods is for.
THEOREM Compatibility == LMSpec => []LockCompatibility
<1>1. LMInv => LockCompatibility
  BY DEF LMInv, QueueOK, LockCompatibility, Holds, Mode
<1> QED
  BY <1>1, LMInvHolds, PTL

\* A queue's group mode and counters never understate the locks it holds.
THEOREM SummaryNeverUnderstates == LMSpec => []SummarySound
<1>1. LMInv => SummarySound
  BY DEF LMInv, QueueOK, In, SharedModes, IXModes, SummarySound, SharedHolders, IXHolders, Group, Mode
<1> QED
  BY <1>1, LMInvHolds, PTL


-----------------------------------------------------------------------------
\* How one step can affect the locks of transaction u.
Idle(u) == HeldBy(u)' = HeldBy(u) /\ lock_set'[u] = lock_set[u] /\ state'[u] = state[u]
Grow(u) == /\ state[u] \in {"DEFAULT", "GROWING"} /\ state'[u] = "GROWING"
           /\ \/ HeldBy(u)' = HeldBy(u) /\ lock_set'[u] = lock_set[u]
              \/ \E d \in DataId : /\ HeldBy(u)' = HeldBy(u) \cup {d}
                                   /\ d \in HeldBy(u) \/ lock_set'[u] = lock_set[u] \cup {d}
                                   /\ lock_set[u] \subseteq lock_set'[u]
Shrink(u) == /\ state[u] \notin Finished
             /\ state'[u] = IF state[u] = "GROWING" THEN "SHRINKING" ELSE state[u]
             /\ HeldBy(u)' \subseteq HeldBy(u) /\ lock_set'[u] = lock_set[u]
Finish(u) == HeldBy(u)' = HeldBy(u) /\ state[u] \notin Finished /\ state'[u] \in Finished
Effect(u) == Idle(u) \/ Grow(u) \/ Shrink(u) \/ Finish(u)

\* The locks held after SetRequest.
LEMMA HeldAfterSet ==
    ASSUME LMTypeOK, NEW t \in Txn, NEW d \in DataId, NEW m \in LockMode, NEW g, NEW sh, NEW ix,
           SetRequest(t, d, m, g, sh, ix), NEW u \in Txn
    PROVE  HeldBy(u)' = IF u = t THEN HeldBy(u) \cup {d} ELSE HeldBy(u)
<1>1. \A e \in DataId : lock_table'[e].mode[u] =
            IF e = d /\ u = t THEN m ELSE lock_table[e].mode[u]
  BY DEF SetRequest, LMTypeOK, LockRequestQueue
<1>2. m # "NONE"
  BY DEF LockMode
<1> QED
  BY <1>1, <1>2 DEF HeldBy, Holds, Mode

\* The endings of a lock method, seen from the locks of any transaction u.
LEMMA EndingEffect ==
    ASSUME LMTypeOK, NEW t \in Txn, NEW d \in DataId, NEW m \in LockMode, NEW g, NEW sh, NEW ix,
           check_lock(t), NEW u \in Txn,
           \/ AlreadyGranted(t) \/ Throw(t)
           \/ AppendRequest(t, d, m, g, sh, ix)
           \/ Holds(t, d) /\ UpgradeRequest(t, d, m, g, sh, ix)
    PROVE  Effect(u)
<1>1. u # t => state'[u] = state[u]
  BY DEF check_lock, LMTypeOK
<1>2. u = t => state[u] \in {"DEFAULT", "GROWING"} /\ state'[u] = "GROWING"
  BY DEF check_lock, LMTypeOK
<1>3. CASE AlreadyGranted(t) \/ Throw(t)
  BY <1>1, <1>2, <1>3 DEF AlreadyGranted, Throw, Effect, Idle, Grow, HeldBy, Holds, Mode
<1>4. CASE AppendRequest(t, d, m, g, sh, ix)
  <2>1. HeldBy(u)' = IF u = t THEN HeldBy(u) \cup {d} ELSE HeldBy(u)
    BY <1>4, HeldAfterSet DEF AppendRequest
  <2>2. lock_set'[u] = IF u = t THEN lock_set[u] \cup {d} ELSE lock_set[u]
    BY <1>4 DEF AppendRequest, LMTypeOK
  <2> QED
    BY <2>1, <2>2, <1>1, <1>2 DEF Effect, Idle, Grow
<1>5. CASE Holds(t, d) /\ UpgradeRequest(t, d, m, g, sh, ix)
  <2>1. HeldBy(u)' = IF u = t THEN HeldBy(u) \cup {d} ELSE HeldBy(u)
    BY <1>5, HeldAfterSet DEF UpgradeRequest
  <2>2. lock_set'[u] = lock_set[u] /\ d \in HeldBy(t)
    BY <1>5 DEF UpgradeRequest, HeldBy
  <2> QED
    BY <2>1, <2>2, <1>1, <1>2 DEF Effect, Idle, Grow
<1> QED
  BY <1>3, <1>4, <1>5

\* unlock takes at most the named lock away, and ends the growing phase.
LEMMA UnlockEffect ==
    ASSUME LMTypeOK, NEW t \in Txn, NEW d \in DataId, unlock(t, d), NEW u \in Txn
    PROVE  Effect(u)
<1>1. \A e \in DataId : lock_table'[e].mode[u] =
            IF e = d /\ u = t THEN "NONE" ELSE lock_table[e].mode[u]
  BY DEF unlock, RemoveRequest, LMTypeOK, LockRequestQueue, Holds, Mode
<1>2. IF u = t THEN HeldBy(u)' \subseteq HeldBy(u) ELSE HeldBy(u)' = HeldBy(u)
  BY <1>1 DEF HeldBy, Holds, Mode
<1> QED
  BY <1>2 DEF unlock, Effect, Idle, Shrink, LMTypeOK

\* What any call does to the locks, lock sets and phases of all transactions.
LEMMA StepEffect ==
    ASSUME LMTypeOK, LMNext, NEW u \in Txn
    PROVE  Effect(u)
<1> PICK t \in Txn :
       \/ check_lock_fails(t)
       \/ \E d \in Record : lock_shared_on_record(t, d) \/ lock_exclusive_on_record(t, d)
       \/ \E d \in Table : \/ lock_shared_on_table(t, d) \/ lock_exclusive_on_table(t, d)
                            \/ lock_IS_on_table(t, d) \/ lock_IX_on_table(t, d)
       \/ \E d \in DataId : unlock(t, d)
       \/ finish(t)
  BY DEF LMNext
<1> USE DEF LockMode
<1>1. CASE check_lock_fails(t)
  BY <1>1 DEF check_lock_fails, Effect, Idle, HeldBy, Holds, Mode
<1>2. ASSUME NEW d \in DataId, lock_shared_on_record(t, d) PROVE Effect(u)
  BY <1>2, EndingEffect DEF lock_shared_on_record
<1>3. ASSUME NEW d \in DataId, lock_exclusive_on_record(t, d) PROVE Effect(u)
  BY <1>3, EndingEffect DEF lock_exclusive_on_record, Holds
<1>4. ASSUME NEW d \in DataId, lock_shared_on_table(t, d) PROVE Effect(u)
  BY <1>4, EndingEffect DEF lock_shared_on_table, Holds
<1>5. ASSUME NEW d \in DataId, lock_exclusive_on_table(t, d) PROVE Effect(u)
  BY <1>5, EndingEffect DEF lock_exclusive_on_table
<1>6. ASSUME NEW d \in DataId, lock_IS_on_table(t, d) PROVE Effect(u)
  BY <1>6, EndingEffect DEF lock_IS_on_table
<1>7. ASSUME NEW d \in DataId, lock_IX_on_table(t, d) PROVE Effect(u)
  BY <1>7, EndingEffect DEF lock_IX_on_table, Holds
<1>8. CASE finish(t)
  BY <1>8 DEF finish, Effect, Idle, Finish, HeldBy, Holds, Mode, LMTypeOK
<1> QED
  BY <1>1, <1>2, <1>3, <1>4, <1>5, <1>6, <1>7, <1>8, UnlockEffect DEF DataId

\* A transaction that has asked for no lock holds none; with it and LocksTracked
\* the two remaining properties are inductive.
PhaseInv == /\ LMTypeOK
            /\ \A t \in Txn : state[t] = "DEFAULT" => HeldBy(t) = {}
            /\ LocksTracked

\* Every call keeps locks tracked in lock_set_.
LEMMA PhaseStep == PhaseInv /\ LMTypeOK' /\ [LMNext]_lm_vars => PhaseInv'
<1> SUFFICES ASSUME PhaseInv, LMTypeOK', [LMNext]_lm_vars, NEW u \in Txn
             PROVE  /\ state'[u] = "DEFAULT" => HeldBy(u)' = {}
                    /\ state'[u] \notin Finished => HeldBy(u)' \subseteq lock_set'[u]
  BY DEF PhaseInv, LocksTracked
<1>1. /\ state[u] = "DEFAULT" => HeldBy(u) = {}
      /\ state[u] \notin Finished => HeldBy(u) \subseteq lock_set[u]
  BY DEF PhaseInv, LocksTracked
<1>2. CASE UNCHANGED lm_vars
  BY <1>1, <1>2 DEF lm_vars, HeldBy, Holds, Mode
<1>3. CASE LMNext
  BY <1>1, <1>3, StepEffect DEF PhaseInv, Effect, Idle, Grow, Shrink, Finish, Finished
<1> QED
  BY <1>2, <1>3

\* In every reachable state the locks of live transactions are in their
\* lock_set_, which is what commit and abort walk.
THEOREM PhaseInvHolds == LMSpec => []PhaseInv
<1>1. LMInit => PhaseInv
  <2> SUFFICES ASSUME LMInit PROVE PhaseInv
    OBVIOUS
  <2>1. LMTypeOK
    BY LMInitSound DEF LMInv
  <2>2. \A t \in Txn : HeldBy(t) = {}
    BY DEF LMInit, EmptyQueue, HeldBy, Holds, Mode
  <2> QED
    BY <2>1, <2>2 DEF PhaseInv, LocksTracked
<1> QED
  BY <1>1, PhaseStep, TypeCorrect, PTL DEF LMSpec

\* Every lock of a live transaction is in the lock_set_ that commit and abort walk.
THEOREM Tracking == LMSpec => []LocksTracked
<1>1. PhaseInv => LocksTracked
  BY DEF PhaseInv
<1> QED
  BY <1>1, PhaseInvHolds, PTL

\* Two-phase locking: after giving up its first lock, or ending, a transaction
\* never gets another.
THEOREM TwoPhaseLocking == LMSpec => TwoPhase
<1> DEFINE A == \A t \in Txn :
                  /\ (HeldBy(t) \ HeldBy(t)' # {}) => state'[t] \notin {"DEFAULT", "GROWING"}
                  /\ state[t] \notin {"DEFAULT", "GROWING"} =>
                        HeldBy(t)' \subseteq HeldBy(t) /\ state'[t] \notin {"DEFAULT", "GROWING"}
<1>1. PhaseInv /\ [LMNext]_lm_vars => [A]_lm_vars
  <2> SUFFICES ASSUME PhaseInv, LMNext, NEW t \in Txn
               PROVE  /\ (HeldBy(t) \ HeldBy(t)' # {}) => state'[t] \notin {"DEFAULT", "GROWING"}
                      /\ state[t] \notin {"DEFAULT", "GROWING"} =>
                           HeldBy(t)' \subseteq HeldBy(t) /\ state'[t] \notin {"DEFAULT", "GROWING"}
    OBVIOUS
  <2> QED
    BY StepEffect DEF PhaseInv, Effect, Idle, Grow, Shrink, Finish, Finished
<1> QED
  BY <1>1, PhaseInvHolds, PTL DEF LMSpec, TwoPhase
=============================================================================
