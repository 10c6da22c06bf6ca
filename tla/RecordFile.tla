---------------------------- MODULE RecordFile -----------------------------
(***************************************************************************)
(* RmFileHandle and RmScan: a table's heap file of slotted pages, with the *)
(* bitmaps, the chain of pages that have room, and the record locks taken  *)
(* on the way.  Every transaction is run by a thread of its own.           *)
(*                                                                         *)
(* No mutex protects a file, so two specifications are given.  In Spec the *)
(* operations of different threads follow one another, and in              *)
(* ConcurrentSpec any operation may be interrupted by others.              *)
(***************************************************************************)
EXTENDS LockManager, Sequences

CONSTANTS num_records_per_page,  \* slots of a page
          MaxPage,               \* bound on the pages of the file
          MaxOps                 \* bound on the operations of a transaction

PageNo == 1 .. MaxPage
Slot == 0 .. num_records_per_page - 1
RM_NO_PAGE == -1

ASSUME RecordAssumption ==
    /\ num_records_per_page \in Nat \ {0} /\ MaxPage \in Nat /\ MaxOps \in Nat
    /\ Record = PageNo \X (0 .. num_records_per_page)

VARIABLES num_pages, first_free_page_no,  \* RmFileHdr
          next_free_page_no, num_records, \* RmPageHdr of each page
          bitmap,                         \* the slots in use of each page
          pc, ops,                        \* where a thread is, how many operations it began
          rid,                            \* the page and slot it works on
          seen,                           \* the records its scan got so far
          last                            \* what its last scan got, if it changed nothing since

file_vars == <<num_pages, first_free_page_no, next_free_page_no, num_records, bitmap>>
thread_vars == <<pc, ops, rid, seen, last>>
vars == <<lm_vars, file_vars, thread_vars>>

Nowhere == <<0, -1>>
NoScan == {Nowhere}

Init ==
    /\ LMInit
    /\ num_pages = 1 /\ first_free_page_no = RM_NO_PAGE
    /\ next_free_page_no = [p \in PageNo |-> RM_NO_PAGE]
    /\ num_records = [p \in PageNo |-> 0]
    /\ bitmap = [p \in PageNo |-> {}]
    /\ pc = [t \in Txn |-> "idle"] /\ ops = [t \in Txn |-> 0]
    /\ rid = [t \in Txn |-> Nowhere]
    /\ seen = [t \in Txn |-> {}] /\ last = [t \in Txn |-> NoScan]

Goto(t, place) == pc' = [pc EXCEPT ![t] = place]
Start(t) == pc[t] = "idle" /\ ops[t] < MaxOps /\ ops' = [ops EXCEPT ![t] = @ + 1]

\* Bitmap::next_bit over a page: the first slot after curr that is in use (bit) or
\* free (~bit), num_records_per_page if there is none.
next_bit(bit, p, curr) ==
    LET found == {s \in Slot : s > curr /\ ((s \in bitmap[p]) <=> bit)}
    IN IF found = {} THEN num_records_per_page ELSE Min(found)

\* A lock method called by an operation: on an exception the thread aborts.
Locking(t, lock, granted) ==
    /\ lock
    /\ Goto(t, IF result'[t] = "throw" THEN "end" ELSE granted)

-----------------------------------------------------------------------------
\* insert_record: create_page_handle gets the first page with room, or a new one.
create_page_handle(t) ==
    /\ Start(t) /\ Goto(t, "slot")
    /\ IF first_free_page_no # RM_NO_PAGE
       THEN rid' = [rid EXCEPT ![t] = <<first_free_page_no, -1>>] /\ UNCHANGED file_vars
       ELSE /\ num_pages <= MaxPage
            /\ rid' = [rid EXCEPT ![t] = <<num_pages, -1>>]
            /\ next_free_page_no' = [next_free_page_no EXCEPT ![num_pages] = first_free_page_no]
            /\ num_records' = [num_records EXCEPT ![num_pages] = 0]
            /\ first_free_page_no' = num_pages
            /\ num_pages' = num_pages + 1
            /\ UNCHANGED bitmap
    /\ UNCHANGED <<lm_vars, seen, last>>

\* Its first free slot is chosen before the lock is asked for.
choose_slot(t) ==
    /\ pc[t] = "slot" /\ Goto(t, "lock")
    /\ rid' = [rid EXCEPT ![t] = <<@[1], next_bit(FALSE, @[1], -1)>>]
    /\ UNCHANGED <<lm_vars, file_vars, ops, seen, last>>

lock_slot(t) ==
    /\ pc[t] = "lock"
    /\ Locking(t, lock_exclusive_on_record(t, rid[t]), "insert")
    /\ UNCHANGED <<file_vars, ops, rid, seen, last>>

fill_slot_NeverFull(t) ==
    LET p == rid[t][1]
    IN /\ pc[t] = "insert" /\ Goto(t, "idle")
       /\ bitmap' = [bitmap EXCEPT ![p] = @ \cup {rid[t][2]}]
       /\ num_records' = [num_records EXCEPT ![p] = @ + 1]
       /\ rid' = [rid EXCEPT ![t] = Nowhere]
       /\ last' = [last EXCEPT ![t] = NoScan]
       /\ UNCHANGED <<lm_vars, num_pages, next_free_page_no, first_free_page_no, ops, seen>>

fill_slot(t) ==
    LET p == rid[t][1]
    IN /\ pc[t] = "insert" /\ Goto(t, "idle")
       /\ bitmap' = [bitmap EXCEPT ![p] = @ \cup {rid[t][2]}]
       /\ num_records' = [num_records EXCEPT ![p] = @ + 1]
       /\ first_free_page_no' = IF num_records[p] + 1 = num_records_per_page
                                THEN next_free_page_no[p] ELSE first_free_page_no
       /\ rid' = [rid EXCEPT ![t] = Nowhere]
       /\ last' = [last EXCEPT ![t] = NoScan]
       /\ UNCHANGED <<lm_vars, num_pages, next_free_page_no, ops, seen>>

-----------------------------------------------------------------------------
\* delete_record of a record the thread's own scan got before.
delete_record(t, r) ==
    /\ r \in seen[t]
    /\ Start(t)
    /\ Locking(t, lock_exclusive_on_record(t, r), "delete")
    /\ rid' = [rid EXCEPT ![t] = r]
    /\ seen' = [seen EXCEPT ![t] = @ \ {r}]
    /\ UNCHANGED <<file_vars, last>>

\* update_record overwrites the slot's bytes and leaves the headers alone.
update_record(t, r) ==
    /\ r \in seen[t]
    /\ Start(t)
    /\ Locking(t, lock_exclusive_on_record(t, r), "idle")
    /\ UNCHANGED <<file_vars, rid, seen, last>>



\* release_page_handle puts a page that was full in front of the chain.
clear_slot(t) ==
    LET p == rid[t][1]
        was_full == num_records[p] - 1 = num_records_per_page - 1
    IN /\ pc[t] = "delete" /\ Goto(t, "idle")
       /\ bitmap' = [bitmap EXCEPT ![p] = @ \ {rid[t][2]}]
       /\ num_records' = [num_records EXCEPT ![p] = @ - 1]
       /\ next_free_page_no' = IF was_full THEN [next_free_page_no EXCEPT ![p] = first_free_page_no]
                               ELSE next_free_page_no
       /\ first_free_page_no' = IF was_full THEN p ELSE first_free_page_no
       /\ rid' = [rid EXCEPT ![t] = Nowhere]
       /\ last' = [last EXCEPT ![t] = NoScan]
       /\ UNCHANGED <<lm_vars, num_pages, ops, seen>>

-----------------------------------------------------------------------------
next_SlotNotReset(r) ==
    LET later == {p \in PageNo : p > r[1] /\ p < num_pages /\ next_bit(TRUE, p, r[2]) \in Slot}
        here == next_bit(TRUE, r[1], r[2])
    IN IF here < num_records_per_page THEN <<r[1], here>>
       ELSE IF later # {} THEN <<Min(later), next_bit(TRUE, Min(later), r[2])>> ELSE Nowhere

\* RmScan::next: the first record after r, Nowhere at the end of the file.
next(r) ==
    LET here == next_bit(TRUE, r[1], r[2])
        later == {p \in PageNo : p > r[1] /\ p < num_pages /\ bitmap[p] \cap Slot # {}}
    IN IF here < num_records_per_page THEN <<r[1], here>>
       ELSE IF later # {} THEN <<Min(later), next_bit(TRUE, Min(later), -1)>> ELSE Nowhere

FirstRecord == IF num_pages > 1 THEN next(<<1, -1>>) ELSE Nowhere

Arrive(t, r) ==
    IF r = Nowhere THEN Goto(t, "idle") /\ rid' = [rid EXCEPT ![t] = Nowhere]
                        /\ last' = [last EXCEPT ![t] = seen'[t]]
    ELSE Goto(t, "read") /\ rid' = [rid EXCEPT ![t] = r] /\ UNCHANGED last

scan_begin(t) ==
    /\ Start(t)
    /\ seen' = [seen EXCEPT ![t] = {}]
    /\ Arrive(t, FirstRecord)
    /\ UNCHANGED <<lm_vars, file_vars>>

\* get_record of the record the scan has come to.
scan_read(t) ==
    /\ pc[t] = "read"
    /\ Locking(t, lock_shared_on_record(t, rid[t]), "next")
    /\ seen' = IF result'[t] = "throw" THEN seen ELSE [seen EXCEPT ![t] = @ \cup {rid[t]}]
    /\ UNCHANGED <<file_vars, ops, rid, last>>

scan_next(t) ==
    /\ pc[t] = "next"
    /\ UNCHANGED <<lm_vars, file_vars, ops, seen>>
    /\ Arrive(t, next(rid[t]))

-----------------------------------------------------------------------------
\* Commit or abort: the locks are released one by one, then the transaction ends.
start_end(t) ==
    /\ pc[t] = "idle" /\ Goto(t, "end")
    /\ UNCHANGED <<lm_vars, file_vars, ops, rid, seen, last>>

end_txn(t) ==
    /\ pc[t] = "end"
    /\ \/ \E d \in lock_set[t] : Holds(t, d) /\ unlock(t, d) /\ UNCHANGED thread_vars
       \/ /\ HeldBy(t) \cap lock_set[t] = {} /\ finish(t) /\ Goto(t, "done")
          /\ rid' = [rid EXCEPT ![t] = Nowhere]
          /\ seen' = [seen EXCEPT ![t] = {}] /\ last' = [last EXCEPT ![t] = NoScan]
          /\ UNCHANGED ops
    /\ UNCHANGED file_vars

Step(t) ==
    \/ create_page_handle(t) \/ choose_slot(t) \/ lock_slot(t) \/ fill_slot(t)
    \/ \E r \in Record : delete_record(t, r) \/ update_record(t, r)
    \/ clear_slot(t)
    \/ scan_begin(t) \/ scan_read(t) \/ scan_next(t)
    \/ start_end(t) \/ end_txn(t)

\* Not in the middle of an operation.
Outside(t) == pc[t] \in {"idle", "end", "done"}

Next == \E t \in Txn : (\A u \in Txn \ {t} : Outside(u)) /\ Step(t)
Spec == Init /\ [][Next]_vars

ConcurrentSpec == Init /\ [][\E t \in Txn : Step(t)]_vars

-----------------------------------------------------------------------------
\* Every variable holds a value of its type.
TypeOK ==
    /\ LMTypeOK
    /\ num_pages \in 1 .. MaxPage + 1
    /\ first_free_page_no \in PageNo \cup {RM_NO_PAGE}
    /\ next_free_page_no \in [PageNo -> PageNo \cup {RM_NO_PAGE}]
    /\ num_records \in [PageNo -> 0 .. num_records_per_page]
    /\ bitmap \in [PageNo -> SUBSET Slot]
    /\ pc \in [Txn -> {"idle", "slot", "lock", "insert", "delete", "read", "next", "end", "done"}]
    /\ ops \in [Txn -> 0 .. MaxOps]
    /\ rid \in [Txn -> Record \cup (PageNo \X {-1}) \cup {Nowhere}]
    /\ seen \in [Txn -> SUBSET Record]
    /\ last \in [Txn -> SUBSET Record \cup {NoScan}]

\* The pages in the chain, as many steps from its head as there are pages.
ChainFrom[n \in 0 .. MaxPage, p \in PageNo \cup {RM_NO_PAGE}] ==
    IF n = 0 \/ p = RM_NO_PAGE THEN <<>> ELSE <<p>> \o ChainFrom[n - 1, next_free_page_no[p]]



\* A thread about to fill a slot has the record's lock and finds the slot free:
\* insert_record's comment says the data is copied to a free slot.
FillsFreeSlots ==
    \A t \in Txn : pc[t] = "insert" => /\ rid[t][2] \in Slot /\ rid[t][2] \notin bitmap[rid[t][1]]
                                       /\ Mode(t, rid[t]) = "EXLUCSIVE"

\* A scan misses no record and repeats none: it goes to the next record in page
\* and slot order from wherever it is.
Records == {r \in Record : r[2] \in bitmap[r[1]]}
Before(r, s) == r[1] < s[1] \/ (r[1] = s[1] /\ r[2] < s[2])

ScanMissesNothing ==
    \A r \in {<<p, s>> : p \in 1 .. num_pages - 1, s \in -1 .. num_records_per_page - 1} :
        LET ahead == {q \in Records : Before(r, q)}
        IN IF ahead = {} THEN next(r) = Nowhere
           ELSE next(r) \in ahead /\ \A q \in ahead : ~Before(q, next(r))

\* The Lab4 document (line 4) asks for serializable transactions and (line 241) for
\* phantoms to be avoided: what a transaction scans again, having changed
\* nothing, it finds unchanged.
NoPhantoms ==
    [][\A t \in Txn : last[t] # NoScan /\ last'[t] # NoScan => last'[t] = last[t]]_vars
=============================================================================
