------------------------------ MODULE Storage ------------------------------
(***************************************************************************)
(* Table files over the buffer pool: what SmManager::create_table,         *)
(* drop_table, close_db and open_db do to descriptors, pages and files     *)
(* through RmManager and DiskManager.  A page is known to the pool by its  *)
(* descriptor, the kernel hands out the lowest descriptor that is free,    *)
(* and create_file never closes the one it opened.                         *)
(*                                                                         *)
(* DDL statements run while no caller has a page of the table.  Page 0 of  *)
(* a file is its header, which is read and written outside the pool.       *)
(***************************************************************************)
EXTENDS BufferPool

CONSTANT File    \* names of tables, which are names of files

VARIABLES path2fd,  \* DiskManager::path2fd_; None for a table that does not exist
          leaked    \* descriptors create_file left open

storage_vars == <<vars, path2fd, leaked>>

Exists(t) == path2fd[t] # None
Unused == Fd \ (leaked \cup {path2fd[t] : t \in File})
Lowest(S) == CHOOSE fd \in S : \A other \in S : fd <= other

StorageInit ==
    /\ Init
    /\ path2fd = [t \in File |-> None] /\ leaked = {}

-----------------------------------------------------------------------------

\* RmManager::create_file and open_file: one descriptor is lost to O_CREAT, the
\* next one is opened, closed again after the header is written, and reopened.
create_table(t) ==
    LET lost == Lowest(Unused)
        fd == Lowest(Unused \ {lost})
    IN /\ ~Exists(t) /\ Cardinality(Unused) >= 2
       /\ leaked' = leaked \cup {lost}
       /\ path2fd' = [path2fd EXCEPT ![t] = fd]
       /\ disk' = [disk EXCEPT ![fd] = <<Zero>>]
       /\ fd2pageno' = [fd2pageno EXCEPT ![fd] = 1]
       /\ UNCHANGED <<pool_vars, handle>>

Unheld(t) == \A c \in Caller : Has(c) => handle[c].page[1] # path2fd[t]

\* RmManager::close_file flushes the table's pages, and leaves them in the pool;
\* then the file is unlinked.
drop_table(t) ==
    LET fd == path2fd[t]
    IN /\ Exists(t) /\ Unheld(t)
       /\ pages' = Cleaned(fd)
       /\ disk' = [disk EXCEPT ![fd] = <<>>]
       /\ path2fd' = [path2fd EXCEPT ![t] = None]
       /\ UNCHANGED <<page_table, free_list, LRUlist, fd2pageno, handle, leaked>>


\* close_db flushes every table's pages and writes its header; the next process
\* opens the tables one after the other, on the lowest descriptors, and goes on
\* with the page numbers the headers give.
restart ==
    LET tables == {t \in File : Exists(t)}
        fds == {fd \in Fd : Cardinality({other \in Fd : other < fd}) < Cardinality(tables)}
    IN /\ \A c \in Caller : ~Has(c)
       /\ \E opened \in [tables -> fds] :
             /\ \A t, u \in tables : opened[t] = opened[u] => t = u
             /\ path2fd' = [t \in File |-> IF t \in tables THEN opened[t] ELSE None]
             /\ disk' = [fd \in Fd |-> IF fd \in fds
                                       THEN Flushed(path2fd[CHOOSE t \in tables : opened[t] = fd]) ELSE <<>>]
             /\ fd2pageno' = [fd \in Fd |-> IF fd \in fds
                                            THEN fd2pageno[path2fd[CHOOSE t \in tables : opened[t] = fd]] ELSE 0]
       /\ pages' = [f \in Frame |-> Loaded(f, NoPage, Zero, 0)]
       /\ page_table' = [p \in PageId |-> None]
       /\ free_list' = [i \in 1 .. pool_size |-> i - 1] /\ LRUlist' = <<>>
       /\ handle' = [c \in Caller |-> Without("idle")]
       /\ leaked' = {}

\* What the record manager does with the pages of the tables that exist.
use_pages(c) ==
    /\ \/ \E t \in File : Exists(t) /\ new_page(c, path2fd[t])
       \/ \E t \in File : \E n \in 1 .. MaxPage - 1 :
             Exists(t) /\ n < fd2pageno[path2fd[t]] /\ fetch_page(c, <<path2fd[t], n>>)
       \/ no_victim(c)
       \/ \E v \in Content : change_page(c, v)
       \/ unpin_page(c)
    /\ UNCHANGED <<path2fd, leaked>>

StorageNext ==
    \/ \E t \in File : create_table(t) \/ drop_table(t)
    \/ restart
    \/ \E c \in Caller : use_pages(c)

StorageSpec == StorageInit /\ [][StorageNext]_storage_vars

-----------------------------------------------------------------------------
\* The contents of page n of table t.
Contents(t, n) == IF Exists(t) THEN Current(<<path2fd[t], n>>) ELSE Zero

Wrote(t, n) == \E c \in Caller : Has(c) /\ handle'[c].changed /\ handle[c].page = <<path2fd[t], n>>

=============================================================================
