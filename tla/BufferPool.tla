----------------------------- MODULE BufferPool -----------------------------
(***************************************************************************)
(* BufferPoolManager with its LRUReplacer, over the page I/O of            *)
(* DiskManager.  Every public method runs under latch_, so each is one     *)
(* action; the threads that call it interleave between calls, and keep a   *)
(* pointer to a frame from fetch_page or new_page until they unpin it.     *)
(*                                                                         *)
(* A caller holds at most one page at a time and sticks to the documented  *)
(* contract: it passes is_dirty = true if it changed the page.  Contents   *)
(* are opaque values; Zero is a page of zero bytes.                        *)
(***************************************************************************)
EXTENDS Integers, Sequences, FiniteSets

CONSTANTS pool_size,  \* number of frames
          Fd,         \* file descriptors
          MaxPage,    \* bound on the pages allocated in a file
          Caller,     \* threads that use the pool
          Value       \* contents other than zero bytes

Frame == 0 .. pool_size - 1
None == -1                 \* INVALID_FRAME_ID, and no entry in the page table
NoPage == <<-1, -1>>       \* a PageId with INVALID_PAGE_ID
Zero == "zero"

ASSUME PoolAssumption ==
    pool_size \in Nat /\ MaxPage \in Nat /\ Fd \subseteq Nat /\ Zero \notin Value

VARIABLES pages,       \* BufferPoolManager::pages_
          page_table,  \* page_table_; None where a page has no entry
          free_list,   \* free_list_, front first
          LRUlist,     \* LRUReplacer::LRUlist_, most recently unpinned first
          disk,        \* the pages of the file open under each descriptor
          fd2pageno,   \* DiskManager::fd2pageno_
          handle       \* what each caller got from its latest call

pool_vars == <<pages, page_table, free_list, LRUlist>>
vars == <<pool_vars, disk, fd2pageno, handle>>

PageId == Fd \X (0 .. MaxPage - 1)
Content == Value \cup {Zero}
Page == [id : PageId \cup {NoPage}, data : Content, is_dirty : BOOLEAN, pin_count : Nat]

\* How a caller's latest call ended and, while it has a page: which one, the
\* frame its Page pointer points to, and whether it changed the page.
Handle == [status : {"idle", "nullptr", "throw", "pinned"}, page : PageId \cup {NoPage},
           frame : Frame \cup {None}, changed : BOOLEAN]
Without(status) == [status |-> status, page |-> NoPage, frame |-> None, changed |-> FALSE]
Has(c) == handle[c].status = "pinned"

Init ==
    /\ pages = [f \in Frame |-> [id |-> NoPage, data |-> Zero, is_dirty |-> FALSE, pin_count |-> 0]]
    /\ page_table = [p \in PageId |-> None]
    /\ free_list = [i \in 1 .. pool_size |-> i - 1]
    /\ LRUlist = <<>>
    /\ disk = [fd \in Fd |-> <<>>]
    /\ fd2pageno = [fd \in Fd |-> 0]
    /\ handle = [c \in Caller |-> Without("idle")]

-----------------------------------------------------------------------------
\* DiskManager.  Page n is element n + 1 of its file; writing past the end
\* leaves zero bytes between, reading past it is an error.
InFile(d, p) == p[2] < Len(d[p[1]])

read_page(d, p) == d[p[1]][p[2] + 1]

WritePage(s, n, v) ==
    [i \in 1 .. IF n < Len(s) THEN Len(s) ELSE n + 1 |->
        IF i = n + 1 THEN v ELSE IF i <= Len(s) THEN s[i] ELSE Zero]

write_page(p, v) == [disk EXCEPT ![p[1]] = WritePage(@, p[2], v)]

pin_NotErased(list, f) == list

\* LRUReplacer: the list without f, and the list with f in front.
pin(list, f) ==
    IF \E i \in DOMAIN list : list[i] = f
    THEN LET k == CHOOSE i \in DOMAIN list : list[i] = f
         IN [i \in 1 .. Len(list) - 1 |-> IF i < k THEN list[i] ELSE list[i + 1]]
    ELSE list

unpin(list, f) == IF \E i \in DOMAIN list : list[i] = f THEN list ELSE <<f>> \o list

-----------------------------------------------------------------------------
\* find_victim_page: the frame it picks, None if there is none, and the lists
\* it leaves.
Victim == IF free_list # <<>> THEN Head(free_list)
          ELSE IF LRUlist # <<>> THEN LRUlist[Len(LRUlist)] ELSE None
FreeAfterVictim == IF free_list # <<>> THEN Tail(free_list) ELSE free_list
LRUAfterVictim == IF free_list = <<>> THEN SubSeq(LRUlist, 1, Len(LRUlist) - 1) ELSE LRUlist


\* update_page, in three parts: the write of a dirty page, the move of the page
\* table entry (insert leaves an entry that exists alone), the frame's new state.
update_page_disk(f) == IF pages[f].is_dirty THEN write_page(pages[f].id, pages[f].data) ELSE disk

update_page_table(f, new) ==
    LET erased == [p \in PageId |-> IF p = pages[f].id THEN None ELSE page_table[p]]
    IN [p \in PageId |-> IF p = new /\ erased[p] = None THEN f ELSE erased[p]]

Loaded(f, new, data, pins) == [id |-> new, data |-> data, is_dirty |-> FALSE, pin_count |-> pins]

Hold(c, p, f) == handle' = 
    [handle EXCEPT ![c] = [status |-> "pinned", page |-> p, frame |-> f, changed |-> FALSE]]
Return(c, status) == handle' = [handle EXCEPT ![c] = Without(status)]

fetch_page_hit_SetsPinCount(c, p) ==
    LET f == page_table[p]
    IN /\ ~Has(c) /\ f # None
       /\ LRUlist' = pin(LRUlist, f)
       /\ pages' = [pages EXCEPT ![f].pin_count = 1]
       /\ Hold(c, p, f)
       /\ UNCHANGED <<page_table, free_list, disk, fd2pageno>>

\* The page is in the pool.
fetch_page_hit(c, p) ==
    LET f == page_table[p]
    IN /\ ~Has(c) /\ f # None
       /\ LRUlist' = pin(LRUlist, f)
       /\ pages' = [pages EXCEPT ![f].pin_count = @ + 1]
       /\ Hold(c, p, f)
       /\ UNCHANGED <<page_table, free_list, disk, fd2pageno>>

\* It is not.  A short read throws after the frame has been given to the page,
\* but before it is pinned.
fetch_page_miss(c, p) ==
    LET f == Victim
    IN /\ ~Has(c) /\ page_table[p] = None /\ f # None
       /\ free_list' = FreeAfterVictim
       /\ disk' = update_page_disk(f)
       /\ page_table' = update_page_table(f, p)
       /\ \/ /\ InFile(disk', p)
             /\ pages' = [pages EXCEPT ![f] = Loaded(f, p, read_page(disk', p), 1)]
             /\ LRUlist' = pin(LRUAfterVictim, f)
             /\ Hold(c, p, f)
          \/ /\ ~InFile(disk', p)
             /\ pages' = [pages EXCEPT ![f] = Loaded(f, p, Zero, @.pin_count)]
             /\ LRUlist' = LRUAfterVictim
             /\ Return(c, "throw")
       /\ UNCHANGED fd2pageno

\* find_victim_page found nothing, in fetch_page or new_page.
no_victim(c) ==
    /\ ~Has(c) /\ Victim = None
    /\ Return(c, "nullptr")
    /\ UNCHANGED <<pool_vars, disk, fd2pageno>>

fetch_page(c, p) == fetch_page_hit(c, p) \/ fetch_page_miss(c, p)

new_page(c, fd) ==
    LET f == Victim
        p == <<fd, fd2pageno[fd]>>
    IN /\ ~Has(c) /\ f # None
       /\ fd2pageno[fd] < MaxPage
       /\ fd2pageno' = [fd2pageno EXCEPT ![fd] = @ + 1]
       /\ free_list' = FreeAfterVictim
       /\ disk' = update_page_disk(f)
       /\ page_table' = update_page_table(f, p)
       /\ pages' = [pages EXCEPT ![f] = Loaded(f, p, Zero, 1)]
       /\ LRUlist' = pin(LRUAfterVictim, f)
       /\ Hold(c, p, f)

\* The caller writes through its pointer.
change_page(c, v) ==
    /\ Has(c)
    /\ pages' = [pages EXCEPT ![handle[c].frame].data = v]
    /\ handle' = [handle EXCEPT ![c].changed = TRUE]
    /\ UNCHANGED <<page_table, free_list, LRUlist, disk, fd2pageno>>


unpin_page(c) ==
    LET f == page_table[handle[c].page]
    IN /\ Has(c)
       /\ IF f = None \/ pages[f].pin_count = 0 THEN UNCHANGED <<pages, LRUlist>>
          ELSE /\ pages' = [pages EXCEPT ![f].pin_count = @ - 1,
                                         ![f].is_dirty = @ \/ handle[c].changed]
               /\ LRUlist' = IF pages[f].pin_count = 1 THEN unpin(LRUlist, f) ELSE LRUlist
       /\ Return(c, "idle")
       /\ UNCHANGED <<page_table, free_list, disk, fd2pageno>>

flush_page(p) ==
    \E f \in Frame :
        /\ pages[f].id = p /\ \A g \in Frame : pages[g].id = p => f <= g
        /\ disk' = write_page(p, pages[f].data)
        /\ pages' = [pages EXCEPT ![f].is_dirty = FALSE]
        /\ UNCHANGED <<page_table, free_list, LRUlist, fd2pageno, handle>>

delete_page_EvenIfPinned(p) ==
    LET f == page_table[p]
    IN /\ f # None
       /\ disk' = update_page_disk(f)
       /\ page_table' = update_page_table(f, NoPage)
       /\ pages' = [pages EXCEPT ![f] = Loaded(f, NoPage, Zero, @.pin_count)]
       /\ free_list' = Append(free_list, f)
       /\ UNCHANGED <<LRUlist, fd2pageno, handle>>

delete_page_Unpins(p) ==
    LET f == page_table[p]
    IN /\ f # None /\ pages[f].pin_count = 0
       /\ disk' = update_page_disk(f)
       /\ page_table' = update_page_table(f, NoPage)
       /\ pages' = [pages EXCEPT ![f] = Loaded(f, NoPage, Zero, @.pin_count - 1)]
       /\ free_list' = Append(free_list, f)
       /\ UNCHANGED <<LRUlist, fd2pageno, handle>>

\* The frame goes to the free list but stays in the replacer's list.
delete_page(p) ==
    LET f == page_table[p]
    IN /\ f # None /\ pages[f].pin_count = 0
       /\ disk' = update_page_disk(f)
       /\ page_table' = update_page_table(f, NoPage)
       /\ pages' = [pages EXCEPT ![f] = Loaded(f, NoPage, Zero, @.pin_count)]
       /\ free_list' = Append(free_list, f)
       /\ UNCHANGED <<LRUlist, fd2pageno, handle>>

\* The file after every page of it in the pool was written, frame by frame.
Flushed(fd) ==
    LET mine == {f \in Frame : pages[f].id[1] = fd}
        held == {pages[f].id[2] : f \in mine}
        Latest(n) == pages[CHOOSE f \in mine : /\ pages[f].id[2] = n
                                               /\ \A g \in mine : pages[g].id[2] = n => g <= f].data
        size == IF \E n \in held : n >= Len(disk[fd])
                THEN 1 + CHOOSE n \in held : \A m \in held : m <= n ELSE Len(disk[fd])
    IN [i \in 1 .. size |-> IF i - 1 \in held THEN Latest(i - 1)
                           ELSE IF i <= Len(disk[fd]) THEN disk[fd][i] ELSE Zero]

Cleaned(fd) == [f \in Frame |-> [pages[f] EXCEPT !.is_dirty = @ /\ pages[f].id[1] # fd]]

flush_all_pages(fd) ==
    /\ disk' = [disk EXCEPT ![fd] = Flushed(fd)]
    /\ pages' = Cleaned(fd)
    /\ UNCHANGED <<page_table, free_list, LRUlist, fd2pageno, handle>>

Next ==
    \/ \E c \in Caller :
          \/ \E fd \in Fd : new_page(c, fd)
          \/ \E p \in PageId : p[2] < fd2pageno[p[1]] /\ fetch_page(c, p)
          \/ no_victim(c)
          \/ \E v \in Content : change_page(c, v)
          \/ unpin_page(c)
    \/ \E p \in PageId : flush_page(p) \/ delete_page(p)
    \/ \E fd \in Fd : flush_all_pages(fd)

Spec == Init /\ [][Next]_vars

-----------------------------------------------------------------------------
\* Every variable holds a value of its type.
TypeOK ==
    /\ pages \in [Frame -> Page]
    /\ page_table \in [PageId -> Frame \cup {None}]
    /\ free_list \in Seq(Frame) /\ LRUlist \in Seq(Frame)
    /\ disk \in [Fd -> Seq(Content)]
    /\ fd2pageno \in [Fd -> 0 .. MaxPage]
    /\ handle \in [Caller -> Handle]

\* A pointer a caller got stays good until it unpins: its frame holds the page it
\* asked for and everybody who asks for that page gets the same frame, whatever
\* is evicted, deleted or loaded meanwhile.
PointersStayGood ==
    \A c \in Caller : Has(c) =>
        pages[handle[c].frame].id = handle[c].page /\ page_table[handle[c].page] = handle[c].frame

\* pin_count_ is the number of callers that have the page, so that the page
\* becomes evictable when the last one is done and not before.
PinsCounted ==
    \A f \in Frame : pages[f].pin_count = Cardinality({c \in Caller : Has(c) /\ handle[c].frame = f})

\* No frame is handed out twice: neither list has a frame twice, a pinned frame
\* is in no list, a free frame holds no page.  delete_page leaves a frame in both.
FramesHandedOutOnce ==
    /\ \A s \in {free_list, LRUlist} : \A i, j \in DOMAIN s : s[i] = s[j] => i = j
    /\ \A i \in DOMAIN free_list : pages[free_list[i]].id = NoPage /\ pages[free_list[i]].pin_count = 0
    /\ \A i \in DOMAIN LRUlist : pages[LRUlist[i]].pin_count = 0
    /\ free_list = <<>> => \A i \in DOMAIN LRUlist : pages[LRUlist[i]].id # NoPage


\* What the pool stands for: the contents of every page, and what each caller
\* sees through its pointer.
Current(p) == IF page_table[p] # None THEN pages[page_table[p]].data
              ELSE IF InFile(disk, p) THEN read_page(disk, p) ELSE Zero

Store == INSTANCE PageStore WITH
    store <- [p \in PageId |-> Current(p)],
    held <- [c \in Caller |-> handle[c].page],
    view <- [c \in Caller |-> IF Has(c) THEN pages[handle[c].frame].data ELSE Zero]


=============================================================================
