----------------------------- MODULE PageStore -----------------------------
(***************************************************************************)
(* What the buffer pool promises its callers: one copy of every page.      *)
(***************************************************************************)
CONSTANTS PageId, NoPage, Content, Zero, Caller

VARIABLES store,  \* the contents of every page
          held,   \* the page each caller has, or NoPage
          view    \* what each caller sees of it, Zero if it has none

vars == <<store, held, view>>

Init ==
    /\ store = [p \in PageId |-> Zero]
    /\ held = [c \in Caller |-> NoPage]
    /\ view = [c \in Caller |-> Zero]

Open(c) ==
    /\ held[c] = NoPage
    /\ \E p \in PageId : /\ held' = [held EXCEPT ![c] = p]
                         /\ view' = [view EXCEPT ![c] = store[p]]
    /\ UNCHANGED store

Write(c) ==
    /\ held[c] # NoPage
    /\ \E v \in Content :
          /\ store' = [store EXCEPT ![held[c]] = v]
          /\ view' = [d \in Caller |-> IF held[d] = held[c] THEN v ELSE view[d]]
    /\ UNCHANGED held

Close(c) ==
    /\ held[c] # NoPage
    /\ held' = [held EXCEPT ![c] = NoPage]
    /\ view' = [view EXCEPT ![c] = Zero]
    /\ UNCHANGED store

Next == \E c \in Caller : Open(c) \/ Write(c) \/ Close(c)

Spec == Init /\ [][Next]_vars
=============================================================================
