------------------------------- MODULE Server -------------------------------
(***************************************************************************)
(* The threads of rmdb.cpp: the accept loop of start_server, which hands   *)
(* each socket to a new thread through one local variable guarded by       *)
(* sockfd_mutex, and client_handler, whose threads share the parser under  *)
(* buffer_mutex.  What a statement does to the database is in Sessions.    *)
(*                                                                         *)
(* A connection and the thread that serves it share a name; a connection   *)
(* that was closed may be opened again.                                    *)
(***************************************************************************)
EXTENDS Naturals, Sequences

CONSTANT Conn     \* connections of clients

Free == "free"      \* a mutex nobody has
Main == "main"      \* the thread in start_server

ASSUME ServerAssumption == {Free, Main} \cap Conn = {}

VARIABLES main,          \* where start_server is
          sockfd,        \* its local variable, whose address the new thread gets
          sockfd_mutex,  \* locked by main, unlocked by the new thread
          buffer_mutex,  \* the thread that has it
          backlog,       \* connections waiting for accept, oldest first
          pc,            \* where the thread of each connection is
          fd             \* client_handler's copy of the socket

vars == <<main, sockfd, sockfd_mutex, buffer_mutex, backlog, pc, fd>>

MainPlace == {"lock", "accept", "closing", "exited"}
Place == {"away", "backlog", "created", "reading", "received", "parsing", "executing", "answering"}

Init ==
    /\ main = "lock" /\ sockfd = Free
    /\ sockfd_mutex = Free /\ buffer_mutex = Free
    /\ backlog = <<>>
    /\ pc = [c \in Conn |-> "away"]
    /\ fd = [c \in Conn |-> Free]

Goto(c, place) == pc' = [pc EXCEPT ![c] = place]
Running == main # "exited"

-----------------------------------------------------------------------------
\* The client connects.
connect(c) ==
    /\ Running /\ pc[c] = "away"
    /\ Goto(c, "backlog") /\ backlog' = Append(backlog, c)
    /\ UNCHANGED <<main, sockfd, sockfd_mutex, buffer_mutex, fd>>

lock_sockfd ==
    /\ main = "lock" /\ sockfd_mutex = Free
    /\ sockfd_mutex' = Main /\ main' = "accept"
    /\ UNCHANGED <<sockfd, buffer_mutex, backlog, pc, fd>>

\* accept and pthread_create; if no thread can be created the loop is left.
accept ==
    /\ main = "accept" /\ backlog # <<>>
    /\ sockfd' = Head(backlog) /\ backlog' = Tail(backlog)
    /\ \/ main' = "lock" /\ Goto(Head(backlog), "created")
       \/ main' = "closing" /\ Goto(Head(backlog), "away")
    /\ UNCHANGED <<sockfd_mutex, buffer_mutex, fd>>

\* accept fails: back to the head of the loop, with sockfd_mutex still locked.
accept_error ==
    /\ main = "accept"
    /\ main' = "lock"
    /\ UNCHANGED <<sockfd, sockfd_mutex, buffer_mutex, backlog, pc, fd>>

\* Ctrl+C: sigint_handler jumps behind the loop.
sigint_handler ==
    /\ main \in {"lock", "accept"}
    /\ main' = "closing"
    /\ UNCHANGED <<sockfd, sockfd_mutex, buffer_mutex, backlog, pc, fd>>

\* close_db, and the process ends whatever the threads are doing.
close_db ==
    /\ main = "closing" /\ main' = "exited"
    /\ UNCHANGED <<sockfd, sockfd_mutex, buffer_mutex, backlog, pc, fd>>

-----------------------------------------------------------------------------
enter_handler_UnlockFirst(c) ==
    /\ Running
    /\ \/ /\ pc[c] = "created" /\ fd[c] = Free /\ sockfd_mutex = Main
          /\ sockfd_mutex' = Free /\ fd' = [fd EXCEPT ![c] = Main] /\ UNCHANGED pc
       \/ /\ pc[c] = "created" /\ fd[c] = Main
          /\ fd' = [fd EXCEPT ![c] = sockfd] /\ Goto(c, "reading") /\ UNCHANGED sockfd_mutex
    /\ UNCHANGED <<main, sockfd, buffer_mutex, backlog>>

enter_handler_NeverUnlocks(c) ==
    /\ Running /\ pc[c] = "created"
    /\ fd' = [fd EXCEPT ![c] = sockfd]
    /\ Goto(c, "reading")
    /\ UNCHANGED <<main, sockfd, sockfd_mutex, buffer_mutex, backlog>>

\* client_handler copies the socket, then lets start_server go on.
enter_handler(c) ==
    /\ Running /\ pc[c] = "created"
    /\ fd' = [fd EXCEPT ![c] = sockfd]
    /\ sockfd_mutex' = Free
    /\ Goto(c, "reading")
    /\ UNCHANGED <<main, sockfd, buffer_mutex, backlog>>

\* close(fd) and pthread_exit.
leave(c) == Goto(c, "away") /\ fd' = [fd EXCEPT ![c] = Free]

\* read: a statement, the end of the connection or "exit", or "crash".
receive(c) ==
    /\ Running /\ pc[c] = "reading"
    /\ \/ Goto(c, "received") /\ UNCHANGED <<main, fd>>
       \/ leave(c) /\ UNCHANGED main
       \/ main' = "exited" /\ UNCHANGED <<pc, fd>>
    /\ UNCHANGED <<sockfd, sockfd_mutex, buffer_mutex, backlog>>

lock_buffer(c) ==
    /\ Running /\ pc[c] = "received" /\ buffer_mutex = Free
    /\ buffer_mutex' = c /\ Goto(c, "parsing")
    /\ UNCHANGED <<main, sockfd, sockfd_mutex, backlog, fd>>

parse_KeepsMutexOnError(c) ==
    /\ Running /\ pc[c] = "parsing"
    /\ \/ buffer_mutex' = Free /\ Goto(c, "executing")
       \/ UNCHANGED buffer_mutex /\ Goto(c, "answering")
    /\ UNCHANGED <<main, sockfd, sockfd_mutex, backlog, fd>>

\* yyparse and do_analyze: the statement is to be executed, or it is empty, has a
\* syntax error, or do_analyze throws; buffer_mutex is unlocked on each path.
parse(c) ==
    /\ Running /\ pc[c] = "parsing"
    /\ Goto(c, "executing") \/ Goto(c, "answering")
    /\ buffer_mutex' = Free
    /\ UNCHANGED <<main, sockfd, sockfd_mutex, backlog, fd>>

execute(c) ==
    /\ Running /\ pc[c] = "executing"
    /\ Goto(c, "answering")
    /\ UNCHANGED <<main, sockfd, sockfd_mutex, buffer_mutex, backlog, fd>>

\* write the answer; if the client is gone, so is the thread.
answer(c) ==
    /\ Running /\ pc[c] = "answering"
    /\ (Goto(c, "reading") /\ UNCHANGED fd) \/ leave(c)
    /\ UNCHANGED <<main, sockfd, sockfd_mutex, buffer_mutex, backlog>>

MainStep == lock_sockfd \/ accept \/ close_db
HandlerStep(c) == enter_handler(c) \/ lock_buffer(c) \/ parse(c) \/ execute(c) \/ answer(c)

Next ==
    \/ MainStep \/ sigint_handler
    \/ \E c \in Conn : connect(c) \/ receive(c) \/ HandlerStep(c)

Fairness == WF_vars(MainStep) /\ \A c \in Conn : WF_vars(HandlerStep(c))

Spec == Init /\ [][Next]_vars /\ Fairness

SpecWithAcceptErrors == Init /\ [][Next \/ accept_error]_vars /\ Fairness

-----------------------------------------------------------------------------
\* Every variable holds a value of its type.
TypeOK ==
    /\ main \in MainPlace /\ pc \in [Conn -> Place]
    /\ sockfd \in Conn \cup {Free} /\ fd \in [Conn -> Conn \cup {Free}]
    /\ sockfd_mutex \in {Free, Main} /\ buffer_mutex \in Conn \cup {Free}
    /\ backlog \in Seq(Conn)

\* Every thread serves the socket it was created for, although start_server
\* passes the address of a variable that the next accept overwrites.
OwnSocket ==
    \A c \in Conn : pc[c] \notin {"away", "backlog", "created"} => fd[c] = c

\* As long as the server runs, a client that connects is accepted and gets a
\* thread: nobody who has sockfd_mutex keeps it.
ConnectionsServed ==
    \A c \in Conn : pc[c] = "backlog" ~> (pc[c] = "created" \/ main \in {"closing", "exited"})

\* The parser is never lost to everybody: while threads wait for it, one of them
\* gets it again and again, whichever way earlier statements left it.
ParserNeverLost ==
    (\E c \in Conn : pc[c] = "received") ~> ((\E c \in Conn : pc[c] = "parsing") \/ ~Running)

\* rmdb.cpp:245 says that after an accept error the socket is ignored and the
\* loop goes on; it goes on to lock the mutex it already has.
LoopGoesOn == main = "lock" ~> main # "lock"
=============================================================================
