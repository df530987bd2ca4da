----------------------------- MODULE ConnServer -----------------------------
(***************************************************************************)
(* Connections of the server: the main thread accepts clients              *)
(* (handle_connections_sockets, create_new_thread in server.cc), and each  *)
(* connection has a detached thread that serves it and takes it down       *)
(* (handle_one_connection in net_connect.cc, close_connection and          *)
(* unlink_thd in server.cc).  They share three counters, the mutexes       *)
(* LOCK_connection_count and LOCK_thread_count, and the THD, which the     *)
(* main thread allocates and the connection thread frees.                  *)
(*                                                                         *)
(* The heap and the table of descriptors are modelled as far as ownership  *)
(* goes: an address or a descriptor that was given back is used again.  A  *)
(* connection thread is named by the address of its THD: between free and  *)
(* its end it does nothing but unlock.  LOCK_connection_count guards one   *)
(* statement at a time and is folded into the action of that statement.    *)
(***************************************************************************)
EXTENDS Naturals, FiniteSets

CONSTANTS Thds,            \* addresses of THD objects
          Fds,             \* descriptors of sockets
          Main,            \* the main thread
          None,
          MaxConnections,  \* max_connections
          Failures         \* the calls that may fail: "setup" (getsockname,
                           \* malloc of the THD or the Vio), "buffer" (malloc
                           \* in netInit), "thread" (pthread_create)

ASSUME FiniteAssumption  == IsFiniteSet(Thds)
ASSUME LimitAssumption   == MaxConnections \in Nat
ASSUME NameAssumption    == /\ Main \notin Thds
                            /\ None \notin Thds \cup Fds \cup {Main}
ASSUME FailureAssumption == Failures \subseteq {"setup", "buffer", "thread"}

VARIABLES
  pc,       \* where each thread is
  lock,     \* the thread that holds LOCK_thread_count, or None
  conn,     \* the THD at each address, with its stNET and Vio
  sock,     \* the THD that an open descriptor was accepted for; Main before
            \* that; None where the descriptor is closed
  newSock,  \* new_sock of the main thread, while it is to close it
  cur,      \* thd of the main thread, while it uses it
  connection_count, thread_count, thread_running

vars == <<pc, lock, conn, sock, newSock, cur,
          connection_count, thread_count, thread_running>>

counters == <<connection_count, thread_count, thread_running>>

(***************************************************************************)
(* thd, vio, buff: whether the THD, its Vio and its packet buffer are      *)
(* allocated.  open: vio->type # VIO_CLOSED.  quit: what dispatch_command  *)
(* returns.                                                                *)
(***************************************************************************)
Connection == [thd : BOOLEAN, vio : BOOLEAN, buff : BOOLEAN, open : BOOLEAN,
               sd : Fds \cup {None}, killed : BOOLEAN, error : BOOLEAN,
               quit : BOOLEAN]

\* After malloc and memset.
Blank == [thd |-> TRUE, vio |-> FALSE, buff |-> FALSE, open |-> FALSE,
          sd |-> None, killed |-> FALSE, error |-> FALSE, quit |-> FALSE]

MainPc   == {"accept", "accepted", "setup", "admit", "refuseLock", "refuse",
             "release", "threadLock", "register", "create", "created",
             "undo", "dropLock", "drop"}
CommandPc == {"beginLock", "begin", "execute", "finishLock", "finish"}
ThreadPc == {"none", "serve", "closeLock", "close", "cleanup", "lower",
             "unlinkLock", "unlink", "exit"} \cup CommandPc

\* Between lock and unlock of LOCK_thread_count.
HoldPc == {"refuse", "register", "create", "created", "drop",
           "begin", "finish", "close", "unlink", "exit"}

TypeOK == /\ pc \in [Thds \cup {Main} -> MainPc \cup ThreadPc]
          /\ pc[Main] \in MainPc
          /\ \A t \in Thds : pc[t] \in ThreadPc
          /\ lock \in Thds \cup {Main, None}
          /\ conn \in [Thds -> Connection]
          /\ sock \in [Fds -> Thds \cup {Main, None}]
          /\ newSock \in Fds \cup {None}
          /\ cur \in Thds \cup {None}
          /\ connection_count \in Nat
          /\ thread_count \in Nat
          /\ thread_running \in Nat

Init == /\ pc = [p \in Thds \cup {Main} |-> IF p = Main THEN "accept" ELSE "none"]
        /\ lock = None
        /\ conn = [t \in Thds |-> [Blank EXCEPT !.thd = FALSE]]
        /\ sock = [fd \in Fds |-> None]
        /\ newSock = None
        /\ cur = None
        /\ connection_count = 0
        /\ thread_count = 0
        /\ thread_running = 0

Goto(p, l) == pc' = [pc EXCEPT ![p] = l]

\* p waits at from for LOCK_thread_count and goes on to to.
Lock(p, from, to) == /\ pc[p] = from
                     /\ lock = None
                     /\ lock' = p
                     /\ Goto(p, to)
                     /\ UNCHANGED <<conn, sock, newSock, cur, counters>>

\* vioClose: the descriptor of an open Vio is closed, and the Vio forgets it.
CloseSocket(t) == sock' = IF conn[t].open
                            THEN [sock EXCEPT ![conn[t].sd] = None] ELSE sock

\* A faulty variant of Closed: vioClose without its last two assignments.
StillOpen(c) == c

Closed(c) == [c EXCEPT !.open = FALSE, !.sd = None]

-----------------------------------------------------------------------------
(***************************************************************************)
(* Faulty variants of the actions below.  No specification uses them; each *)
(* breaks one property and so shows that the property depends on the code. *)
(***************************************************************************)

\* The limit is compared with > in place of >=.
AdmitOneMore == connection_count <= MaxConnections + 1

\* Both close_connection and unlink_thd lower connection_count.
LowerTwice(t) == /\ pc[t] = "lower"
                 /\ connection_count' = connection_count - 2
                 /\ Goto(t, "unlinkLock")
                 /\ UNCHANGED <<lock, conn, sock, newSock, cur, thread_count, thread_running>>

\* create_new_thread without LOCK_thread_count around pthread_create.
RegisterUnlocks == /\ pc[Main] = "register"
                   /\ thread_count' = thread_count + 1
                   /\ lock' = None
                   /\ Goto(Main, "create")
                   /\ UNCHANGED <<conn, sock, newSock, cur, connection_count, thread_running>>

\* A failed pthread_create does not lower connection_count.
UndoNothing == /\ pc[Main] = "undo"
               /\ Goto(Main, "dropLock")
               /\ UNCHANGED <<lock, conn, sock, newSock, cur, counters>>

\* close_connection(thd, 0, 0) at the end of a connection.
CloseUnlocked(t) == /\ pc[t] = "closeLock"
                    /\ Goto(t, "close")
                    /\ UNCHANGED <<lock, conn, sock, newSock, cur, counters>>

\* A refused connection is freed without being closed.
RefuseOpen == /\ pc[Main] = "refuse"
              /\ lock' = None
              /\ Goto(Main, "release")
              /\ UNCHANGED <<conn, sock, newSock, cur, counters>>

\* cleanup without netEnd.
CleanUpVio(t) == /\ pc[t] = "cleanup"
                 /\ CloseSocket(t)
                 /\ conn' = [conn EXCEPT ![t] = [Closed(@) EXCEPT !.vio = FALSE]]
                 /\ Goto(t, "lower")
                 /\ UNCHANGED <<lock, newSock, cur, counters>>

\* one_thread_per_connection_end without its unlock.
ExitLocked(t) == /\ pc[t] = "exit"
                 /\ Goto(t, "none")
                 /\ UNCHANGED <<lock, conn, sock, newSock, cur, counters>>

\* The failure path of pthread_create keeps LOCK_thread_count.
CreateFailsLocked == /\ pc[Main] = "create"
                     /\ "thread" \in Failures
                     /\ thread_count' = thread_count - 1
                     /\ conn' = [conn EXCEPT ![cur].killed = TRUE]
                     /\ Goto(Main, "undo")
                     /\ UNCHANGED <<lock, sock, newSock, cur, connection_count, thread_running>>

-----------------------------------------------------------------------------
(***************************************************************************)
(* The main thread.                                                        *)
(***************************************************************************)

\* accept; without a free descriptor it fails and is tried again.
Accept == /\ pc[Main] = "accept"
          /\ \E fd \in Fds : /\ sock[fd] = None
                             /\ sock' = [sock EXCEPT ![fd] = Main]
                             /\ newSock' = fd
          /\ Goto(Main, "accepted")
          /\ UNCHANGED <<lock, conn, cur, counters>>

\* The main thread closes new_sock and turns to the next client.
GiveUpSocket == /\ sock' = [sock EXCEPT ![newSock] = None]
                /\ newSock' = None
                /\ Goto(Main, "accept")

\* getsockname or malloc of the THD fails.
AcceptedFails == /\ pc[Main] = "accepted"
                 /\ "setup" \in Failures
                 /\ GiveUpSocket
                 /\ UNCHANGED <<lock, conn, cur, counters>>

AllocateThd == /\ pc[Main] = "accepted"
               /\ \E t \in Thds : /\ ~conn[t].thd
                                  /\ conn' = [conn EXCEPT ![t] = Blank]
                                  /\ cur' = t
               /\ Goto(Main, "setup")
               /\ UNCHANGED <<lock, sock, newSock, counters>>

\* vioNew and netInit.
SetUp == /\ pc[Main] = "setup"
         /\ conn' = [conn EXCEPT ![cur] = [@ EXCEPT !.vio = TRUE, !.buff = TRUE,
                                                    !.open = TRUE, !.sd = newSock]]
         /\ sock' = [sock EXCEPT ![newSock] = cur]
         /\ newSock' = None
         /\ Goto(Main, "admit")
         /\ UNCHANGED <<lock, cur, counters>>

\* vioNew fails, or netInit does: it has already set net.vio, so the
\* vioDelete on this path is never reached.
SetUpFails == /\ pc[Main] = "setup"
              /\ \E v \in BOOLEAN :
                   /\ (IF v THEN "buffer" ELSE "setup") \in Failures
                   /\ conn' = [conn EXCEPT ![cur] = [@ EXCEPT !.thd = FALSE, !.vio = v]]
              /\ GiveUpSocket
              /\ cur' = None
              /\ UNCHANGED <<lock, counters>>

\* The test of create_new_thread, under LOCK_connection_count.
HasRoom == connection_count < MaxConnections + 1

Admit == /\ pc[Main] = "admit"
         /\ HasRoom
         /\ connection_count' = connection_count + 1
         /\ Goto(Main, "threadLock")
         /\ UNCHANGED <<lock, conn, sock, newSock, cur, thread_count, thread_running>>

AdmitFails == /\ pc[Main] = "admit"
              /\ ~HasRoom
              /\ Goto(Main, "refuseLock")
              /\ UNCHANGED <<lock, conn, sock, newSock, cur, counters>>

Refuse == /\ pc[Main] = "refuse"
          /\ CloseSocket(cur)
          /\ conn' = [conn EXCEPT ![cur] = [Closed(@) EXCEPT !.killed = TRUE]]
          /\ lock' = None
          /\ Goto(Main, "release")
          /\ UNCHANGED <<newSock, cur, counters>>

\* free(thd) of a refused connection; what the THD points to stays.
Release == /\ pc[Main] = "release"
           /\ conn' = [conn EXCEPT ![cur].thd = FALSE]
           /\ cur' = None
           /\ Goto(Main, "accept")
           /\ UNCHANGED <<lock, sock, newSock, counters>>

\* thread_id and thread_count; the mutex stays locked.
Register == /\ pc[Main] = "register"
            /\ thread_count' = thread_count + 1
            /\ Goto(Main, "create")
            /\ UNCHANGED <<lock, conn, sock, newSock, cur, connection_count, thread_running>>

\* pthread_create starts the thread before it returns to its caller and
\* stores the thread's id in the THD.
Create == /\ pc[Main] = "create"
          /\ pc' = [pc EXCEPT ![cur] = "serve", ![Main] = "created"]
          /\ UNCHANGED <<lock, conn, sock, newSock, cur, counters>>

Created == /\ pc[Main] = "created"
           /\ lock' = None
           /\ cur' = None
           /\ Goto(Main, "accept")
           /\ UNCHANGED <<conn, sock, newSock, counters>>

CreateFails == /\ pc[Main] = "create"
               /\ "thread" \in Failures
               /\ thread_count' = thread_count - 1
               /\ conn' = [conn EXCEPT ![cur].killed = TRUE]
               /\ lock' = None
               /\ Goto(Main, "undo")
               /\ UNCHANGED <<sock, newSock, cur, connection_count, thread_running>>

Undo == /\ pc[Main] = "undo"
        /\ connection_count' = connection_count - 1
        /\ Goto(Main, "dropLock")
        /\ UNCHANGED <<lock, conn, sock, newSock, cur, thread_count, thread_running>>

\* close_connection(thd, 0, 0) and free(thd).
Drop == /\ pc[Main] = "drop"
        /\ CloseSocket(cur)
        /\ conn' = [conn EXCEPT ![cur] = [Closed(@) EXCEPT !.killed = TRUE, !.thd = FALSE]]
        /\ lock' = None
        /\ cur' = None
        /\ Goto(Main, "accept")
        /\ UNCHANGED <<newSock, counters>>

MainStep == \/ Accept \/ AcceptedFails \/ AllocateThd \/ SetUp \/ SetUpFails
            \/ Admit \/ AdmitFails
            \/ Lock(Main, "refuseLock", "refuse") \/ Refuse \/ Release
            \/ Lock(Main, "threadLock", "register") \/ Register
            \/ Create \/ Created \/ CreateFails \/ Undo
            \/ Lock(Main, "dropLock", "drop") \/ Drop

-----------------------------------------------------------------------------
(***************************************************************************)
(* A connection thread.                                                    *)
(***************************************************************************)

\* The read fails or times out, or its packet is out of order, which leaves
\* net->error as it is: do_command answers and returns 1, for nothing sets
\* net->error to 3.
ReadFails(t) == /\ pc[t] = "serve"
                /\ ~conn[t].error /\ ~conn[t].killed
                /\ \E e \in BOOLEAN : conn' = [conn EXCEPT ![t].error = e]
                /\ Goto(t, "closeLock")
                /\ UNCHANGED <<lock, sock, newSock, cur, counters>>

ReadCommand(t) == /\ pc[t] = "serve"
                  /\ ~conn[t].error /\ ~conn[t].killed
                  /\ Goto(t, "beginLock")
                  /\ UNCHANGED <<lock, conn, sock, newSock, cur, counters>>

\* The test of the loop ends it.
StopServing(t) == /\ pc[t] = "serve"
                  /\ conn[t].error \/ conn[t].killed
                  /\ Goto(t, "closeLock")
                  /\ UNCHANGED <<lock, conn, sock, newSock, cur, counters>>

Begin(t) == /\ pc[t] = "begin"
            /\ thread_running' = thread_running + 1
            /\ lock' = None
            /\ Goto(t, "execute")
            /\ UNCHANGED <<conn, sock, newSock, cur, connection_count, thread_count>>

\* The command and its answer; writing the answer may fail.
Execute(t) == /\ pc[t] = "execute"
              /\ \E e, q \in BOOLEAN :
                   conn' = [conn EXCEPT ![t] = [@ EXCEPT !.error = e, !.quit = q]]
              /\ Goto(t, "finishLock")
              /\ UNCHANGED <<lock, sock, newSock, cur, counters>>

Finish(t) == /\ pc[t] = "finish"
             /\ thread_running' = thread_running - 1
             /\ lock' = None
             /\ Goto(t, IF conn[t].quit THEN "closeLock" ELSE "serve")
             /\ UNCHANGED <<conn, sock, newSock, cur, connection_count, thread_count>>

CloseLock(t) == Lock(t, "closeLock", "close")

Close(t) == /\ pc[t] = "close"
            /\ CloseSocket(t)
            /\ conn' = [conn EXCEPT ![t] = [Closed(@) EXCEPT !.killed = TRUE]]
            /\ lock' = None
            /\ Goto(t, "cleanup")
            /\ UNCHANGED <<newSock, cur, counters>>

\* vioDelete, which closes a Vio that is still open, and netEnd.
CleanUp(t) == /\ pc[t] = "cleanup"
              /\ CloseSocket(t)
              /\ conn' = [conn EXCEPT ![t] = [Closed(@) EXCEPT !.vio = FALSE, !.buff = FALSE]]
              /\ Goto(t, "lower")
              /\ UNCHANGED <<lock, newSock, cur, counters>>

Lower(t) == /\ pc[t] = "lower"
            /\ connection_count' = connection_count - 1
            /\ Goto(t, "unlinkLock")
            /\ UNCHANGED <<lock, conn, sock, newSock, cur, thread_count, thread_running>>

\* thread_count and free(thd); the mutex is left locked.
Unlink(t) == /\ pc[t] = "unlink"
             /\ thread_count' = thread_count - 1
             /\ conn' = [conn EXCEPT ![t].thd = FALSE]
             /\ Goto(t, "exit")
             /\ UNCHANGED <<lock, sock, newSock, cur, connection_count, thread_running>>

Exit(t) == /\ pc[t] = "exit"
           /\ lock' = None
           /\ Goto(t, "none")
           /\ UNCHANGED <<conn, sock, newSock, cur, counters>>

ThreadStep(t) == \/ ReadFails(t) \/ ReadCommand(t) \/ StopServing(t)
                 \/ Lock(t, "beginLock", "begin") \/ Begin(t) \/ Execute(t)
                 \/ Lock(t, "finishLock", "finish") \/ Finish(t)
                 \/ CloseLock(t) \/ Close(t) \/ CleanUp(t) \/ Lower(t)
                 \/ Lock(t, "unlinkLock", "unlink") \/ Unlink(t) \/ Exit(t)

Next == MainStep \/ \E t \in Thds : ThreadStep(t)

Spec == Init /\ [][Next]_vars

\* Every thread goes on while it can; no client has to connect or to send a
\* command, and a silent one runs into NET_READ_TIME_OUT.
Fairness == /\ WF_vars(MainStep /\ ~Accept)
            /\ \A t \in Thds : WF_vars(ThreadStep(t))

FairSpec == Spec /\ Fairness

-----------------------------------------------------------------------------
(***************************************************************************)
(* Properties.                                                             *)
(***************************************************************************)

\* Threads whose connection is up.
ServePc == {"serve", "closeLock", "close"} \cup CommandPc
Serving == {t \in Thds : pc[t] \in ServePc}

\* What the counters count: connections admitted and not yet given up,
\* threads that exist or are about to, threads that execute a command.
Admitted(t) == \/ pc[t] \in ServePc \cup {"cleanup", "lower"}
               \/ t = cur /\ pc[Main] \in {"threadLock", "register", "create", "undo"}
Counted(t)  == \/ pc[t] \in ServePc \cup {"cleanup", "lower", "unlinkLock", "unlink"}
               \/ t = cur /\ pc[Main] = "create"

Connections == {t \in Thds : Admitted(t)}
Threads     == {t \in Thds : Counted(t)}
Running     == {t \in Thds : pc[t] \in {"execute", "finishLock", "finish"}}

\* LOCK_thread_count excludes all threads but its holder from the code
\* between lock and unlock, the paths that leave a function with the mutex
\* locked included (server.cc:521-571, 612-658).
LockInv == \A p \in Thds \cup {Main} : pc[p] \in HoldPc => lock = p

\* The counters agree with the threads although they change under two
\* different mutexes, at different times, and on failure paths that take
\* one step back and not the other (server.cc:512, 530, 554-559, 609, 619;
\* net_connect.cc:296, 425).
CountersInv == /\ connection_count = Cardinality(Connections)
               /\ thread_count = Cardinality(Threads)
               /\ thread_running = Cardinality(Running)

\* "allow only (max_connections + 1) connections" (server.cc:494-497): no
\* more are ever served at a time.
ConnectionBound == Cardinality(Serving) <= MaxConnections + 1

\* Nobody touches a THD that was freed: neither the main thread, which hands
\* it over in pthread_create and still holds its address, nor its own thread.
NoUseAfterFree == /\ cur # None => conn[cur].thd
                  /\ \A t \in Thds : pc[t] \notin {"none", "exit"} => conn[t].thd

\* A thread that serves a connection has that connection's socket: nobody
\* else closed the descriptor, not even a connection that had it before and
\* whose Vio is closed twice (close_connection, then vioDelete).
OwnSocket == \A t \in Serving : conn[t].sd # None /\ sock[conn[t].sd] = t

\* No open descriptor is forgotten: the main thread or the Vio of an
\* allocated THD still has it, whatever failed.
NoDescriptorLeak ==
  \A fd \in Fds :
    /\ sock[fd] = Main => newSock = fd
    /\ sock[fd] \in Thds => /\ conn[sock[fd]].thd
                            /\ conn[sock[fd]].open
                            /\ conn[sock[fd]].sd = fd

\* A THD is freed after its Vio and its packet buffer (server.cc:698, "vio is
\* freed in delete thd").
NoMemoryLeak == \A t \in Thds : ~conn[t].thd => ~conn[t].vio /\ ~conn[t].buff

\* So it is where a connection ends in its own thread: when unlink_thd frees
\* the THD, cleanup has freed the rest (server.cc:606, 623).
ThreadFreesAll == \A t \in Thds : pc[t] = "unlink" => ~conn[t].vio /\ ~conn[t].buff

Commanding == \E t \in Thds : pc[t] \in CommandPc

\* The main thread always gets back to accept once the connections stop
\* competing for LOCK_thread_count, which has no queue.
AcceptorReturns == <>[]~Commanding =>
                   (pc[Main] # "accept") ~> (pc[Main] = "accept")

\* A connection thread ends, for its client falls silent or leaves, and takes
\* its connection down.
ConnectionsEnd == <>[](~Commanding /\ pc[Main] = "accept") =>
                  \A t \in Thds : (pc[t] # "none") ~> (pc[t] = "none")

-----------------------------------------------------------------------------
(***************************************************************************)
(* The inductive invariant behind the safety properties above.             *)
(***************************************************************************)

\* The main thread's operands: new_sock until the Vio has it; thd until the
\* connection thread has it, which holds on to it while pthread_create has
\* not returned.
MainInv == /\ newSock # None <=> pc[Main] \in {"accepted", "setup"}
           /\ newSock # None => sock[newSock] = Main
           /\ cur # None <=> pc[Main] \notin {"accept", "accepted"}
           /\ cur # None /\ pc[Main] # "created" => pc[cur] \in {"none", "exit"}
           /\ pc[Main] = "created" => pc[cur] \notin {"none", "exit"}

\* A Vio is open from its creation to the end of close_connection.
HasOpenVio(t) == \/ pc[t] \in ServePc
                 \/ /\ t = cur
                    /\ pc[Main] \in {"admit", "refuseLock", "refuse", "threadLock", "register",
                                     "create", "undo", "dropLock", "drop"}

\* An open Vio and its descriptor belong to each other.
SocketInv == \A t \in Thds : /\ conn[t].open <=> HasOpenVio(t)
                             /\ conn[t].open => /\ conn[t].sd # None
                                                /\ sock[conn[t].sd] = t

FreedInv == \A t \in Thds : pc[t] \in {"lower", "unlinkLock", "unlink"} =>
                            ~conn[t].vio /\ ~conn[t].buff

LimitInv == connection_count <= MaxConnections + 1

IInv == /\ TypeOK /\ LockInv /\ CountersInv /\ LimitInv
        /\ NoUseAfterFree /\ MainInv
        /\ SocketInv /\ NoDescriptorLeak /\ FreedInv
=============================================================================
