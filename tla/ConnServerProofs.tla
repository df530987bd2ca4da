-------------------------- MODULE ConnServerProofs --------------------------
(***************************************************************************)
(* Proofs about ConnServer.  IInv is inductive; the safety properties      *)
(* follow from it.  One lemma per conjunct of IInv, one step per action.   *)
(***************************************************************************)
EXTENDS ConnServer, FiniteSetTheorems, TLAPS

\* The threads have names of their own.
LEMMA Names == /\ Main \notin Thds /\ None \notin Thds /\ None # Main
               /\ None \notin Fds
BY NameAssumption



(***************************************************************************)
(* What an action does to the THD at t, field by field; killed, error and  *)
(* quit only matter for their types.                                       *)
(***************************************************************************)
ConnAfter(t, th, v, b, o, s) ==
  /\ conn' \in [Thds -> Connection]
  /\ \A u \in Thds : u # t => conn'[u] = conn[u]
  /\ conn'[t].thd = th /\ conn'[t].vio = v /\ conn'[t].buff = b
  /\ conn'[t].open = o /\ conn'[t].sd = s

\* The THD at t keeps what the invariant speaks of.
ConnKept(t) == ConnAfter(t, conn[t].thd, conn[t].vio, conn[t].buff, conn[t].open, conn[t].sd)

\* One entry of conn is replaced.
LEMMA ConnReplaced ==
  ASSUME conn \in [Thds -> Connection], NEW t \in Thds, NEW d \in Connection,
         conn' = [conn EXCEPT ![t] = d]
  PROVE  ConnAfter(t, d.thd, d.vio, d.buff, d.open, d.sd)
BY DEF ConnAfter

\* Closing a Vio.
LEMMA ClosedFields ==
  ASSUME NEW c \in Connection
  PROVE  /\ Closed(c) \in Connection /\ Closed(c).thd = c.thd /\ Closed(c).vio = c.vio
         /\ Closed(c).buff = c.buff /\ Closed(c).open = FALSE /\ Closed(c).sd = None
BY DEF Closed, Connection

\* A fresh THD.
LEMMA BlankFields ==
  /\ Blank \in Connection /\ Blank.thd = TRUE /\ Blank.vio = FALSE /\ Blank.buff = FALSE
  /\ Blank.open = FALSE /\ Blank.sd = None
BY DEF Blank, Connection

\* Marking a THD as killed.
LEMMA KilledFields ==
  ASSUME NEW c \in Connection
  PROVE  LET d == [c EXCEPT !.killed = TRUE]
         IN  /\ d \in Connection /\ d.thd = c.thd /\ d.vio = c.vio /\ d.buff = c.buff
             /\ d.open = c.open /\ d.sd = c.sd
BY DEF Connection

\* Freeing a THD.
LEMMA FreedFields ==
  ASSUME NEW c \in Connection
  PROVE  LET d == [c EXCEPT !.thd = FALSE]
         IN  /\ d \in Connection /\ d.thd = FALSE /\ d.vio = c.vio /\ d.buff = c.buff
             /\ d.open = c.open /\ d.sd = c.sd
BY DEF Connection

\* Freeing what a THD points to.
LEMMA EmptiedFields ==
  ASSUME NEW c \in Connection
  PROVE  LET d == [c EXCEPT !.vio = FALSE, !.buff = FALSE]
         IN  /\ d \in Connection /\ d.thd = c.thd /\ d.vio = FALSE /\ d.buff = FALSE
             /\ d.open = c.open /\ d.sd = c.sd
BY DEF Connection

\* What the steps of the main thread do to the THD they work on.
LEMMA MainConn ==
  ASSUME TypeOK
  PROVE  /\ AllocateThd => cur' \in Thds /\ ~conn[cur'].thd
                           /\ ConnAfter(cur', TRUE, FALSE, FALSE, FALSE, None)
         /\ cur \in Thds /\ newSock \in Fds /\ SetUp =>
              ConnAfter(cur, conn[cur].thd, TRUE, TRUE, TRUE, newSock)
         /\ cur \in Thds /\ SetUpFails =>
              \E v \in BOOLEAN : ConnAfter(cur, FALSE, v, conn[cur].buff, conn[cur].open, conn[cur].sd)
         /\ cur \in Thds /\ Refuse =>
              ConnAfter(cur, conn[cur].thd, conn[cur].vio, conn[cur].buff, FALSE, None)
         /\ cur \in Thds /\ Release =>
              ConnAfter(cur, FALSE, conn[cur].vio, conn[cur].buff, conn[cur].open, conn[cur].sd)
         /\ cur \in Thds /\ CreateFails => ConnKept(cur)
         /\ cur \in Thds /\ Drop =>
              ConnAfter(cur, FALSE, conn[cur].vio, conn[cur].buff, FALSE, None)
<1>0. conn \in [Thds -> Connection]
  BY DEF TypeOK
<1>1. ASSUME AllocateThd
      PROVE  cur' \in Thds /\ ~conn[cur'].thd /\ ConnAfter(cur', TRUE, FALSE, FALSE, FALSE, None)
  <2>1. PICK t \in Thds : ~conn[t].thd /\ conn' = [conn EXCEPT ![t] = Blank] /\ cur' = t
    BY <1>1 DEF AllocateThd
  <2> QED
    BY <1>0, <2>1, ConnReplaced, BlankFields
<1>2. ASSUME cur \in Thds, newSock \in Fds, SetUp
      PROVE  ConnAfter(cur, conn[cur].thd, TRUE, TRUE, TRUE, newSock)
  <2> DEFINE d == [conn[cur] EXCEPT !.vio = TRUE, !.buff = TRUE, !.open = TRUE, !.sd = newSock]
  <2>1. /\ d \in Connection /\ d.thd = conn[cur].thd /\ d.vio = TRUE /\ d.buff = TRUE
        /\ d.open = TRUE /\ d.sd = newSock
    <3>1. conn[cur] \in Connection
      BY <1>0, <1>2
    <3> QED
      BY <3>1, <1>2 DEF Connection
  <2>2. conn' = [conn EXCEPT ![cur] = d]
    BY <1>2 DEF SetUp
  <2> HIDE DEF d
  <2> QED
    BY <1>0, <1>2, <2>1, <2>2, ConnReplaced
<1>3. ASSUME cur \in Thds, SetUpFails
      PROVE  \E v \in BOOLEAN :
               ConnAfter(cur, FALSE, v, conn[cur].buff, conn[cur].open, conn[cur].sd)
  <2>1. PICK v \in BOOLEAN : conn' = [conn EXCEPT ![cur] = [@ EXCEPT !.thd = FALSE, !.vio = v]]
    BY <1>3 DEF SetUpFails
  <2> DEFINE d == [conn[cur] EXCEPT !.thd = FALSE, !.vio = v]
  <2>2. /\ d \in Connection /\ d.thd = FALSE /\ d.vio = v /\ d.buff = conn[cur].buff
        /\ d.open = conn[cur].open /\ d.sd = conn[cur].sd
    <3>1. conn[cur] \in Connection
      BY <1>0, <1>3
    <3> QED
      BY <3>1, <2>1 DEF Connection
  <2>3. conn' = [conn EXCEPT ![cur] = d]
    BY <2>1
  <2> HIDE DEF d
  <2> QED
    BY <1>0, <1>3, <2>2, <2>3, ConnReplaced
<1>4. ASSUME cur \in Thds, Refuse
      PROVE  ConnAfter(cur, conn[cur].thd, conn[cur].vio, conn[cur].buff, FALSE, None)
  <2> DEFINE d == [Closed(conn[cur]) EXCEPT !.killed = TRUE]
  <2>1. /\ d \in Connection /\ d.thd = conn[cur].thd /\ d.vio = conn[cur].vio
        /\ d.buff = conn[cur].buff /\ d.open = FALSE /\ d.sd = None
    BY <1>0, <1>4, ClosedFields, KilledFields, ZenonT(40)
  <2>2. conn' = [conn EXCEPT ![cur] = d]
    BY <1>4 DEF Refuse
  <2> HIDE DEF d
  <2> QED
    BY <1>0, <1>4, <2>1, <2>2, ConnReplaced
<1>5. ASSUME cur \in Thds, Release
      PROVE  ConnAfter(cur, FALSE, conn[cur].vio, conn[cur].buff, conn[cur].open, conn[cur].sd)
  <2> DEFINE d == [conn[cur] EXCEPT !.thd = FALSE]
  <2>1. /\ d \in Connection /\ d.thd = FALSE /\ d.vio = conn[cur].vio
        /\ d.buff = conn[cur].buff /\ d.open = conn[cur].open /\ d.sd = conn[cur].sd
    BY <1>0, <1>5, FreedFields
  <2>2. conn' = [conn EXCEPT ![cur] = d]
    BY <1>5 DEF Release
  <2> HIDE DEF d
  <2> QED
    BY <1>0, <1>5, <2>1, <2>2, ConnReplaced
<1>6. ASSUME cur \in Thds, CreateFails
      PROVE  ConnKept(cur)
  <2> DEFINE d == [conn[cur] EXCEPT !.killed = TRUE]
  <2>1. /\ d \in Connection /\ d.thd = conn[cur].thd /\ d.vio = conn[cur].vio
        /\ d.buff = conn[cur].buff /\ d.open = conn[cur].open /\ d.sd = conn[cur].sd
    BY <1>0, <1>6, KilledFields
  <2>2. conn' = [conn EXCEPT ![cur] = d]
    BY <1>6 DEF CreateFails
  <2> HIDE DEF d
  <2> QED
    BY <1>0, <1>6, <2>1, <2>2, ConnReplaced DEF ConnKept
<1>7. ASSUME cur \in Thds, Drop
      PROVE  ConnAfter(cur, FALSE, conn[cur].vio, conn[cur].buff, FALSE, None)
  <2> DEFINE e == [Closed(conn[cur]) EXCEPT !.killed = TRUE]
             d == [Closed(conn[cur]) EXCEPT !.killed = TRUE, !.thd = FALSE]
  <2>1. /\ e \in Connection /\ e.vio = conn[cur].vio
        /\ e.buff = conn[cur].buff /\ e.open = FALSE /\ e.sd = None
    BY <1>0, <1>7, ClosedFields, KilledFields, ZenonT(40)
  <2>2. d = [e EXCEPT !.thd = FALSE]
    OBVIOUS
  <2>3. conn' = [conn EXCEPT ![cur] = d]
    BY <1>7 DEF Drop
  <2> HIDE DEF e, d
  <2>4. /\ d \in Connection /\ d.thd = FALSE /\ d.vio = conn[cur].vio
        /\ d.buff = conn[cur].buff /\ d.open = FALSE /\ d.sd = None
    BY <2>1, <2>2, FreedFields
  <2> QED
    BY <1>0, <1>7, <2>3, <2>4, ConnReplaced
<1> QED
  BY <1>1, <1>2, <1>3, <1>4, <1>5, <1>6, <1>7

\* What the steps of a connection thread do to its THD.
LEMMA ThreadConn ==
  ASSUME TypeOK, NEW t \in Thds
  PROVE  /\ ReadFails(t) \/ Execute(t) => ConnKept(t)
         /\ Close(t) => ConnAfter(t, conn[t].thd, conn[t].vio, conn[t].buff, FALSE, None)
         /\ CleanUp(t) => ConnAfter(t, conn[t].thd, FALSE, FALSE, FALSE, None)
         /\ Unlink(t) => ConnAfter(t, FALSE, conn[t].vio, conn[t].buff, conn[t].open, conn[t].sd)
<1>0. conn \in [Thds -> Connection] /\ conn[t] \in Connection
  BY DEF TypeOK
<1>1. ASSUME ReadFails(t)
      PROVE  ConnKept(t)
  <2>1. PICK e \in BOOLEAN : conn' = [conn EXCEPT ![t].error = e]
    BY <1>1 DEF ReadFails
  <2> DEFINE d == [conn[t] EXCEPT !.error = e]
  <2>2. /\ d \in Connection /\ d.thd = conn[t].thd /\ d.vio = conn[t].vio
        /\ d.buff = conn[t].buff /\ d.open = conn[t].open /\ d.sd = conn[t].sd
    BY <1>0, <2>1 DEF Connection
  <2>3. conn' = [conn EXCEPT ![t] = d]
    BY <2>1
  <2> HIDE DEF d
  <2> QED
    BY <1>0, <2>2, <2>3, ConnReplaced DEF ConnKept
<1>2. ASSUME Execute(t)
      PROVE  ConnKept(t)
  <2>1. PICK e, q \in BOOLEAN : conn' = [conn EXCEPT ![t] = [@ EXCEPT !.error = e, !.quit = q]]
    BY <1>2 DEF Execute
  <2> DEFINE d == [conn[t] EXCEPT !.error = e, !.quit = q]
  <2>2. /\ d \in Connection /\ d.thd = conn[t].thd /\ d.vio = conn[t].vio
        /\ d.buff = conn[t].buff /\ d.open = conn[t].open /\ d.sd = conn[t].sd
    BY <1>0, <2>1 DEF Connection
  <2>3. conn' = [conn EXCEPT ![t] = d]
    BY <2>1
  <2> HIDE DEF d
  <2> QED
    BY <1>0, <2>2, <2>3, ConnReplaced DEF ConnKept
<1>3. ASSUME Close(t)
      PROVE  ConnAfter(t, conn[t].thd, conn[t].vio, conn[t].buff, FALSE, None)
  <2> DEFINE d == [Closed(conn[t]) EXCEPT !.killed = TRUE]
  <2>1. /\ d \in Connection /\ d.thd = conn[t].thd /\ d.vio = conn[t].vio
        /\ d.buff = conn[t].buff /\ d.open = FALSE /\ d.sd = None
    BY <1>0, ClosedFields, KilledFields, ZenonT(40)
  <2>2. conn' = [conn EXCEPT ![t] = d]
    BY <1>3 DEF Close
  <2> HIDE DEF d
  <2> QED
    BY <1>0, <2>1, <2>2, ConnReplaced
<1>4. ASSUME CleanUp(t)
      PROVE  ConnAfter(t, conn[t].thd, FALSE, FALSE, FALSE, None)
  <2> DEFINE d == [Closed(conn[t]) EXCEPT !.vio = FALSE, !.buff = FALSE]
  <2>1. /\ d \in Connection /\ d.thd = conn[t].thd /\ d.vio = FALSE
        /\ d.buff = FALSE /\ d.open = FALSE /\ d.sd = None
    <3>1. /\ Closed(conn[t]) \in Connection /\ Closed(conn[t]).thd = conn[t].thd
          /\ Closed(conn[t]).open = FALSE /\ Closed(conn[t]).sd = None
      BY <1>0, ClosedFields
    <3> HIDE DEF d
    <3>2. d = [Closed(conn[t]) EXCEPT !.vio = FALSE, !.buff = FALSE]
      BY DEF d
    <3> QED
      BY <3>1, <3>2, EmptiedFields
  <2>2. conn' = [conn EXCEPT ![t] = d]
    BY <1>4 DEF CleanUp
  <2> HIDE DEF d
  <2> QED
    BY <1>0, <2>1, <2>2, ConnReplaced
<1>5. ASSUME Unlink(t)
      PROVE  ConnAfter(t, FALSE, conn[t].vio, conn[t].buff, conn[t].open, conn[t].sd)
  <2> DEFINE d == [conn[t] EXCEPT !.thd = FALSE]
  <2>1. /\ d \in Connection /\ d.thd = FALSE /\ d.vio = conn[t].vio
        /\ d.buff = conn[t].buff /\ d.open = conn[t].open /\ d.sd = conn[t].sd
    BY <1>0, FreedFields
  <2>2. conn' = [conn EXCEPT ![t] = d]
    BY <1>5 DEF Unlink
  <2> HIDE DEF d
  <2> QED
    BY <1>0, <2>1, <2>2, ConnReplaced
<1> QED
  BY <1>1, <1>2, <1>3, <1>4, <1>5

\* Only the holder of LOCK_thread_count is where it is held.
LEMMA LockStep ==
  ASSUME IInv, Next
  PROVE  LockInv'
<1> USE DEF HoldPc
<1>0. /\ pc \in [Thds \cup {Main} -> MainPc \cup ThreadPc]
      /\ \A p \in Thds \cup {Main} : pc[p] \in HoldPc => lock = p
  BY DEF IInv, TypeOK, LockInv
<1> USE <1>0, Names
<1>1. CASE Accept
  BY <1>1 DEF Accept, Goto, LockInv
<1>2. CASE AcceptedFails
  BY <1>2 DEF AcceptedFails, GiveUpSocket, Goto, LockInv
<1>3. CASE AllocateThd
  BY <1>3 DEF AllocateThd, Goto, LockInv
<1>4. CASE SetUp
  BY <1>4 DEF SetUp, Goto, LockInv
<1>5. CASE SetUpFails
  BY <1>5 DEF SetUpFails, GiveUpSocket, Goto, LockInv
<1>6. CASE Admit
  BY <1>6 DEF Admit, Goto, LockInv
<1>7. CASE AdmitFails
  BY <1>7 DEF AdmitFails, Goto, LockInv
<1>8. CASE Lock(Main, "refuseLock", "refuse") \/ Lock(Main, "threadLock", "register")
           \/ Lock(Main, "dropLock", "drop")
  BY <1>8 DEF Lock, Goto, LockInv
<1>9. CASE Refuse
  BY <1>9 DEF Refuse, CloseSocket, Closed, Goto, LockInv
<1>10. CASE Release
  BY <1>10 DEF Release, Goto, LockInv
<1>11. CASE Register
  BY <1>11 DEF Register, Goto, LockInv
<1>12. CASE Create
  <2>1. pc' = [pc EXCEPT ![cur] = "serve", ![Main] = "created"] /\ lock' = lock /\ lock = Main
    BY <1>12 DEF Create
  <2> QED
    BY <2>1 DEF LockInv
<1>13. CASE Created
  BY <1>13 DEF Created, Goto, LockInv
<1>14. CASE CreateFails
  BY <1>14 DEF CreateFails, Goto, LockInv
<1>15. CASE Undo
  BY <1>15 DEF Undo, Goto, LockInv
<1>16. CASE Drop
  BY <1>16 DEF Drop, CloseSocket, Closed, Goto, LockInv
<1>17. ASSUME NEW t \in Thds, ThreadStep(t)
       PROVE  LockInv'
  <2>1. CASE ReadFails(t)
    BY <2>1 DEF ReadFails, Goto, LockInv
  <2>2. CASE ReadCommand(t)
    BY <2>2 DEF ReadCommand, Goto, LockInv
  <2>3. CASE StopServing(t)
    BY <2>3 DEF StopServing, Goto, LockInv
  <2>4. CASE Lock(t, "beginLock", "begin") \/ Lock(t, "finishLock", "finish")
             \/ Lock(t, "closeLock", "close") \/ Lock(t, "unlinkLock", "unlink")
    BY <2>4 DEF Lock, Goto, LockInv
  <2>5. CASE Begin(t)
    BY <2>5 DEF Begin, Goto, LockInv
  <2>6. CASE Execute(t)
    BY <2>6 DEF Execute, Goto, LockInv
  <2>7. CASE Finish(t)
    BY <2>7 DEF Finish, Goto, LockInv
  <2>8. CASE Close(t)
    BY <2>8 DEF Close, CloseSocket, Closed, Goto, LockInv
  <2>9. CASE CleanUp(t)
    BY <2>9 DEF CleanUp, CloseSocket, Closed, Goto, LockInv
  <2>10. CASE Lower(t)
    BY <2>10 DEF Lower, Goto, LockInv
  <2>11. CASE Unlink(t)
    BY <2>11 DEF Unlink, Goto, LockInv
  <2>12. CASE Exit(t)
    BY <2>12 DEF Exit, Goto, LockInv
  <2> QED
    BY <1>17, <2>1, <2>2, <2>3, <2>4, <2>5, <2>6, <2>7, <2>8, <2>9, <2>10, <2>11, <2>12 DEF ThreadStep, CloseLock
<1> QED
  BY <1>1, <1>2, <1>3, <1>4, <1>5, <1>6, <1>7, <1>8, <1>9, <1>10, <1>11, <1>12, <1>13, <1>14, <1>15, <1>16, <1>17 DEF Next, MainStep


(***************************************************************************)
(* Counting: m counts T if n counted S and one step led from one to the    *)
(* other.                                                                  *)
(***************************************************************************)
Tallied(n, m, S, T) == \/ m = n /\ T = S
                       \/ \E x \in Thds \ S : m = n + 1 /\ T = S \cup {x}
                       \/ \E x \in S : m = n - 1 /\ T = S \ {x}

\* A tally that is right stays right.
LEMMA TallyKept ==
  ASSUME NEW n \in Nat, NEW m, NEW S \in SUBSET Thds, NEW T, n = Cardinality(S), Tallied(n, m, S, T)
  PROVE  m \in Nat /\ m = Cardinality(T)
<1>1. IsFiniteSet(S)
  BY FiniteAssumption, FS_Subset
<1>2. CASE m = n /\ T = S
  BY <1>2
<1>3. CASE \E x \in Thds \ S : m = n + 1 /\ T = S \cup {x}
  BY <1>1, <1>3, FS_AddElement, SMTT(40)
<1>4. ASSUME NEW x \in S, m = n - 1, T = S \ {x}
      PROVE  m \in Nat /\ m = Cardinality(T)
  <2>1. IsFiniteSet(T) /\ Cardinality(T) = n - 1
    BY <1>1, <1>4, FS_RemoveElement
  <2>2. Cardinality(T) \in Nat
    BY <2>1, FS_CardinalityType
  <2> QED
    BY <1>4, <2>1, <2>2
<1> QED
  BY <1>2, <1>3, <1>4 DEF Tallied

\* connection_count follows the connections admitted.
LEMMA ConnectionTally ==
  ASSUME IInv, Next
  PROVE  Tallied(connection_count, connection_count', Connections, Connections')
<1>0. /\ pc \in [Thds \cup {Main} -> MainPc \cup ThreadPc]
      /\ \A p \in Thds \cup {Main} : pc[p] \in HoldPc => lock = p
      /\ cur \in Thds \cup {None}
      /\ cur # None <=> pc[Main] \notin {"accept", "accepted"}
      /\ cur # None /\ pc[Main] # "created" => pc[cur] \in {"none", "exit"}
      /\ connection_count \in Nat /\ thread_count \in Nat /\ thread_running \in Nat
  BY DEF IInv, TypeOK, LockInv, MainInv
<1> USE <1>0, Names
<1>1. CASE Accept
  <2>1. connection_count' = connection_count /\ Connections' = Connections
    BY <1>1 DEF Accept, counters, Goto, Connections, Admitted, ServePc, CommandPc
  <2> QED
    BY <2>1 DEF Tallied
<1>2. CASE AcceptedFails
  <2>1. connection_count' = connection_count /\ Connections' = Connections
    BY <1>2 DEF AcceptedFails, GiveUpSocket, counters, Goto, Connections, Admitted, ServePc, CommandPc
  <2> QED
    BY <2>1 DEF Tallied
<1>3. CASE AllocateThd
  <2>1. connection_count' = connection_count /\ Connections' = Connections
    BY <1>3 DEF AllocateThd, counters, Goto, Connections, Admitted, ServePc, CommandPc
  <2> QED
    BY <2>1 DEF Tallied
<1>4. CASE SetUp
  <2>1. connection_count' = connection_count /\ Connections' = Connections
    BY <1>4 DEF SetUp, counters, Goto, Connections, Admitted, ServePc, CommandPc
  <2> QED
    BY <2>1 DEF Tallied
<1>5. CASE SetUpFails
  <2>1. connection_count' = connection_count /\ Connections' = Connections
    BY <1>5 DEF SetUpFails, GiveUpSocket, counters, Goto, Connections, Admitted, ServePc, CommandPc
  <2> QED
    BY <2>1 DEF Tallied
<1>6. CASE Admit
  <2>1. cur \in Thds \ Connections /\ connection_count' = connection_count + 1 /\ Connections' = Connections \cup {cur}
    BY <1>6 DEF Admit, counters, Goto, Connections, Admitted, ServePc, CommandPc
  <2> QED
    BY <2>1 DEF Tallied
<1>7. CASE AdmitFails
  <2>1. connection_count' = connection_count /\ Connections' = Connections
    BY <1>7 DEF AdmitFails, counters, Goto, Connections, Admitted, ServePc, CommandPc
  <2> QED
    BY <2>1 DEF Tallied
<1>8. CASE Lock(Main, "refuseLock", "refuse") \/ Lock(Main, "threadLock", "register")
           \/ Lock(Main, "dropLock", "drop")
  <2>1. connection_count' = connection_count /\ Connections' = Connections
    BY <1>8 DEF Lock, counters, Goto, Connections, Admitted, ServePc, CommandPc
  <2> QED
    BY <2>1 DEF Tallied
<1>9. CASE Refuse
  <2>1. connection_count' = connection_count /\ Connections' = Connections
    BY <1>9 DEF Refuse, CloseSocket, Closed, counters, Goto, Connections, Admitted, ServePc, CommandPc
  <2> QED
    BY <2>1 DEF Tallied
<1>10. CASE Release
  <2>1. connection_count' = connection_count /\ Connections' = Connections
    BY <1>10 DEF Release, counters, Goto, Connections, Admitted, ServePc, CommandPc
  <2> QED
    BY <2>1 DEF Tallied
<1>11. CASE Register
  <2>1. connection_count' = connection_count /\ Connections' = Connections
    BY <1>11 DEF Register, counters, Goto, Connections, Admitted, ServePc, CommandPc
  <2> QED
    BY <2>1 DEF Tallied
<1>12. CASE Create
  <2>1. connection_count' = connection_count /\ Connections' = Connections
    BY <1>12 DEF Create, counters, Goto, Connections, Admitted, ServePc, CommandPc
  <2> QED
    BY <2>1 DEF Tallied
<1>13. CASE Created
  <2>1. connection_count' = connection_count /\ Connections' = Connections
    BY <1>13 DEF Created, counters, Goto, Connections, Admitted, ServePc, CommandPc
  <2> QED
    BY <2>1 DEF Tallied
<1>14. CASE CreateFails
  <2>1. connection_count' = connection_count /\ Connections' = Connections
    BY <1>14 DEF CreateFails, counters, Goto, Connections, Admitted, ServePc, CommandPc
  <2> QED
    BY <2>1 DEF Tallied
<1>15. CASE Undo
  <2>1. cur \in Connections /\ connection_count' = connection_count - 1 /\ Connections' = Connections \ {cur}
    BY <1>15 DEF Undo, counters, Goto, Connections, Admitted, ServePc, CommandPc
  <2> QED
    BY <2>1 DEF Tallied
<1>16. CASE Drop
  <2>1. connection_count' = connection_count /\ Connections' = Connections
    BY <1>16 DEF Drop, CloseSocket, Closed, counters, Goto, Connections, Admitted, ServePc, CommandPc
  <2> QED
    BY <2>1 DEF Tallied
<1>17. ASSUME NEW t \in Thds, ThreadStep(t)
       PROVE  Tallied(connection_count, connection_count', Connections, Connections')
  <2>1. CASE ReadFails(t)
    <3>1. connection_count' = connection_count /\ Connections' = Connections
      BY <2>1 DEF ReadFails, counters, Goto, Connections, Admitted, ServePc, CommandPc
    <3> QED
      BY <3>1 DEF Tallied
  <2>2. CASE ReadCommand(t)
    <3>1. connection_count' = connection_count /\ Connections' = Connections
      BY <2>2 DEF ReadCommand, counters, Goto, Connections, Admitted, ServePc, CommandPc
    <3> QED
      BY <3>1 DEF Tallied
  <2>3. CASE StopServing(t)
    <3>1. connection_count' = connection_count /\ Connections' = Connections
      BY <2>3 DEF StopServing, counters, Goto, Connections, Admitted, ServePc, CommandPc
    <3> QED
      BY <3>1 DEF Tallied
  <2>4. CASE Lock(t, "beginLock", "begin") \/ Lock(t, "finishLock", "finish")
             \/ Lock(t, "closeLock", "close") \/ Lock(t, "unlinkLock", "unlink")
    <3>1. connection_count' = connection_count /\ Connections' = Connections
      BY <2>4 DEF Lock, counters, Goto, Connections, Admitted, ServePc, CommandPc
    <3> QED
      BY <3>1 DEF Tallied
  <2>5. CASE Begin(t)
    <3>1. connection_count' = connection_count /\ Connections' = Connections
      BY <2>5 DEF Begin, counters, Goto, Connections, Admitted, ServePc, CommandPc
    <3> QED
      BY <3>1 DEF Tallied
  <2>6. CASE Execute(t)
    <3>1. connection_count' = connection_count /\ Connections' = Connections
      BY <2>6 DEF Execute, counters, Goto, Connections, Admitted, ServePc, CommandPc
    <3> QED
      BY <3>1 DEF Tallied
  <2>7. CASE Finish(t)
    <3>1. connection_count' = connection_count /\ Connections' = Connections
      BY <2>7 DEF Finish, counters, Goto, Connections, Admitted, ServePc, CommandPc
    <3> QED
      BY <3>1 DEF Tallied
  <2>8. CASE Close(t)
    <3>1. connection_count' = connection_count /\ Connections' = Connections
      BY <2>8 DEF Close, CloseSocket, Closed, counters, Goto, Connections, Admitted, ServePc, CommandPc
    <3> QED
      BY <3>1 DEF Tallied
  <2>9. CASE CleanUp(t)
    <3>1. connection_count' = connection_count /\ Connections' = Connections
      BY <2>9 DEF CleanUp, CloseSocket, Closed, counters, Goto, Connections, Admitted, ServePc, CommandPc
    <3> QED
      BY <3>1 DEF Tallied
  <2>10. CASE Lower(t)
    <3>1. t \in Connections /\ connection_count' = connection_count - 1 /\ Connections' = Connections \ {t}
      BY <2>10 DEF Lower, counters, Goto, Connections, Admitted, ServePc, CommandPc
    <3> QED
      BY <3>1 DEF Tallied
  <2>11. CASE Unlink(t)
    <3>1. connection_count' = connection_count /\ Connections' = Connections
      BY <2>11 DEF Unlink, counters, Goto, Connections, Admitted, ServePc, CommandPc
    <3> QED
      BY <3>1 DEF Tallied
  <2>12. CASE Exit(t)
    <3>1. connection_count' = connection_count /\ Connections' = Connections
      BY <2>12 DEF Exit, counters, Goto, Connections, Admitted, ServePc, CommandPc
    <3> QED
      BY <3>1 DEF Tallied
  <2> QED
    BY <1>17, <2>1, <2>2, <2>3, <2>4, <2>5, <2>6, <2>7, <2>8, <2>9, <2>10, <2>11, <2>12 DEF ThreadStep, CloseLock
<1> QED
  BY <1>1, <1>2, <1>3, <1>4, <1>5, <1>6, <1>7, <1>8, <1>9, <1>10, <1>11, <1>12, <1>13, <1>14, <1>15, <1>16, <1>17 DEF Next, MainStep

\* thread_count follows the threads.
LEMMA ThreadTally ==
  ASSUME IInv, Next
  PROVE  Tallied(thread_count, thread_count', Threads, Threads')
<1>0. /\ pc \in [Thds \cup {Main} -> MainPc \cup ThreadPc]
      /\ \A p \in Thds \cup {Main} : pc[p] \in HoldPc => lock = p
      /\ cur \in Thds \cup {None}
      /\ cur # None <=> pc[Main] \notin {"accept", "accepted"}
      /\ cur # None /\ pc[Main] # "created" => pc[cur] \in {"none", "exit"}
      /\ connection_count \in Nat /\ thread_count \in Nat /\ thread_running \in Nat
  BY DEF IInv, TypeOK, LockInv, MainInv
<1> USE <1>0, Names
<1>1. CASE Accept
  <2>1. thread_count' = thread_count /\ Threads' = Threads
    BY <1>1 DEF Accept, counters, Goto, Threads, Counted, ServePc, CommandPc, HoldPc
  <2> QED
    BY <2>1 DEF Tallied
<1>2. CASE AcceptedFails
  <2>1. thread_count' = thread_count /\ Threads' = Threads
    BY <1>2 DEF AcceptedFails, GiveUpSocket, counters, Goto, Threads, Counted, ServePc, CommandPc, HoldPc
  <2> QED
    BY <2>1 DEF Tallied
<1>3. CASE AllocateThd
  <2>1. thread_count' = thread_count /\ Threads' = Threads
    BY <1>3 DEF AllocateThd, counters, Goto, Threads, Counted, ServePc, CommandPc, HoldPc
  <2> QED
    BY <2>1 DEF Tallied
<1>4. CASE SetUp
  <2>1. thread_count' = thread_count /\ Threads' = Threads
    BY <1>4 DEF SetUp, counters, Goto, Threads, Counted, ServePc, CommandPc, HoldPc
  <2> QED
    BY <2>1 DEF Tallied
<1>5. CASE SetUpFails
  <2>1. thread_count' = thread_count /\ Threads' = Threads
    BY <1>5 DEF SetUpFails, GiveUpSocket, counters, Goto, Threads, Counted, ServePc, CommandPc, HoldPc
  <2> QED
    BY <2>1 DEF Tallied
<1>6. CASE Admit
  <2>1. thread_count' = thread_count /\ Threads' = Threads
    BY <1>6 DEF Admit, counters, Goto, Threads, Counted, ServePc, CommandPc, HoldPc
  <2> QED
    BY <2>1 DEF Tallied
<1>7. CASE AdmitFails
  <2>1. thread_count' = thread_count /\ Threads' = Threads
    BY <1>7 DEF AdmitFails, counters, Goto, Threads, Counted, ServePc, CommandPc, HoldPc
  <2> QED
    BY <2>1 DEF Tallied
<1>8. CASE Lock(Main, "refuseLock", "refuse") \/ Lock(Main, "threadLock", "register")
           \/ Lock(Main, "dropLock", "drop")
  <2>1. thread_count' = thread_count /\ Threads' = Threads
    BY <1>8 DEF Lock, counters, Goto, Threads, Counted, ServePc, CommandPc, HoldPc
  <2> QED
    BY <2>1 DEF Tallied
<1>9. CASE Refuse
  <2>1. thread_count' = thread_count /\ Threads' = Threads
    BY <1>9 DEF Refuse, CloseSocket, Closed, counters, Goto, Threads, Counted, ServePc, CommandPc, HoldPc
  <2> QED
    BY <2>1 DEF Tallied
<1>10. CASE Release
  <2>1. thread_count' = thread_count /\ Threads' = Threads
    BY <1>10 DEF Release, counters, Goto, Threads, Counted, ServePc, CommandPc, HoldPc
  <2> QED
    BY <2>1 DEF Tallied
<1>11. CASE Register
  <2>1. cur \in Thds \ Threads /\ thread_count' = thread_count + 1 /\ Threads' = Threads \cup {cur}
    BY <1>11 DEF Register, counters, Goto, Threads, Counted, ServePc, CommandPc, HoldPc
  <2> QED
    BY <2>1 DEF Tallied
<1>12. CASE Create
  <2>1. thread_count' = thread_count /\ Threads' = Threads
    BY <1>12 DEF Create, counters, Goto, Threads, Counted, ServePc, CommandPc, HoldPc
  <2> QED
    BY <2>1 DEF Tallied
<1>13. CASE Created
  <2>1. thread_count' = thread_count /\ Threads' = Threads
    BY <1>13 DEF Created, counters, Goto, Threads, Counted, ServePc, CommandPc, HoldPc
  <2> QED
    BY <2>1 DEF Tallied
<1>14. CASE CreateFails
  <2>1. cur \in Threads /\ thread_count' = thread_count - 1 /\ Threads' = Threads \ {cur}
    BY <1>14 DEF CreateFails, counters, Goto, Threads, Counted, ServePc, CommandPc, HoldPc
  <2> QED
    BY <2>1 DEF Tallied
<1>15. CASE Undo
  <2>1. thread_count' = thread_count /\ Threads' = Threads
    BY <1>15 DEF Undo, counters, Goto, Threads, Counted, ServePc, CommandPc, HoldPc
  <2> QED
    BY <2>1 DEF Tallied
<1>16. CASE Drop
  <2>1. thread_count' = thread_count /\ Threads' = Threads
    BY <1>16 DEF Drop, CloseSocket, Closed, counters, Goto, Threads, Counted, ServePc, CommandPc, HoldPc
  <2> QED
    BY <2>1 DEF Tallied
<1>17. ASSUME NEW t \in Thds, ThreadStep(t)
       PROVE  Tallied(thread_count, thread_count', Threads, Threads')
  <2>1. CASE ReadFails(t)
    <3>1. thread_count' = thread_count /\ Threads' = Threads
      BY <2>1 DEF ReadFails, counters, Goto, Threads, Counted, ServePc, CommandPc, HoldPc
    <3> QED
      BY <3>1 DEF Tallied
  <2>2. CASE ReadCommand(t)
    <3>1. thread_count' = thread_count /\ Threads' = Threads
      BY <2>2 DEF ReadCommand, counters, Goto, Threads, Counted, ServePc, CommandPc, HoldPc
    <3> QED
      BY <3>1 DEF Tallied
  <2>3. CASE StopServing(t)
    <3>1. thread_count' = thread_count /\ Threads' = Threads
      BY <2>3 DEF StopServing, counters, Goto, Threads, Counted, ServePc, CommandPc, HoldPc
    <3> QED
      BY <3>1 DEF Tallied
  <2>4. CASE Lock(t, "beginLock", "begin") \/ Lock(t, "finishLock", "finish")
             \/ Lock(t, "closeLock", "close") \/ Lock(t, "unlinkLock", "unlink")
    <3>1. thread_count' = thread_count /\ Threads' = Threads
      BY <2>4 DEF Lock, counters, Goto, Threads, Counted, ServePc, CommandPc, HoldPc
    <3> QED
      BY <3>1 DEF Tallied
  <2>5. CASE Begin(t)
    <3>1. thread_count' = thread_count /\ Threads' = Threads
      BY <2>5 DEF Begin, counters, Goto, Threads, Counted, ServePc, CommandPc, HoldPc
    <3> QED
      BY <3>1 DEF Tallied
  <2>6. CASE Execute(t)
    <3>1. thread_count' = thread_count /\ Threads' = Threads
      BY <2>6 DEF Execute, counters, Goto, Threads, Counted, ServePc, CommandPc, HoldPc
    <3> QED
      BY <3>1 DEF Tallied
  <2>7. CASE Finish(t)
    <3>1. thread_count' = thread_count /\ Threads' = Threads
      BY <2>7 DEF Finish, counters, Goto, Threads, Counted, ServePc, CommandPc, HoldPc
    <3> QED
      BY <3>1 DEF Tallied
  <2>8. CASE Close(t)
    <3>1. thread_count' = thread_count /\ Threads' = Threads
      BY <2>8 DEF Close, CloseSocket, Closed, counters, Goto, Threads, Counted, ServePc, CommandPc, HoldPc
    <3> QED
      BY <3>1 DEF Tallied
  <2>9. CASE CleanUp(t)
    <3>1. thread_count' = thread_count /\ Threads' = Threads
      BY <2>9 DEF CleanUp, CloseSocket, Closed, counters, Goto, Threads, Counted, ServePc, CommandPc, HoldPc
    <3> QED
      BY <3>1 DEF Tallied
  <2>10. CASE Lower(t)
    <3>1. thread_count' = thread_count /\ Threads' = Threads
      BY <2>10 DEF Lower, counters, Goto, Threads, Counted, ServePc, CommandPc, HoldPc
    <3> QED
      BY <3>1 DEF Tallied
  <2>11. CASE Unlink(t)
    <3>1. t \in Threads /\ thread_count' = thread_count - 1 /\ Threads' = Threads \ {t}
      BY <2>11 DEF Unlink, counters, Goto, Threads, Counted, ServePc, CommandPc, HoldPc
    <3> QED
      BY <3>1 DEF Tallied
  <2>12. CASE Exit(t)
    <3>1. thread_count' = thread_count /\ Threads' = Threads
      BY <2>12 DEF Exit, counters, Goto, Threads, Counted, ServePc, CommandPc, HoldPc
    <3> QED
      BY <3>1 DEF Tallied
  <2> QED
    BY <1>17, <2>1, <2>2, <2>3, <2>4, <2>5, <2>6, <2>7, <2>8, <2>9, <2>10, <2>11, <2>12 DEF ThreadStep, CloseLock
<1> QED
  BY <1>1, <1>2, <1>3, <1>4, <1>5, <1>6, <1>7, <1>8, <1>9, <1>10, <1>11, <1>12, <1>13, <1>14, <1>15, <1>16, <1>17 DEF Next, MainStep

\* thread_running follows the commands under way.
LEMMA RunningTally ==
  ASSUME IInv, Next
  PROVE  Tallied(thread_running, thread_running', Running, Running')
<1>0. /\ pc \in [Thds \cup {Main} -> MainPc \cup ThreadPc]
      /\ \A p \in Thds \cup {Main} : pc[p] \in HoldPc => lock = p
      /\ cur \in Thds \cup {None}
      /\ cur # None <=> pc[Main] \notin {"accept", "accepted"}
      /\ cur # None /\ pc[Main] # "created" => pc[cur] \in {"none", "exit"}
      /\ connection_count \in Nat /\ thread_count \in Nat /\ thread_running \in Nat
  BY DEF IInv, TypeOK, LockInv, MainInv
<1> USE <1>0, Names
<1>1. CASE Accept
  <2>1. thread_running' = thread_running /\ Running' = Running
    BY <1>1 DEF Accept, counters, Goto, Running
  <2> QED
    BY <2>1 DEF Tallied
<1>2. CASE AcceptedFails
  <2>1. thread_running' = thread_running /\ Running' = Running
    BY <1>2 DEF AcceptedFails, GiveUpSocket, counters, Goto, Running
  <2> QED
    BY <2>1 DEF Tallied
<1>3. CASE AllocateThd
  <2>1. thread_running' = thread_running /\ Running' = Running
    BY <1>3 DEF AllocateThd, counters, Goto, Running
  <2> QED
    BY <2>1 DEF Tallied
<1>4. CASE SetUp
  <2>1. thread_running' = thread_running /\ Running' = Running
    BY <1>4 DEF SetUp, counters, Goto, Running
  <2> QED
    BY <2>1 DEF Tallied
<1>5. CASE SetUpFails
  <2>1. thread_running' = thread_running /\ Running' = Running
    BY <1>5 DEF SetUpFails, GiveUpSocket, counters, Goto, Running
  <2> QED
    BY <2>1 DEF Tallied
<1>6. CASE Admit
  <2>1. thread_running' = thread_running /\ Running' = Running
    BY <1>6 DEF Admit, counters, Goto, Running
  <2> QED
    BY <2>1 DEF Tallied
<1>7. CASE AdmitFails
  <2>1. thread_running' = thread_running /\ Running' = Running
    BY <1>7 DEF AdmitFails, counters, Goto, Running
  <2> QED
    BY <2>1 DEF Tallied
<1>8. CASE Lock(Main, "refuseLock", "refuse") \/ Lock(Main, "threadLock", "register")
           \/ Lock(Main, "dropLock", "drop")
  <2>1. thread_running' = thread_running /\ Running' = Running
    BY <1>8 DEF Lock, counters, Goto, Running
  <2> QED
    BY <2>1 DEF Tallied
<1>9. CASE Refuse
  <2>1. thread_running' = thread_running /\ Running' = Running
    BY <1>9 DEF Refuse, CloseSocket, Closed, counters, Goto, Running
  <2> QED
    BY <2>1 DEF Tallied
<1>10. CASE Release
  <2>1. thread_running' = thread_running /\ Running' = Running
    BY <1>10 DEF Release, counters, Goto, Running
  <2> QED
    BY <2>1 DEF Tallied
<1>11. CASE Register
  <2>1. thread_running' = thread_running /\ Running' = Running
    BY <1>11 DEF Register, counters, Goto, Running
  <2> QED
    BY <2>1 DEF Tallied
<1>12. CASE Create
  <2>1. thread_running' = thread_running /\ Running' = Running
    BY <1>12 DEF Create, counters, Goto, Running
  <2> QED
    BY <2>1 DEF Tallied
<1>13. CASE Created
  <2>1. thread_running' = thread_running /\ Running' = Running
    BY <1>13 DEF Created, counters, Goto, Running
  <2> QED
    BY <2>1 DEF Tallied
<1>14. CASE CreateFails
  <2>1. thread_running' = thread_running /\ Running' = Running
    BY <1>14 DEF CreateFails, counters, Goto, Running
  <2> QED
    BY <2>1 DEF Tallied
<1>15. CASE Undo
  <2>1. thread_running' = thread_running /\ Running' = Running
    BY <1>15 DEF Undo, counters, Goto, Running
  <2> QED
    BY <2>1 DEF Tallied
<1>16. CASE Drop
  <2>1. thread_running' = thread_running /\ Running' = Running
    BY <1>16 DEF Drop, CloseSocket, Closed, counters, Goto, Running
  <2> QED
    BY <2>1 DEF Tallied
<1>17. ASSUME NEW t \in Thds, ThreadStep(t)
       PROVE  Tallied(thread_running, thread_running', Running, Running')
  <2>1. CASE ReadFails(t)
    <3>1. thread_running' = thread_running /\ Running' = Running
      BY <2>1 DEF ReadFails, counters, Goto, Running
    <3> QED
      BY <3>1 DEF Tallied
  <2>2. CASE ReadCommand(t)
    <3>1. thread_running' = thread_running /\ Running' = Running
      BY <2>2 DEF ReadCommand, counters, Goto, Running
    <3> QED
      BY <3>1 DEF Tallied
  <2>3. CASE StopServing(t)
    <3>1. thread_running' = thread_running /\ Running' = Running
      BY <2>3 DEF StopServing, counters, Goto, Running
    <3> QED
      BY <3>1 DEF Tallied
  <2>4. CASE Lock(t, "beginLock", "begin") \/ Lock(t, "finishLock", "finish")
             \/ Lock(t, "closeLock", "close") \/ Lock(t, "unlinkLock", "unlink")
    <3>1. thread_running' = thread_running /\ Running' = Running
      BY <2>4 DEF Lock, counters, Goto, Running
    <3> QED
      BY <3>1 DEF Tallied
  <2>5. CASE Begin(t)
    <3>1. t \in Thds \ Running /\ thread_running' = thread_running + 1 /\ Running' = Running \cup {t}
      BY <2>5 DEF Begin, counters, Goto, Running
    <3> QED
      BY <3>1 DEF Tallied
  <2>6. CASE Execute(t)
    <3>1. thread_running' = thread_running /\ Running' = Running
      BY <2>6 DEF Execute, counters, Goto, Running
    <3> QED
      BY <3>1 DEF Tallied
  <2>7. CASE Finish(t)
    <3>1. t \in Running /\ thread_running' = thread_running - 1 /\ Running' = Running \ {t}
      BY <2>7 DEF Finish, counters, Goto, Running
    <3> QED
      BY <3>1 DEF Tallied
  <2>8. CASE Close(t)
    <3>1. thread_running' = thread_running /\ Running' = Running
      BY <2>8 DEF Close, CloseSocket, Closed, counters, Goto, Running
    <3> QED
      BY <3>1 DEF Tallied
  <2>9. CASE CleanUp(t)
    <3>1. thread_running' = thread_running /\ Running' = Running
      BY <2>9 DEF CleanUp, CloseSocket, Closed, counters, Goto, Running
    <3> QED
      BY <3>1 DEF Tallied
  <2>10. CASE Lower(t)
    <3>1. thread_running' = thread_running /\ Running' = Running
      BY <2>10 DEF Lower, counters, Goto, Running
    <3> QED
      BY <3>1 DEF Tallied
  <2>11. CASE Unlink(t)
    <3>1. thread_running' = thread_running /\ Running' = Running
      BY <2>11 DEF Unlink, counters, Goto, Running
    <3> QED
      BY <3>1 DEF Tallied
  <2>12. CASE Exit(t)
    <3>1. thread_running' = thread_running /\ Running' = Running
      BY <2>12 DEF Exit, counters, Goto, Running
    <3> QED
      BY <3>1 DEF Tallied
  <2> QED
    BY <1>17, <2>1, <2>2, <2>3, <2>4, <2>5, <2>6, <2>7, <2>8, <2>9, <2>10, <2>11, <2>12 DEF ThreadStep, CloseLock
<1> QED
  BY <1>1, <1>2, <1>3, <1>4, <1>5, <1>6, <1>7, <1>8, <1>9, <1>10, <1>11, <1>12, <1>13, <1>14, <1>15, <1>16, <1>17 DEF Next, MainStep


\* The counters stay right.
LEMMA CountersStep ==
  ASSUME IInv, Next
  PROVE  /\ CountersInv'
         /\ connection_count' \in Nat /\ thread_count' \in Nat /\ thread_running' \in Nat
<1>1. /\ connection_count \in Nat /\ thread_count \in Nat /\ thread_running \in Nat
      /\ connection_count = Cardinality(Connections)
      /\ thread_count = Cardinality(Threads)
      /\ thread_running = Cardinality(Running)
  BY DEF IInv, TypeOK, CountersInv
<1>2. Connections \in SUBSET Thds /\ Threads \in SUBSET Thds /\ Running \in SUBSET Thds
  BY DEF Connections, Threads, Running
<1>3. connection_count' \in Nat /\ connection_count' = Cardinality(Connections')
  BY <1>1, <1>2, TallyKept, ConnectionTally
<1>4. thread_count' \in Nat /\ thread_count' = Cardinality(Threads')
  BY <1>1, <1>2, TallyKept, ThreadTally
<1>5. thread_running' \in Nat /\ thread_running' = Cardinality(Running')
  BY <1>1, <1>2, TallyKept, RunningTally
<1> QED
  BY <1>3, <1>4, <1>5 DEF CountersInv

\* The limit on connections is kept.
LEMMA LimitStep ==
  ASSUME IInv, Next
  PROVE  LimitInv'
<1>0. /\ connection_count \in Nat /\ connection_count <= MaxConnections + 1
      /\ MaxConnections \in Nat
  BY LimitAssumption DEF IInv, TypeOK, LimitInv
<1> USE <1>0
<1>1. CASE Accept
  BY <1>1 DEF Accept, LimitInv, counters
<1>2. CASE AcceptedFails
  BY <1>2 DEF AcceptedFails, GiveUpSocket, LimitInv, counters
<1>3. CASE AllocateThd
  BY <1>3 DEF AllocateThd, LimitInv, counters
<1>4. CASE SetUp
  BY <1>4 DEF SetUp, LimitInv, counters
<1>5. CASE SetUpFails
  BY <1>5 DEF SetUpFails, GiveUpSocket, LimitInv, counters
<1>6. CASE Admit
  BY <1>6 DEF Admit, LimitInv, HasRoom
<1>7. CASE AdmitFails
  BY <1>7 DEF AdmitFails, LimitInv, counters
<1>8. CASE Lock(Main, "refuseLock", "refuse") \/ Lock(Main, "threadLock", "register")
           \/ Lock(Main, "dropLock", "drop")
  BY <1>8 DEF Lock, LimitInv, counters
<1>9. CASE Refuse
  BY <1>9 DEF Refuse, CloseSocket, Closed, LimitInv, counters
<1>10. CASE Release
  BY <1>10 DEF Release, LimitInv, counters
<1>11. CASE Register
  BY <1>11 DEF Register, LimitInv, counters
<1>12. CASE Create
  BY <1>12 DEF Create, LimitInv, counters
<1>13. CASE Created
  BY <1>13 DEF Created, LimitInv, counters
<1>14. CASE CreateFails
  BY <1>14 DEF CreateFails, LimitInv, counters
<1>15. CASE Undo
  BY <1>15 DEF Undo, LimitInv, counters
<1>16. CASE Drop
  BY <1>16 DEF Drop, CloseSocket, Closed, LimitInv, counters
<1>17. ASSUME NEW t \in Thds, ThreadStep(t)
       PROVE  LimitInv'
  <2>1. CASE ReadFails(t)
    BY <2>1 DEF ReadFails, LimitInv, counters
  <2>2. CASE ReadCommand(t)
    BY <2>2 DEF ReadCommand, LimitInv, counters
  <2>3. CASE StopServing(t)
    BY <2>3 DEF StopServing, LimitInv, counters
  <2>4. CASE Lock(t, "beginLock", "begin") \/ Lock(t, "finishLock", "finish")
             \/ Lock(t, "closeLock", "close") \/ Lock(t, "unlinkLock", "unlink")
    BY <2>4 DEF Lock, LimitInv, counters
  <2>5. CASE Begin(t)
    BY <2>5 DEF Begin, LimitInv, counters
  <2>6. CASE Execute(t)
    BY <2>6 DEF Execute, LimitInv, counters
  <2>7. CASE Finish(t)
    BY <2>7 DEF Finish, LimitInv, counters
  <2>8. CASE Close(t)
    BY <2>8 DEF Close, CloseSocket, Closed, LimitInv, counters
  <2>9. CASE CleanUp(t)
    BY <2>9 DEF CleanUp, CloseSocket, Closed, LimitInv, counters
  <2>10. CASE Lower(t)
    BY <2>10 DEF Lower, LimitInv, counters
  <2>11. CASE Unlink(t)
    BY <2>11 DEF Unlink, LimitInv, counters
  <2>12. CASE Exit(t)
    BY <2>12 DEF Exit, LimitInv, counters
  <2> QED
    BY <1>17, <2>1, <2>2, <2>3, <2>4, <2>5, <2>6, <2>7, <2>8, <2>9, <2>10, <2>11, <2>12 DEF ThreadStep, CloseLock
<1> QED
  BY <1>1, <1>2, <1>3, <1>4, <1>5, <1>6, <1>7, <1>8, <1>9, <1>10, <1>11, <1>12, <1>13, <1>14, <1>15, <1>16, <1>17 DEF Next, MainStep

\* Nobody gets to touch a freed THD.
LEMMA UseStep ==
  ASSUME IInv, Next
  PROVE  NoUseAfterFree'
<1>0. /\ TypeOK
      /\ pc \in [Thds \cup {Main} -> MainPc \cup ThreadPc] /\ pc[Main] \in MainPc
      /\ \A u \in Thds : pc[u] \in ThreadPc
      /\ \A p \in Thds \cup {Main} : pc[p] \in HoldPc => lock = p
      /\ sock \in [Fds -> Thds \cup {Main, None}]
      /\ cur \in Thds \cup {None} /\ newSock \in Fds \cup {None}
      /\ lock \in Thds \cup {Main, None}
  BY DEF IInv, TypeOK, LockInv
<1>a. /\ newSock # None <=> pc[Main] \in {"accepted", "setup"}
      /\ newSock # None => sock[newSock] = Main
      /\ cur # None <=> pc[Main] \notin {"accept", "accepted"}
      /\ cur # None /\ pc[Main] # "created" => pc[cur] \in {"none", "exit"}
      /\ pc[Main] = "created" => pc[cur] \notin {"none", "exit"}
  BY DEF IInv, MainInv
<1> USE <1>0, <1>a, Names
<1>b. /\ cur # None => conn[cur].thd
      /\ \A u \in Thds : pc[u] \notin {"none", "exit"} => conn[u].thd
  BY DEF IInv, NoUseAfterFree
<1> USE <1>b
<1>1. CASE Accept
  BY <1>1 DEF Accept, NoUseAfterFree, Goto, HoldPc
<1>2. CASE AcceptedFails
  BY <1>2 DEF AcceptedFails, GiveUpSocket, NoUseAfterFree, Goto, HoldPc
<1>3. CASE AllocateThd
  BY <1>3, MainConn DEF AllocateThd, NoUseAfterFree, Goto, HoldPc, ConnAfter, ConnKept
<1>4. CASE SetUp
  BY <1>4, MainConn DEF SetUp, NoUseAfterFree, Goto, HoldPc, ConnAfter, ConnKept
<1>5. CASE SetUpFails
  BY <1>5, MainConn DEF SetUpFails, GiveUpSocket, NoUseAfterFree, Goto, HoldPc, ConnAfter, ConnKept
<1>6. CASE Admit
  BY <1>6 DEF Admit, NoUseAfterFree, Goto, HoldPc
<1>7. CASE AdmitFails
  BY <1>7 DEF AdmitFails, NoUseAfterFree, Goto, HoldPc
<1>8. CASE Lock(Main, "refuseLock", "refuse") \/ Lock(Main, "threadLock", "register")
           \/ Lock(Main, "dropLock", "drop")
  BY <1>8 DEF Lock, NoUseAfterFree, Goto, HoldPc
<1>9. CASE Refuse
  BY <1>9, MainConn DEF Refuse, CloseSocket, Closed, NoUseAfterFree, Goto, HoldPc, ConnAfter, ConnKept
<1>10. CASE Release
  BY <1>10, MainConn DEF Release, NoUseAfterFree, Goto, HoldPc, ConnAfter, ConnKept
<1>11. CASE Register
  BY <1>11 DEF Register, NoUseAfterFree, Goto, HoldPc
<1>12. CASE Create
  BY <1>12 DEF Create, NoUseAfterFree, Goto, HoldPc
<1>13. CASE Created
  BY <1>13 DEF Created, NoUseAfterFree, Goto, HoldPc
<1>14. CASE CreateFails
  BY <1>14, MainConn DEF CreateFails, NoUseAfterFree, Goto, HoldPc, ConnAfter, ConnKept
<1>15. CASE Undo
  BY <1>15 DEF Undo, NoUseAfterFree, Goto, HoldPc
<1>16. CASE Drop
  BY <1>16, MainConn DEF Drop, CloseSocket, Closed, NoUseAfterFree, Goto, HoldPc, ConnAfter, ConnKept
<1>17. ASSUME NEW t \in Thds, ThreadStep(t)
       PROVE  NoUseAfterFree'
  <2>1. CASE ReadFails(t)
    BY <2>1, ThreadConn DEF ReadFails, NoUseAfterFree, Goto, HoldPc, ConnAfter, ConnKept
  <2>2. CASE ReadCommand(t)
    BY <2>2 DEF ReadCommand, NoUseAfterFree, Goto, HoldPc
  <2>3. CASE StopServing(t)
    BY <2>3 DEF StopServing, NoUseAfterFree, Goto, HoldPc
  <2>4. CASE Lock(t, "beginLock", "begin") \/ Lock(t, "finishLock", "finish")
             \/ Lock(t, "closeLock", "close") \/ Lock(t, "unlinkLock", "unlink")
    BY <2>4 DEF Lock, NoUseAfterFree, Goto, HoldPc
  <2>5. CASE Begin(t)
    BY <2>5 DEF Begin, NoUseAfterFree, Goto, HoldPc
  <2>6. CASE Execute(t)
    <3>1. ConnAfter(t, conn[t].thd, conn[t].vio, conn[t].buff, conn[t].open, conn[t].sd)
      BY <2>6, ThreadConn DEF ConnKept
    <3>2. pc[t] = "execute" /\ Goto(t, "finishLock") /\ UNCHANGED <<lock, sock, newSock, cur>>
      BY <2>6 DEF Execute
    <3> QED
      BY <3>1, <3>2 DEF NoUseAfterFree, Goto, HoldPc, ConnAfter
  <2>7. CASE Finish(t)
    BY <2>7 DEF Finish, NoUseAfterFree, Goto, HoldPc
  <2>8. CASE Close(t)
    <3>1. ConnAfter(t, conn[t].thd, conn[t].vio, conn[t].buff, FALSE, None)
      BY <2>8, ThreadConn DEF ConnKept
    <3>2. /\ pc[t] = "close" /\ Goto(t, "cleanup") /\ CloseSocket(t)
          /\ lock' = None /\ UNCHANGED <<newSock, cur>>
      BY <2>8 DEF Close
    <3> QED
      BY <3>1, <3>2 DEF NoUseAfterFree, Goto, HoldPc, ConnAfter, CloseSocket
  <2>9. CASE CleanUp(t)
    <3>1. ConnAfter(t, conn[t].thd, FALSE, FALSE, FALSE, None)
      BY <2>9, ThreadConn DEF ConnKept
    <3>2. /\ pc[t] = "cleanup" /\ Goto(t, "lower") /\ CloseSocket(t)
          /\ UNCHANGED <<lock, newSock, cur>>
      BY <2>9 DEF CleanUp
    <3> QED
      BY <3>1, <3>2 DEF NoUseAfterFree, Goto, HoldPc, ConnAfter, CloseSocket
  <2>10. CASE Lower(t)
    BY <2>10 DEF Lower, NoUseAfterFree, Goto, HoldPc
  <2>11. CASE Unlink(t)
    BY <2>11, ThreadConn DEF Unlink, NoUseAfterFree, Goto, HoldPc, ConnAfter, ConnKept
  <2>12. CASE Exit(t)
    BY <2>12 DEF Exit, NoUseAfterFree, Goto, HoldPc
  <2> QED
    BY <1>17, <2>1, <2>2, <2>3, <2>4, <2>5, <2>6, <2>7, <2>8, <2>9, <2>10, <2>11, <2>12 DEF ThreadStep, CloseLock
<1> QED
  BY <1>1, <1>2, <1>3, <1>4, <1>5, <1>6, <1>7, <1>8, <1>9, <1>10, <1>11, <1>12, <1>13, <1>14, <1>15, <1>16, <1>17 DEF Next, MainStep

\* The main thread keeps its operands.
LEMMA MainStepKeeps ==
  ASSUME IInv, Next
  PROVE  MainInv'
<1>0. /\ TypeOK
      /\ pc \in [Thds \cup {Main} -> MainPc \cup ThreadPc] /\ pc[Main] \in MainPc
      /\ \A u \in Thds : pc[u] \in ThreadPc
      /\ \A p \in Thds \cup {Main} : pc[p] \in HoldPc => lock = p
      /\ sock \in [Fds -> Thds \cup {Main, None}]
      /\ cur \in Thds \cup {None} /\ newSock \in Fds \cup {None}
      /\ lock \in Thds \cup {Main, None}
  BY DEF IInv, TypeOK, LockInv
<1>a. /\ newSock # None <=> pc[Main] \in {"accepted", "setup"}
      /\ newSock # None => sock[newSock] = Main
      /\ cur # None <=> pc[Main] \notin {"accept", "accepted"}
      /\ cur # None /\ pc[Main] # "created" => pc[cur] \in {"none", "exit"}
      /\ pc[Main] = "created" => pc[cur] \notin {"none", "exit"}
  BY DEF IInv, MainInv
<1> USE <1>0, <1>a, Names
<1>b. /\ \A u \in Thds : conn[u].open => conn[u].sd # None /\ sock[conn[u].sd] = u
      /\ \A u \in Thds : pc[u] \notin {"none", "exit"} => conn[u].thd
  BY DEF IInv, SocketInv, NoUseAfterFree
<1> USE <1>b
<1>1. CASE Accept
  BY <1>1 DEF Accept, MainInv, Goto, HoldPc
<1>2. CASE AcceptedFails
  BY <1>2 DEF AcceptedFails, GiveUpSocket, MainInv, Goto, HoldPc
<1>3. CASE AllocateThd
  <2>1. cur' \in Thds /\ ~conn[cur'].thd /\ ConnAfter(cur', TRUE, FALSE, FALSE, FALSE, None)
    BY <1>3, MainConn
  <2>2. pc[Main] = "accepted" /\ Goto(Main, "setup") /\ UNCHANGED <<lock, sock, newSock>>
    BY <1>3 DEF AllocateThd
  <2> QED
    BY <2>1, <2>2 DEF MainInv, Goto, HoldPc, ConnAfter
<1>4. CASE SetUp
  BY <1>4 DEF SetUp, MainInv, Goto, HoldPc
<1>5. CASE SetUpFails
  BY <1>5 DEF SetUpFails, GiveUpSocket, MainInv, Goto, HoldPc
<1>6. CASE Admit
  BY <1>6 DEF Admit, MainInv, Goto, HoldPc
<1>7. CASE AdmitFails
  BY <1>7 DEF AdmitFails, MainInv, Goto, HoldPc
<1>8. CASE Lock(Main, "refuseLock", "refuse") \/ Lock(Main, "threadLock", "register")
           \/ Lock(Main, "dropLock", "drop")
  BY <1>8 DEF Lock, MainInv, Goto, HoldPc
<1>9. CASE Refuse
  BY <1>9 DEF Refuse, CloseSocket, Closed, MainInv, Goto, HoldPc
<1>10. CASE Release
  BY <1>10 DEF Release, MainInv, Goto, HoldPc
<1>11. CASE Register
  BY <1>11 DEF Register, MainInv, Goto, HoldPc
<1>12. CASE Create
  BY <1>12 DEF Create, MainInv, Goto, HoldPc
<1>13. CASE Created
  BY <1>13 DEF Created, MainInv, Goto, HoldPc
<1>14. CASE CreateFails
  BY <1>14 DEF CreateFails, MainInv, Goto, HoldPc
<1>15. CASE Undo
  BY <1>15 DEF Undo, MainInv, Goto, HoldPc
<1>16. CASE Drop
  BY <1>16 DEF Drop, CloseSocket, Closed, MainInv, Goto, HoldPc
<1>17. ASSUME NEW t \in Thds, ThreadStep(t)
       PROVE  MainInv'
  <2>1. CASE ReadFails(t)
    BY <2>1 DEF ReadFails, MainInv, Goto, HoldPc
  <2>2. CASE ReadCommand(t)
    BY <2>2 DEF ReadCommand, MainInv, Goto, HoldPc
  <2>3. CASE StopServing(t)
    BY <2>3 DEF StopServing, MainInv, Goto, HoldPc
  <2>4. CASE Lock(t, "beginLock", "begin") \/ Lock(t, "finishLock", "finish")
             \/ Lock(t, "closeLock", "close") \/ Lock(t, "unlinkLock", "unlink")
    BY <2>4 DEF Lock, MainInv, Goto, HoldPc
  <2>5. CASE Begin(t)
    BY <2>5 DEF Begin, MainInv, Goto, HoldPc
  <2>6. CASE Execute(t)
    BY <2>6 DEF Execute, MainInv, Goto, HoldPc
  <2>7. CASE Finish(t)
    BY <2>7 DEF Finish, MainInv, Goto, HoldPc
  <2>8. CASE Close(t)
    BY <2>8 DEF Close, CloseSocket, Closed, MainInv, Goto, HoldPc
  <2>9. CASE CleanUp(t)
    BY <2>9 DEF CleanUp, CloseSocket, Closed, MainInv, Goto, HoldPc
  <2>10. CASE Lower(t)
    BY <2>10 DEF Lower, MainInv, Goto, HoldPc
  <2>11. CASE Unlink(t)
    BY <2>11 DEF Unlink, MainInv, Goto, HoldPc
  <2>12. CASE Exit(t)
    BY <2>12 DEF Exit, MainInv, Goto, HoldPc
  <2> QED
    BY <1>17, <2>1, <2>2, <2>3, <2>4, <2>5, <2>6, <2>7, <2>8, <2>9, <2>10, <2>11, <2>12 DEF ThreadStep, CloseLock
<1> QED
  BY <1>1, <1>2, <1>3, <1>4, <1>5, <1>6, <1>7, <1>8, <1>9, <1>10, <1>11, <1>12, <1>13, <1>14, <1>15, <1>16, <1>17 DEF Next, MainStep

\* Types are kept.
LEMMA TypeStep ==
  ASSUME IInv, Next
  PROVE  TypeOK'
<1>c. connection_count' \in Nat /\ thread_count' \in Nat /\ thread_running' \in Nat
  BY CountersStep
<1>0. /\ TypeOK
      /\ pc \in [Thds \cup {Main} -> MainPc \cup ThreadPc] /\ pc[Main] \in MainPc
      /\ \A u \in Thds : pc[u] \in ThreadPc
      /\ \A p \in Thds \cup {Main} : pc[p] \in HoldPc => lock = p
      /\ sock \in [Fds -> Thds \cup {Main, None}]
      /\ cur \in Thds \cup {None} /\ newSock \in Fds \cup {None}
      /\ lock \in Thds \cup {Main, None}
  BY DEF IInv, TypeOK, LockInv
<1>a. /\ newSock # None <=> pc[Main] \in {"accepted", "setup"}
      /\ newSock # None => sock[newSock] = Main
      /\ cur # None <=> pc[Main] \notin {"accept", "accepted"}
      /\ cur # None /\ pc[Main] # "created" => pc[cur] \in {"none", "exit"}
      /\ pc[Main] = "created" => pc[cur] \notin {"none", "exit"}
  BY DEF IInv, MainInv
<1> USE <1>c, <1>0, <1>a, Names
<1>1. CASE Accept
  BY <1>1 DEF Accept, TypeOK, Goto, MainPc, ThreadPc, CommandPc
<1>2. CASE AcceptedFails
  BY <1>2 DEF AcceptedFails, GiveUpSocket, TypeOK, Goto, MainPc, ThreadPc, CommandPc
<1>3. CASE AllocateThd
  BY <1>3, MainConn DEF AllocateThd, TypeOK, Goto, MainPc, ThreadPc, CommandPc, ConnAfter, ConnKept
<1>4. CASE SetUp
  BY <1>4, MainConn DEF SetUp, TypeOK, Goto, MainPc, ThreadPc, CommandPc, ConnAfter, ConnKept
<1>5. CASE SetUpFails
  BY <1>5, MainConn DEF SetUpFails, GiveUpSocket, TypeOK, Goto, MainPc, ThreadPc, CommandPc, ConnAfter, ConnKept
<1>6. CASE Admit
  BY <1>6 DEF Admit, TypeOK, Goto, MainPc, ThreadPc, CommandPc
<1>7. CASE AdmitFails
  BY <1>7 DEF AdmitFails, TypeOK, Goto, MainPc, ThreadPc, CommandPc
<1>8. CASE Lock(Main, "refuseLock", "refuse") \/ Lock(Main, "threadLock", "register")
           \/ Lock(Main, "dropLock", "drop")
  BY <1>8 DEF Lock, TypeOK, Goto, MainPc, ThreadPc, CommandPc
<1>9. CASE Refuse
  BY <1>9, MainConn DEF Refuse, CloseSocket, Closed, TypeOK, Goto, MainPc, ThreadPc, CommandPc, ConnAfter, ConnKept
<1>10. CASE Release
  BY <1>10, MainConn DEF Release, TypeOK, Goto, MainPc, ThreadPc, CommandPc, ConnAfter, ConnKept
<1>11. CASE Register
  BY <1>11 DEF Register, TypeOK, Goto, MainPc, ThreadPc, CommandPc
<1>12. CASE Create
  BY <1>12 DEF Create, TypeOK, Goto, MainPc, ThreadPc, CommandPc
<1>13. CASE Created
  BY <1>13 DEF Created, TypeOK, Goto, MainPc, ThreadPc, CommandPc
<1>14. CASE CreateFails
  BY <1>14, MainConn DEF CreateFails, TypeOK, Goto, MainPc, ThreadPc, CommandPc, ConnAfter, ConnKept
<1>15. CASE Undo
  BY <1>15 DEF Undo, TypeOK, Goto, MainPc, ThreadPc, CommandPc
<1>16. CASE Drop
  BY <1>16, MainConn DEF Drop, CloseSocket, Closed, TypeOK, Goto, MainPc, ThreadPc, CommandPc, ConnAfter, ConnKept
<1>17. ASSUME NEW t \in Thds, ThreadStep(t)
       PROVE  TypeOK'
  <2>1. CASE ReadFails(t)
    BY <2>1, ThreadConn DEF ReadFails, TypeOK, Goto, MainPc, ThreadPc, CommandPc, ConnAfter, ConnKept
  <2>2. CASE ReadCommand(t)
    BY <2>2 DEF ReadCommand, TypeOK, Goto, MainPc, ThreadPc, CommandPc
  <2>3. CASE StopServing(t)
    BY <2>3 DEF StopServing, TypeOK, Goto, MainPc, ThreadPc, CommandPc
  <2>4. CASE Lock(t, "beginLock", "begin") \/ Lock(t, "finishLock", "finish")
             \/ Lock(t, "closeLock", "close") \/ Lock(t, "unlinkLock", "unlink")
    BY <2>4 DEF Lock, TypeOK, Goto, MainPc, ThreadPc, CommandPc
  <2>5. CASE Begin(t)
    BY <2>5 DEF Begin, TypeOK, Goto, MainPc, ThreadPc, CommandPc
  <2>6. CASE Execute(t)
    BY <2>6, ThreadConn DEF Execute, TypeOK, Goto, MainPc, ThreadPc, CommandPc, ConnAfter, ConnKept
  <2>7. CASE Finish(t)
    BY <2>7 DEF Finish, TypeOK, Goto, MainPc, ThreadPc, CommandPc
  <2>8. CASE Close(t)
    BY <2>8, ThreadConn DEF Close, CloseSocket, Closed, TypeOK, Goto, MainPc, ThreadPc, CommandPc, ConnAfter, ConnKept
  <2>9. CASE CleanUp(t)
    BY <2>9, ThreadConn DEF CleanUp, CloseSocket, Closed, TypeOK, Goto, MainPc, ThreadPc, CommandPc, ConnAfter, ConnKept
  <2>10. CASE Lower(t)
    BY <2>10 DEF Lower, TypeOK, Goto, MainPc, ThreadPc, CommandPc
  <2>11. CASE Unlink(t)
    BY <2>11, ThreadConn DEF Unlink, TypeOK, Goto, MainPc, ThreadPc, CommandPc, ConnAfter, ConnKept
  <2>12. CASE Exit(t)
    BY <2>12 DEF Exit, TypeOK, Goto, MainPc, ThreadPc, CommandPc
  <2> QED
    BY <1>17, <2>1, <2>2, <2>3, <2>4, <2>5, <2>6, <2>7, <2>8, <2>9, <2>10, <2>11, <2>12 DEF ThreadStep, CloseLock
<1> QED
  BY <1>1, <1>2, <1>3, <1>4, <1>5, <1>6, <1>7, <1>8, <1>9, <1>10, <1>11, <1>12, <1>13, <1>14, <1>15, <1>16, <1>17 DEF Next, MainStep

\* A connection thread has freed what its THD points to before the THD.
LEMMA FreedStep ==
  ASSUME IInv, Next
  PROVE  FreedInv'
<1>0. /\ TypeOK
      /\ pc \in [Thds \cup {Main} -> MainPc \cup ThreadPc] /\ pc[Main] \in MainPc
      /\ \A u \in Thds : pc[u] \in ThreadPc
      /\ \A p \in Thds \cup {Main} : pc[p] \in HoldPc => lock = p
      /\ sock \in [Fds -> Thds \cup {Main, None}]
      /\ cur \in Thds \cup {None} /\ newSock \in Fds \cup {None}
      /\ lock \in Thds \cup {Main, None}
  BY DEF IInv, TypeOK, LockInv
<1>a. /\ newSock # None <=> pc[Main] \in {"accepted", "setup"}
      /\ newSock # None => sock[newSock] = Main
      /\ cur # None <=> pc[Main] \notin {"accept", "accepted"}
      /\ cur # None /\ pc[Main] # "created" => pc[cur] \in {"none", "exit"}
      /\ pc[Main] = "created" => pc[cur] \notin {"none", "exit"}
  BY DEF IInv, MainInv
<1> USE <1>0, <1>a, Names
<1>b. \A u \in Thds : pc[u] \in {"lower", "unlinkLock", "unlink"} => ~conn[u].vio /\ ~conn[u].buff
  BY DEF IInv, FreedInv
<1> USE <1>b
<1>1. CASE Accept
  BY <1>1 DEF Accept, FreedInv, Goto, HoldPc
<1>2. CASE AcceptedFails
  BY <1>2 DEF AcceptedFails, GiveUpSocket, FreedInv, Goto, HoldPc
<1>3. CASE AllocateThd
  BY <1>3, MainConn DEF AllocateThd, FreedInv, Goto, HoldPc, ConnAfter, ConnKept
<1>4. CASE SetUp
  BY <1>4, MainConn DEF SetUp, FreedInv, Goto, HoldPc, ConnAfter, ConnKept
<1>5. CASE SetUpFails
  BY <1>5, MainConn DEF SetUpFails, GiveUpSocket, FreedInv, Goto, HoldPc, ConnAfter, ConnKept
<1>6. CASE Admit
  BY <1>6 DEF Admit, FreedInv, Goto, HoldPc
<1>7. CASE AdmitFails
  BY <1>7 DEF AdmitFails, FreedInv, Goto, HoldPc
<1>8. CASE Lock(Main, "refuseLock", "refuse") \/ Lock(Main, "threadLock", "register")
           \/ Lock(Main, "dropLock", "drop")
  BY <1>8 DEF Lock, FreedInv, Goto, HoldPc
<1>9. CASE Refuse
  BY <1>9, MainConn DEF Refuse, CloseSocket, Closed, FreedInv, Goto, HoldPc, ConnAfter, ConnKept
<1>10. CASE Release
  BY <1>10, MainConn DEF Release, FreedInv, Goto, HoldPc, ConnAfter, ConnKept
<1>11. CASE Register
  BY <1>11 DEF Register, FreedInv, Goto, HoldPc
<1>12. CASE Create
  BY <1>12 DEF Create, FreedInv, Goto, HoldPc
<1>13. CASE Created
  BY <1>13 DEF Created, FreedInv, Goto, HoldPc
<1>14. CASE CreateFails
  BY <1>14, MainConn DEF CreateFails, FreedInv, Goto, HoldPc, ConnAfter, ConnKept
<1>15. CASE Undo
  BY <1>15 DEF Undo, FreedInv, Goto, HoldPc
<1>16. CASE Drop
  BY <1>16, MainConn DEF Drop, CloseSocket, Closed, FreedInv, Goto, HoldPc, ConnAfter, ConnKept
<1>17. ASSUME NEW t \in Thds, ThreadStep(t)
       PROVE  FreedInv'
  <2>1. CASE ReadFails(t)
    BY <2>1, ThreadConn DEF ReadFails, FreedInv, Goto, HoldPc, ConnAfter, ConnKept
  <2>2. CASE ReadCommand(t)
    BY <2>2 DEF ReadCommand, FreedInv, Goto, HoldPc
  <2>3. CASE StopServing(t)
    BY <2>3 DEF StopServing, FreedInv, Goto, HoldPc
  <2>4. CASE Lock(t, "beginLock", "begin") \/ Lock(t, "finishLock", "finish")
             \/ Lock(t, "closeLock", "close") \/ Lock(t, "unlinkLock", "unlink")
    BY <2>4 DEF Lock, FreedInv, Goto, HoldPc
  <2>5. CASE Begin(t)
    BY <2>5 DEF Begin, FreedInv, Goto, HoldPc
  <2>6. CASE Execute(t)
    BY <2>6, ThreadConn, ZenonT(40) DEF Execute, FreedInv, Goto, HoldPc, ConnAfter, ConnKept
  <2>7. CASE Finish(t)
    BY <2>7 DEF Finish, FreedInv, Goto, HoldPc
  <2>8. CASE Close(t)
    BY <2>8, ThreadConn, ZenonT(40) DEF Close, CloseSocket, Closed, FreedInv, Goto, HoldPc, ConnAfter, ConnKept
  <2>9. CASE CleanUp(t)
    BY <2>9, ThreadConn, ZenonT(40) DEF CleanUp, CloseSocket, Closed, FreedInv, Goto, HoldPc, ConnAfter, ConnKept
  <2>10. CASE Lower(t)
    BY <2>10 DEF Lower, FreedInv, Goto, HoldPc
  <2>11. CASE Unlink(t)
    BY <2>11, ThreadConn DEF Unlink, FreedInv, Goto, HoldPc, ConnAfter, ConnKept
  <2>12. CASE Exit(t)
    BY <2>12 DEF Exit, FreedInv, Goto, HoldPc
  <2> QED
    BY <1>17, <2>1, <2>2, <2>3, <2>4, <2>5, <2>6, <2>7, <2>8, <2>9, <2>10, <2>11, <2>12 DEF ThreadStep, CloseLock
<1> QED
  BY <1>1, <1>2, <1>3, <1>4, <1>5, <1>6, <1>7, <1>8, <1>9, <1>10, <1>11, <1>12, <1>13, <1>14, <1>15, <1>16, <1>17 DEF Next, MainStep

\* An open Vio keeps its descriptor.
LEMMA SocketStep ==
  ASSUME IInv, Next
  PROVE  SocketInv'
<1>0. /\ TypeOK
      /\ pc \in [Thds \cup {Main} -> MainPc \cup ThreadPc] /\ pc[Main] \in MainPc
      /\ \A u \in Thds : pc[u] \in ThreadPc
      /\ \A p \in Thds \cup {Main} : pc[p] \in HoldPc => lock = p
      /\ sock \in [Fds -> Thds \cup {Main, None}]
      /\ cur \in Thds \cup {None} /\ newSock \in Fds \cup {None}
      /\ lock \in Thds \cup {Main, None}
  BY DEF IInv, TypeOK, LockInv
<1>a. /\ newSock # None <=> pc[Main] \in {"accepted", "setup"}
      /\ newSock # None => sock[newSock] = Main
      /\ cur # None <=> pc[Main] \notin {"accept", "accepted"}
      /\ cur # None /\ pc[Main] # "created" => pc[cur] \in {"none", "exit"}
      /\ pc[Main] = "created" => pc[cur] \notin {"none", "exit"}
  BY DEF IInv, MainInv
<1> USE <1>0, <1>a, Names
<1>b. /\ \A u \in Thds : conn[u].open <=> HasOpenVio(u)
      /\ \A u \in Thds : conn[u].open => conn[u].sd # None /\ sock[conn[u].sd] = u
      /\ \A fd \in Fds : sock[fd] = Main => newSock = fd
      /\ \A fd \in Fds : sock[fd] \in Thds => /\ conn[sock[fd]].thd
                                              /\ conn[sock[fd]].open
                                              /\ conn[sock[fd]].sd = fd
      /\ \A u \in Thds : conn[u].sd \in Fds \cup {None}
      /\ \A u \in Thds : pc[u] \notin {"none", "exit"} => conn[u].thd
      /\ cur # None => conn[cur].thd
  BY DEF IInv, SocketInv, NoDescriptorLeak, TypeOK, Connection, NoUseAfterFree
<1> USE <1>b
<1>1. CASE Accept
  BY <1>1 DEF Accept, SocketInv, HasOpenVio, ServePc, CommandPc, Goto, HoldPc
<1>2. CASE AcceptedFails
  BY <1>2 DEF AcceptedFails, GiveUpSocket, SocketInv, HasOpenVio, ServePc, CommandPc, Goto, HoldPc
<1>3. CASE AllocateThd
  <2>1. cur' \in Thds /\ ~conn[cur'].thd /\ ConnAfter(cur', TRUE, FALSE, FALSE, FALSE, None)
    BY <1>3, MainConn
  <2>2. pc[Main] = "accepted" /\ Goto(Main, "setup") /\ UNCHANGED <<lock, sock, newSock>>
    BY <1>3 DEF AllocateThd
  <2> QED
    BY <2>1, <2>2 DEF SocketInv, HasOpenVio, ServePc, CommandPc, Goto, HoldPc, ConnAfter
<1>4. CASE SetUp
  <2>0. cur \in Thds /\ newSock \in Fds
    BY <1>4 DEF SetUp
  <2>1. ConnAfter(cur, conn[cur].thd, TRUE, TRUE, TRUE, newSock)
    BY <2>0, <1>4, MainConn
  <2>2. /\ pc[Main] = "setup" /\ Goto(Main, "admit") /\ sock' = [sock EXCEPT ![newSock] = cur]
        /\ newSock' = None /\ UNCHANGED <<lock, cur>>
    BY <1>4 DEF SetUp
  <2> QED
    BY <2>1, <2>2 DEF SocketInv, HasOpenVio, ServePc, CommandPc, Goto, HoldPc, ConnAfter
<1>5. CASE SetUpFails
  <2>0. cur \in Thds
    BY <1>5 DEF SetUpFails
  <2>1. \E v \in BOOLEAN :
             ConnAfter(cur, FALSE, v, conn[cur].buff, conn[cur].open, conn[cur].sd)
    BY <2>0, <1>5, MainConn
  <2>2. /\ pc[Main] = "setup" /\ Goto(Main, "accept") /\ sock' = [sock EXCEPT ![newSock] = None]
        /\ newSock' = None /\ cur' = None /\ lock' = lock
    BY <1>5 DEF SetUpFails, GiveUpSocket
  <2> QED
    BY <2>1, <2>2 DEF SocketInv, HasOpenVio, ServePc, CommandPc, Goto, HoldPc, ConnAfter
<1>6. CASE Admit
  BY <1>6 DEF Admit, SocketInv, HasOpenVio, ServePc, CommandPc, Goto, HoldPc
<1>7. CASE AdmitFails
  BY <1>7 DEF AdmitFails, SocketInv, HasOpenVio, ServePc, CommandPc, Goto, HoldPc
<1>8. CASE Lock(Main, "refuseLock", "refuse") \/ Lock(Main, "threadLock", "register")
           \/ Lock(Main, "dropLock", "drop")
  BY <1>8 DEF Lock, SocketInv, HasOpenVio, ServePc, CommandPc, Goto, HoldPc
<1>9. CASE Refuse
  <2>0. cur \in Thds
    BY <1>9 DEF Refuse
  <2>1. ConnAfter(cur, conn[cur].thd, conn[cur].vio, conn[cur].buff, FALSE, None)
    BY <2>0, <1>9, MainConn
  <2>2. /\ pc[Main] = "refuse" /\ Goto(Main, "release") /\ CloseSocket(cur)
        /\ lock' = None /\ UNCHANGED <<newSock, cur>>
    BY <1>9 DEF Refuse
  <2> QED
    BY <2>1, <2>2 DEF SocketInv, HasOpenVio, ServePc, CommandPc, Goto, HoldPc, ConnAfter, CloseSocket
<1>10. CASE Release
  BY <1>10, MainConn DEF Release, SocketInv, HasOpenVio, ServePc, CommandPc, Goto, HoldPc, ConnAfter, ConnKept
<1>11. CASE Register
  BY <1>11 DEF Register, SocketInv, HasOpenVio, ServePc, CommandPc, Goto, HoldPc
<1>12. CASE Create
  BY <1>12 DEF Create, SocketInv, HasOpenVio, ServePc, CommandPc, Goto, HoldPc
<1>13. CASE Created
  BY <1>13 DEF Created, SocketInv, HasOpenVio, ServePc, CommandPc, Goto, HoldPc
<1>14. CASE CreateFails
  BY <1>14, MainConn DEF CreateFails, SocketInv, HasOpenVio, ServePc, CommandPc, Goto, HoldPc, ConnAfter, ConnKept
<1>15. CASE Undo
  BY <1>15 DEF Undo, SocketInv, HasOpenVio, ServePc, CommandPc, Goto, HoldPc
<1>16. CASE Drop
  <2>0. cur \in Thds
    BY <1>16 DEF Drop
  <2>1. ConnAfter(cur, FALSE, conn[cur].vio, conn[cur].buff, FALSE, None)
    BY <2>0, <1>16, MainConn
  <2>2. /\ pc[Main] = "drop" /\ Goto(Main, "accept") /\ CloseSocket(cur)
        /\ lock' = None /\ cur' = None /\ newSock' = newSock
    BY <1>16 DEF Drop
  <2> QED
    BY <2>1, <2>2 DEF SocketInv, HasOpenVio, ServePc, CommandPc, Goto, HoldPc, ConnAfter, CloseSocket
<1>17. ASSUME NEW t \in Thds, ThreadStep(t)
       PROVE  SocketInv'
  <2>1. CASE ReadFails(t)
    BY <2>1, ThreadConn DEF ReadFails, SocketInv, HasOpenVio, ServePc, CommandPc, Goto, HoldPc, ConnAfter, ConnKept
  <2>2. CASE ReadCommand(t)
    BY <2>2 DEF ReadCommand, SocketInv, HasOpenVio, ServePc, CommandPc, Goto, HoldPc
  <2>3. CASE StopServing(t)
    BY <2>3 DEF StopServing, SocketInv, HasOpenVio, ServePc, CommandPc, Goto, HoldPc
  <2>4. CASE Lock(t, "beginLock", "begin") \/ Lock(t, "finishLock", "finish")
             \/ Lock(t, "closeLock", "close") \/ Lock(t, "unlinkLock", "unlink")
    BY <2>4 DEF Lock, SocketInv, HasOpenVio, ServePc, CommandPc, Goto, HoldPc
  <2>5. CASE Begin(t)
    BY <2>5 DEF Begin, SocketInv, HasOpenVio, ServePc, CommandPc, Goto, HoldPc
  <2>6. CASE Execute(t)
    <3>1. ConnAfter(t, conn[t].thd, conn[t].vio, conn[t].buff, conn[t].open, conn[t].sd)
      BY <2>6, ThreadConn DEF ConnKept
    <3>2. pc[t] = "execute" /\ Goto(t, "finishLock") /\ UNCHANGED <<lock, sock, newSock, cur>>
      BY <2>6 DEF Execute
    <3> QED
      BY <3>1, <3>2 DEF SocketInv, HasOpenVio, ServePc, CommandPc, Goto, HoldPc, ConnAfter
  <2>7. CASE Finish(t)
    BY <2>7 DEF Finish, SocketInv, HasOpenVio, ServePc, CommandPc, Goto, HoldPc
  <2>8. CASE Close(t)
    <3>1. ConnAfter(t, conn[t].thd, conn[t].vio, conn[t].buff, FALSE, None)
      BY <2>8, ThreadConn DEF ConnKept
    <3>2. /\ pc[t] = "close" /\ Goto(t, "cleanup") /\ CloseSocket(t)
          /\ lock' = None /\ UNCHANGED <<newSock, cur>>
      BY <2>8 DEF Close
    <3> QED
      BY <3>1, <3>2 DEF SocketInv, HasOpenVio, ServePc, CommandPc, Goto, HoldPc, ConnAfter, CloseSocket
  <2>9. CASE CleanUp(t)
    <3>1. ConnAfter(t, conn[t].thd, FALSE, FALSE, FALSE, None)
      BY <2>9, ThreadConn DEF ConnKept
    <3>2. /\ pc[t] = "cleanup" /\ Goto(t, "lower") /\ CloseSocket(t)
          /\ UNCHANGED <<lock, newSock, cur>>
      BY <2>9 DEF CleanUp
    <3> QED
      BY <3>1, <3>2 DEF SocketInv, HasOpenVio, ServePc, CommandPc, Goto, HoldPc, ConnAfter, CloseSocket
  <2>10. CASE Lower(t)
    BY <2>10 DEF Lower, SocketInv, HasOpenVio, ServePc, CommandPc, Goto, HoldPc
  <2>11. CASE Unlink(t)
    BY <2>11, ThreadConn DEF Unlink, SocketInv, HasOpenVio, ServePc, CommandPc, Goto, HoldPc, ConnAfter, ConnKept
  <2>12. CASE Exit(t)
    BY <2>12 DEF Exit, SocketInv, HasOpenVio, ServePc, CommandPc, Goto, HoldPc
  <2> QED
    BY <1>17, <2>1, <2>2, <2>3, <2>4, <2>5, <2>6, <2>7, <2>8, <2>9, <2>10, <2>11, <2>12 DEF ThreadStep, CloseLock
<1> QED
  BY <1>1, <1>2, <1>3, <1>4, <1>5, <1>6, <1>7, <1>8, <1>9, <1>10, <1>11, <1>12, <1>13, <1>14, <1>15, <1>16, <1>17 DEF Next, MainStep

\* An open descriptor keeps its Vio.
LEMMA DescriptorStep ==
  ASSUME IInv, Next
  PROVE  NoDescriptorLeak'
<1>0. /\ TypeOK
      /\ pc \in [Thds \cup {Main} -> MainPc \cup ThreadPc] /\ pc[Main] \in MainPc
      /\ \A u \in Thds : pc[u] \in ThreadPc
      /\ \A p \in Thds \cup {Main} : pc[p] \in HoldPc => lock = p
      /\ sock \in [Fds -> Thds \cup {Main, None}]
      /\ cur \in Thds \cup {None} /\ newSock \in Fds \cup {None}
      /\ lock \in Thds \cup {Main, None}
  BY DEF IInv, TypeOK, LockInv
<1>a. /\ newSock # None <=> pc[Main] \in {"accepted", "setup"}
      /\ newSock # None => sock[newSock] = Main
      /\ cur # None <=> pc[Main] \notin {"accept", "accepted"}
      /\ cur # None /\ pc[Main] # "created" => pc[cur] \in {"none", "exit"}
      /\ pc[Main] = "created" => pc[cur] \notin {"none", "exit"}
  BY DEF IInv, MainInv
<1> USE <1>0, <1>a, Names
<1>b. /\ \A u \in Thds : conn[u].open <=> HasOpenVio(u)
      /\ \A u \in Thds : conn[u].open => conn[u].sd # None /\ sock[conn[u].sd] = u
      /\ \A fd \in Fds : sock[fd] = Main => newSock = fd
      /\ \A fd \in Fds : sock[fd] \in Thds => /\ conn[sock[fd]].thd
                                              /\ conn[sock[fd]].open
                                              /\ conn[sock[fd]].sd = fd
      /\ \A u \in Thds : conn[u].sd \in Fds \cup {None}
      /\ \A u \in Thds : pc[u] \notin {"none", "exit"} => conn[u].thd
      /\ cur # None => conn[cur].thd
  BY DEF IInv, SocketInv, NoDescriptorLeak, TypeOK, Connection, NoUseAfterFree
<1> USE <1>b
<1>1. CASE Accept
  BY <1>1 DEF Accept, NoDescriptorLeak, HasOpenVio, ServePc, CommandPc, Goto, HoldPc
<1>2. CASE AcceptedFails
  BY <1>2 DEF AcceptedFails, GiveUpSocket, NoDescriptorLeak, HasOpenVio, ServePc, CommandPc, Goto, HoldPc
<1>3. CASE AllocateThd
  <2>1. cur' \in Thds /\ ~conn[cur'].thd /\ ConnAfter(cur', TRUE, FALSE, FALSE, FALSE, None)
    BY <1>3, MainConn
  <2>2. pc[Main] = "accepted" /\ Goto(Main, "setup") /\ UNCHANGED <<lock, sock, newSock>>
    BY <1>3 DEF AllocateThd
  <2> QED
    BY <2>1, <2>2 DEF NoDescriptorLeak, HasOpenVio, ServePc, CommandPc, Goto, HoldPc, ConnAfter
<1>4. CASE SetUp
  <2>0. cur \in Thds /\ newSock \in Fds
    BY <1>4 DEF SetUp
  <2>1. ConnAfter(cur, conn[cur].thd, TRUE, TRUE, TRUE, newSock)
    BY <2>0, <1>4, MainConn
  <2>2. /\ pc[Main] = "setup" /\ Goto(Main, "admit") /\ sock' = [sock EXCEPT ![newSock] = cur]
        /\ newSock' = None /\ UNCHANGED <<lock, cur>>
    BY <1>4 DEF SetUp
  <2> QED
    BY <2>1, <2>2 DEF NoDescriptorLeak, HasOpenVio, ServePc, CommandPc, Goto, HoldPc, ConnAfter
<1>5. CASE SetUpFails
  <2>0. cur \in Thds
    BY <1>5 DEF SetUpFails
  <2>1. \E v \in BOOLEAN :
             ConnAfter(cur, FALSE, v, conn[cur].buff, conn[cur].open, conn[cur].sd)
    BY <2>0, <1>5, MainConn
  <2>2. /\ pc[Main] = "setup" /\ Goto(Main, "accept") /\ sock' = [sock EXCEPT ![newSock] = None]
        /\ newSock' = None /\ cur' = None /\ lock' = lock
    BY <1>5 DEF SetUpFails, GiveUpSocket
  <2> QED
    BY <2>1, <2>2 DEF NoDescriptorLeak, HasOpenVio, ServePc, CommandPc, Goto, HoldPc, ConnAfter
<1>6. CASE Admit
  BY <1>6 DEF Admit, NoDescriptorLeak, HasOpenVio, ServePc, CommandPc, Goto, HoldPc
<1>7. CASE AdmitFails
  BY <1>7 DEF AdmitFails, NoDescriptorLeak, HasOpenVio, ServePc, CommandPc, Goto, HoldPc
<1>8. CASE Lock(Main, "refuseLock", "refuse") \/ Lock(Main, "threadLock", "register")
           \/ Lock(Main, "dropLock", "drop")
  BY <1>8 DEF Lock, NoDescriptorLeak, HasOpenVio, ServePc, CommandPc, Goto, HoldPc
<1>9. CASE Refuse
  <2>0. cur \in Thds
    BY <1>9 DEF Refuse
  <2>1. ConnAfter(cur, conn[cur].thd, conn[cur].vio, conn[cur].buff, FALSE, None)
    BY <2>0, <1>9, MainConn
  <2>2. /\ pc[Main] = "refuse" /\ Goto(Main, "release") /\ CloseSocket(cur)
        /\ lock' = None /\ UNCHANGED <<newSock, cur>>
    BY <1>9 DEF Refuse
  <2> QED
    BY <2>1, <2>2 DEF NoDescriptorLeak, HasOpenVio, ServePc, CommandPc, Goto, HoldPc, ConnAfter, CloseSocket
<1>10. CASE Release
  BY <1>10, MainConn DEF Release, NoDescriptorLeak, HasOpenVio, ServePc, CommandPc, Goto, HoldPc, ConnAfter, ConnKept
<1>11. CASE Register
  BY <1>11 DEF Register, NoDescriptorLeak, HasOpenVio, ServePc, CommandPc, Goto, HoldPc
<1>12. CASE Create
  BY <1>12 DEF Create, NoDescriptorLeak, HasOpenVio, ServePc, CommandPc, Goto, HoldPc
<1>13. CASE Created
  BY <1>13 DEF Created, NoDescriptorLeak, HasOpenVio, ServePc, CommandPc, Goto, HoldPc
<1>14. CASE CreateFails
  BY <1>14, MainConn DEF CreateFails, NoDescriptorLeak, HasOpenVio, ServePc, CommandPc, Goto, HoldPc, ConnAfter, ConnKept
<1>15. CASE Undo
  BY <1>15 DEF Undo, NoDescriptorLeak, HasOpenVio, ServePc, CommandPc, Goto, HoldPc
<1>16. CASE Drop
  <2>0. cur \in Thds
    BY <1>16 DEF Drop
  <2>1. ConnAfter(cur, FALSE, conn[cur].vio, conn[cur].buff, FALSE, None)
    BY <2>0, <1>16, MainConn
  <2>2. /\ pc[Main] = "drop" /\ Goto(Main, "accept") /\ CloseSocket(cur)
        /\ lock' = None /\ cur' = None /\ newSock' = newSock
    BY <1>16 DEF Drop
  <2> QED
    BY <2>1, <2>2 DEF NoDescriptorLeak, HasOpenVio, ServePc, CommandPc, Goto, HoldPc, ConnAfter, CloseSocket
<1>17. ASSUME NEW t \in Thds, ThreadStep(t)
       PROVE  NoDescriptorLeak'
  <2>1. CASE ReadFails(t)
    BY <2>1, ThreadConn DEF ReadFails, NoDescriptorLeak, HasOpenVio, ServePc, CommandPc, Goto, HoldPc, ConnAfter, ConnKept
  <2>2. CASE ReadCommand(t)
    BY <2>2 DEF ReadCommand, NoDescriptorLeak, HasOpenVio, ServePc, CommandPc, Goto, HoldPc
  <2>3. CASE StopServing(t)
    BY <2>3 DEF StopServing, NoDescriptorLeak, HasOpenVio, ServePc, CommandPc, Goto, HoldPc
  <2>4. CASE Lock(t, "beginLock", "begin") \/ Lock(t, "finishLock", "finish")
             \/ Lock(t, "closeLock", "close") \/ Lock(t, "unlinkLock", "unlink")
    BY <2>4 DEF Lock, NoDescriptorLeak, HasOpenVio, ServePc, CommandPc, Goto, HoldPc
  <2>5. CASE Begin(t)
    BY <2>5 DEF Begin, NoDescriptorLeak, HasOpenVio, ServePc, CommandPc, Goto, HoldPc
  <2>6. CASE Execute(t)
    <3>1. ConnAfter(t, conn[t].thd, conn[t].vio, conn[t].buff, conn[t].open, conn[t].sd)
      BY <2>6, ThreadConn DEF ConnKept
    <3>2. pc[t] = "execute" /\ Goto(t, "finishLock") /\ UNCHANGED <<lock, sock, newSock, cur>>
      BY <2>6 DEF Execute
    <3> QED
      BY <3>1, <3>2 DEF NoDescriptorLeak, HasOpenVio, ServePc, CommandPc, Goto, HoldPc, ConnAfter
  <2>7. CASE Finish(t)
    BY <2>7 DEF Finish, NoDescriptorLeak, HasOpenVio, ServePc, CommandPc, Goto, HoldPc
  <2>8. CASE Close(t)
    <3>1. ConnAfter(t, conn[t].thd, conn[t].vio, conn[t].buff, FALSE, None)
      BY <2>8, ThreadConn DEF ConnKept
    <3>2. /\ pc[t] = "close" /\ Goto(t, "cleanup") /\ CloseSocket(t)
          /\ lock' = None /\ UNCHANGED <<newSock, cur>>
      BY <2>8 DEF Close
    <3> QED
      BY <3>1, <3>2 DEF NoDescriptorLeak, HasOpenVio, ServePc, CommandPc, Goto, HoldPc, ConnAfter, CloseSocket
  <2>9. CASE CleanUp(t)
    <3>1. ConnAfter(t, conn[t].thd, FALSE, FALSE, FALSE, None)
      BY <2>9, ThreadConn DEF ConnKept
    <3>2. /\ pc[t] = "cleanup" /\ Goto(t, "lower") /\ CloseSocket(t)
          /\ UNCHANGED <<lock, newSock, cur>>
      BY <2>9 DEF CleanUp
    <3> QED
      BY <3>1, <3>2 DEF NoDescriptorLeak, HasOpenVio, ServePc, CommandPc, Goto, HoldPc, ConnAfter, CloseSocket
  <2>10. CASE Lower(t)
    BY <2>10 DEF Lower, NoDescriptorLeak, HasOpenVio, ServePc, CommandPc, Goto, HoldPc
  <2>11. CASE Unlink(t)
    BY <2>11, ThreadConn DEF Unlink, NoDescriptorLeak, HasOpenVio, ServePc, CommandPc, Goto, HoldPc, ConnAfter, ConnKept
  <2>12. CASE Exit(t)
    BY <2>12 DEF Exit, NoDescriptorLeak, HasOpenVio, ServePc, CommandPc, Goto, HoldPc
  <2> QED
    BY <1>17, <2>1, <2>2, <2>3, <2>4, <2>5, <2>6, <2>7, <2>8, <2>9, <2>10, <2>11, <2>12 DEF ThreadStep, CloseLock
<1> QED
  BY <1>1, <1>2, <1>3, <1>4, <1>5, <1>6, <1>7, <1>8, <1>9, <1>10, <1>11, <1>12, <1>13, <1>14, <1>15, <1>16, <1>17 DEF Next, MainStep


\* The invariant holds before the first client.
LEMMA InitInv == Init => IInv
<1> SUFFICES ASSUME Init PROVE IInv
  OBVIOUS
<1> USE Names
<1>1. /\ pc \in [Thds \cup {Main} -> MainPc \cup ThreadPc]
      /\ pc[Main] = "accept" /\ \A t \in Thds : pc[t] = "none"
  BY DEF Init, MainPc, ThreadPc
<1>2. /\ conn \in [Thds -> Connection]
      /\ \A t \in Thds : conn[t].thd = FALSE /\ conn[t].open = FALSE
  <2> DEFINE d == [Blank EXCEPT !.thd = FALSE]
  <2>1. d \in Connection /\ d.thd = FALSE /\ d.open = FALSE
    BY BlankFields, FreedFields
  <2>2. conn = [t \in Thds |-> d]
    BY DEF Init
  <2> HIDE DEF d
  <2> QED
    BY <2>1, <2>2
<1>3. TypeOK
  BY <1>1, <1>2 DEF Init, TypeOK, MainPc, ThreadPc
<1>4. Connections = {} /\ Threads = {} /\ Running = {}
  BY <1>1 DEF Init, Connections, Threads, Running, Admitted, Counted, ServePc, CommandPc
<1>5. CountersInv /\ LimitInv
  BY <1>4, FS_EmptySet, LimitAssumption DEF Init, CountersInv, LimitInv
<1>6. LockInv /\ NoUseAfterFree /\ MainInv
  BY <1>1 DEF Init, LockInv, HoldPc, NoUseAfterFree, MainInv
<1>7. SocketInv /\ NoDescriptorLeak /\ FreedInv
  BY <1>1, <1>2 DEF Init, SocketInv, HasOpenVio, ServePc, CommandPc, NoDescriptorLeak, FreedInv
<1> QED
  BY <1>3, <1>5, <1>6, <1>7 DEF IInv

\* IInv holds in every reachable state.
THEOREM Inductive == Spec => []IInv
<1>1. ASSUME IInv, Next PROVE IInv'
  BY <1>1, TypeStep, LockStep, CountersStep, LimitStep, UseStep, MainStepKeeps, SocketStep,
     DescriptorStep, FreedStep DEF IInv
<1>2. ASSUME IInv, UNCHANGED vars PROVE IInv'
  <2> USE <1>2 DEF vars
  <2>1. TypeOK' /\ LockInv' /\ LimitInv'
    BY DEF IInv, TypeOK, LockInv, LimitInv
  <2>2. CountersInv'
    BY DEF IInv, CountersInv, Connections, Threads, Running, Admitted, Counted
  <2>3. NoUseAfterFree' /\ MainInv' /\ FreedInv'
    BY DEF IInv, NoUseAfterFree, MainInv, FreedInv
  <2>4. SocketInv' /\ NoDescriptorLeak'
    BY DEF IInv, SocketInv, HasOpenVio, NoDescriptorLeak
  <2> QED
    BY <2>1, <2>2, <2>3, <2>4 DEF IInv
<1> QED
  BY InitInv, <1>1, <1>2, PTL DEF Spec

\* Every variable keeps its type; no counter goes below zero.
THEOREM TypeCorrect == Spec => []TypeOK
<1>1. IInv => TypeOK
  BY DEF IInv
<1> QED
  BY <1>1, Inductive, PTL

\* LOCK_thread_count excludes every other thread.
THEOREM MutualExclusion == Spec => []LockInv
<1>1. IInv => LockInv
  BY DEF IInv
<1> QED
  BY <1>1, Inductive, PTL

\* The counters agree with the threads.
THEOREM CountersCorrect == Spec => []CountersInv
<1>1. IInv => CountersInv
  BY DEF IInv
<1> QED
  BY <1>1, Inductive, PTL

\* At most max_connections + 1 connections are served at a time.
THEOREM LimitRespected == Spec => []ConnectionBound
<1>1. IInv => ConnectionBound
  <2> SUFFICES ASSUME IInv PROVE Cardinality(Serving) <= MaxConnections + 1
    BY DEF ConnectionBound
  <2>1. Serving \subseteq Connections /\ Connections \subseteq Thds
    BY DEF Serving, Connections, Admitted
  <2>2. IsFiniteSet(Connections)
    BY <2>1, FiniteAssumption, FS_Subset
  <2>3. /\ Cardinality(Serving) <= Cardinality(Connections)
        /\ IsFiniteSet(Serving)
    BY <2>1, <2>2, FS_Subset
  <2>4. Cardinality(Serving) \in Nat
    BY <2>3, FS_CardinalityType
  <2>5. /\ Cardinality(Connections) = connection_count /\ connection_count \in Nat
        /\ connection_count <= MaxConnections + 1
    BY DEF IInv, CountersInv, TypeOK, LimitInv
  <2> QED
    BY <2>3, <2>4, <2>5, LimitAssumption
<1> QED
  BY <1>1, Inductive, PTL

\* No thread touches a THD after it was freed.
THEOREM HandOverSafe == Spec => []NoUseAfterFree
<1>1. IInv => NoUseAfterFree
  BY DEF IInv
<1> QED
  BY <1>1, Inductive, PTL

\* A connection thread has its own socket while it serves.
THEOREM SocketOwned == Spec => []OwnSocket
<1>1. IInv => OwnSocket
  BY DEF IInv, SocketInv, HasOpenVio, OwnSocket, Serving
<1> QED
  BY <1>1, Inductive, PTL

\* No descriptor is lost, on no failure path.
THEOREM DescriptorsKept == Spec => []NoDescriptorLeak
<1>1. IInv => NoDescriptorLeak
  BY DEF IInv
<1> QED
  BY <1>1, Inductive, PTL

\* A connection that ends in its own thread leaves no memory behind.
THEOREM ThreadsFreeAll == Spec => []ThreadFreesAll
<1>1. IInv => ThreadFreesAll
  BY DEF IInv, FreedInv, ThreadFreesAll
<1> QED
  BY <1>1, Inductive, PTL

=============================================================================
