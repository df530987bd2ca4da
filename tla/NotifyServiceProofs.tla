------------------------ MODULE NotifyServiceProofs ------------------------
(***************************************************************************)
(* Proofs about NotifyService.  IInv is inductive; the safety properties   *)
(* follow from it.  One lemma per conjunct of IInv, one step per action.   *)
(***************************************************************************)
EXTENDS NotifyService, FiniteSetTheorems, TLAPS

(***************************************************************************)
(* Setting a field of an object or of the locals keeps its type.           *)
(***************************************************************************)
LEMMA ObjectUpdate ==
  ASSUME NEW o \in Object, NEW n \in Nat
  PROVE  /\ [o EXCEPT !.exit = TRUE] \in Object
         /\ [o EXCEPT !.first = FALSE] \in Object
         /\ [o EXCEPT !.sem = n] \in Object
BY DEF Object

\* Setting a local of thread_start keeps the type of the locals.
LEMMA LocalsUpdate ==
  ASSUME NEW l \in Locals, NEW n \in Nat
  PROVE  /\ [l EXCEPT !.just = TRUE] \in Locals
         /\ [l EXCEPT !.idx = n] \in Locals
BY DEF Locals

\* An entry of the map points to a live object of its user.
LEMMA EntryIsLive ==
  ASSUME IInv, NEW u \in Registered
  PROVE  handle[u] \in Addr /\ obj[handle[u]] \in Object /\ obj[handle[u]].uid = u
<1>1. u \in Users /\ handle[u] \in Addr /\ obj \in [Addr -> Object \cup {None}]
  BY DEF IInv, TypeOK, Registered
<1>2. obj[handle[u]] # None /\ obj[handle[u]].uid = u
  BY DEF IInv, RegistryInv, MapHeapInv
<1> QED
  BY <1>1, <1>2

\* The holder of the mutex works on a live object of its user.
LEMMA HolderSees ==
  ASSUME IInv, NEW p \in Proc, pc[p] \in {"cleanup", "post", "delete"}
  PROVE  /\ id[p] \in Users /\ id[p] \in Registered
         /\ handle[id[p]] \in Addr /\ obj[handle[id[p]]] \in Object
         /\ obj[handle[id[p]]].uid = id[p]
<1>1. id[p] \in Users
  BY DEF IInv, WorkInv, StopPc
<1>2. handle[id[p]] \in Addr
  BY DEF IInv, LookupInv
<1>3. id[p] \in Registered
  BY <1>1, <1>2 DEF Registered
<1> QED
  BY <1>1, <1>3, EntryIsLive

\* A step that moves one thread and otherwise changes objects and locals only.
LEMMA TypeCarried ==
  ASSUME TypeOK, NEW p \in Proc, NEW l \in ConnPc \cup AlarmPc, Goto(p, l),
         p \in Conns => l \in ConnPc, p \in Alarms => l \in AlarmPc,
         obj' \in [Addr -> Object \cup {None}], loc' \in [Alarms -> Locals \cup {None}],
         UNCHANGED <<lock, handle, id, this, ret>>
  PROVE  TypeOK'
BY DEF TypeOK, Goto

\* Every step keeps the types.
LEMMA TypeStep == IInv /\ [Next]_vars => TypeOK'
<1> SUFFICES ASSUME IInv, [Next]_vars PROVE TypeOK'
  OBVIOUS
<1>0. TypeOK /\ WorkInv
  BY DEF IInv
<1> USE <1>0, NoneAssumption, ThreadAssumption DEF TypeOK, Proc, Goto,
        ConnPc, AlarmPc, StartPc, StopPc, ActivePc
<1>1. CASE UNCHANGED vars
  BY <1>1 DEF vars
<1>2. ASSUME NEW c \in Conns, NEW u \in Users, Request(c, u) PROVE TypeOK'
  BY <1>2 DEF Request, Status
<1>3. ASSUME NEW c \in Conns, StartLock(c) PROVE TypeOK'
  BY <1>3 DEF StartLock, Lock
<1>4. ASSUME NEW c \in Conns, StartMaxUser(c) PROVE TypeOK'
  BY <1>4 DEF StartMaxUser, Status
<1>5. ASSUME NEW c \in Conns, StartAlready(c) PROVE TypeOK'
  BY <1>5 DEF StartAlready, Status
<1>6. ASSUME NEW c \in Conns, StartAbsent(c) PROVE TypeOK'
  <2>1. PICK e \in {None, Null} : handle' = [handle EXCEPT ![id[c]] = e]
    BY <1>6 DEF StartAbsent
  <2>2. handle' \in [Users -> Addr \cup {None, Null}]
    BY <2>1
  <2> QED
    BY <1>6, <2>2 DEF StartAbsent
<1>7. ASSUME NEW c \in Conns, NEW x \in Addr, NEW a \in Alarms, Construct(c, x, a)
      PROVE TypeOK'
  BY <1>7 DEF Construct, WorkInv, Object
<1>8. ASSUME NEW c \in Conns, ConstructFails(c) PROVE TypeOK'
  BY <1>8 DEF ConstructFails, Status
<1>9. ASSUME NEW c \in Conns, Register(c) PROVE TypeOK'
  BY <1>9 DEF Register, Status
<1>10. ASSUME NEW p \in Proc, StopLock(p) PROVE TypeOK'
  BY <1>10 DEF StopLock, Lock
<1>11. ASSUME NEW p \in Proc, StopAbsent(p) PROVE TypeOK'
  BY <1>11 DEF StopAbsent
<1>12. ASSUME NEW p \in Proc, StopPresent(p) PROVE TypeOK'
  BY <1>12 DEF StopPresent
<1>13. ASSUME NEW p \in Proc, CleanUp(p) PROVE TypeOK'
  <2>1. handle[id[p]] \in Addr /\ obj[handle[id[p]]] \in Object
    BY <1>13, HolderSees DEF CleanUp
  <2>2. obj' \in [Addr -> Object \cup {None}]
    <3>1. [obj[handle[id[p]]] EXCEPT !.exit = TRUE] \in Object
      BY <2>1, ObjectUpdate DEF Object
    <3> QED
      BY <1>13, <2>1, <3>1 DEF CleanUp
  <2> QED
    BY <1>13, <2>2, TypeCarried DEF CleanUp
<1>14. ASSUME NEW p \in Proc, Post(p) PROVE TypeOK'
  <2>1. handle[id[p]] \in Addr /\ obj[handle[id[p]]] \in Object
    BY <1>14, HolderSees DEF Post
  <2>2. obj' \in [Addr -> Object \cup {None}]
    <3>1. [obj[handle[id[p]]] EXCEPT !.sem = @ + 1] \in Object
      BY <2>1, ObjectUpdate DEF Object
    <3> QED
      BY <1>14, <2>1, <3>1 DEF Post
  <2> QED
    BY <1>14, <2>2, TypeCarried DEF Post
<1>15. ASSUME NEW p \in Proc, Delete(p) PROVE TypeOK'
  BY <1>15 DEF Delete
<1>16. ASSUME NEW p \in Proc, Unlock(p) PROVE TypeOK'
  BY <1>16 DEF Unlock
<1>17. ASSUME NEW a \in Alarms, Boot(a) PROVE TypeOK'
  BY <1>17 DEF Boot, Freed, WorkInv, Object, Locals
<1>18. ASSUME NEW a \in Alarms, StartAlarm(a) PROVE TypeOK'
  BY <1>18, ZenonT(40) DEF StartAlarm
<1>19. ASSUME NEW a \in Alarms, InsertAlarm(a) PROVE TypeOK'
  BY <1>19, ZenonT(40) DEF InsertAlarm
<1>20. ASSUME NEW a \in Alarms, WaitTime(a) PROVE TypeOK'
  <2>1. CASE Freed(a)
    BY <1>20, <2>1 DEF WaitTime
  <2>2. CASE ~Freed(a)
    <3>1. this[a] \in Addr /\ obj[this[a]] \in Object
      BY <1>20, <2>2 DEF WaitTime, Freed, WorkInv
    <3>2. obj' \in [Addr -> Object \cup {None}]
      BY <1>20, <2>2, <3>1, ObjectUpdate DEF WaitTime
    <3> QED
      BY <1>20, <3>2, TypeCarried DEF WaitTime
  <2> QED
    BY <2>1, <2>2
<1>21. ASSUME NEW a \in Alarms, Finished(a) PROVE TypeOK'
  BY <1>21 DEF Finished
<1>22. ASSUME NEW a \in Alarms, Woken(a) PROVE TypeOK'
  <2>1. this[a] \in Addr /\ obj[this[a]] \in Object /\ obj[this[a]].sem > 0
    BY <1>22 DEF Woken, Freed, WorkInv
  <2>2. obj' \in [Addr -> Object \cup {None}]
    <3>1. [obj[this[a]] EXCEPT !.sem = @ - 1] \in Object
      BY <2>1, ObjectUpdate DEF Object
    <3> QED
      BY <1>22, <2>1, <3>1 DEF Woken
  <2> QED
    BY <1>22, <2>2, TypeCarried DEF Woken
<1>23. ASSUME NEW a \in Alarms, Timeout(a) PROVE TypeOK'
  BY <1>23 DEF Timeout
<1>24. ASSUME NEW a \in Alarms, ExitSeen(a) PROVE TypeOK'
  BY <1>24 DEF ExitSeen
<1>25. ASSUME NEW a \in Alarms, Continue(a) PROVE TypeOK'
  <2>1. loc[a] \in Locals
    BY <1>25 DEF Continue, WorkInv
  <2>2. loc' \in [Alarms -> Locals \cup {None}]
    <3>1. [loc[a] EXCEPT !.just = TRUE] \in Locals
      BY <2>1, LocalsUpdate, NumberAssumption
    <3>2. CASE UNCHANGED loc
      BY <3>2
    <3>3. CASE loc' = [loc EXCEPT ![a].just = TRUE]
      BY <2>1, <3>1, <3>3
    <3> QED
      BY <1>25, <3>2, <3>3 DEF Continue
  <2> QED
    BY <1>25, <2>2, TypeCarried DEF Continue
<1>26. ASSUME NEW a \in Alarms, GetMessages(a) PROVE TypeOK'
  BY <1>26 DEF GetMessages
<1>27. ASSUME NEW a \in Alarms, InsertMessage(a) PROVE TypeOK'
  BY <1>27 DEF InsertMessage
<1>28. ASSUME NEW a \in Alarms, PushMessage(a) PROVE TypeOK'
  <2>1. loc[a] \in Locals
    BY <1>28 DEF PushMessage, WorkInv
  <2>2. loc' \in [Alarms -> Locals \cup {None}]
    <3>1. loc[a].idx + 1 \in Nat
      BY <2>1 DEF Locals
    <3> QED
      BY <1>28, <2>1, <3>1, LocalsUpdate DEF PushMessage
  <2> QED
    BY <1>28, <2>2, TypeCarried DEF PushMessage
<1> HIDE DEF IInv, TypeOK, Goto
<1> QED
  BY <1>1, <1>2, <1>3, <1>4, <1>5, <1>6, <1>7, <1>8, <1>9, <1>10, <1>11, <1>12,
     <1>13, <1>14, <1>15, <1>16, <1>17, <1>18, <1>19, <1>20, <1>21, <1>22, <1>23,
     <1>24, <1>25, <1>26, <1>27, <1>28
  DEF Next, ConnStep, AlarmStep, Start, Stop, Ring
\* Every step keeps the critical sections exclusive.
LEMMA LockStep == IInv /\ [Next]_vars => LockInv'
<1> SUFFICES ASSUME IInv, [Next]_vars PROVE LockInv'
  OBVIOUS
<1>0. TypeOK /\ LockInv
  BY DEF IInv
<1> USE <1>0, ThreadAssumption, NoneAssumption DEF TypeOK, LockInv, CriticalPc, Proc, Goto
<1>1. CASE UNCHANGED vars
  BY <1>1 DEF vars
<1>2. ASSUME NEW c \in Conns, NEW u \in Users, Request(c, u) PROVE LockInv'
  BY <1>2 DEF Request
<1>3. ASSUME NEW c \in Conns, StartLock(c) PROVE LockInv'
  BY <1>3 DEF StartLock, Lock
<1>4. ASSUME NEW c \in Conns, StartMaxUser(c) \/ StartAlready(c) \/ StartAbsent(c)
      PROVE LockInv'
  BY <1>4 DEF StartMaxUser, StartAlready, StartAbsent
<1>5. ASSUME NEW c \in Conns, NEW x \in Addr, NEW a \in Alarms, Construct(c, x, a)
      PROVE LockInv'
  BY <1>5 DEF Construct
<1>6. ASSUME NEW c \in Conns, ConstructFails(c) \/ Register(c) PROVE LockInv'
  BY <1>6 DEF ConstructFails, Register
<1>7. ASSUME NEW p \in Proc, StopLock(p) PROVE LockInv'
  BY <1>7 DEF StopLock, Lock
<1>8. ASSUME NEW p \in Proc, StopAbsent(p) \/ StopPresent(p) PROVE LockInv'
  BY <1>8 DEF StopAbsent, StopPresent
<1>9. ASSUME NEW p \in Proc, CleanUp(p) \/ Post(p) \/ Delete(p) PROVE LockInv'
  BY <1>9 DEF CleanUp, Post, Delete
<1>10. ASSUME NEW p \in Proc, Unlock(p) PROVE LockInv'
  BY <1>10 DEF Unlock
<1>11. ASSUME NEW a \in Alarms, Boot(a) \/ StartAlarm(a) \/ InsertAlarm(a)
       PROVE LockInv'
  BY <1>11, ZenonT(40) DEF Boot, StartAlarm, InsertAlarm
<1>12. ASSUME NEW a \in Alarms, WaitTime(a) \/ Finished(a) \/ Woken(a) \/ Timeout(a)
       PROVE LockInv'
  BY <1>12 DEF WaitTime, Finished, Woken, Timeout
<1>13. ASSUME NEW a \in Alarms, ExitSeen(a) \/ Continue(a) PROVE LockInv'
  BY <1>13, ZenonT(40) DEF ExitSeen, Continue
<1>14. ASSUME NEW a \in Alarms, GetMessages(a) \/ InsertMessage(a) \/ PushMessage(a)
       PROVE LockInv'
  BY <1>14, ZenonT(40) DEF GetMessages, InsertMessage, PushMessage
<1> HIDE DEF TypeOK, LockInv, Goto
<1> QED
  BY <1>1, <1>2, <1>3, <1>4, <1>5, <1>6, <1>7, <1>8, <1>9, <1>10, <1>11, <1>12,
     <1>13, <1>14
  DEF Next, ConnStep, AlarmStep, Start, Stop, Ring

\* Every step leaves a working thread with its operands.
LEMMA WorkStep == IInv /\ [Next]_vars => WorkInv'
<1> SUFFICES ASSUME IInv, [Next]_vars PROVE WorkInv'
  OBVIOUS
<1>0. TypeOK /\ WorkInv
  BY DEF IInv
<1> USE <1>0, ThreadAssumption DEF TypeOK, WorkInv, StartPc, StopPc, ActivePc, Proc, Goto
<1>1. CASE UNCHANGED vars
  BY <1>1 DEF vars
<1>2. ASSUME NEW c \in Conns, NEW u \in Users, Request(c, u) PROVE WorkInv'
  BY <1>2 DEF Request
<1>3. ASSUME NEW c \in Conns, StartLock(c) PROVE WorkInv'
  BY <1>3 DEF StartLock, Lock
<1>4. ASSUME NEW c \in Conns, StartMaxUser(c) \/ StartAlready(c) \/ StartAbsent(c)
      PROVE WorkInv'
  BY <1>4 DEF StartMaxUser, StartAlready, StartAbsent
<1>5. ASSUME NEW c \in Conns, NEW x \in Addr, NEW a \in Alarms, Construct(c, x, a)
      PROVE WorkInv'
  BY <1>5 DEF Construct
<1>6. ASSUME NEW c \in Conns, ConstructFails(c) \/ Register(c) PROVE WorkInv'
  BY <1>6 DEF ConstructFails, Register
<1>7. ASSUME NEW p \in Proc, StopLock(p) PROVE WorkInv'
  BY <1>7 DEF StopLock, Lock
<1>8. ASSUME NEW p \in Proc, StopAbsent(p) \/ StopPresent(p) PROVE WorkInv'
  BY <1>8 DEF StopAbsent, StopPresent
<1>9. ASSUME NEW p \in Proc, CleanUp(p) \/ Post(p) \/ Delete(p) PROVE WorkInv'
  BY <1>9 DEF CleanUp, Post, Delete
<1>10. ASSUME NEW p \in Proc, Unlock(p) PROVE WorkInv'
  BY <1>10 DEF Unlock
<1>11. ASSUME NEW a \in Alarms, Boot(a) PROVE WorkInv'
  <2>1. PICK o \in [uid : Users, rep : Repeats, nmsg : Counts] \cup Object :
          /\ loc' = [loc EXCEPT ![a] = [rep |-> o.rep, nmsg |-> o.nmsg,
                                        idx |-> 0, just |-> FALSE]]
          /\ id' = [id EXCEPT ![a] = o.uid]
    BY <1>11 DEF Boot, Freed
  <2>2. [rep |-> o.rep, nmsg |-> o.nmsg, idx |-> 0, just |-> FALSE] \in Locals
        /\ o.uid \in Users
    BY DEF Locals, Object
  <2> QED
    BY <1>11, <2>1, <2>2 DEF Boot
<1>12. ASSUME NEW a \in Alarms, StartAlarm(a) \/ InsertAlarm(a) PROVE WorkInv'
  BY <1>12 DEF StartAlarm, InsertAlarm
<1>13. ASSUME NEW a \in Alarms, WaitTime(a) \/ Finished(a) \/ Woken(a) \/ Timeout(a)
       PROVE WorkInv'
  BY <1>13 DEF WaitTime, Finished, Woken, Timeout
<1>14. ASSUME NEW a \in Alarms, ExitSeen(a) PROVE WorkInv'
  BY <1>14 DEF ExitSeen
<1>15. ASSUME NEW a \in Alarms, Continue(a) PROVE WorkInv'
  <2>1. [loc[a] EXCEPT !.just = TRUE] \in Locals
    BY <1>15, LocalsUpdate, 0 \in Nat DEF Continue
  <2> QED
    BY <1>15, <2>1, ZenonT(40) DEF Continue
<1>16. ASSUME NEW a \in Alarms, GetMessages(a) \/ InsertMessage(a) PROVE WorkInv'
  BY <1>16 DEF GetMessages, InsertMessage
<1>17. ASSUME NEW a \in Alarms, PushMessage(a) PROVE WorkInv'
  <2>1. loc[a] \in Locals /\ loc[a].idx + 1 \in Nat
    BY <1>17 DEF PushMessage, Locals
  <2>2. [loc[a] EXCEPT !.idx = @ + 1] \in Locals
    BY <2>1, LocalsUpdate
  <2> QED
    BY <1>17, <2>2 DEF PushMessage
<1> HIDE DEF TypeOK, WorkInv, Goto
<1> QED
  BY <1>1, <1>2, <1>3, <1>4, <1>5, <1>6, <1>7, <1>8, <1>9, <1>10, <1>11, <1>12,
     <1>13, <1>14, <1>15, <1>16, <1>17
  DEF Next, ConnStep, AlarmStep, Start, Stop, Ring

\* The constructor makes an object of its caller's user, served by a new thread.
LEMMA NewObject ==
  ASSUME IInv, NEW c \in Conns, NEW x \in Addr, NEW a \in Alarms, Construct(c, x, a)
  PROVE  \E o \in Object : /\ obj' = [obj EXCEPT ![x] = o]
                           /\ o.uid = id[c] /\ o.thr = a /\ o.sem = 0
<1>1. id[c] \in Users
  BY DEF IInv, WorkInv, Construct, StartPc, Proc
<1>2. PICK r \in Repeats, n \in Counts :
        obj' = [obj EXCEPT ![x] = [uid |-> id[c], rep |-> r, nmsg |-> n, exit |-> FALSE,
                                   first |-> TRUE, sem |-> 0, thr |-> a]]
  BY DEF Construct
<1> DEFINE o == [uid |-> id[c], rep |-> r, nmsg |-> n, exit |-> FALSE,
                 first |-> TRUE, sem |-> 0, thr |-> a]
<1>3. o \in Object /\ o.uid = id[c] /\ o.thr = a /\ o.sem = 0
  BY <1>1 DEF Object
<1> QED
  BY <1>2, <1>3

(***************************************************************************)
(* Steps that write a field of an object keep its place, owner and thread, *)
(* and never take back the order to exit.                                  *)
(***************************************************************************)
Kept == \A x \in Addr :
          /\ obj'[x] = None <=> obj[x] = None
          /\ obj[x] # None => /\ obj'[x].uid = obj[x].uid
                              /\ obj'[x].thr = obj[x].thr
                              /\ obj[x].exit => obj'[x].exit

\* Replacing a live object by one of the same user and thread keeps its place.
LEMMA UpdateKeeps ==
  ASSUME TypeOK, NEW x \in Addr, obj[x] # None, NEW o \in Object,
         o.uid = obj[x].uid, o.thr = obj[x].thr, obj[x].exit => o.exit,
         obj' = [obj EXCEPT ![x] = o]
  PROVE  Kept
BY NoneAssumption DEF TypeOK, Kept

\* CleanUp's order to exit keeps the object in place.
LEMMA CleanUpKeeps == ASSUME IInv, NEW p \in Proc, CleanUp(p) PROVE Kept
<1>1. handle[id[p]] \in Addr /\ obj[handle[id[p]]] \in Object
  BY HolderSees DEF CleanUp
<1> DEFINE o == [obj[handle[id[p]]] EXCEPT !.exit = TRUE]
<1>2. o \in Object /\ o.uid = obj[handle[id[p]]].uid /\ o.thr = obj[handle[id[p]]].thr
      /\ o.exit
  BY <1>1 DEF Object
<1>3. obj' = [obj EXCEPT ![handle[id[p]]] = o]
  BY DEF CleanUp
<1> HIDE DEF o
<1> QED
  BY <1>1, <1>2, <1>3, UpdateKeeps, NoneAssumption DEF IInv

\* CleanUp's post keeps the object in place.
LEMMA PostKeeps == ASSUME IInv, NEW p \in Proc, Post(p) PROVE Kept
<1>1. handle[id[p]] \in Addr /\ obj[handle[id[p]]] \in Object
  BY HolderSees DEF Post
<1> DEFINE o == [obj[handle[id[p]]] EXCEPT !.sem = @ + 1]
<1>2. o \in Object /\ o.uid = obj[handle[id[p]]].uid /\ o.thr = obj[handle[id[p]]].thr
      /\ o.exit = obj[handle[id[p]]].exit
  BY <1>1 DEF Object
<1>3. obj' = [obj EXCEPT ![handle[id[p]]] = o]
  BY DEF Post
<1> HIDE DEF o
<1> QED
  BY <1>1, <1>2, <1>3, UpdateKeeps, NoneAssumption DEF IInv

\* WaitTime writes its own object or freed memory, and keeps every object in place.
LEMMA WaitTimeKeeps == ASSUME IInv, NEW a \in Alarms, WaitTime(a) PROVE Kept
<1>1. CASE Freed(a)
  BY <1>1 DEF WaitTime, Kept
<1>2. CASE ~Freed(a)
  <2>1. this[a] \in Addr /\ obj[this[a]] \in Object
    BY <1>2 DEF WaitTime, Freed, IInv, TypeOK, WorkInv, ActivePc
  <2> DEFINE o == [obj[this[a]] EXCEPT !.first = FALSE]
  <2>2. o \in Object /\ o.uid = obj[this[a]].uid /\ o.thr = obj[this[a]].thr
        /\ o.exit = obj[this[a]].exit
    BY <2>1 DEF Object
  <2>3. obj' = [obj EXCEPT ![this[a]] = o]
    BY <1>2 DEF WaitTime
  <2> HIDE DEF o
  <2> QED
    BY <2>1, <2>2, <2>3, UpdateKeeps, NoneAssumption DEF IInv
<1> QED
  BY <1>1, <1>2

\* Taking a post keeps the object in place.
LEMMA WokenKeeps == ASSUME IInv, NEW a \in Alarms, Woken(a) PROVE Kept
<1>1. this[a] \in Addr /\ obj[this[a]] \in Object /\ obj[this[a]].sem > 0
  BY DEF Woken, Freed, IInv, TypeOK, WorkInv, ActivePc
<1> DEFINE o == [obj[this[a]] EXCEPT !.sem = @ - 1]
<1>2. o \in Object /\ o.uid = obj[this[a]].uid /\ o.thr = obj[this[a]].thr
      /\ o.exit = obj[this[a]].exit
  BY <1>1 DEF Object
<1>3. obj' = [obj EXCEPT ![this[a]] = o]
  BY DEF Woken
<1> HIDE DEF o
<1> QED
  BY <1>1, <1>2, <1>3, UpdateKeeps, NoneAssumption DEF IInv

\* A start that finds no alarm, and one that fails, change no pointer in the map.
LEMMA AbsentRegistered ==
  ASSUME IInv, NEW c \in Conns, StartAbsent(c) \/ ConstructFails(c)
  PROVE  Registered' = Registered /\ \A u \in Registered : handle'[u] = handle[u]
<1>1. handle[id[c]] \notin Addr
  BY NoneAssumption DEF StartAbsent, ConstructFails, IInv, LookupInv
<1>2. PICK e \in {None, Null} : handle' = [handle EXCEPT ![id[c]] = e]
  BY DEF StartAbsent, ConstructFails
<1>3. e \notin Addr /\ handle \in [Users -> Addr \cup {None, Null}]
  BY NoneAssumption DEF IInv, TypeOK
<1> QED
  BY <1>1, <1>2, <1>3 DEF Registered

\* Such a step keeps the map and the heap in agreement.
LEMMA MapHeapKept ==
  ASSUME TypeOK, MapHeapInv, Kept, UNCHANGED <<handle, this>>,
         NEW p \in Proc, NEW l, Goto(p, l), pc[p] # "register"
  PROVE  MapHeapInv'
<1>1. \A u \in Registered : handle[u] \in Addr /\ u \in Users
  BY DEF Registered
<1>2. Registered' = Registered
  BY DEF Registered
<1>3. \A x \in Addr : obj[x] # None => obj[x] \in Object
  BY DEF TypeOK
<1>4. \A c \in Conns : pc[c] = "register" => pc'[c] = "register"
  BY DEF TypeOK, Goto, Proc
<1> QED
  BY <1>1, <1>2, <1>3, <1>4 DEF MapHeapInv, Kept

\* Every step keeps the map and the heap in agreement.
LEMMA MapHeapStep == IInv /\ [Next]_vars => MapHeapInv'
<1> SUFFICES ASSUME IInv, [Next]_vars PROVE MapHeapInv'
  OBVIOUS
<1>0. TypeOK /\ MapHeapInv /\ LockInv
  BY DEF IInv, RegistryInv
<1> USE <1>0, ThreadAssumption, NoneAssumption
    DEF TypeOK, MapHeapInv, Registered, Proc, Goto
<1>1. CASE UNCHANGED vars
  BY <1>1 DEF vars
<1>2. ASSUME NEW c \in Conns, NEW u \in Users, Request(c, u) PROVE MapHeapInv'
  BY <1>2 DEF Request
<1>3. ASSUME NEW c \in Conns, StartLock(c) PROVE MapHeapInv'
  BY <1>3 DEF StartLock, Lock
<1>4. ASSUME NEW c \in Conns, StartMaxUser(c) \/ StartAlready(c) PROVE MapHeapInv'
  BY <1>4 DEF StartMaxUser, StartAlready
<1>20. ASSUME NEW c \in Conns, StartAbsent(c) \/ ConstructFails(c) PROVE MapHeapInv'
  <2>1. Registered' = Registered /\ \A u \in Registered : handle'[u] = handle[u]
    BY <1>20, AbsentRegistered
  <2>2. \A x \in Addr : obj[x] # None /\ handle[obj[x].uid] = x => handle'[obj[x].uid] = x
    BY <2>1 DEF Object
  <2>3. obj' = obj /\ this' = this /\ \A d \in Conns : pc[d] = "register" => pc'[d] = "register"
    BY <1>20 DEF StartAbsent, ConstructFails
  <2> QED
    BY <2>1, <2>2, <2>3
<1>5. ASSUME NEW c \in Conns, NEW x \in Addr, NEW a \in Alarms, Construct(c, x, a)
      PROVE MapHeapInv'
  BY <1>5 DEF Construct, Object
<1>7. ASSUME NEW c \in Conns, Register(c) PROVE MapHeapInv'
  <2>1. id[c] \in Users /\ handle[id[c]] \notin Addr /\ this[c] \in Addr
        /\ obj[this[c]] # None /\ obj[this[c]].uid = id[c]
    BY <1>7 DEF Register, IInv, LookupInv, WorkInv, StartPc
  <2>2. \A d \in Conns : pc[d] = "register" => d = c
    BY <1>7 DEF Register, LockInv, CriticalPc
  <2> QED
    BY <1>7, <2>1, <2>2 DEF Register, Object
<1>8. ASSUME NEW p \in Proc, StopLock(p) PROVE MapHeapInv'
  BY <1>8 DEF StopLock, Lock
<1>9. ASSUME NEW p \in Proc, StopAbsent(p) \/ StopPresent(p) PROVE MapHeapInv'
  BY <1>9 DEF StopAbsent, StopPresent
<1>10. ASSUME NEW p \in Proc, CleanUp(p) PROVE MapHeapInv'
  BY <1>10, CleanUpKeeps, MapHeapKept DEF CleanUp
<1>11. ASSUME NEW p \in Proc, Post(p) PROVE MapHeapInv'
  BY <1>11, PostKeeps, MapHeapKept DEF Post
<1>12. ASSUME NEW p \in Proc, Delete(p) PROVE MapHeapInv'
  <2>1. id[p] \in Users /\ handle[id[p]] \in Addr
        /\ obj[handle[id[p]]] \in Object /\ obj[handle[id[p]]].uid = id[p]
    BY <1>12, HolderSees DEF Delete
  <2> QED
    BY <1>12, <2>1 DEF Delete, Object
<1>13. ASSUME NEW p \in Proc, Unlock(p) PROVE MapHeapInv'
  BY <1>13 DEF Unlock
<1>14. ASSUME NEW a \in Alarms, Boot(a) \/ StartAlarm(a) \/ InsertAlarm(a)
       PROVE MapHeapInv'
  BY <1>14, ZenonT(40) DEF Boot, StartAlarm, InsertAlarm
<1>15. ASSUME NEW a \in Alarms, WaitTime(a) PROVE MapHeapInv'
  BY <1>15, WaitTimeKeeps, MapHeapKept DEF WaitTime
<1>16. ASSUME NEW a \in Alarms, Woken(a) PROVE MapHeapInv'
  BY <1>16, WokenKeeps, MapHeapKept DEF Woken
<1>17. ASSUME NEW a \in Alarms, Finished(a) \/ Timeout(a) PROVE MapHeapInv'
  BY <1>17 DEF Finished, Timeout
<1>18. ASSUME NEW a \in Alarms, ExitSeen(a) \/ Continue(a) PROVE MapHeapInv'
  BY <1>18, ZenonT(40) DEF ExitSeen, Continue
<1>19. ASSUME NEW a \in Alarms, GetMessages(a) \/ InsertMessage(a) \/ PushMessage(a)
       PROVE MapHeapInv'
  BY <1>19, ZenonT(40) DEF GetMessages, InsertMessage, PushMessage
<1> HIDE DEF TypeOK, MapHeapInv, Registered, Goto
<1> QED
  BY <1>1, <1>2, <1>3, <1>4, <1>5, <1>7, <1>8, <1>9, <1>10, <1>11, <1>12,
     <1>13, <1>14, <1>15, <1>16, <1>17, <1>18, <1>19, <1>20
  DEF Next, ConnStep, AlarmStep, Start, Stop, Ring

\* Two threads between lock and unlock are the same thread.
LEMMA OneHolder ==
  ASSUME LockInv, NEW p \in Proc, NEW q \in Proc,
         pc[p] \in CriticalPc, pc[q] \in CriticalPc
  PROVE  p = q
BY DEF LockInv

\* A step of a thread that makes no alarm, and puts no null pointer into the map.
LEMMA NullKept ==
  ASSUME TypeOK, NullInv, NEW p \in Proc, pc[p] \notin {"create", "register"},
         \A q \in Proc : q # p => pc'[q] = pc[q] /\ id'[q] = id[q],
         \A u \in Users : handle'[u] = Null => handle[u] = Null
  PROVE  NullInv'
BY DEF NullInv, Proc

\* Every step leaves null pointers to the starts that will replace or erase them.
LEMMA NullStep == IInv /\ [Next]_vars => NullInv'
<1> SUFFICES ASSUME IInv, [Next]_vars PROVE NullInv'
  OBVIOUS
<1>0. TypeOK /\ NullInv /\ LookupInv
  BY DEF IInv, RegistryInv
<1>a. \A c \in Conns : c \in Proc /\ c \notin Alarms
  BY ThreadAssumption DEF Proc
<1>1. CASE UNCHANGED vars
  BY <1>0, <1>1 DEF vars, NullInv
<1>2. ASSUME NEW c \in Conns, StartAbsent(c) PROVE NullInv'
  <2>1. pc[c] = "lookup" /\ pc'[c] = "create" /\ id' = id
        /\ \A q \in Conns : q # c => pc'[q] = pc[q]
    BY <1>0, <1>2, <1>a DEF StartAbsent, Goto, TypeOK
  <2>2. \A u \in Users : u # id[c] => handle'[u] = handle[u]
    BY <1>0, <1>2 DEF StartAbsent, TypeOK
  <2> QED
    BY <1>0, <2>1, <2>2 DEF NullInv
<1>3. ASSUME NEW c \in Conns, NEW x \in Addr, NEW a \in Alarms, Construct(c, x, a)
      PROVE  NullInv'
  <2>1. pc'[c] = "register" /\ \A q \in Conns : q # c => pc'[q] = pc[q]
    BY <1>0, <1>3, <1>a DEF Construct, TypeOK
  <2> QED
    BY <1>0, <1>3, <2>1 DEF Construct, NullInv
<1>4. ASSUME NEW c \in Conns, ConstructFails(c) \/ Register(c) PROVE NullInv'
  <2>1. this[c] \in Addr \/ ConstructFails(c)
    BY <1>0, <1>4 DEF Register, LookupInv
  <2>2. \A u \in Users : handle'[u] = Null => handle[u] = Null /\ u # id[c]
    BY <1>0, <1>4, <2>1, NoneAssumption DEF ConstructFails, Register, TypeOK
  <2>3. id' = id /\ \A q \in Conns : q # c => pc'[q] = pc[q]
    BY <1>0, <1>4, <1>a DEF ConstructFails, Register, Goto, TypeOK
  <2> QED
    BY <1>0, <2>2, <2>3 DEF NullInv
<1>5. ASSUME NEW c \in Conns,
             \/ \E u \in Users : Request(c, u)
             \/ StartLock(c) \/ StartMaxUser(c) \/ StartAlready(c)
      PROVE  NullInv'
  <2>1. /\ pc[c] \notin {"create", "register"} /\ handle' = handle
        /\ \A q \in Proc : q # c => pc'[q] = pc[q] /\ id'[q] = id[q]
    BY <1>0, <1>5, <1>a DEF Request, StartLock, Lock, StartMaxUser, StartAlready, Goto, TypeOK
  <2> QED
    BY <1>0, <1>a, <2>1, NullKept
<1>6. ASSUME NEW p \in Proc, Stop(p) \/ Unlock(p) PROVE NullInv'
  <2>1. /\ pc[p] \notin {"create", "register"}
        /\ \A q \in Proc : q # p => pc'[q] = pc[q] /\ id'[q] = id[q]
    BY <1>0, <1>6
    DEF Stop, StopLock, Lock, StopAbsent, StopPresent, CleanUp, Post, Delete, Unlock, Goto, TypeOK
  <2>2. \A u \in Users : handle'[u] = Null => handle[u] = Null
    BY <1>0, <1>6, NoneAssumption
    DEF Stop, StopLock, Lock, StopAbsent, StopPresent, CleanUp, Post, Delete, Unlock, TypeOK
  <2> QED
    BY <1>0, <2>1, <2>2, NullKept
<1>7. ASSUME NEW a \in Alarms, Ring(a) PROVE NullInv'
  <2>1. /\ handle' = handle /\ \A q \in Conns : pc'[q] = pc[q] /\ id'[q] = id[q]
    BY <1>0, <1>7, <1>a, ZenonT(40)
    DEF Ring, Boot, StartAlarm, InsertAlarm, WaitTime, Finished, Woken, Timeout, ExitSeen,
        Continue, GetMessages, InsertMessage, PushMessage, Goto, TypeOK
  <2> QED
    BY <1>0, <2>1 DEF NullInv
<1> QED
  BY <1>1, <1>2, <1>3, <1>4, <1>5, <1>6, <1>7
  DEF Next, ConnStep, AlarmStep, Start, Proc

\* Who has just locked the mutex finds no null pointer in the map.
LEMMA NoNull ==
  ASSUME IInv, NEW p \in Proc, pc[p] \in {"lookup", "stopLookup"}
  PROVE  /\ \A u \in Users : handle[u] # None => handle[u] \in Addr
         /\ Entries = Registered
<1>1. ASSUME NEW c \in Conns, pc[c] \in {"create", "register"} PROVE FALSE
  BY <1>1, OneHolder DEF IInv, Proc, CriticalPc
<1>2. \A u \in Users : handle[u] # Null
  BY <1>1 DEF IInv, RegistryInv, NullInv
<1>3. \A u \in Users : handle[u] # None <=> handle[u] \in Addr
  BY <1>2, NoneAssumption DEF IInv, TypeOK
<1> QED
  BY <1>3 DEF Entries, Registered

\* A step outside the critical section keeps what its holder has found.
LEMMA LookupKept ==
  ASSUME TypeOK, LookupInv, WorkInv, RegistryInv, Kept, UNCHANGED handle,
         NEW p \in Proc, NEW l, Goto(p, l),
         l \notin {"create", "register", "cleanup", "post", "delete"},
         \A q \in Proc : q # p => id'[q] = id[q] /\ this'[q] = this[q]
  PROVE  LookupInv'
<1>1. Entries' = Entries
  BY DEF Entries
<1>2. \A q \in Proc : pc'[q] \in {"create", "register", "cleanup", "post", "delete"}
        => q # p /\ pc'[q] = pc[q] /\ id'[q] = id[q] /\ this'[q] = this[q]
  BY DEF TypeOK, Goto
<1>3. \A q \in Proc : pc[q] \in {"post", "delete"} =>
        handle[id[q]] \in Addr /\ obj[handle[id[q]]] # None
  BY DEF LookupInv, TypeOK, WorkInv, RegistryInv, MapHeapInv, Registered, StopPc
<1> QED
  BY <1>1, <1>2, <1>3 DEF LookupInv, Kept, Proc

\* A step that writes no object keeps all of them.
LEMMA NothingWritten == ASSUME UNCHANGED obj PROVE Kept
BY DEF Kept

\* Every step keeps what the holder of the mutex found in the map.
LEMMA LookupStep == IInv /\ [Next]_vars => LookupInv'
<1> SUFFICES ASSUME IInv, [Next]_vars PROVE LookupInv'
  OBVIOUS
<1>0. TypeOK /\ LookupInv /\ LockInv /\ WorkInv /\ RegistryInv
  BY DEF IInv
<1> USE <1>0, ThreadAssumption, NoneAssumption
<1>1. CASE UNCHANGED vars
  BY <1>1 DEF vars, LookupInv, Entries
<1>2. ASSUME NEW c \in Conns, NEW u \in Users, Request(c, u) PROVE LookupInv'
  BY <1>2, LookupKept, NothingWritten DEF Request, Proc
<1>3. ASSUME NEW c \in Conns, StartLock(c) PROVE LookupInv'
  BY <1>3, LookupKept, NothingWritten DEF StartLock, Lock, Proc
<1>4. ASSUME NEW c \in Conns, StartMaxUser(c) PROVE LookupInv'
  BY <1>4, LookupKept, NothingWritten DEF StartMaxUser, Proc
<1>5. ASSUME NEW c \in Conns, StartAlready(c) PROVE LookupInv'
  BY <1>5, LookupKept, NothingWritten DEF StartAlready, Proc
<1>6. ASSUME NEW c \in Conns, StartAbsent(c) PROVE LookupInv'
  <2>1. \A q \in Proc : pc[q] \in CriticalPc => q = c
    BY <1>6, OneHolder DEF StartAbsent, CriticalPc, Proc
  <2>2. \A q \in Proc : pc'[q] \in CriticalPc => q = c
    BY <1>6, <2>1 DEF StartAbsent, CriticalPc, TypeOK, Goto, Proc
  <2>3. pc'[c] = "create" /\ id' = id /\ id[c] \in Users
    BY <1>6 DEF StartAbsent, TypeOK, Goto, Proc, WorkInv, StartPc
  <2>4. handle'[id[c]] \notin Addr
    BY <1>6, <2>3 DEF StartAbsent, TypeOK
  <2>5. Entries' \ {id[c]} = Entries /\ Cardinality(Entries) <= MaxUsers
    BY <1>6, <2>3 DEF StartAbsent, TypeOK, Entries
  <2> QED
    BY <2>2, <2>3, <2>4, <2>5 DEF LookupInv, CriticalPc, Proc
<1>7. ASSUME NEW c \in Conns, NEW x \in Addr, NEW a \in Alarms, Construct(c, x, a)
      PROVE LookupInv'
  <2>1. \A q \in Proc : pc[q] \in CriticalPc => q = c
    BY <1>7, OneHolder DEF Construct, CriticalPc, Proc
  <2>2. \A q \in Proc : pc'[q] \in CriticalPc => q = c
    BY <1>7, <2>1 DEF Construct, CriticalPc, Proc, TypeOK
  <2>3. handle[id[c]] \notin Addr /\ Cardinality(Entries \ {id[c]}) <= MaxUsers
    BY <1>7 DEF Construct, LookupInv
  <2>4. id' = id /\ handle' = handle /\ Entries' = Entries /\ c # a
    BY <1>7 DEF Construct, Entries
  <2>5. pc'[c] = "register" /\ this'[c] = x /\ obj'[x] # None /\ obj'[x].uid = id[c]
    <3>1. PICK o \in Object : obj' = [obj EXCEPT ![x] = o] /\ o.uid = id[c]
      BY <1>7, NewObject
    <3> QED
      BY <1>7, <2>4, <3>1 DEF Construct, TypeOK, Proc
  <2> QED
    BY <2>2, <2>3, <2>4, <2>5 DEF LookupInv, CriticalPc, Proc
<1>8. ASSUME NEW c \in Conns, ConstructFails(c) PROVE LookupInv'
  <2>1. \A q \in Proc : pc[q] \in CriticalPc => q = c
    BY <1>8, OneHolder DEF ConstructFails, CriticalPc, Proc
  <2>2. \A q \in Proc :
          pc'[q] \notin {"create", "register", "cleanup", "post", "delete"}
    BY <1>8, <2>1 DEF ConstructFails, CriticalPc, Proc, TypeOK, Goto
  <2> QED
    BY <2>2 DEF LookupInv, Proc
<1>9. ASSUME NEW c \in Conns, Register(c) PROVE LookupInv'
  <2>1. \A q \in Proc : pc[q] \in CriticalPc => q = c
    BY <1>9, OneHolder DEF Register, CriticalPc, Proc
  <2>2. \A q \in Proc :
          pc'[q] \notin {"create", "register", "cleanup", "post", "delete"}
    BY <1>9, <2>1 DEF Register, CriticalPc, Proc, TypeOK, Goto
  <2> QED
    BY <2>2 DEF LookupInv, Proc
<1>10. ASSUME NEW p \in Proc, StopLock(p) PROVE LookupInv'
  BY <1>10, LookupKept, NothingWritten DEF StopLock, Lock
<1>11. ASSUME NEW p \in Proc, StopAbsent(p) PROVE LookupInv'
  BY <1>11, LookupKept, NothingWritten DEF StopAbsent
<1>12. ASSUME NEW p \in Proc, StopPresent(p) PROVE LookupInv'
  <2>1. handle[id[p]] \in Addr
    BY <1>12, NoNull DEF StopPresent, WorkInv, StopPc
  <2> QED
    BY <1>12, <2>1 DEF StopPresent, LookupInv, Entries, TypeOK, Goto, Proc
<1>13. ASSUME NEW p \in Proc, CleanUp(p) PROVE LookupInv'
  <2>1. \A q \in Proc : pc[q] \in CriticalPc => q = p
    BY <1>13, OneHolder DEF CleanUp, CriticalPc
  <2>2. \A q \in Proc : pc'[q] \in CriticalPc => q = p
    BY <1>13, <2>1 DEF CleanUp, CriticalPc, TypeOK, Goto
  <2>3. handle[id[p]] \in Addr /\ pc'[p] = "post"
    BY <1>13, HolderSees DEF CleanUp, TypeOK, Goto
  <2>4. obj'[handle[id[p]]].exit
    <3>1. handle[id[p]] \in Addr /\ obj[handle[id[p]]] \in Object
      BY <1>13, HolderSees DEF CleanUp
    <3>2. obj'[handle[id[p]]] = [obj[handle[id[p]]] EXCEPT !.exit = TRUE]
      BY <1>13, <3>1 DEF CleanUp, TypeOK
    <3> QED
      BY <3>1, <3>2 DEF Object
  <2>5. id' = id /\ handle' = handle
    BY <1>13 DEF CleanUp
  <2> QED
    BY <2>2, <2>3, <2>4, <2>5 DEF LookupInv, CriticalPc, Proc
<1>14. ASSUME NEW p \in Proc, Post(p) PROVE LookupInv'
  <2>1. \A q \in Proc : pc[q] \in CriticalPc => q = p
    BY <1>14, OneHolder DEF Post, CriticalPc
  <2>2. \A q \in Proc : pc'[q] \in CriticalPc => q = p
    BY <1>14, <2>1 DEF Post, CriticalPc, TypeOK, Goto
  <2>3. /\ handle[id[p]] \in Addr /\ obj[handle[id[p]]] # None
        /\ obj[handle[id[p]]].exit /\ pc'[p] = "delete"
    BY <1>14, HolderSees DEF Post, TypeOK, Goto, LookupInv
  <2>4. obj'[handle[id[p]]].exit
    BY <1>14, <2>3, PostKeeps DEF Kept
  <2>5. id' = id /\ handle' = handle
    BY <1>14 DEF Post
  <2> QED
    BY <2>2, <2>3, <2>4, <2>5 DEF LookupInv, CriticalPc, Proc
<1>15. ASSUME NEW p \in Proc, Delete(p) PROVE LookupInv'
  <2>1. \A q \in Proc : pc[q] \in CriticalPc => q = p
    BY <1>15, OneHolder DEF Delete, CriticalPc
  <2>2. \A q \in Proc :
          pc'[q] \notin {"create", "register", "cleanup", "post", "delete"}
    BY <1>15, <2>1 DEF Delete, CriticalPc, TypeOK, Goto
  <2> QED
    BY <2>2 DEF LookupInv, Proc
<1>16. ASSUME NEW p \in Proc, Unlock(p) PROVE LookupInv'
  BY <1>16, LookupKept, NothingWritten DEF Unlock
<1>17. ASSUME NEW a \in Alarms, Boot(a) PROVE LookupInv'
  BY <1>17, LookupKept, NothingWritten DEF Boot, Proc
<1>18. ASSUME NEW a \in Alarms, StartAlarm(a) \/ InsertAlarm(a) PROVE LookupInv'
  BY <1>18, LookupKept, NothingWritten DEF StartAlarm, InsertAlarm, Proc
<1>19. ASSUME NEW a \in Alarms, WaitTime(a) PROVE LookupInv'
  BY <1>19, LookupKept, WaitTimeKeeps DEF WaitTime, Proc
<1>20. ASSUME NEW a \in Alarms, Woken(a) PROVE LookupInv'
  BY <1>20, LookupKept, WokenKeeps DEF Woken, Proc
<1>21. ASSUME NEW a \in Alarms, Finished(a) \/ Timeout(a) PROVE LookupInv'
  BY <1>21, LookupKept, NothingWritten DEF Finished, Timeout, Proc
<1>22. ASSUME NEW a \in Alarms, ExitSeen(a) \/ Continue(a) PROVE LookupInv'
  BY <1>22, LookupKept, NothingWritten DEF ExitSeen, Continue, Proc
<1>23. ASSUME NEW a \in Alarms, GetMessages(a) \/ InsertMessage(a) \/ PushMessage(a)
       PROVE LookupInv'
  BY <1>23, LookupKept, NothingWritten DEF GetMessages, InsertMessage, PushMessage, Proc
<1> QED
  BY <1>1, <1>2, <1>3, <1>4, <1>5, <1>6, <1>7, <1>8, <1>9, <1>10, <1>11, <1>12,
     <1>13, <1>14, <1>15, <1>16, <1>17, <1>18, <1>19, <1>20, <1>21, <1>22, <1>23
  DEF Next, ConnStep, AlarmStep, Start, Stop, Ring, Proc

\* Every step keeps the map within its bound: only a start that found room adds a user.
LEMMA CapacityStep == IInv /\ [Next]_vars => CapacityBound'
<1> SUFFICES ASSUME IInv, [Next]_vars PROVE CapacityBound'
  OBVIOUS
<1>0. IsFiniteSet(Entries) /\ Cardinality(Entries) \in Nat
  BY FiniteAssumption, FS_Subset, FS_CardinalityType DEF Entries
<1>1. CASE UNCHANGED handle
  BY <1>1 DEF IInv, CapacityBound, Entries
<1>2. ASSUME NEW p \in Proc, ConstructFails(p) \/ Delete(p) PROVE CapacityBound'
  <2>1. Entries' \subseteq Entries
    BY <1>2 DEF ConstructFails, Delete, Entries, IInv, TypeOK
  <2>2. Cardinality(Entries') <= Cardinality(Entries)
    BY <1>0, <2>1, FS_Subset
  <2>3. Cardinality(Entries') \in Nat
    BY <1>0, <2>1, FS_Subset, FS_CardinalityType
  <2> QED
    BY <1>0, <2>2, <2>3, NumberAssumption DEF IInv, CapacityBound
<1>3. ASSUME NEW c \in Conns, StartAbsent(c) \/ Register(c) PROVE CapacityBound'
  <2> DEFINE Others == Entries \ {id[c]}
  <2>1. Entries' \subseteq Others \cup {id[c]}
    BY <1>3 DEF StartAbsent, Register, IInv, TypeOK, Entries
  <2>2. Cardinality(Others) <= MaxUsers
    <3>1. CASE StartAbsent(c)
      <4>1. Others = Entries
        BY <3>1 DEF StartAbsent, Entries
      <4> QED
        BY <3>1, <4>1 DEF StartAbsent
    <3>2. CASE Register(c)
      BY <3>2 DEF Register, IInv, LookupInv
    <3> QED
      BY <1>3, <3>1, <3>2
  <2>3. IsFiniteSet(Others) /\ Cardinality(Others) \in Nat
    BY <1>0, FS_Subset, FS_CardinalityType
  <2> HIDE DEF Others
  <2>4. /\ IsFiniteSet(Others \cup {id[c]})
        /\ Cardinality(Others \cup {id[c]}) <= Cardinality(Others) + 1
    <3>1. Cardinality(Others \cup {id[c]}) = IF id[c] \in Others THEN Cardinality(Others)
                                             ELSE Cardinality(Others) + 1
      BY <2>3, FS_AddElement
    <3> QED
      BY <2>3, <3>1, FS_AddElement
  <2>5. /\ Cardinality(Entries') <= Cardinality(Others \cup {id[c]})
        /\ Cardinality(Entries') \in Nat /\ Cardinality(Others \cup {id[c]}) \in Nat
    BY <2>1, <2>4, FS_Subset, FS_CardinalityType
  <2> QED
    BY <2>2, <2>3, <2>4, <2>5, NumberAssumption DEF CapacityBound
<1> QED
  <2>1. UNCHANGED handle
        \/ (\E p \in Proc : ConstructFails(p) \/ Delete(p))
        \/ (\E c \in Conns : StartAbsent(c) \/ Register(c))
    BY ZenonT(40) DEF Next, ConnStep, AlarmStep, Start, Stop, Ring, Proc, vars, Request, StartLock,
       Lock, StartMaxUser, StartAlready, Construct, StopLock, StopAbsent,
       StopPresent, CleanUp, Post, Unlock, Boot, StartAlarm, InsertAlarm, WaitTime,
       Finished, Woken, Timeout, ExitSeen, Continue, GetMessages, InsertMessage, PushMessage
  <2> QED
    BY <1>1, <1>2, <1>3, <2>1

\* Every step keeps a posted alarm under the order to exit.
LEMMA WakeStep == IInv /\ [Next]_vars => WakeMeansStop'
<1> SUFFICES ASSUME IInv, [Next]_vars PROVE WakeMeansStop'
  OBVIOUS
<1>0. TypeOK /\ WakeMeansStop
  BY DEF IInv
<1>1. CASE UNCHANGED obj
  BY <1>0, <1>1 DEF WakeMeansStop
<1>2. ASSUME NEW c \in Conns, NEW x \in Addr, NEW a \in Alarms, Construct(c, x, a)
      PROVE WakeMeansStop'
  BY <1>0, <1>2, NewObject DEF WakeMeansStop, TypeOK
<1>3. ASSUME NEW p \in Proc, CleanUp(p) PROVE WakeMeansStop'
  <2> DEFINE x == handle[id[p]]
  <2>1. x \in Addr /\ obj[x] \in Object
    BY <1>3, HolderSees DEF CleanUp
  <2>2. obj' = [obj EXCEPT ![x] = [obj[x] EXCEPT !.exit = TRUE]]
    BY <1>3 DEF CleanUp
  <2>3. [obj[x] EXCEPT !.exit = TRUE].exit
    BY <2>1 DEF Object
  <2> HIDE DEF x
  <2> QED
    BY <1>0, <2>1, <2>2, <2>3 DEF WakeMeansStop, TypeOK
<1>4. ASSUME NEW p \in Proc, Post(p) PROVE WakeMeansStop'
  <2> DEFINE x == handle[id[p]]
  <2>1. x \in Addr /\ obj[x] \in Object /\ obj[x].exit
    BY <1>4, HolderSees DEF Post, IInv, LookupInv
  <2>2. obj' = [obj EXCEPT ![x] = [obj[x] EXCEPT !.sem = @ + 1]]
    BY <1>4 DEF Post
  <2>3. [obj[x] EXCEPT !.sem = @ + 1].exit
    BY <2>1 DEF Object
  <2> HIDE DEF x
  <2> QED
    BY <1>0, <2>1, <2>2, <2>3 DEF WakeMeansStop, TypeOK
<1>5. ASSUME NEW p \in Proc, Delete(p) PROVE WakeMeansStop'
  BY <1>0, <1>5 DEF Delete, WakeMeansStop, TypeOK
<1>6. ASSUME NEW a \in Alarms, WaitTime(a) PROVE WakeMeansStop'
  <2>1. CASE ~Freed(a)
    <3>1. this[a] \in Addr /\ obj[this[a]] \in Object
      BY <1>0, <1>6, <2>1 DEF WaitTime, Freed, IInv, WorkInv, ActivePc, TypeOK
    <3>2. obj' = [obj EXCEPT ![this[a]] = [obj[this[a]] EXCEPT !.first = FALSE]]
      BY <1>6, <2>1 DEF WaitTime
    <3>3. /\ [obj[this[a]] EXCEPT !.first = FALSE].exit = obj[this[a]].exit
          /\ [obj[this[a]] EXCEPT !.first = FALSE].sem = obj[this[a]].sem
      BY <3>1 DEF Object
    <3> QED
      BY <1>0, <2>1, <3>1, <3>2, <3>3 DEF WakeMeansStop, TypeOK, Freed
  <2> QED
    BY <1>1, <1>6, <2>1 DEF WaitTime
<1>7. ASSUME NEW a \in Alarms, Woken(a) PROVE WakeMeansStop'
  <2>1. this[a] \in Addr /\ obj[this[a]] \in Object /\ obj[this[a]].sem > 0
        /\ obj[this[a]] # None
    BY <1>0, <1>7 DEF Woken, Freed, IInv, WorkInv, ActivePc, TypeOK
  <2>2. obj' = [obj EXCEPT ![this[a]] = [obj[this[a]] EXCEPT !.sem = @ - 1]]
    BY <1>7 DEF Woken
  <2>3. [obj[this[a]] EXCEPT !.sem = @ - 1].exit
    BY <1>0, <2>1 DEF Object, WakeMeansStop
  <2> QED
    BY <1>0, <2>1, <2>2, <2>3 DEF WakeMeansStop, TypeOK
<1> QED
  <2>1. \/ UNCHANGED obj
        \/ \E c \in Conns, x \in Addr, a \in Alarms : Construct(c, x, a)
        \/ \E p \in Proc : CleanUp(p) \/ Post(p) \/ Delete(p)
        \/ \E a \in Alarms : WaitTime(a) \/ Woken(a)
    BY DEF Next, ConnStep, AlarmStep, Start, Stop, Ring, Proc, vars, Request, StartLock,
       Lock, StartMaxUser, StartAlready, StartAbsent, ConstructFails, Register, StopLock,
       StopAbsent, StopPresent, Unlock, Boot, StartAlarm, InsertAlarm, Finished, Timeout,
       ExitSeen, Continue, GetMessages, InsertMessage, PushMessage
  <2> QED
    BY <1>1, <1>2, <1>3, <1>4, <1>5, <1>6, <1>7, <2>1

\* A live object of a thread that does not move stays served.
LEMMA ThreadKept ==
  ASSUME TypeOK, ThreadInv, Kept, NEW p \in Proc,
         \A q \in Proc : q # p => pc'[q] = pc[q] /\ id'[q] = id[q] /\ this'[q] = this[q],
         \A x \in Addr : obj[x] # None /\ obj[x].thr = p =>
           \/ /\ pc'[p] \in ActivePc /\ this'[p] = x
              /\ pc'[p] # "boot" => id'[p] = obj[x].uid
           \/ pc'[p] \in StopPc /\ id'[p] = obj[x].uid
  PROVE  ThreadInv'
<1> SUFFICES ASSUME NEW x \in Addr, obj'[x] # None
             PROVE  \/ /\ pc'[obj'[x].thr] \in ActivePc /\ this'[obj'[x].thr] = x
                       /\ pc'[obj'[x].thr] # "boot" => id'[obj'[x].thr] = obj'[x].uid
                    \/ pc'[obj'[x].thr] \in StopPc /\ id'[obj'[x].thr] = obj'[x].uid
  BY DEF ThreadInv
<1>1. obj[x] # None /\ obj'[x].thr = obj[x].thr /\ obj'[x].uid = obj[x].uid
      /\ obj[x].thr \in Proc
  BY DEF Kept, TypeOK, Object, Proc
<1>2. CASE obj[x].thr = p
  BY <1>1, <1>2
<1>3. CASE obj[x].thr # p
  BY <1>1, <1>3 DEF ThreadInv
<1> QED
  BY <1>2, <1>3

\* The thread of a live object stays at work on it, or stops its user.
LEMMA ThreadOf ==
  ASSUME TypeOK, ThreadInv, NEW x \in Addr, obj[x] # None
  PROVE  /\ obj[x].thr \in Alarms /\ obj[x] \in Object /\ obj[x].uid \in Users
         /\ \/ /\ pc[obj[x].thr] \in ActivePc /\ this[obj[x].thr] = x
               /\ pc[obj[x].thr] # "boot" => id[obj[x].thr] = obj[x].uid
            \/ pc[obj[x].thr] \in StopPc /\ id[obj[x].thr] = obj[x].uid
BY DEF TypeOK, ThreadInv, Object

\* Every step keeps a thread for each live object.
LEMMA ThreadStep == IInv /\ [Next]_vars => ThreadInv'
<1> SUFFICES ASSUME IInv, [Next]_vars PROVE ThreadInv'
  OBVIOUS
<1>0. TypeOK /\ ThreadInv /\ LockInv /\ WorkInv /\ RegistryInv
  BY DEF IInv
<1>a. \A p \in Proc : pc[p] \in ConnPc \cup AlarmPc
  BY <1>0 DEF TypeOK
<1> USE <1>0, <1>a, ThreadAssumption
<1>1. CASE UNCHANGED vars
  BY <1>1 DEF vars, ThreadInv
<1>2. ASSUME NEW c \in Conns, NEW u \in Users, Request(c, u) PROVE ThreadInv'
  <2>1. \A x \in Addr : obj[x] # None => obj[x].thr # c
    BY ThreadOf
  <2> QED
    BY <1>2, <2>1, ThreadKept, NothingWritten DEF Request, Proc, Goto, TypeOK
<1>3. ASSUME NEW c \in Conns, StartLock(c) PROVE ThreadInv'
  <2>1. \A x \in Addr : obj[x] # None => obj[x].thr # c
    BY ThreadOf
  <2> QED
    BY <1>3, <2>1, ThreadKept, NothingWritten DEF StartLock, Lock, Proc, Goto, TypeOK
<1>4. ASSUME NEW c \in Conns,
             StartMaxUser(c) \/ StartAlready(c) \/ StartAbsent(c) \/ ConstructFails(c)
      PROVE  ThreadInv'
  <2>1. \A x \in Addr : obj[x] # None => obj[x].thr # c
    BY ThreadOf
  <2> QED
    BY <1>4, <2>1, ThreadKept, NothingWritten
    DEF StartMaxUser, StartAlready, StartAbsent, ConstructFails, Proc, Goto, TypeOK
<1>5. ASSUME NEW c \in Conns, Register(c) PROVE ThreadInv'
  <2>1. \A x \in Addr : obj[x] # None => obj[x].thr # c
    BY ThreadOf
  <2> QED
    BY <1>5, <2>1, ThreadKept, NothingWritten DEF Register, Proc, Goto, TypeOK
<1>6. ASSUME NEW c \in Conns, NEW x \in Addr, NEW a \in Alarms, Construct(c, x, a)
      PROVE ThreadInv'
  <2>1. PICK o \in Object : obj' = [obj EXCEPT ![x] = o] /\ o.thr = a
    BY <1>6, NewObject
  <2>2. obj'[x].thr = a /\ pc'[a] = "boot" /\ this'[a] = x
    BY <1>6, <2>1 DEF Construct, TypeOK, Proc
  <2>3. ASSUME NEW y \in Addr, y # x, obj'[y] # None
        PROVE  obj[y] # None /\ obj'[y] = obj[y] /\ obj[y].thr \in Alarms
               /\ obj[y].thr # a /\ obj[y].thr # c
    <3>1. obj[y] # None /\ obj'[y] = obj[y]
      BY <2>1, <2>3 DEF TypeOK
    <3>2. obj[y].thr \in Alarms /\ pc[obj[y].thr] \in ActivePc \cup StopPc
      BY <3>1, ThreadOf
    <3> QED
      BY <1>6, <3>1, <3>2 DEF Construct, ActivePc, StopPc
  <2>4. \A q \in Alarms : q # a => pc'[q] = pc[q] /\ id'[q] = id[q] /\ this'[q] = this[q]
    BY <1>6 DEF Construct, TypeOK, Proc
  <2> QED
    BY <2>2, <2>3, <2>4 DEF ThreadInv, ActivePc
<1>7. ASSUME NEW p \in Proc, StopLock(p) PROVE ThreadInv'
  <2>1. \A x \in Addr : obj[x] # None /\ obj[x].thr = p => id[p] = obj[x].uid
    BY <1>7, ThreadOf DEF StopLock, Lock, ActivePc
  <2> QED
    BY <1>7, <2>1, ThreadKept, NothingWritten DEF StopLock, Lock, Goto, TypeOK, StopPc
<1>8. ASSUME NEW p \in Proc, StopAbsent(p) PROVE ThreadInv'
  <2>1. \A x \in Addr : obj[x] # None => obj[x].thr # p
    <3>1. SUFFICES ASSUME NEW x \in Addr, obj[x] # None, obj[x].thr = p PROVE FALSE
      OBVIOUS
    <3>2. p \in Alarms /\ id[p] = obj[x].uid /\ obj[x].uid \in Users
      BY <1>8, <3>1, ThreadOf DEF StopAbsent, ActivePc
    <3>3. handle[obj[x].uid] = None
      BY <1>8, <3>2 DEF StopAbsent
    <3>4. PICK c \in Conns : pc[c] = "register"
      BY <3>1, <3>3, NoneAssumption DEF RegistryInv, MapHeapInv
    <3> QED
      BY <1>8, <3>2, <3>4, OneHolder DEF StopAbsent, CriticalPc, Proc
  <2> QED
    BY <1>8, <2>1, ThreadKept, NothingWritten DEF StopAbsent, Goto, TypeOK
<1>9. ASSUME NEW p \in Proc, StopPresent(p) PROVE ThreadInv'
  <2>1. \A x \in Addr : obj[x] # None /\ obj[x].thr = p => id[p] = obj[x].uid
    BY <1>9, ThreadOf DEF StopPresent, ActivePc
  <2> QED
    BY <1>9, <2>1, ThreadKept, NothingWritten DEF StopPresent, Goto, TypeOK, StopPc
<1>10. ASSUME NEW p \in Proc, CleanUp(p) PROVE ThreadInv'
  <2>1. \A x \in Addr : obj[x] # None /\ obj[x].thr = p => id[p] = obj[x].uid
    BY <1>10, ThreadOf DEF CleanUp, ActivePc
  <2> QED
    BY <1>10, <2>1, ThreadKept, CleanUpKeeps DEF CleanUp, Goto, TypeOK, StopPc
<1>11. ASSUME NEW p \in Proc, Post(p) PROVE ThreadInv'
  <2>1. \A x \in Addr : obj[x] # None /\ obj[x].thr = p => id[p] = obj[x].uid
    BY <1>11, ThreadOf DEF Post, ActivePc
  <2> QED
    BY <1>11, <2>1, ThreadKept, PostKeeps DEF Post, Goto, TypeOK, StopPc
<1>12. ASSUME NEW p \in Proc, Delete(p) PROVE ThreadInv'
  <2> DEFINE y == handle[id[p]]
  <2>1. y \in Addr /\ obj[y] \in Object /\ obj[y].uid = id[p] /\ obj[y] # None
    BY <1>12, HolderSees, NoneAssumption DEF Delete
  <2>2. obj' = [obj EXCEPT ![y] = None]
    BY <1>12 DEF Delete
  <2>3. ASSUME NEW x \in Addr, obj'[x] # None
        PROVE  x # y /\ obj'[x] = obj[x] /\ obj[x] # None /\ obj[x].thr # p
    <3>1. x # y /\ obj'[x] = obj[x] /\ obj[x] # None
      BY <2>1, <2>2, <2>3 DEF TypeOK
    <3>2. ASSUME obj[x].thr = p PROVE FALSE
      <4>1. p \in Alarms /\ id[p] = obj[x].uid
        BY <1>12, <3>1, <3>2, ThreadOf DEF Delete, ActivePc
      <4>2. handle[obj[x].uid] # x
        BY <3>1, <4>1
      <4>3. PICK c \in Conns : pc[c] = "register"
        BY <3>1, <4>2 DEF RegistryInv, MapHeapInv
      <4> QED
        BY <1>12, <4>1, <4>3, OneHolder DEF Delete, CriticalPc, Proc
    <3> QED
      BY <3>1, <3>2
  <2>4. \A q \in Proc : q # p => pc'[q] = pc[q] /\ id'[q] = id[q] /\ this'[q] = this[q]
    BY <1>12 DEF Delete, Goto, TypeOK
  <2> HIDE DEF y
  <2> SUFFICES ASSUME NEW x \in Addr, obj'[x] # None
               PROVE  \/ /\ pc'[obj'[x].thr] \in ActivePc /\ this'[obj'[x].thr] = x
                         /\ pc'[obj'[x].thr] # "boot" => id'[obj'[x].thr] = obj'[x].uid
                      \/ pc'[obj'[x].thr] \in StopPc /\ id'[obj'[x].thr] = obj'[x].uid
    BY DEF ThreadInv
  <2>5. obj'[x] = obj[x] /\ obj[x] # None /\ obj[x].thr # p
    BY <2>3
  <2> QED
    BY <2>4, <2>5, ThreadOf DEF Proc
<1>13. ASSUME NEW p \in Proc, Unlock(p) PROVE ThreadInv'
  <2>1. \A x \in Addr : obj[x] # None => obj[x].thr # p
    BY <1>13, ThreadOf DEF Unlock, ActivePc, StopPc
  <2> QED
    BY <1>13, <2>1, ThreadKept, NothingWritten DEF Unlock, Goto, TypeOK
<1>14. ASSUME NEW a \in Alarms, Boot(a) PROVE ThreadInv'
  <2>1. \A x \in Addr : obj[x] # None /\ obj[x].thr = a => this[a] = x
    BY <1>14, ThreadOf DEF Boot, StopPc
  <2>2. \A x \in Addr : obj[x] # None /\ obj[x].thr = a => id'[a] = obj[x].uid
    BY <1>14, <2>1 DEF Boot, Freed, TypeOK, Proc
  <2> QED
    BY <1>14, <2>1, <2>2, ThreadKept, NothingWritten DEF Boot, Proc, Goto, TypeOK, ActivePc
<1>15. ASSUME NEW a \in Alarms, NEW l \in (ActivePc \ {"boot"}) \cup StopPc,
              pc[a] \in ActivePc \ {"boot"}, Goto(a, l), Kept, UNCHANGED <<id, this>>
       PROVE  ThreadInv'
  <2>1. \A x \in Addr : obj[x] # None /\ obj[x].thr = a =>
          this[a] = x /\ id[a] = obj[x].uid
    BY <1>15, ThreadOf DEF ActivePc, StopPc
  <2> QED
    BY <1>15, <2>1, ThreadKept DEF Proc, Goto, TypeOK
<1>16. ASSUME NEW a \in Alarms, StartAlarm(a) \/ InsertAlarm(a) PROVE ThreadInv'
  BY <1>15, <1>16, NothingWritten DEF StartAlarm, InsertAlarm, ActivePc, StopPc
<1>17. ASSUME NEW a \in Alarms, WaitTime(a) PROVE ThreadInv'
  BY <1>15, <1>17, WaitTimeKeeps DEF WaitTime, ActivePc
<1>18. ASSUME NEW a \in Alarms, Woken(a) PROVE ThreadInv'
  BY <1>15, <1>18, WokenKeeps DEF Woken, ActivePc
<1>19. ASSUME NEW a \in Alarms, Finished(a) \/ Timeout(a) PROVE ThreadInv'
  BY <1>15, <1>19, NothingWritten DEF Finished, Timeout, ActivePc, StopPc
<1>20. ASSUME NEW a \in Alarms, ExitSeen(a) \/ Continue(a) PROVE ThreadInv'
  BY <1>15, <1>20, NothingWritten DEF ExitSeen, Continue, ActivePc, StopPc
<1>21. ASSUME NEW a \in Alarms, GetMessages(a) \/ InsertMessage(a) \/ PushMessage(a)
       PROVE ThreadInv'
  BY <1>15, <1>21, NothingWritten
  DEF GetMessages, InsertMessage, PushMessage, ActivePc, StopPc
<1> QED
  BY <1>1, <1>2, <1>3, <1>4, <1>5, <1>6, <1>7, <1>8, <1>9, <1>10, <1>11, <1>12,
     <1>13, <1>14, <1>16, <1>17, <1>18, <1>19, <1>20, <1>21
  DEF Next, ConnStep, AlarmStep, Start, Stop, Ring, Proc

-----------------------------------------------------------------------------
\* The service starts with no alarm, so the invariant holds trivially.
LEMMA InitInv == Init => IInv
<1> SUFFICES ASSUME Init PROVE IInv
  OBVIOUS
<1> USE NoneAssumption, ThreadAssumption DEF Init, Proc
<1>1. TypeOK
  BY DEF TypeOK, ConnPc, AlarmPc, Status
<1>2. LockInv /\ WorkInv /\ LookupInv
  BY DEF LockInv, WorkInv, LookupInv, CriticalPc, StartPc, StopPc, ActivePc
<1>3. RegistryInv /\ WakeMeansStop /\ ThreadInv
  BY DEF RegistryInv, MapHeapInv, NullInv, WakeMeansStop, ThreadInv, Registered
<1>4. Entries = {}
  BY DEF Entries
<1>5. CapacityBound
  BY <1>4, FS_EmptySet, NumberAssumption DEF CapacityBound
<1> QED
  BY <1>1, <1>2, <1>3, <1>5 DEF IInv

\* IInv holds in every reachable state: LOCK_SetupNoti, the map, the heap and the
\* alarm threads stay consistent under every interleaving.
THEOREM Inductive == Spec => []IInv
<1>1. IInv /\ [Next]_vars => IInv'
  BY TypeStep, LockStep, WorkStep, MapHeapStep, NullStep, LookupStep, CapacityStep,
     WakeStep, ThreadStep DEF IInv, RegistryInv
<1> QED
  BY InitInv, <1>1, PTL DEF Spec

\* Every variable keeps its type.
THEOREM TypeCorrect == Spec => []TypeOK
<1>1. IInv => TypeOK
  BY DEF IInv
<1> QED
  BY <1>1, Inductive, PTL

\* StartNotification and StopNotification exclude each other.
THEOREM MutualExclusion == Spec => []LockInv
<1>1. IInv => LockInv
  BY DEF IInv
<1> QED
  BY <1>1, Inductive, PTL

\* The map of alarms and the objects on the heap always agree.
THEOREM RegistryCorrect == Spec => []RegistryInv
<1>1. IInv => RegistryInv
  BY DEF IInv
<1> QED
  BY <1>1, Inductive, PTL

\* The map never exceeds USER_USE_START_NUMBER + 1 entries.
THEOREM CapacityRespected == Spec => []CapacityBound
<1>1. IInv => CapacityBound
  BY DEF IInv
<1> QED
  BY <1>1, Inductive, PTL

\* A posted alarm thread always sees the order to exit.
THEOREM WakeIsStop == Spec => []WakeMeansStop
<1>1. IInv => WakeMeansStop
  BY DEF IInv
<1> QED
  BY <1>1, Inductive, PTL

\* No registered alarm ever loses the thread that will stop it.
THEOREM AlarmsServed == Spec => []ServedAlarm
<1>1. IInv => ServedAlarm
  <2> SUFFICES ASSUME IInv, NEW u \in Registered
               PROVE  LET a == obj[handle[u]].thr
                      IN \/ pc[a] \in ActivePc /\ this[a] = handle[u]
                         \/ pc[a] \in StopPc /\ id[a] = u
    BY DEF ServedAlarm
  <2>1. handle[u] \in Addr /\ obj[handle[u]].uid = u /\ obj[handle[u]] # None
    BY EntryIsLive, NoneAssumption
  <2> QED
    BY <2>1 DEF IInv, ThreadInv
<1> QED
  BY <1>1, Inductive, PTL

-----------------------------------------------------------------------------
(***************************************************************************)
(* Clients that only start alarms: each alarm thread owns its object.      *)
(***************************************************************************)
OwnInv ==
  /\ \A c \in Conns : pc[c] \notin StopPc
  /\ \A a \in Alarms : pc[a] \in ActivePc \cup StopPc =>
       \E x \in Addr : /\ obj[x] # None /\ obj[x].thr = a
                       /\ pc[a] \in ActivePc => this[a] = x

\* Steps of thread p that create and delete nothing.
LEMMA OwnKept ==
  ASSUME TypeOK, OwnInv, Kept, NEW p \in Proc,
         \A q \in Proc : q # p => pc'[q] = pc[q] /\ this'[q] = this[q],
         this'[p] = this[p] \/ p \in Conns \/ pc'[p] \notin ActivePc,
         p \in Conns => pc'[p] \notin StopPc,
         p \in Alarms /\ pc'[p] \in ActivePc => pc[p] \in ActivePc,
         p \in Alarms /\ pc'[p] \in StopPc => pc[p] \in ActivePc \cup StopPc
  PROVE  OwnInv'
<1>1. \A c \in Conns : pc'[c] \notin StopPc
  BY DEF OwnInv, Proc
<1>2. ASSUME NEW a \in Alarms, pc'[a] \in ActivePc \cup StopPc
      PROVE  \E x \in Addr : /\ obj'[x] # None /\ obj'[x].thr = a
                             /\ pc'[a] \in ActivePc => this'[a] = x
  <2>1. pc[a] \in ActivePc \cup StopPc /\ (pc'[a] \in ActivePc => pc[a] \in ActivePc)
        /\ (pc'[a] \in ActivePc => this'[a] = this[a] \/ a \in Conns)
    BY <1>2 DEF Proc
  <2>2. PICK x \in Addr : /\ obj[x] # None /\ obj[x].thr = a
                          /\ pc[a] \in ActivePc => this[a] = x
    BY <2>1 DEF OwnInv
  <2>3. obj'[x] # None /\ obj'[x].thr = a
    BY <2>2 DEF Kept
  <2> QED
    BY <2>1, <2>2, <2>3, ThreadAssumption
<1> QED
  BY <1>1, <1>2 DEF OwnInv

\* A stopping alarm thread finds its own object in the map.
LEMMA OwnFound ==
  ASSUME IInv, OwnInv, NEW p \in Alarms, pc[p] \in StopPc, pc[p] \in CriticalPc
  PROVE  \E x \in Addr : obj[x] # None /\ obj[x].thr = p /\ handle[id[p]] = x
<1>1. PICK x \in Addr : obj[x] # None /\ obj[x].thr = p
  BY DEF OwnInv
<1>2. id[p] = obj[x].uid
  BY <1>1, ThreadOf DEF IInv, StopPc, ActivePc
<1>3. handle[obj[x].uid] = x
  <2>1. \A c \in Conns : pc[c] # "register"
    BY OneHolder, ThreadAssumption DEF IInv, Proc, CriticalPc
  <2> QED
    BY <1>1, <2>1 DEF IInv, RegistryInv, MapHeapInv
<1> QED
  BY <1>1, <1>2, <1>3

\* While no client stops alarms, a thread loses its object only by deleting it.
LEMMA OwnStep ==
  ASSUME "stop" \notin Requests
  PROVE  IInv /\ OwnInv /\ [Next]_vars => OwnInv'
<1> SUFFICES ASSUME IInv, OwnInv, [Next]_vars PROVE OwnInv'
  OBVIOUS
<1>0. TypeOK /\ LockInv
  BY DEF IInv
<1> USE <1>0, ThreadAssumption
<1>1. CASE UNCHANGED vars
  BY <1>1 DEF vars, OwnInv
<1>2. ASSUME NEW c \in Conns, NEW u \in Users, Request(c, u) PROVE OwnInv'
  BY <1>2, OwnKept, NothingWritten DEF Request, Proc, Goto, TypeOK, StopPc
<1>3. ASSUME NEW c \in Conns, StartLock(c) PROVE OwnInv'
  BY <1>3, OwnKept, NothingWritten DEF StartLock, Lock, Proc, Goto, TypeOK, StopPc
<1>4. ASSUME NEW c \in Conns,
             StartMaxUser(c) \/ StartAlready(c) \/ StartAbsent(c) \/ ConstructFails(c)
      PROVE  OwnInv'
  BY <1>4, OwnKept, NothingWritten
  DEF StartMaxUser, StartAlready, StartAbsent, ConstructFails, Proc, Goto, TypeOK, StopPc
<1>5. ASSUME NEW c \in Conns, Register(c) PROVE OwnInv'
  BY <1>5, OwnKept, NothingWritten DEF Register, Proc, Goto, TypeOK, StopPc
<1>6. ASSUME NEW c \in Conns, NEW x \in Addr, NEW a \in Alarms, Construct(c, x, a)
      PROVE OwnInv'
  <2>1. PICK o \in Object : obj' = [obj EXCEPT ![x] = o] /\ o.thr = a
    BY <1>6, NewObject
  <2>2. obj'[x] # None /\ obj'[x].thr = a /\ this'[a] = x
    BY <1>6, <2>1, NoneAssumption DEF Construct, TypeOK, Proc
  <2>3. \A y \in Addr : obj[y] # None => y # x /\ obj'[y] = obj[y]
    BY <1>6, <2>1 DEF Construct, TypeOK
  <2>4. \A q \in Alarms : q # a => pc'[q] = pc[q] /\ this'[q] = this[q]
    BY <1>6 DEF Construct, TypeOK, Proc
  <2>5. \A q \in Conns : pc'[q] \notin StopPc
    BY <1>6 DEF Construct, TypeOK, Proc, OwnInv, StopPc
  <2> QED
    BY <2>2, <2>3, <2>4, <2>5 DEF OwnInv
<1>7. ASSUME NEW p \in Proc, StopLock(p) PROVE OwnInv'
  BY <1>7, OwnKept, NothingWritten
  DEF StopLock, Lock, Proc, Goto, TypeOK, StopPc, ActivePc, OwnInv
<1>8. ASSUME NEW p \in Proc, StopAbsent(p) \/ StopPresent(p) PROVE OwnInv'
  BY <1>8, OwnKept, NothingWritten
  DEF StopAbsent, StopPresent, Proc, Goto, TypeOK, StopPc, ActivePc, OwnInv
<1>9. ASSUME NEW p \in Proc, CleanUp(p) PROVE OwnInv'
  BY <1>9, OwnKept, CleanUpKeeps
  DEF CleanUp, Proc, Goto, TypeOK, StopPc, ActivePc, OwnInv
<1>10. ASSUME NEW p \in Proc, Post(p) PROVE OwnInv'
  BY <1>10, OwnKept, PostKeeps DEF Post, Proc, Goto, TypeOK, StopPc, ActivePc, OwnInv
<1>11. ASSUME NEW p \in Proc, Delete(p) PROVE OwnInv'
  <2>1. p \in Alarms
    BY <1>11 DEF Delete, OwnInv, Proc, StopPc
  <2>2. PICK y \in Addr : obj[y].thr = p /\ handle[id[p]] = y
    BY <1>11, <2>1, OwnFound DEF Delete, StopPc, CriticalPc
  <2>3. \A x \in Addr : obj[x] # None /\ obj[x].thr # p => obj'[x] = obj[x]
    BY <1>11, <2>2 DEF Delete, TypeOK
  <2>4. pc'[p] = "unlock"
    BY <1>11 DEF Delete, Goto, TypeOK
  <2>5. \A q \in Proc : q # p => pc'[q] = pc[q] /\ this'[q] = this[q]
    BY <1>11 DEF Delete, Goto, TypeOK
  <2> QED
    BY <2>1, <2>3, <2>4, <2>5 DEF OwnInv, Proc, ActivePc, StopPc
<1>12. ASSUME NEW p \in Proc, Unlock(p) PROVE OwnInv'
  BY <1>12, OwnKept, NothingWritten DEF Unlock, Proc, Goto, TypeOK, StopPc, ActivePc
<1>13. ASSUME NEW a \in Alarms, Boot(a) \/ StartAlarm(a) \/ InsertAlarm(a) PROVE OwnInv'
  BY <1>13, OwnKept, NothingWritten
  DEF Boot, StartAlarm, InsertAlarm, Proc, Goto, TypeOK, StopPc, ActivePc
<1>14. ASSUME NEW a \in Alarms, WaitTime(a) PROVE OwnInv'
  BY <1>14, OwnKept, WaitTimeKeeps DEF WaitTime, Proc, Goto, TypeOK, StopPc, ActivePc
<1>15. ASSUME NEW a \in Alarms, Woken(a) PROVE OwnInv'
  BY <1>15, OwnKept, WokenKeeps DEF Woken, Proc, Goto, TypeOK, StopPc, ActivePc
<1>16. ASSUME NEW a \in Alarms, Finished(a) \/ Timeout(a) PROVE OwnInv'
  BY <1>16, OwnKept, NothingWritten
  DEF Finished, Timeout, Proc, Goto, TypeOK, StopPc, ActivePc
<1>18. ASSUME NEW a \in Alarms, ExitSeen(a) \/ Continue(a) PROVE OwnInv'
  <2>1. /\ pc[a] \in ActivePc /\ pc'[a] \in ActivePc \cup StopPc
        /\ UNCHANGED <<obj, this>>
        /\ \A q \in Proc : q # a => pc'[q] = pc[q]
    BY <1>18 DEF ExitSeen, Continue, Proc, Goto, TypeOK, StopPc, ActivePc
  <2> QED
    BY <2>1, OwnKept, NothingWritten DEF Proc
<1>17. ASSUME NEW a \in Alarms, GetMessages(a) \/ InsertMessage(a) \/ PushMessage(a)
       PROVE OwnInv'
  BY <1>17, OwnKept, NothingWritten, ZenonT(40)
  DEF GetMessages, InsertMessage, PushMessage, Proc, Goto, TypeOK, StopPc, ActivePc
<1> QED
  BY <1>1, <1>2, <1>3, <1>4, <1>5, <1>6, <1>7, <1>8, <1>9, <1>10, <1>11, <1>12,
     <1>13, <1>14, <1>15, <1>16, <1>17, <1>18
  DEF Next, ConnStep, AlarmStep, Start, Stop, Ring, Proc

\* As long as clients only start alarms, no alarm thread uses a deleted object.
THEOREM StartOnlyMemorySafe ==
  ASSUME "stop" \notin Requests
  PROVE  Spec => []NoUseAfterFree
<1>1. Init => OwnInv
  BY ThreadAssumption DEF Init, OwnInv, ActivePc, StopPc, Proc
<1>2. OwnInv => NoUseAfterFree
  BY DEF OwnInv, NoUseAfterFree
<1> QED
  BY <1>1, <1>2, OwnStep, Inductive, PTL DEF Spec

\* As long as clients only start alarms, an alarm is ended by its own thread.
THEOREM StartOnlyEndsByOwner ==
  ASSUME "stop" \notin Requests
  PROVE  Spec => EndsByOwner
<1> DEFINE Step == \A u \in Users : handle[u] \in Addr /\ handle'[u] \notin Addr =>
                     \E p \in Proc : /\ pc[p] = "delete" /\ id[p] = u
                                     /\ p \in Conns \/ obj[handle[u]].thr = p
<1>1. IInv /\ OwnInv /\ [Next]_vars => [Step]_vars
  <2> SUFFICES ASSUME IInv, OwnInv, [Next]_vars,
                      NEW u \in Users, handle[u] \in Addr, handle'[u] \notin Addr
               PROVE  \E p \in Proc : /\ pc[p] = "delete" /\ id[p] = u
                                      /\ p \in Conns \/ obj[handle[u]].thr = p
    OBVIOUS
  <2>0. TypeOK
    BY DEF IInv
  <2>1. CASE UNCHANGED handle
    BY <2>1
  <2>2. ASSUME NEW c \in Conns, StartAbsent(c) \/ ConstructFails(c) PROVE FALSE
    BY <2>2, AbsentRegistered DEF Registered
  <2>3. ASSUME NEW c \in Conns, Register(c) PROVE FALSE
    <3>1. this[c] \in Addr
      BY <2>3 DEF Register, IInv, LookupInv
    <3> QED
      BY <2>0, <2>3, <3>1, NoneAssumption DEF Register, TypeOK
  <2>4. ASSUME NEW p \in Proc, Delete(p)
        PROVE  pc[p] = "delete" /\ id[p] = u /\ obj[handle[u]].thr = p
    <3>1. pc[p] = "delete" /\ id[p] = u
      BY <2>0, <2>4 DEF Delete, TypeOK
    <3>2. p \in Alarms
      BY <3>1 DEF OwnInv, Proc, StopPc
    <3> QED
      BY <3>1, <3>2, OwnFound DEF StopPc, CriticalPc
  <2>5. UNCHANGED handle
        \/ (\E c \in Conns : StartAbsent(c) \/ ConstructFails(c) \/ Register(c))
        \/ (\E p \in Proc : Delete(p))
    BY DEF Next, ConnStep, AlarmStep, Start, Stop, Ring, Proc, vars, Request, StartLock,
       Lock, StartMaxUser, StartAlready, Construct, StopLock, StopAbsent,
       StopPresent, CleanUp, Post, Unlock, Boot, StartAlarm, InsertAlarm, WaitTime,
       Finished, Woken, Timeout, ExitSeen, Continue, GetMessages, InsertMessage, PushMessage
  <2> QED
    BY <2>1, <2>2, <2>3, <2>4, <2>5
<1>2. Init => OwnInv
  BY ThreadAssumption DEF Init, OwnInv, ActivePc, StopPc, Proc
<1>3. Spec => []OwnInv
  BY <1>2, OwnStep, Inductive, PTL DEF Spec
<1> QED
  BY <1>1, <1>3, Inductive, PTL DEF Spec, EndsByOwner

-----------------------------------------------------------------------------
(***************************************************************************)
(* The messages a thread pushes.  Its copy of the number of messages is    *)
(* its object's, and it leaves the loop before index reaches the repeat    *)
(* count.                                                                  *)
(***************************************************************************)
TurnPc == {"wait", "woken", "getMessages", "insertMessage", "push"}

Own(a, x) == obj[x] # None /\ obj[x].thr = a

Turn(a) == /\ pc[a] \in TurnPc => loc[a].idx < loc[a].rep
           /\ pc[a] \in ActivePc \ {"boot"} /\ Own(a, this[a]) =>
                loc[a].nmsg = obj[this[a]].nmsg

TurnInv == \A a \in Alarms : Turn(a)

\* A step makes no object of a running thread, and changes no number of messages.
SameCounts == \A x \in Addr, a \in Alarms :
                Own(a, x)' => \/ pc'[a] = "boot"
                              \/ Own(a, x) /\ obj'[x].nmsg = obj[x].nmsg

LEMMA CountsKept ==
  ASSUME TypeOK, NEW x \in Addr, NEW o,
         obj[x] # None => o # None /\ o.thr = obj[x].thr /\ o.nmsg = obj[x].nmsg,
         obj[x] # None, obj' = [obj EXCEPT ![x] = o]
  PROVE  SameCounts
BY DEF TypeOK, SameCounts, Own

\* Only the constructor gives a thread an object, and its thread has not run yet.
LEMMA CountsStep == IInv /\ [Next]_vars => SameCounts
<1> SUFFICES ASSUME IInv, [Next]_vars PROVE SameCounts
  OBVIOUS
<1>0. TypeOK
  BY DEF IInv
<1>1. CASE UNCHANGED obj
  BY <1>1 DEF SameCounts, Own
<1>2. ASSUME NEW c \in Conns, NEW x \in Addr, NEW a \in Alarms, Construct(c, x, a)
      PROVE  SameCounts
  <2>1. PICK o \in Object : obj' = [obj EXCEPT ![x] = o] /\ o.thr = a
    BY <1>2, NewObject
  <2>2. pc'[a] = "boot"
    BY <1>0, <1>2 DEF Construct, TypeOK, Proc
  <2> QED
    BY <1>0, <2>1, <2>2 DEF SameCounts, Own, TypeOK
<1>3. ASSUME NEW p \in Proc, CleanUp(p) PROVE SameCounts
  <2>1. handle[id[p]] \in Addr /\ obj[handle[id[p]]] \in Object
    BY <1>3, HolderSees DEF CleanUp
  <2> DEFINE o == [obj[handle[id[p]]] EXCEPT !.exit = TRUE]
  <2>2. o \in Object /\ o.thr = obj[handle[id[p]]].thr /\ o.nmsg = obj[handle[id[p]]].nmsg
    BY <2>1 DEF Object
  <2>3. obj' = [obj EXCEPT ![handle[id[p]]] = o]
    BY <1>3 DEF CleanUp
  <2> HIDE DEF o
  <2> QED
    BY <1>0, <2>1, <2>2, <2>3, CountsKept, NoneAssumption
<1>4. ASSUME NEW p \in Proc, Post(p) PROVE SameCounts
  <2>1. handle[id[p]] \in Addr /\ obj[handle[id[p]]] \in Object
    BY <1>4, HolderSees DEF Post
  <2> DEFINE o == [obj[handle[id[p]]] EXCEPT !.sem = @ + 1]
  <2>2. o \in Object /\ o.thr = obj[handle[id[p]]].thr /\ o.nmsg = obj[handle[id[p]]].nmsg
    BY <2>1 DEF Object
  <2>3. obj' = [obj EXCEPT ![handle[id[p]]] = o]
    BY <1>4 DEF Post
  <2> HIDE DEF o
  <2> QED
    BY <1>0, <2>1, <2>2, <2>3, CountsKept, NoneAssumption
<1>5. ASSUME NEW p \in Proc, Delete(p) PROVE SameCounts
  <2>1. handle[id[p]] \in Addr /\ obj' = [obj EXCEPT ![handle[id[p]]] = None]
    BY <1>5, HolderSees DEF Delete
  <2> QED
    BY <1>0, <2>1 DEF SameCounts, Own, TypeOK
<1>6. ASSUME NEW a \in Alarms, WaitTime(a), ~Freed(a) PROVE SameCounts
  <2>1. this[a] \in Addr /\ obj[this[a]] \in Object
    BY <1>6 DEF WaitTime, Freed, IInv, TypeOK, WorkInv, ActivePc
  <2> DEFINE o == [obj[this[a]] EXCEPT !.first = FALSE]
  <2>2. o \in Object /\ o.thr = obj[this[a]].thr /\ o.nmsg = obj[this[a]].nmsg
    BY <2>1 DEF Object
  <2>3. obj' = [obj EXCEPT ![this[a]] = o]
    BY <1>6 DEF WaitTime
  <2> HIDE DEF o
  <2> QED
    BY <1>0, <2>1, <2>2, <2>3, CountsKept, NoneAssumption
<1>7. ASSUME NEW a \in Alarms, Woken(a) PROVE SameCounts
  <2>1. this[a] \in Addr /\ obj[this[a]] \in Object /\ obj[this[a]].sem > 0
    BY <1>7 DEF Woken, Freed, IInv, TypeOK, WorkInv, ActivePc
  <2> DEFINE o == [obj[this[a]] EXCEPT !.sem = @ - 1]
  <2>2. o \in Object /\ o.thr = obj[this[a]].thr /\ o.nmsg = obj[this[a]].nmsg
    BY <2>1 DEF Object
  <2>3. obj' = [obj EXCEPT ![this[a]] = o]
    BY <1>7 DEF Woken
  <2> HIDE DEF o
  <2> QED
    BY <1>0, <2>1, <2>2, <2>3, CountsKept, NoneAssumption
<1>8. \/ UNCHANGED obj
      \/ \E c \in Conns, x \in Addr, a \in Alarms : Construct(c, x, a)
      \/ \E p \in Proc : CleanUp(p) \/ Post(p) \/ Delete(p)
      \/ \E a \in Alarms : (WaitTime(a) /\ ~Freed(a)) \/ Woken(a)
  BY DEF Next, ConnStep, AlarmStep, Start, Stop, Ring, Proc, vars, Request, StartLock,
     Lock, StartMaxUser, StartAlready, StartAbsent, ConstructFails, Register, StopLock,
     StopAbsent, StopPresent, Unlock, Boot, StartAlarm, InsertAlarm, WaitTime,
     Finished, Timeout, ExitSeen, Continue, GetMessages, InsertMessage, PushMessage
<1> QED
  BY <1>1, <1>2, <1>3, <1>4, <1>5, <1>6, <1>7, <1>8

\* A thread that does not move keeps its turn.
LEMMA TurnKept ==
  ASSUME IInv, TurnInv, SameCounts, NEW a \in Alarms,
         pc'[a] = pc[a], this'[a] = this[a], loc'[a] = loc[a]
  PROVE  Turn(a)'
<1>1. pc[a] \in ActivePc => this[a] \in Addr
  BY DEF IInv, WorkInv
<1> QED
  BY <1>1 DEF TurnInv, Turn, SameCounts, Own

\* Nor does one that moves on without new locals.
LEMMA TurnMoves ==
  ASSUME IInv, TurnInv, SameCounts, NEW a \in Alarms, pc[a] \in ActivePc \ {"boot"},
         pc'[a] # "boot", pc'[a] \in TurnPc => loc[a].idx < loc[a].rep,
         this'[a] = this[a], loc'[a].nmsg = loc[a].nmsg,
         loc'[a].idx = loc[a].idx, loc'[a].rep = loc[a].rep
  PROVE  Turn(a)'
<1>1. this[a] \in Addr
  BY DEF IInv, WorkInv
<1> QED
  BY <1>1 DEF TurnInv, Turn, SameCounts, Own

\* Every step keeps the threads' copies and the bound on their indexes.
LEMMA TurnStep == IInv /\ TurnInv /\ [Next]_vars => TurnInv'
<1> SUFFICES ASSUME IInv, TurnInv, [Next]_vars PROVE TurnInv'
  OBVIOUS
<1>0. TypeOK /\ SameCounts
  BY CountsStep DEF IInv
<1>1. CASE UNCHANGED vars
  BY <1>0, <1>1, TurnKept DEF vars, TurnInv
<1>2. ASSUME NEW c \in Conns, (\E u \in Users : Request(c, u)) \/ ConnStep(c),
             ~ \E x \in Addr, a \in Alarms : Construct(c, x, a)
      PROVE  TurnInv'
  <2>1. \A a \in Alarms : pc'[a] = pc[a] /\ this'[a] = this[a] /\ loc'[a] = loc[a]
    BY <1>0, <1>2, ThreadAssumption
    DEF TypeOK, Proc, Goto, ConnStep, Start, Stop, Request, StartLock, Lock,
        StartMaxUser, StartAlready, StartAbsent, ConstructFails, Register, StopLock,
        StopAbsent, StopPresent, CleanUp, Post, Delete, Unlock
  <2> QED
    BY <1>0, <2>1, TurnKept DEF TurnInv
<1>3. ASSUME NEW c \in Conns, NEW x \in Addr, NEW a \in Alarms, Construct(c, x, a)
      PROVE  TurnInv'
  <2>1. \A b \in Alarms : b # a => pc'[b] = pc[b] /\ this'[b] = this[b] /\ loc'[b] = loc[b]
    BY <1>0, <1>3, ThreadAssumption DEF TypeOK, Proc, Construct
  <2>2. pc'[a] = "boot"
    BY <1>0, <1>3 DEF TypeOK, Proc, Construct
  <2> QED
    BY <1>0, <2>1, <2>2, TurnKept DEF TurnInv, Turn, TurnPc
<1>4. ASSUME NEW a \in Alarms, AlarmStep(a) PROVE TurnInv'
  <2>1. \A b \in Alarms : b # a => Turn(b)'
    <3>1. \A b \in Alarms : b # a => pc'[b] = pc[b] /\ this'[b] = this[b] /\ loc'[b] = loc[b]
      BY <1>0, <1>4, ThreadAssumption
      DEF TypeOK, Proc, Goto, AlarmStep, Ring, Stop, StopLock, Lock,
          StopAbsent, StopPresent, CleanUp, Post, Delete, Unlock, Boot, StartAlarm,
          InsertAlarm, WaitTime, Finished, Woken, Timeout, ExitSeen, Continue,
          GetMessages, InsertMessage, PushMessage
    <3> QED
      BY <1>0, <3>1, TurnKept
  <2>2. ASSUME Stop(a) \/ Unlock(a) PROVE Turn(a)'
    <3>1. pc'[a] \notin ActivePc
      BY <1>0, <2>2, ThreadAssumption
      DEF TypeOK, Proc, Goto, Stop, StopLock, Lock, StopAbsent, StopPresent, CleanUp,
          Post, Delete, Unlock, ActivePc
    <3> QED
      BY <3>1 DEF Turn, TurnPc, ActivePc
  <2>3. ASSUME Boot(a) PROVE Turn(a)'
    <3>1. this[a] \in Addr /\ this'[a] = this[a] /\ obj' = obj /\ pc'[a] = "startAlarm"
      BY <1>0, <2>3 DEF Boot, TypeOK, Goto, Proc, IInv, WorkInv, ActivePc
    <3>2. ~Freed(a) => loc'[a].nmsg = obj[this[a]].nmsg
      BY <1>0, <2>3 DEF Boot, TypeOK
    <3> QED
      BY <3>1, <3>2 DEF Turn, TurnPc, Own, Freed
  <2>4. ASSUME StartAlarm(a) \/ InsertAlarm(a) \/ WaitTime(a) \/ Finished(a) \/ Woken(a)
               \/ Timeout(a) \/ ExitSeen(a) \/ GetMessages(a) \/ InsertMessage(a)
        PROVE  Turn(a)'
    <3>1. /\ pc[a] \in ActivePc \ {"boot"} /\ pc'[a] # "boot"
          /\ this' = this /\ loc' = loc
      BY <1>0, <2>4
      DEF TypeOK, Proc, Goto, StartAlarm, InsertAlarm, WaitTime, Finished, Woken, Timeout,
          ExitSeen, GetMessages, InsertMessage, ActivePc
    <3>2. pc'[a] \in TurnPc => WaitTime(a) \/ pc[a] \in TurnPc
      BY <1>0, <2>4
      DEF TypeOK, Proc, Goto, StartAlarm, InsertAlarm, Finished, Woken, Timeout,
          ExitSeen, GetMessages, InsertMessage, TurnPc
    <3>3. pc'[a] \in TurnPc => loc[a].idx < loc[a].rep
      BY <3>2 DEF TurnInv, Turn, WaitTime
    <3> QED
      BY <1>0, <3>1, <3>3, TurnMoves
  <2>5. ASSUME Continue(a) PROVE Turn(a)'
    <3>1. pc[a] = "woken" /\ pc'[a] \in {"getMessages", "insertMessage"} /\ this' = this
      BY <1>0, <2>5 DEF TypeOK, Proc, Goto, Continue
    <3>2. loc[a] \in Locals /\ (loc' = loc \/ loc' = [loc EXCEPT ![a].just = TRUE])
      BY <2>5 DEF Continue, IInv, WorkInv, ActivePc
    <3>3. /\ loc'[a].nmsg = loc[a].nmsg /\ loc'[a].idx = loc[a].idx
          /\ loc'[a].rep = loc[a].rep
      BY <1>0, <3>2 DEF TypeOK, Locals
    <3> QED
      BY <1>0, <3>1, <3>3, TurnMoves DEF TurnInv, Turn, TurnPc, ActivePc
  <2>6. ASSUME PushMessage(a) PROVE Turn(a)'
    <3>1. pc[a] = "push" /\ pc'[a] = "loop" /\ this' = this /\ obj' = obj
      BY <1>0, <2>6 DEF TypeOK, Proc, Goto, PushMessage
    <3>2. loc[a] \in Locals /\ loc' = [loc EXCEPT ![a].idx = @ + 1]
      BY <2>6 DEF PushMessage, IInv, WorkInv, ActivePc
    <3>3. loc'[a].nmsg = loc[a].nmsg
      BY <1>0, <3>2 DEF TypeOK, Locals
    <3> QED
      BY <3>1, <3>3 DEF TurnInv, Turn, TurnPc, ActivePc, Own
  <2> QED
    BY <1>4, <2>1, <2>2, <2>3, <2>4, <2>5, <2>6 DEF AlarmStep, Ring, TurnInv
<1> QED
  BY <1>1, <1>2, <1>3, <1>4 DEF Next

\* Whatever the clients send, a thread that pushes from its own object reads one of
\* that object's messages, unless the alarm repeats more often than it has messages.
OwnInRange ==
  \A a \in Alarms : ReadsMessage(a) /\ Own(a, this[a]) /\ loc[a].rep <= loc[a].nmsg
                     => InRange(a)

LEMMA TurnInRange == IInv /\ TurnInv => OwnInRange
<1> SUFFICES ASSUME IInv, TurnInv, NEW a \in Alarms, ReadsMessage(a),
                    Own(a, this[a]), loc[a].rep <= loc[a].nmsg
             PROVE  loc[a].idx < obj[this[a]].nmsg
  BY DEF OwnInRange, InRange
<1>1. pc[a] = "push" /\ loc[a] \in Locals
  BY DEF ReadsMessage, IInv, WorkInv, ActivePc
<1>2. loc[a].idx \in Nat /\ loc[a].rep \in Nat /\ loc[a].nmsg \in Nat
  BY <1>1, NumberAssumption DEF Locals
<1>3. loc[a].idx < loc[a].rep /\ loc[a].nmsg = obj[this[a]].nmsg
  BY <1>1 DEF TurnInv, Turn, TurnPc, ActivePc
<1> QED
  BY <1>2, <1>3

LEMMA TurnInductive == Spec => []TurnInv
<1>1. Init => TurnInv
  BY ThreadAssumption DEF Init, TurnInv, Turn, TurnPc, ActivePc, Proc
<1> QED
  BY <1>1, TurnStep, Inductive, PTL DEF Spec

\* Whatever the clients send, a push from the thread's own object stays within the
\* alarm's messages, as long as the alarm does not repeat more often than it has
\* messages (NotifyMessage.cc:326, 371).
THEOREM OwnPushInRange == Spec => []OwnInRange
BY TurnInRange, TurnInductive, Inductive, PTL

-----------------------------------------------------------------------------
(***************************************************************************)
(* Refinement: each step of NotifyService is a step of AlarmRegistry or a  *)
(* stutter.  A request takes effect when its thread registers, deletes, or *)
(* finds that there is nothing to do.                                      *)
(***************************************************************************)
\* A step of an alarm thread that leaves the map alone is invisible.
LEMMA AlarmStutters ==
  ASSUME TypeOK, NEW a \in Alarms, UNCHANGED <<handle, ret>>,
         \A q \in Proc : q # a => pc'[q] = pc[q] /\ id'[q] = id[q]
  PROVE  UNCHANGED Registry!vars
<1>1. Registered' = Registered
  BY DEF Registered
<1>2. \A c \in Conns : pc'[c] = pc[c] /\ id'[c] = id[c]
  BY ThreadAssumption DEF Proc
<1>3. Phase' = Phase /\ User' = User
  BY <1>2 DEF Phase, User
<1> QED
  BY <1>1, <1>3 DEF Registry!vars, User

\* A step of a connection thread shows as a change of its phase, user and answer.
LEMMA ConnMoves ==
  ASSUME TypeOK, NEW c \in Conns, NEW l \in ConnPc, NEW w,
         pc'[c] = l, id'[c] = w,
         \A q \in Conns : q # c => pc'[q] = pc[q] /\ id'[q] = id[q]
  PROVE  /\ Phase' = [Phase EXCEPT ![c] = PhaseAt(l)]
         /\ User' = [User EXCEPT ![c] = w]
BY DEF Phase, User

\* The phase that each place in the code shows to the client.
LEMMA PhaseValues ==
  /\ PhaseAt("idle") = "idle" /\ PhaseAt("unlock") = "done"
  /\ \A l \in StartPc : PhaseAt(l) = "start"
  /\ \A l \in StopPc : PhaseAt(l) = "stop"
BY DEF PhaseAt, StartPc, StopPc

\* A step of a connection thread within a request is invisible.
LEMMA ConnStutters ==
  ASSUME TypeOK, NEW c \in Conns, NEW l \in ConnPc, pc'[c] = l,
         \/ pc[c] \in StartPc /\ l \in StartPc
         \/ pc[c] \in StopPc /\ l \in StopPc,
         UNCHANGED <<handle, id, ret>>,
         \A q \in Conns : q # c => pc'[q] = pc[q]
  PROVE  UNCHANGED Registry!vars
<1>1. PhaseAt(pc'[c]) = PhaseAt(pc[c])
  BY PhaseValues
<1>2. Phase' = Phase
  BY <1>1 DEF Phase
<1>3. Registered' = Registered /\ User' = User
  BY DEF Registered, User
<1> QED
  BY <1>2, <1>3 DEF Registry!vars

\* FiniteSets reaches NotifyService directly and through AlarmRegistry.
LEMMA SameCardinality == \A S : Registry!Cardinality(S) = Cardinality(S)
BY DEF Cardinality, Registry!Cardinality

\* The service starts as an empty registry.
LEMMA RefinementInit == Init => Registry!Init
<1> SUFFICES ASSUME Init PROVE Registry!Init
  OBVIOUS
<1>1. Registered = {}
  BY NoneAssumption DEF Init, Registered
<1>2. Phase = [c \in Conns |-> "idle"] /\ User = [c \in Conns |-> None]
  BY PhaseValues DEF Init, Phase, User, Proc
<1> QED
  BY <1>1, <1>2 DEF Init, Registry!Init

\* Every step is one step of the registry or leaves it as it is.
LEMMA RefinementStep == IInv /\ [Next]_vars => [Registry!Next]_(Registry!vars)
<1> SUFFICES ASSUME IInv, [Next]_vars PROVE [Registry!Next]_(Registry!vars)
  OBVIOUS
<1>0. TypeOK /\ RegistryInv /\ LookupInv /\ LockInv /\ WorkInv
  BY DEF IInv
<1>a. \A c \in Conns : Phase[c] = PhaseAt(pc[c]) /\ User[c] = id[c]
  BY DEF Phase, User
<1>b. \A c \in Conns : c \in Proc /\ c \notin Alarms
  BY ThreadAssumption DEF Proc
<1>c. \A a \in Alarms : a \in Proc
  BY DEF Proc
<1> USE <1>0, <1>a, <1>b, <1>c
<1>1. CASE UNCHANGED vars
  BY <1>1 DEF vars, Registry!vars, Registered, Phase, User
<1>2. ASSUME NEW c \in Conns, NEW u \in Users, Request(c, u)
      PROVE  Registry!Ask(c, "start", u) \/ Registry!Ask(c, "stop", u)
  <2>1. PICK l \in {"startLock", "stopLock"} : Goto(c, l)
    BY <1>2 DEF Request
  <2>2. /\ Phase' = [Phase EXCEPT ![c] = PhaseAt(l)]
        /\ User' = [User EXCEPT ![c] = u]
    BY <1>2, <2>1, ConnMoves DEF Request, Goto, TypeOK, ConnPc, StartPc, StopPc
  <2>3. Registered' = Registered /\ Phase[c] = "idle"
    BY <1>2, PhaseValues DEF Request, Registered
  <2>4. PhaseAt("startLock") = "start" /\ PhaseAt("stopLock") = "stop"
    BY PhaseValues DEF StartPc, StopPc
  <2> QED
    BY <1>2, <2>2, <2>3, <2>4 DEF Request, Registry!Ask
<1>3. ASSUME NEW c \in Conns, StartLock(c) PROVE UNCHANGED Registry!vars
  BY <1>3, ConnStutters DEF StartLock, Lock, Goto, TypeOK, StartPc, ConnPc
<1>4. ASSUME NEW c \in Conns, StartMaxUser(c) PROVE Registry!Refused(c)
  <2>1. /\ Phase' = [Phase EXCEPT ![c] = PhaseAt("idle")]
        /\ User' = [User EXCEPT ![c] = None]
    BY <1>4, ConnMoves DEF StartMaxUser, Goto, TypeOK, ConnPc
  <2>2. Registered' = Registered /\ Phase[c] = "start"
    BY <1>4, PhaseValues DEF StartMaxUser, Registered, StartPc
  <2>3. Entries = Registered
    BY <1>4, NoNull DEF StartMaxUser
  <2> QED
    BY <1>4, <2>1, <2>2, <2>3, PhaseValues, SameCardinality
    DEF StartMaxUser, Registry!Refused
<1>5. ASSUME NEW c \in Conns, StartAlready(c) PROVE Registry!AlreadyStarted(c)
  <2>1. /\ Phase' = [Phase EXCEPT ![c] = PhaseAt("unlock")]
        /\ User' = [User EXCEPT ![c] = id[c]]
    BY <1>5, ConnMoves DEF StartAlready, Goto, TypeOK, ConnPc
  <2>2. Registered' = Registered /\ Phase[c] = "start"
        /\ Entries = Registered /\ User[c] \in Registered
    BY <1>5, NoNull, PhaseValues DEF StartAlready, Registered, StartPc, WorkInv
  <2>3. User' = User
    BY <2>1 DEF User
  <2> QED
    BY <1>5, <2>1, <2>2, <2>3, PhaseValues, SameCardinality
    DEF StartAlready, Registry!AlreadyStarted, Registry!Serve
<1>6. ASSUME NEW c \in Conns, StartAbsent(c) PROVE UNCHANGED Registry!vars
  <2>1. /\ Phase' = [Phase EXCEPT ![c] = PhaseAt("create")]
        /\ User' = [User EXCEPT ![c] = id[c]]
    BY <1>6, ConnMoves DEF StartAbsent, Goto, TypeOK, ConnPc, StartPc
  <2>2. PhaseAt("create") = Phase[c]
    BY <1>6, PhaseValues DEF StartAbsent, StartPc
  <2>3. Phase' = Phase /\ User' = User
    BY <2>1, <2>2 DEF Phase, User
  <2> QED
    BY <1>6, <2>3, AbsentRegistered DEF StartAbsent, Registry!vars
<1>7. ASSUME NEW c \in Conns, NEW x \in Addr, NEW a \in Alarms, Construct(c, x, a)
      PROVE  UNCHANGED Registry!vars
  BY <1>7, ConnStutters DEF Construct, TypeOK, StartPc, ConnPc
<1>8. ASSUME NEW c \in Conns, ConstructFails(c) PROVE Registry!NoResources(c)
  <2>1. /\ Phase' = [Phase EXCEPT ![c] = PhaseAt("unlock")]
        /\ User' = [User EXCEPT ![c] = id[c]]
    BY <1>8, ConnMoves DEF ConstructFails, Goto, TypeOK, ConnPc
  <2>2. handle[id[c]] \notin Addr
    BY <1>8 DEF ConstructFails, LookupInv
  <2>3. Registered' = Registered /\ Phase[c] = "start" /\ User[c] \notin Registered
    BY <1>8, <2>2, AbsentRegistered, PhaseValues DEF ConstructFails, Registered, StartPc
  <2>4. User' = User
    BY <2>1 DEF User
  <2> QED
    BY <1>8, <2>1, <2>3, <2>4, PhaseValues
    DEF ConstructFails, Registry!NoResources, Registry!Serve
<1>9. ASSUME NEW c \in Conns, Register(c) PROVE Registry!Started(c)
  <2>1. /\ Phase' = [Phase EXCEPT ![c] = PhaseAt("unlock")]
        /\ User' = [User EXCEPT ![c] = id[c]]
    BY <1>9, ConnMoves DEF Register, Goto, TypeOK, ConnPc
  <2>2. handle[id[c]] \notin Addr /\ this[c] \in Addr /\ id[c] \in Users
    BY <1>9 DEF Register, LookupInv, WorkInv, StartPc
  <2>3. Registered' = Registered \cup {id[c]} /\ User[c] \notin Registered
    BY <1>9, <2>2 DEF Register, Registered, TypeOK
  <2>5. Registered = Entries \ {id[c]} /\ Cardinality(Entries \ {id[c]}) <= MaxUsers
    <3>1. \A u \in Users : u # id[c] => handle[u] # Null
      <4>1. \A d \in Conns : pc[d] \in {"create", "register"} => d = c
        BY <1>9, OneHolder DEF Register, CriticalPc
      <4> QED
        BY <4>1 DEF RegistryInv, NullInv
    <3>2. \A u \in Users : u # id[c] => (handle[u] # None <=> handle[u] \in Addr)
      BY <3>1, NoneAssumption DEF TypeOK
    <3>3. Cardinality(Entries \ {id[c]}) <= MaxUsers
      BY <1>9 DEF Register, LookupInv
    <3> QED
      BY <2>2, <3>2, <3>3 DEF Entries, Registered
  <2>4. User' = User /\ Phase[c] = "start"
    BY <1>9, <2>1, PhaseValues DEF User, Register, StartPc
  <2> QED
    BY <1>9, <2>1, <2>2, <2>3, <2>4, <2>5, PhaseValues, SameCardinality
    DEF Register, Registry!Started, Registry!Serve
<1>10. ASSUME NEW p \in Proc, StopLock(p) PROVE UNCHANGED Registry!vars
  <2>1. CASE p \in Alarms
    BY <1>10, <2>1, AlarmStutters DEF StopLock, Lock, Goto, TypeOK
  <2>2. CASE p \in Conns
    BY <1>10, <2>2, ConnStutters DEF StopLock, Lock, Goto, TypeOK, StopPc, ConnPc
  <2> QED
    BY <2>1, <2>2 DEF Proc
<1>11. ASSUME NEW a \in Alarms, StopAbsent(a) PROVE UNCHANGED Registry!vars
  BY <1>11, AlarmStutters DEF StopAbsent, Goto, TypeOK
<1>12. ASSUME NEW c \in Conns, StopAbsent(c) PROVE Registry!Stopped(c)
  <2>1. /\ Phase' = [Phase EXCEPT ![c] = PhaseAt("unlock")]
        /\ User' = [User EXCEPT ![c] = id[c]]
    BY <1>12, ConnMoves DEF StopAbsent, Goto, TypeOK, ConnPc
  <2>2. Registered' = Registered /\ id[c] \notin Registered /\ Phase[c] = "stop"
    BY <1>12, PhaseValues, NoneAssumption DEF StopAbsent, Registered, StopPc
  <2>3. User' = User
    BY <2>1 DEF User
  <2> QED
    BY <1>12, <2>1, <2>2, <2>3, PhaseValues DEF StopAbsent, Registry!Stopped
<1>13. ASSUME NEW p \in Proc, StopPresent(p) \/ CleanUp(p) \/ Post(p)
       PROVE  UNCHANGED Registry!vars
  <2>1. CASE p \in Alarms
    BY <1>13, <2>1, AlarmStutters DEF StopPresent, CleanUp, Post, Goto, TypeOK
  <2>2. CASE p \in Conns
    <3>1. PICK l \in StopPc : Goto(p, l)
      BY <1>13 DEF StopPresent, CleanUp, Post, StopPc
    <3> QED
      BY <1>13, <2>2, <3>1, ConnStutters
      DEF StopPresent, CleanUp, Post, Goto, TypeOK, StopPc, ConnPc
  <2> QED
    BY <2>1, <2>2 DEF Proc
<1>14. ASSUME NEW p \in Proc, Delete(p)
       PROVE  /\ Registered' = Registered \ {id[p]} /\ id[p] \in Registered
              /\ id[p] \in Users
  <2>1. id[p] \in Users /\ id[p] \in Registered
    BY <1>14, HolderSees DEF Delete
  <2> QED
    BY <1>14, <2>1, NoneAssumption DEF Delete, Registered, TypeOK
<1>15. ASSUME NEW a \in Alarms, Delete(a) PROVE \E u \in Users : Registry!Expire(u)
  <2>1. \A c \in Conns : pc'[c] = pc[c] /\ id'[c] = id[c]
    BY <1>15 DEF Delete, Goto, TypeOK
  <2>2. Phase' = Phase /\ User' = User
    BY <2>1 DEF Phase, User
  <2> QED
    BY <1>14, <1>15, <2>2 DEF Delete, Registry!Expire
<1>16. ASSUME NEW c \in Conns, Delete(c) PROVE Registry!Stopped(c)
  <2>1. /\ Phase' = [Phase EXCEPT ![c] = PhaseAt("unlock")]
        /\ User' = [User EXCEPT ![c] = id[c]]
    BY <1>16, ConnMoves DEF Delete, Goto, TypeOK, ConnPc
  <2>2. User' = User /\ Phase[c] = "stop"
    BY <1>16, <2>1, PhaseValues DEF User, Delete, StopPc
  <2> QED
    BY <1>14, <1>16, <2>1, <2>2, PhaseValues DEF Delete, Registry!Stopped
<1>17. ASSUME NEW a \in Alarms, Unlock(a) PROVE UNCHANGED Registry!vars
  BY <1>17, AlarmStutters DEF Unlock, Goto, TypeOK
<1>18. ASSUME NEW c \in Conns, Unlock(c) PROVE Registry!Collect(c)
  <2>1. /\ Phase' = [Phase EXCEPT ![c] = PhaseAt("idle")]
        /\ User' = [User EXCEPT ![c] = None]
    BY <1>18, ConnMoves DEF Unlock, Goto, TypeOK, ConnPc
  <2>2. Phase[c] = "done" /\ Registered' = Registered
    BY <1>18, PhaseValues DEF Unlock, Registered
  <2> QED
    BY <1>18, <2>1, <2>2, PhaseValues DEF Unlock, Registry!Collect
<1>19. ASSUME NEW a \in Alarms, Boot(a) \/ StartAlarm(a) \/ InsertAlarm(a)
       PROVE  UNCHANGED Registry!vars
  BY <1>19, AlarmStutters DEF Boot, StartAlarm, InsertAlarm, Goto, TypeOK
<1>20. ASSUME NEW a \in Alarms, WaitTime(a) \/ Finished(a) \/ Woken(a) \/ Timeout(a)
       PROVE  UNCHANGED Registry!vars
  BY <1>20, AlarmStutters DEF WaitTime, Finished, Woken, Timeout, Goto, TypeOK
<1>21. ASSUME NEW a \in Alarms, ExitSeen(a) \/ Continue(a) PROVE UNCHANGED Registry!vars
  BY <1>21, AlarmStutters DEF ExitSeen, Continue, Goto, TypeOK
<1>22. ASSUME NEW a \in Alarms, GetMessages(a) \/ InsertMessage(a) \/ PushMessage(a)
       PROVE  UNCHANGED Registry!vars
  BY <1>22, AlarmStutters DEF GetMessages, InsertMessage, PushMessage, Goto, TypeOK
<1> QED
  <2>1. ASSUME Next PROVE Registry!Next \/ UNCHANGED Registry!vars
    <3>1. ASSUME NEW c \in Conns, ConnStep(c) \/ \E u \in Users : Request(c, u)
          PROVE  Registry!Next \/ UNCHANGED Registry!vars
      BY <3>1, <1>2, <1>3, <1>4, <1>5, <1>6, <1>7, <1>8, <1>9, <1>10, <1>12, <1>13,
         <1>16, <1>18
      DEF ConnStep, Start, Stop, Registry!Next
    <3>2. ASSUME NEW a \in Alarms, AlarmStep(a)
          PROVE  Registry!Next \/ UNCHANGED Registry!vars
      BY <3>2, <1>10, <1>11, <1>13, <1>15, <1>17, <1>19, <1>20, <1>21, <1>22
      DEF AlarmStep, Ring, Stop, Registry!Next
    <3> QED
      BY <2>1, <3>1, <3>2 DEF Next
  <2> QED
    BY <1>1, <2>1

\* For any number of users, connections, alarms and addresses, what the connections
\* see of StartNotification, StopNotification and the alarm threads is AlarmRegistry.
THEOREM Refinement == Spec => ImplementsRegistry
BY RefinementInit, RefinementStep, Inductive, PTL
DEF Spec, ImplementsRegistry, Registry!Spec

=============================================================================
