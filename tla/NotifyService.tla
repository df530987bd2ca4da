--------------------------- MODULE NotifyService ---------------------------
(***************************************************************************)
(* Alarms of the notification server: StartNotification and                *)
(* StopNotification (server.cc) called by connection threads, and one      *)
(* thread per alarm (thread_start, NotifyMessage.cc) that waits, pushes    *)
(* messages and finally stops its own alarm.  Shared between the threads   *)
(* are the map of alarms, the mutex LOCK_SetupNoti that guards the map,    *)
(* and the NotifyMessage objects, which no mutex guards.                   *)
(*                                                                         *)
(* One action is the code between two points where another thread can      *)
(* see or change something: a lock or unlock, an access to a NotifyMessage *)
(* object, a wait.  The heap is modelled, because alarm threads keep a raw *)
(* pointer to their object: an address that was deleted holds None, a read *)
(* through it yields any value, a write through it is lost, and the next   *)
(* alarm may be allocated at the same address.                             *)
(***************************************************************************)
EXTENDS Naturals, FiniteSets

CONSTANTS Users,     \* user indexes
          Conns,     \* connection threads
          Alarms,    \* the alarm threads the system is able to run at a time
          Addr,      \* heap addresses of NotifyMessage objects
          None,
          Null,      \* the null pointer
          MaxUsers,  \* USER_USE_START_NUMBER
          Repeats,   \* the repeat counts a start request may carry
          Counts,    \* the numbers of messages it may carry
          Requests   \* the kinds of requests the clients send

ASSUME ThreadAssumption == Conns \cap Alarms = {}
ASSUME FiniteAssumption == IsFiniteSet(Users)
ASSUME NumberAssumption == MaxUsers \in Nat /\ Repeats \subseteq Nat /\ Counts \subseteq Nat
ASSUME RequestAssumption == Requests \subseteq {"start", "stop"}

Proc == Conns \cup Alarms

VARIABLES
  lock,    \* the thread that holds LOCK_SetupNoti, or None
  handle,  \* mapNotifyMessageHandle: the alarm object of a user, Null, or None: no entry
  obj,     \* the heap: a NotifyMessage object, or None where nothing is allocated
  pc,      \* where each thread is
  id,      \* the user a thread works for (packet's userIndex; local id)
  this,    \* an alarm thread's argument; in StartNotification, the new object
  loc,     \* the other locals of an alarm thread
  ret      \* the status StartNotification returns to a connection

vars == <<lock, handle, obj, pc, id, this, loc, ret>>

(***************************************************************************)
(* A NotifyMessage: owner and parameters, mThreadExit, mFirstStarted, the  *)
(* semaphore's value, and the thread its constructor created.              *)
(***************************************************************************)
Object == [uid : Users, rep : Repeats, nmsg : Counts, exit : BOOLEAN,
           first : BOOLEAN, sem : Nat, thr : Alarms]

ASSUME NoneAssumption ==
  /\ None \notin Users \cup Conns \cup Alarms \cup Addr \cup Object
  /\ Null \notin Addr \cup {None}

\* numberrepeat, numberMessage, index and justOne of thread_start.
Locals == [rep : Repeats, nmsg : Counts, idx : Nat, just : BOOLEAN]

Status == {"ok", "already", "max_user"}

StartPc  == {"startLock", "lookup", "create", "register"}
StopPc   == {"stopLock", "stopLookup", "cleanup", "post", "delete"}
ConnPc   == {"idle", "unlock"} \cup StartPc \cup StopPc
\* Where an alarm thread still uses its object.
ActivePc == {"boot", "startAlarm", "insert", "loop", "wait", "woken",
             "getMessages", "insertMessage", "push"}
AlarmPc  == {"none", "unlock"} \cup ActivePc \cup StopPc
\* Between lock and unlock of LOCK_SetupNoti.
CriticalPc == {"lookup", "create", "register", "stopLookup", "cleanup",
               "post", "delete", "unlock"}

TypeOK == /\ lock   \in Proc \cup {None}
          /\ handle \in [Users -> Addr \cup {None, Null}]
          /\ obj    \in [Addr -> Object \cup {None}]
          /\ pc     \in [Proc -> ConnPc \cup AlarmPc]
          /\ \A c \in Conns : pc[c] \in ConnPc
          /\ \A a \in Alarms : pc[a] \in AlarmPc
          /\ id     \in [Proc -> Users \cup {None}]
          /\ this   \in [Proc -> Addr \cup {None}]
          /\ loc    \in [Alarms -> Locals \cup {None}]
          /\ ret    \in [Conns -> Status]

\* What size() counts, and the users that have an alarm.
Entries    == {u \in Users : handle[u] # None}
Registered == {u \in Users : handle[u] \in Addr}

Goto(p, l) == pc' = [pc EXCEPT ![p] = l]

Lock(p, from, to) == /\ pc[p] = from
                     /\ lock = None
                     /\ lock' = p
                     /\ Goto(p, to)
                     /\ UNCHANGED <<handle, obj, id, this, loc, ret>>

Init == /\ lock = None
        /\ handle = [u \in Users |-> None]
        /\ obj = [x \in Addr |-> None]
        /\ pc = [p \in Proc |-> IF p \in Conns THEN "idle" ELSE "none"]
        /\ id = [p \in Proc |-> None]
        /\ this = [p \in Proc |-> None]
        /\ loc = [a \in Alarms |-> None]
        /\ ret = [c \in Conns |-> "ok"]

-----------------------------------------------------------------------------
(***************************************************************************)
(* Faulty variants of the actions below.  No specification uses them; each *)
(* breaks one property and so shows that the property depends on the code. *)
(***************************************************************************)

\* StopNotification without the mutex.
StopLockFree(p) == /\ pc[p] = "stopLock"
                   /\ Goto(p, "stopLookup")
                   /\ UNCHANGED <<lock, handle, obj, id, this, loc, ret>>

\* StopNotification returning early with the mutex locked.
StopAbsentKeepsLock(p) == /\ pc[p] = "stopLookup"
                          /\ handle[id[p]] = None
                          /\ Goto(p, IF p \in Conns THEN "idle" ELSE "none")
                          /\ UNCHANGED <<lock, handle, obj, id, this, loc, ret>>

\* StartNotification without the check of the map's size.
StartWithoutLimit(c) == /\ pc[c] = "lookup"
                        /\ handle[id[c]] = None
                        /\ \E e \in {None, Null} : handle' = [handle EXCEPT ![id[c]] = e]
                        /\ Goto(c, "create")
                        /\ UNCHANGED <<lock, obj, id, this, loc, ret>>

\* StartNotification without the erase of its handler.
ConstructFailsKeepsEntry(c) == /\ pc[c] = "create"
                               /\ ret' = [ret EXCEPT ![c] = "max_user"]
                               /\ Goto(c, "unlock")
                               /\ UNCHANGED <<lock, handle, obj, id, this, loc>>

\* CleanUp posting the semaphore before it orders the exit.
CleanUpPostsFirst(p) == /\ pc[p] = "cleanup"
                        /\ obj' = [obj EXCEPT ![handle[id[p]]].sem = @ + 1]
                        /\ Goto(p, "post")
                        /\ UNCHANGED <<lock, handle, id, this, loc, ret>>

\* delete without erase.
DeleteKeepsEntry(p) == /\ pc[p] = "delete"
                       /\ obj' = [obj EXCEPT ![handle[id[p]]] = None]
                       /\ Goto(p, "unlock")
                       /\ UNCHANGED <<lock, handle, id, this, loc, ret>>

\* thread_start returning without StopNotification.
FinishedSilently(a) == /\ pc[a] = "loop"
                       /\ loc[a].idx >= loc[a].rep
                       /\ Goto(a, "none")
                       /\ UNCHANGED <<lock, handle, obj, id, this, loc, ret>>

\* A timeout that takes a post as well.
TimeoutTakesPost(a) == /\ pc[a] = "wait"
                       /\ obj[this[a]] # None
                       /\ obj' = [obj EXCEPT ![this[a]].sem = @ - 1]
                       /\ Goto(a, "woken")
                       /\ UNCHANGED <<lock, handle, id, this, loc, ret>>

-----------------------------------------------------------------------------
(* dispatch_command: a start or stop request reaches a connection thread,   *)
(* and server_status is cleared.  StopNotification leaves it so.            *)

Request(c, u) == /\ pc[c] = "idle"
                 /\ \/ "start" \in Requests /\ Goto(c, "startLock")
                    \/ "stop" \in Requests /\ Goto(c, "stopLock")
                 /\ id' = [id EXCEPT ![c] = u]
                 /\ ret' = [ret EXCEPT ![c] = "ok"]
                 /\ UNCHANGED <<lock, handle, obj, this, loc>>

-----------------------------------------------------------------------------
(* StartNotification *)

StartLock(c) == Lock(c, "startLock", "lookup")

\* Too many users: returns at once, and leaves LOCK_SetupNoti locked.
StartMaxUser(c) == /\ pc[c] = "lookup"
                   /\ Cardinality(Entries) > MaxUsers
                   /\ Goto(c, "idle")
                   /\ id' = [id EXCEPT ![c] = None]
                   /\ ret' = [ret EXCEPT ![c] = "max_user"]
                   /\ UNCHANGED <<lock, handle, obj, this, loc>>

StartAlready(c) == /\ pc[c] = "lookup"
                   /\ Cardinality(Entries) <= MaxUsers
                   /\ handle[id[c]] # None
                   /\ Goto(c, "unlock")
                   /\ ret' = [ret EXCEPT ![c] = "already"]
                   /\ UNCHANGED <<lock, handle, obj, id, this, loc>>

\* C++ leaves open whether the subscript of the map makes its entry, a null
\* pointer, before the constructor runs or after.
StartAbsent(c) == /\ pc[c] = "lookup"
                  /\ Cardinality(Entries) <= MaxUsers
                  /\ handle[id[c]] = None
                  /\ \E e \in {None, Null} : handle' = [handle EXCEPT ![id[c]] = e]
                  /\ Goto(c, "create")
                  /\ UNCHANGED <<lock, obj, id, this, loc, ret>>

\* The constructor: a fresh object at x, and its thread a, which may run before
\* the object is in the map.
Construct(c, x, a) ==
  /\ pc[c] = "create"
  /\ obj[x] = None
  /\ pc[a] = "none"
  /\ \E r \in Repeats, n \in Counts :
       obj' = [obj EXCEPT ![x] = [uid |-> id[c], rep |-> r, nmsg |-> n, exit |-> FALSE,
                                  first |-> TRUE, sem |-> 0, thr |-> a]]
  /\ pc' = [pc EXCEPT ![c] = "register", ![a] = "boot"]
  /\ this' = [this EXCEPT ![c] = x, ![a] = x]
  /\ UNCHANGED <<lock, handle, id, loc, ret>>

\* sem_init or pthread_create fails: the constructor throws, and the handler
\* erases the entry the subscript may have made.
ConstructFails(c) == /\ pc[c] = "create"
                     /\ handle' = [handle EXCEPT ![id[c]] = None]
                     /\ ret' = [ret EXCEPT ![c] = "max_user"]
                     /\ Goto(c, "unlock")
                     /\ UNCHANGED <<lock, obj, id, this, loc>>

Register(c) == /\ pc[c] = "register"
               /\ handle' = [handle EXCEPT ![id[c]] = this[c]]
               /\ this' = [this EXCEPT ![c] = None]
               /\ ret' = [ret EXCEPT ![c] = "ok"]
               /\ Goto(c, "unlock")
               /\ UNCHANGED <<lock, obj, id, loc>>

-----------------------------------------------------------------------------
(* StopNotification, called by connection threads and by ending alarms.    *)

StopLock(p) == Lock(p, "stopLock", "stopLookup")

StopAbsent(p) == /\ pc[p] = "stopLookup"
                 /\ handle[id[p]] = None
                 /\ Goto(p, "unlock")
                 /\ UNCHANGED <<lock, handle, obj, id, this, loc, ret>>

StopPresent(p) == /\ pc[p] = "stopLookup"
                  /\ handle[id[p]] # None
                  /\ Goto(p, "cleanup")
                  /\ UNCHANGED <<lock, handle, obj, id, this, loc, ret>>

\* CleanUp sets mThreadExit, then posts the semaphore.
CleanUp(p) == /\ pc[p] = "cleanup"
              /\ obj' = [obj EXCEPT ![handle[id[p]]].exit = TRUE]
              /\ Goto(p, "post")
              /\ UNCHANGED <<lock, handle, id, this, loc, ret>>

Post(p) == /\ pc[p] = "post"
           /\ obj' = [obj EXCEPT ![handle[id[p]]].sem = @ + 1]
           /\ Goto(p, "delete")
           /\ UNCHANGED <<lock, handle, id, this, loc, ret>>

\* The destructor, the release of the memory and the erasure from the map.
Delete(p) == /\ pc[p] = "delete"
             /\ obj' = [obj EXCEPT ![handle[id[p]]] = None]
             /\ handle' = [handle EXCEPT ![id[p]] = None]
             /\ Goto(p, "unlock")
             /\ UNCHANGED <<lock, id, this, loc, ret>>

\* A connection is ready for its next command; an alarm thread exits.
Unlock(p) == /\ pc[p] = "unlock"
             /\ lock' = None
             /\ Goto(p, IF p \in Conns THEN "idle" ELSE "none")
             /\ id' = [id EXCEPT ![p] = None]
             /\ this' = [this EXCEPT ![p] = None]
             /\ loc' = IF p \in Alarms THEN [loc EXCEPT ![p] = None] ELSE loc
             /\ UNCHANGED <<handle, obj, ret>>

-----------------------------------------------------------------------------
(* thread_start.  Every access goes through the pointer this[a].           *)

Freed(a) == obj[this[a]] = None

\* What a read of mThreadExit and of mNumberMessage may return.
SeenExit(a) == IF Freed(a) THEN BOOLEAN ELSE {obj[this[a]].exit}
SeenCount(a) == IF Freed(a) THEN Counts ELSE {obj[this[a]].nmsg}

\* Copies the repeat count, the user and the number of messages.
Boot(a) == /\ pc[a] = "boot"
           /\ \E o \in (IF Freed(a) THEN [uid : Users, rep : Repeats, nmsg : Counts]
                                    ELSE {obj[this[a]]}) :
                /\ loc' = [loc EXCEPT ![a] = [rep |-> o.rep, nmsg |-> o.nmsg,
                                              idx |-> 0, just |-> FALSE]]
                /\ id' = [id EXCEPT ![a] = o.uid]
           /\ Goto(a, "startAlarm")
           /\ UNCHANGED <<lock, handle, obj, this, ret>>

\* MysqlDealTask(DB_TASK_START_ALARM): 1 when the alarm is being stopped, 0 when
\* the database refuses the connection, else the queries follow.
StartAlarm(a) == /\ pc[a] = "startAlarm"
                 /\ \/ TRUE \in SeenExit(a) /\ Goto(a, "loop")
                    \/ FALSE \in SeenExit(a) /\ \E l \in {"insert", "stopLock"} : Goto(a, l)
                 /\ UNCHANGED <<lock, handle, obj, id, this, loc, ret>>

\* Second look at mThreadExit, then the INSERT and the SELECT, which may fail.
InsertAlarm(a) == /\ pc[a] = "insert"
                  /\ \/ TRUE \in SeenExit(a) /\ Goto(a, "loop")
                     \/ FALSE \in SeenExit(a) /\ \E l \in {"loop", "stopLock"} : Goto(a, l)
                  /\ UNCHANGED <<lock, handle, obj, id, this, loc, ret>>

\* WaitTime: the first wait is the alarm's delay, the later ones its interval.
WaitTime(a) == /\ pc[a] = "loop"
               /\ loc[a].idx < loc[a].rep
               /\ obj' = IF Freed(a) THEN obj ELSE [obj EXCEPT ![this[a]].first = FALSE]
               /\ Goto(a, "wait")
               /\ UNCHANGED <<lock, handle, id, this, loc, ret>>

Finished(a) == /\ pc[a] = "loop"
               /\ loc[a].idx >= loc[a].rep
               /\ Goto(a, "stopLock")
               /\ UNCHANGED <<lock, handle, obj, id, this, loc, ret>>

\* sem_timedwait took a post.
Woken(a) == /\ pc[a] = "wait"
            /\ ~Freed(a) /\ obj[this[a]].sem > 0
            /\ obj' = [obj EXCEPT ![this[a]].sem = @ - 1]
            /\ Goto(a, "woken")
            /\ UNCHANGED <<lock, handle, id, this, loc, ret>>

\* Or it timed out, possibly while a post was arriving.
Timeout(a) == /\ pc[a] = "wait"
              /\ Goto(a, "woken")
              /\ UNCHANGED <<lock, handle, obj, id, this, loc, ret>>

ExitSeen(a) == /\ pc[a] = "woken"
               /\ TRUE \in SeenExit(a)
               /\ Goto(a, "stopLock")
               /\ UNCHANGED <<lock, handle, obj, id, this, loc, ret>>

\* When its own messages are used up, the thread asks for the public ones, once.
Continue(a) == /\ pc[a] = "woken"
               /\ FALSE \in SeenExit(a)
               /\ IF loc[a].idx >= loc[a].nmsg /\ ~loc[a].just
                  THEN /\ Goto(a, "getMessages")
                       /\ loc' = [loc EXCEPT ![a].just = TRUE]
                  ELSE /\ Goto(a, "insertMessage")
                       /\ UNCHANGED loc
               /\ UNCHANGED <<lock, handle, obj, id, this, ret>>

\* MysqlDealTask(DB_TASK_GET_MESSAGES): fails only when the connection does.
GetMessages(a) == /\ pc[a] = "getMessages"
                  /\ \/ Goto(a, "insertMessage")
                     \/ FALSE \in SeenExit(a) /\ Goto(a, "stopLock")
                  /\ UNCHANGED <<lock, handle, obj, id, this, loc, ret>>

\* MysqlDealTask(DB_TASK_INSERT_USER_MESSAGE) connects for the user's own
\* messages only.
InsertMessage(a) == /\ pc[a] = "insertMessage"
                    /\ \/ Goto(a, "push")
                       \/ /\ FALSE \in SeenExit(a)
                          /\ \E n \in SeenCount(a) : loc[a].idx < n
                          /\ Goto(a, "stopLock")
                    /\ UNCHANGED <<lock, handle, obj, id, this, loc, ret>>

\* PushMessage(index), and the loop's increment.
PushMessage(a) == /\ pc[a] = "push"
                  /\ loc' = [loc EXCEPT ![a].idx = @ + 1]
                  /\ Goto(a, "loop")
                  /\ UNCHANGED <<lock, handle, obj, id, this, ret>>

\* PushMessage reads mMessages[index] unless its guard returns first.
ReadsMessage(a) == /\ pc[a] = "push"
                   /\ ~Freed(a)
                   /\ obj[this[a]].nmsg # 0
                   /\ obj[this[a]].nmsg >= loc[a].idx

-----------------------------------------------------------------------------
Start(c) == \/ StartLock(c) \/ StartMaxUser(c) \/ StartAlready(c) \/ StartAbsent(c)
            \/ \E x \in Addr, a \in Alarms : Construct(c, x, a)
            \/ ConstructFails(c) \/ Register(c)

Stop(p) == \/ StopLock(p) \/ StopAbsent(p) \/ StopPresent(p)
           \/ CleanUp(p) \/ Post(p) \/ Delete(p)

Ring(a) == \/ Boot(a) \/ StartAlarm(a) \/ InsertAlarm(a)
           \/ WaitTime(a) \/ Finished(a) \/ Woken(a) \/ Timeout(a)
           \/ ExitSeen(a) \/ Continue(a)
           \/ GetMessages(a) \/ InsertMessage(a) \/ PushMessage(a)

ConnStep(c) == Start(c) \/ Stop(c) \/ Unlock(c)
AlarmStep(a) == Ring(a) \/ Stop(a) \/ Unlock(a)

Next == \/ \E c \in Conns : (\E u \in Users : Request(c, u)) \/ ConnStep(c)
        \/ \E a \in Alarms : AlarmStep(a)

Spec == Init /\ [][Next]_vars

\* Every thread that can run is scheduled, and waits time out.  Nothing makes a
\* client send a request.
Fairness == /\ \A c \in Conns : WF_vars(ConnStep(c))
            /\ \A a \in Alarms : WF_vars(AlarmStep(a))

FairSpec == Spec /\ Fairness
-----------------------------------------------------------------------------
(***************************************************************************)
(* Properties.                                                             *)
(***************************************************************************)

\* LOCK_SetupNoti makes StartNotification and StopNotification atomic: only its
\* holder is between lock and unlock (server.cc:714-724, 735-770).
LockInv == \A p \in Proc : pc[p] \in CriticalPc => lock = p

\* The map and the heap agree: every pointer in the map is a live object of its user,
\* no two users share one, and outside a critical section every live object
\* is in the map, so that a stop can find it.
MapHeapInv ==
  /\ \A u \in Registered : obj[handle[u]] # None /\ obj[handle[u]].uid = u
  /\ \A x \in Addr : obj[x] # None =>
       handle[obj[x].uid] = x \/ \E c \in Conns : pc[c] = "register" /\ this[c] = x

\* A null pointer is in the map only while StartNotification makes the alarm for it: a
\* start that fails leaves none that a later stop would call CleanUp through.
NullInv == \A u \in Users : handle[u] = Null =>
             \E c \in Conns : pc[c] \in {"create", "register"} /\ id[c] = u

\* What other threads find in the map is sound, whatever starts fail (server.cc:757).
RegistryInv == MapHeapInv /\ NullInv

\* The size check and the insertion are one critical section, so the map holds at
\* most one user more than USER_USE_START_NUMBER, however starts interleave.
CapacityBound == Cardinality(Entries) <= MaxUsers + 1

\* A post on the semaphore is never seen before the order to exit: a thread woken
\* by StopNotification cannot go on as if its wait had timed out (CleanUp).
WakeMeansStop == \A x \in Addr : obj[x] # None /\ obj[x].sem > 0 => obj[x].exit

\* Every alarm has its own thread, which has not ended and will stop it: an alarm
\* whose thread is gone would stay in the map until the server restarts.
ServedAlarm ==
  \A u \in Registered :
    LET a == obj[handle[u]].thr
    IN \/ pc[a] \in ActivePc /\ this[a] = handle[u]
       \/ pc[a] \in StopPc /\ id[a] = u

\* No alarm thread touches its object after the object was deleted, or after its
\* address went to the object of another thread (NotifyMessage.cc:202-203).
NoUseAfterFree == \A a \in Alarms : pc[a] \in ActivePc =>
                    obj[this[a]] # None /\ obj[this[a]].thr = a

\* An alarm ends because a client asked for it or because its own thread is done:
\* the thread of one alarm never stops another one.
EndsByOwner ==
  [][\A u \in Users : handle[u] \in Addr /\ handle'[u] \notin Addr =>
       \E p \in Proc : /\ pc[p] = "delete" /\ id[p] = u
                       /\ p \in Conns \/ obj[handle[u]].thr = p]_vars

\* A message that a push reads is one of the alarm's own (NotifyMessage.cc:326, 371),
\* also in the rounds after the last of them, which "Get the messages from Public
\* table" (NotifyMessage.cc:644) is there for.
InRange(a)  == loc[a].idx < obj[this[a]].nmsg
PushInRange == \A a \in Alarms : ReadsMessage(a) => InRange(a)

-----------------------------------------------------------------------------
Quiet(C) == \A c \in C : pc[c] = "idle"

\* Once the clients are quiet every alarm ends and leaves the map, whatever its
\* database calls return: no thread is stuck and no entry is forgotten.
AlarmsEnd == <>[]Quiet(Conns) =>
               \A u \in Users : (handle[u] # None) ~> (handle[u] = None)

\* A request is answered once the other connections stop competing for
\* LOCK_SetupNoti, which has no queue.
RequestAnswered == \A c \in Conns : <>[]Quiet(Conns \ {c}) =>
                                     (pc[c] # "idle") ~> (pc[c] = "idle")

-----------------------------------------------------------------------------
(***************************************************************************)
(* The inductive invariant behind the safety properties above.             *)
(***************************************************************************)

\* A thread that works has its operands.
WorkInv == /\ \A p \in Proc : pc[p] \in StartPc \cup StopPc => id[p] \in Users
           /\ \A a \in Alarms :
                /\ pc[a] \in ActivePc => this[a] \in Addr
                /\ pc[a] \in ActivePc \ {"boot"} => loc[a] \in Locals /\ id[a] \in Users

\* What the holder of the mutex has found in the map stays true until it changes
\* the map itself.
LookupInv ==
  /\ \A c \in Conns :
       /\ pc[c] \in {"create", "register"} =>
            handle[id[c]] \notin Addr /\ Cardinality(Entries \ {id[c]}) <= MaxUsers
       /\ pc[c] = "register" =>
            this[c] \in Addr /\ obj[this[c]] # None /\ obj[this[c]].uid = id[c]
  /\ \A p \in Proc :
       /\ pc[p] \in {"cleanup", "post", "delete"} => handle[id[p]] \in Addr
       /\ pc[p] \in {"post", "delete"} => obj[handle[id[p]]].exit

\* ServedAlarm, for every live object: registered or not yet.
ThreadInv ==
  \A x \in Addr : obj[x] # None =>
    LET a == obj[x].thr
    IN \/ /\ pc[a] \in ActivePc /\ this[a] = x
          /\ pc[a] # "boot" => id[a] = obj[x].uid
       \/ pc[a] \in StopPc /\ id[a] = obj[x].uid

IInv == /\ TypeOK /\ LockInv /\ WorkInv /\ RegistryInv /\ LookupInv
        /\ CapacityBound /\ WakeMeansStop /\ ThreadInv

-----------------------------------------------------------------------------
\* The registry the connections see: NotifyService implements AlarmRegistry.
PhaseAt(l) == CASE l = "idle"     -> "idle"
                [] l = "unlock"   -> "done"
                [] l \in StartPc  -> "start"
                [] l \in StopPc   -> "stop"

Phase == [c \in Conns |-> PhaseAt(pc[c])]
User  == [c \in Conns |-> id[c]]

Registry == INSTANCE AlarmRegistry WITH
              reg <- Registered, phase <- Phase,
              user <- User, answer <- ret

\* Requests of the connections and ends of alarms change the registry and answer
\* the connections exactly as AlarmRegistry allows: each request takes effect
\* once, atomically, between its arrival and its answer.
ImplementsRegistry == Registry!Spec
=============================================================================
