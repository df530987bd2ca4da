--------------------------- MODULE AlarmRegistry ---------------------------
(***************************************************************************)
(* What the notification service promises its connections: a registry of   *)
(* the users that have a running alarm, changed by atomic start and stop   *)
(* requests and by alarms that end on their own.  The threads, the mutex   *)
(* and the heap objects behind it are in NotifyService, which implements   *)
(* this specification.                                                     *)
(***************************************************************************)
EXTENDS Naturals, FiniteSets

CONSTANTS Users,     \* user indexes
          Conns,     \* connections, one outstanding request each
          None,
          MaxUsers   \* a start is served while at most this many are registered

VARIABLES reg,    \* the users with a running alarm
          phase,  \* what each connection is waiting for
          user,   \* the user its request names
          answer  \* the answer it holds

vars == <<reg, phase, user, answer>>

Phases  == {"idle", "start", "stop", "done"}
Answers == {"ok", "already", "max_user"}

TypeOK == /\ reg \subseteq Users
          /\ phase  \in [Conns -> Phases]
          /\ user   \in [Conns -> Users \cup {None}]
          /\ answer \in [Conns -> Answers]

Init == /\ reg = {}
        /\ phase = [c \in Conns |-> "idle"]
        /\ user = [c \in Conns |-> None]
        /\ answer = [c \in Conns |-> "ok"]

Ask(c, op, u) == /\ phase[c] = "idle"
                 /\ phase' = [phase EXCEPT ![c] = op]
                 /\ user' = [user EXCEPT ![c] = u]
                 /\ answer' = [answer EXCEPT ![c] = "ok"]
                 /\ UNCHANGED reg

\* The request of c takes effect: the registry becomes r, the answer is a.
Serve(c, r, a) == /\ reg' = r
                  /\ phase' = [phase EXCEPT ![c] = "done"]
                  /\ answer' = [answer EXCEPT ![c] = a]
                  /\ UNCHANGED user

\* A user is added exactly when it is absent and the registry has room.
Started(c) == /\ phase[c] = "start"
              /\ user[c] \notin reg
              /\ Cardinality(reg) <= MaxUsers
              /\ Serve(c, reg \cup {user[c]}, "ok")

AlreadyStarted(c) == /\ phase[c] = "start"
                     /\ user[c] \in reg
                     /\ Cardinality(reg) <= MaxUsers
                     /\ Serve(c, reg, "already")

\* No semaphore or thread for the alarm: the registry is as before.
NoResources(c) == /\ phase[c] = "start"
                  /\ user[c] \notin reg
                  /\ Serve(c, reg, "max_user")

\* The registry is full: refused on the spot.
Refused(c) == /\ phase[c] = "start"
              /\ Cardinality(reg) > MaxUsers
              /\ phase' = [phase EXCEPT ![c] = "idle"]
              /\ user' = [user EXCEPT ![c] = None]
              /\ answer' = [answer EXCEPT ![c] = "max_user"]
              /\ UNCHANGED reg

\* A stop succeeds whether or not the user had an alarm: its answer stays ok.
Stopped(c) == /\ phase[c] = "stop"
              /\ reg' = reg \ {user[c]}
              /\ phase' = [phase EXCEPT ![c] = "done"]
              /\ UNCHANGED <<user, answer>>

Collect(c) == /\ phase[c] = "done"
              /\ phase' = [phase EXCEPT ![c] = "idle"]
              /\ user' = [user EXCEPT ![c] = None]
              /\ UNCHANGED <<reg, answer>>

\* An alarm ends by itself.
Expire(u) == /\ u \in reg
             /\ reg' = reg \ {u}
             /\ UNCHANGED <<phase, user, answer>>

Next == \/ \E c \in Conns : \/ \E u \in Users : Ask(c, "start", u) \/ Ask(c, "stop", u)
                            \/ Started(c) \/ AlreadyStarted(c) \/ NoResources(c)
                            \/ Refused(c) \/ Stopped(c) \/ Collect(c)
        \/ \E u \in Users : Expire(u)

Spec == Init /\ [][Next]_vars
=============================================================================
