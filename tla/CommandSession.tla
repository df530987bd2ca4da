--------------------------- MODULE CommandSession ---------------------------
(***************************************************************************)
(* The command loop of the connections (net_connect.cc): do_command reads  *)
(* a packet, dispatch_command executes it, net_end_statement answers with  *)
(* the status and user index the THD holds then.  SaveToken opens a        *)
(* database handle of its own, and so does MysqlDealTask, in the alarm     *)
(* threads and in a session that stops an alarm (NotifyMessage.cc); the    *)
(* handles of the process are limited.                                     *)
(*                                                                         *)
(* A request is its command byte, how much of the JSON its command asks    *)
(* for it carries, and whether it decrypts to a rightly padded text.       *)
(* Packets come whole and in order (NetChannel).  A start is one step      *)
(* under LOCK_SetupNoti, a stop holds it while CleanUp uses the database;  *)
(* what they do to the alarms, and the alarm threads' own turns with the   *)
(* mutex, are in NotifyService, the rest of a connection's life is in      *)
(* ConnServer.                                                             *)
(***************************************************************************)
EXTENDS Naturals, Sequences, FiniteSets

CONSTANTS Sessions,     \* connections being served
          Tasks,        \* calls of MysqlDealTask in the alarm threads
          Requests,     \* what clients send
          Asks,         \* what the client of each session sends
          MaxRequests,  \* bound: how many requests each session takes
          MaxHandles,   \* connections the database accepts from the process
          Builds        \* possible values of ENABLE_DATA_ENCRYPTION_IN_COMMUNICATION

Commands == {"sleep", "quit", "start", "stop", "save", "hand", "end"}

\* text: no JSON object.  object: one that lacks a member.
Forms == {"text", "object", "complete"}

ASSUME SessionAssumption ==
  /\ IsFiniteSet(Sessions) /\ IsFiniteSet(Tasks)
  /\ Requests \subseteq [cmd : Commands, form : Forms, sealed : BOOLEAN]
  /\ Asks \in [Sessions -> SUBSET Requests]
  /\ MaxRequests \in [Sessions -> Nat] /\ MaxHandles \in Nat
  /\ Builds \subseteq BOOLEAN

VARIABLES
  encrypted,  \* the build
  th,         \* the THD of each session, and the locals of its thread
  taken,      \* the requests each session took
  replies,    \* what was written to each client
  handles,    \* open MYSQL handles
  task,       \* what each call of MysqlDealTask does
  users,      \* table Users: the session and request that stored each row
  lock        \* LOCK_SetupNoti; kept: locked by a start that returned

vars == <<encrypted, th, taken, replies, handles, task, users, lock>>

\* no_service: one of two files says so.
Statuses == {"ok", "no_service", "already", "not_json",
             "max_user", "open_error", "query_error"}

\* error is net->error; over is what do_command returns; failed: its read failed.
Thread == [pc : {"read", "dispatch", "execute", "query", "cleanup", "reply",
                 "closed"},
           command : Commands, server_status : Statuses, user_id : Nat,
           error : 0 .. 2, over : BOOLEAN, failed : BOOLEAN]

\* After memset in handle_connections_sockets.
Fresh == [pc |-> "read", command |-> "sleep", server_status |-> "ok", user_id |-> 0,
          error |-> 0, over |-> FALSE, failed |-> FALSE]

\* of: how many requests had been taken.  after: a read had failed.
Reply == [of : Nat, status : Statuses, uid : Nat, after : BOOLEAN]

TypeOK == /\ encrypted \in BOOLEAN
          /\ th \in [Sessions -> Thread]
          /\ taken \in [Sessions -> Seq(Requests)]
          /\ replies \in [Sessions -> Seq(Reply)]
          /\ handles \in 0 .. MaxHandles
          /\ task \in [Tasks -> {"idle", "connected"}]
          /\ users \in Seq(Sessions \X Nat)
          /\ lock \in {"free", "held", "kept"}

Init == /\ encrypted \in Builds
        /\ th = [s \in Sessions |-> Fresh]
        /\ taken = [s \in Sessions |-> <<>>]
        /\ replies = [s \in Sessions |-> <<>>]
        /\ handles = 0
        /\ task = [t \in Tasks |-> "idle"]
        /\ users = <<>>
        /\ lock = "free"

At(s, l)    == th[s].pc = l
Request(s)  == taken[s][Len(taken[s])]
History     == <<taken, replies, users>>
Database    == <<handles, task>>

\* The thread of s sets these fields and touches nothing shared.
Sets(s, t) == /\ th' = [th EXCEPT ![s] = t]
              /\ UNCHANGED <<encrypted, History, Database, lock>>

\* Commands whose text must be a JSON object.
NeedsObject == {"start", "stop", "save"}

\* dispatch_command turns what it cannot decrypt into a quit.
Decrypted(r) == IF encrypted /\ r.cmd \notin {"hand", "quit"} /\ ~r.sealed
                THEN "quit" ELSE r.cmd

-----------------------------------------------------------------------------
(* Faulty variants of the definitions below: no specification uses them.   *)

\* dispatch_command without thd->user_id = 0.
DispatchKeepsUser(s) ==
  /\ At(s, "dispatch")
  /\ Sets(s, [th[s] EXCEPT !.pc = "execute", !.command = Decrypted(Request(s)),
                           !.server_status = "ok"])

\* dispatch_command without thd->server_status = 0.
DispatchKeepsStatus(s) ==
  /\ At(s, "dispatch")
  /\ Sets(s, [th[s] EXCEPT !.pc = "execute", !.command = Decrypted(Request(s)),
                           !.user_id = 0])

\* StopNotification without its unlock after CleanUp.
StopKeepsLock(s) == /\ At(s, "cleanup")
                    /\ th' = [th EXCEPT ![s].pc = "reply"]
                    /\ handles' = handles - 1
                    /\ UNCHANGED <<encrypted, History, task, lock>>

-----------------------------------------------------------------------------
(* do_command                                                              *)

Receive(s) == /\ At(s, "read") /\ Len(taken[s]) < MaxRequests[s]
              /\ \E r \in Asks[s] : taken' = [taken EXCEPT ![s] = Append(@, r)]
              /\ th' = [th EXCEPT ![s].pc = "dispatch"]
              /\ UNCHANGED <<encrypted, replies, users, Database, lock>>

\* myNetRead returned packet_error: 2 the connection is lost, 1 the packet is too
\* large, 0 it is out of order.
ReadFails(s) == /\ At(s, "read")
                /\ \E e \in 0 .. 2 :
                     Sets(s, [th[s] EXCEPT !.pc = "reply", !.error = e,
                                           !.over = TRUE, !.failed = TRUE])

(* dispatch_command                                                        *)

Dispatch(s) == /\ At(s, "dispatch")
               /\ Sets(s, [th[s] EXCEPT !.pc = "execute", !.command = Decrypted(Request(s)),
                                        !.user_id = 0, !.server_status = "ok"])

Executing(s, c) == At(s, "execute") /\ th[s].command = c

Done(s, st) == Sets(s, [th[s] EXCEPT !.pc = "reply", !.server_status = st])

\* A start, stop or save that is no JSON object, or a start or stop without a user
\* index, ends the connection.
NotJson(s) == /\ \E c \in NeedsObject : Executing(s, c)
              /\ \/ Request(s).form = "text"
                 \/ Request(s).form = "object" /\ th[s].command # "save"
              /\ Sets(s, [th[s] EXCEPT !.pc = "reply", !.server_status = "not_json",
                                       !.error = 0, !.over = TRUE])

\* A start refused because of one of two files does not get to StartNotification.
\* Its constructor may throw, which is max_user as well.
Start(s) == /\ Executing(s, "start") /\ Request(s).form = "complete"
            /\ \/ Done(s, "no_service")
               \/ /\ lock = "free"
                  /\ \E st \in {"ok", "already", "max_user"} : Done(s, st)

\* StartNotification returns without its unlock when the map is full.
StartMaxUser(s) == /\ Executing(s, "start") /\ Request(s).form = "complete"
                   /\ lock = "free"
                   /\ lock' = "kept"
                   /\ th' = [th EXCEPT ![s].pc = "reply", ![s].server_status = "max_user"]
                   /\ UNCHANGED <<encrypted, History, Database>>

Stopping(s) == Executing(s, "stop") /\ Request(s).form = "complete" /\ lock = "free"

\* There is no such alarm, or CleanUp gets no connection.
Stop(s) == Stopping(s) /\ Done(s, "ok")

\* CleanUp calls MysqlDealTask.
StopOpens(s) == /\ Stopping(s) /\ handles < MaxHandles
                /\ handles' = handles + 1
                /\ lock' = "held"
                /\ th' = [th EXCEPT ![s].pc = "cleanup"]
                /\ UNCHANGED <<encrypted, History, task>>

StopCloses(s) == /\ At(s, "cleanup")
                 /\ handles' = handles - 1
                 /\ lock' = "free"
                 /\ th' = [th EXCEPT ![s].pc = "reply"]
                 /\ UNCHANGED <<encrypted, History, task>>

\* sendKeytoClient writes its key, or the write fails; it answers 0 either way.
HandShake(s) == /\ Executing(s, "hand")
                /\ \/ Sets(s, [th[s] EXCEPT !.pc = "reply"])
                   \/ Sets(s, [th[s] EXCEPT !.pc = "reply", !.error = 2])

Sleep(s) == Executing(s, "sleep") /\ Done(s, "ok")

Quit(s) == /\ \E c \in {"quit", "end"} : Executing(s, c)
           /\ Sets(s, [th[s] EXCEPT !.pc = "reply", !.error = 0, !.over = TRUE])

(* SaveToken                                                               *)

SaveMissing(s) == Executing(s, "save") /\ Request(s).form = "object" /\ Done(s, "not_json")

\* The database is not there, or takes no more connections.
SaveOpenFails(s) == Executing(s, "save") /\ Request(s).form = "complete" /\ Done(s, "open_error")

SaveOpens(s) == /\ Executing(s, "save") /\ Request(s).form = "complete"
                /\ handles < MaxHandles
                /\ handles' = handles + 1
                /\ th' = [th EXCEPT ![s].pc = "query"]
                /\ UNCHANGED <<encrypted, History, task, lock>>

\* SaveToken has no mysql_close after its query.
QueryFails(s) == At(s, "query") /\ Done(s, "query_error")

\* mysql_insert_id is the index of the new row.
Store(s) == /\ At(s, "query")
            /\ users' = Append(users, <<s, Len(taken[s])>>)
            /\ th' = [th EXCEPT ![s].pc = "reply", ![s].user_id = Len(users')]
            /\ UNCHANGED <<encrypted, taken, replies, Database, lock>>

(* net_end_statement, and the loop of handle_one_connection                *)

\* The commands net_end_statement does not answer.
Silent(s) == th[s].command \in {"quit", "end"}

\* Back to do_command with the error e, unless the session is over and the THD
\* freed.  Only dispatch_command resets the command; after a failed read it is sleep.
Back(s, e) ==
  th' = [th EXCEPT ![s] = IF @.over \/ e # 0
                          THEN [Fresh EXCEPT !.pc = "closed"]
                          ELSE [@ EXCEPT !.pc = "read", !.command = "sleep"]]

\* netRealWrite refuses to write once net->error is 2.
NoAnswer(s) == /\ At(s, "reply")
               /\ Silent(s) \/ th[s].error = 2
               /\ Back(s, th[s].error)
               /\ UNCHANGED <<encrypted, History, Database, lock>>

Answer(s) == /\ At(s, "reply") /\ ~Silent(s) /\ th[s].error # 2
             /\ replies' = [replies EXCEPT ![s] =
                  Append(@, [of |-> Len(taken[s]), status |-> th[s].server_status,
                             uid |-> th[s].user_id, after |-> th[s].failed])]
             /\ Back(s, th[s].error)
             /\ UNCHANGED <<encrypted, taken, users, Database, lock>>

AnswerFails(s) == /\ At(s, "reply") /\ ~Silent(s) /\ th[s].error # 2
                  /\ Back(s, 2)
                  /\ UNCHANGED <<encrypted, History, Database, lock>>

(* MysqlDealTask                                                           *)

TaskOpens(t) == /\ task[t] = "idle" /\ handles < MaxHandles
                /\ handles' = handles + 1
                /\ task' = [task EXCEPT ![t] = "connected"]
                /\ UNCHANGED <<encrypted, th, History, lock>>

TaskCloses(t) == /\ task[t] = "connected"
                 /\ handles' = handles - 1
                 /\ task' = [task EXCEPT ![t] = "idle"]
                 /\ UNCHANGED <<encrypted, th, History, lock>>

\* It returns without mysql_close: told to exit before its insertion, or its query
\* for the device's token failed or had no result.
TaskAbandons(t) == /\ task[t] = "connected"
                   /\ task' = [task EXCEPT ![t] = "idle"]
                   /\ UNCHANGED <<encrypted, th, History, handles, lock>>

-----------------------------------------------------------------------------
Execute(s) == \/ NotJson(s) \/ Start(s) \/ StartMaxUser(s)
              \/ Stop(s) \/ StopOpens(s) \/ StopCloses(s)
              \/ HandShake(s) \/ Sleep(s) \/ Quit(s)
              \/ SaveMissing(s) \/ SaveOpenFails(s) \/ SaveOpens(s) \/ QueryFails(s) \/ Store(s)

Serve(s) == Dispatch(s) \/ Execute(s) \/ NoAnswer(s) \/ Answer(s) \/ AnswerFails(s)

Task(t) == TaskOpens(t) \/ TaskCloses(t) \/ TaskAbandons(t)

Next == \/ \E s \in Sessions : Receive(s) \/ ReadFails(s) \/ Serve(s)
        \/ \E t \in Tasks : Task(t)

Spec == Init /\ [][Next]_vars

\* A connection's thread goes on once it has a request: calls of the database return,
\* writes time out, and sessions send finitely many requests, so that one is not kept
\* from the mutex for ever by the turns of others.  Nothing is assumed of clients and
\* alarms.
FairSpec == Spec /\ \A s \in Sessions : WF_vars(Serve(s))

-----------------------------------------------------------------------------
(***************************************************************************)
(* Properties.                                                             *)
(***************************************************************************)

\* A user index reaches the client of the save that stored it, as the answer to that
\* save, and nobody else, though it travels through a field of the THD that every
\* command and every failed read leads to the same net_end_statement with.
OwnUser ==
  \A s \in Sessions : \A i \in 1 .. Len(replies[s]) :
     LET r == replies[s][i] IN
     r.uid # 0 => /\ r.uid \in 1 .. Len(users)
                  /\ users[r.uid] = <<s, r.of>>
                  /\ taken[s][r.of].cmd = "save" /\ r.status = "ok"

\* The statuses a request may be answered with, where it is answered.
AnswersTo ==
  [r \in Requests |->
     IF r.cmd \in {"quit", "end"} THEN {}
     ELSE IF r.cmd \in NeedsObject /\ r.form # "complete" THEN {"not_json"}
     ELSE CASE r.cmd \in {"sleep", "hand", "stop"} -> {"ok"}
            [] r.cmd = "start" -> {"no_service", "ok", "already", "max_user"}
            [] r.cmd = "save"  -> {"ok", "open_error", "query_error"}]

\* Sessions as CommandService sees them.
Waits(s) == \/ th[s].pc \in {"dispatch", "execute", "query", "cleanup"}
            \/ At(s, "reply") /\ ~th[s].failed
Waiting  == [s \in Sessions |-> Waits(s)]
Shown(r) == [i \in 1 .. Len(r) |-> [status |-> r[i].status, uid |-> r[i].uid]]
Written  == [s \in Sessions |-> Shown(replies[s])]
Open     == [s \in Sessions |-> ~At(s, "closed")]

Service == INSTANCE CommandService WITH
             waiting <- Waiting, replies <- Written, open <- Open

\* Sessions keep the promise of CommandService: one answer per request, before the
\* next is taken, with a status of that request, and nothing after a failed read but
\* one repetition.
ImplementsService == Service!Spec

\* The mutex that a refused start has kept is the only thing a request waits for
\* without end.
Blocked(s) == lock = "kept" /\ \E c \in {"start", "stop"} : Executing(s, c)

\* A request that was taken is answered, or the session ends, or the request is a start
\* or stop after a start that was refused for want of room: on every path through
\* dispatch_command, and over the turns sessions take with LOCK_SetupNoti while CleanUp
\* uses the database.
Served ==
  \A s \in Sessions : \A n \in 1 .. MaxRequests[s] :
     (Len(taken[s]) >= n) ~> \/ At(s, "closed")
                             \/ \E i \in 1 .. Len(replies[s]) : replies[s][i].of = n
                             \/ Len(taken[s]) = n /\ Blocked(s)

\* do_command: "The error must be set" (net_connect.cc:226) when a read has failed
\* and net_end_statement is called.
ErrorSet == \A s \in Sessions : \A i \in 1 .. Len(replies[s]) :
              replies[s][i].after => replies[s][i].status # "ok"
=============================================================================
