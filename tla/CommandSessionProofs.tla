------------------------ MODULE CommandSessionProofs ------------------------
(***************************************************************************)
(* Proofs about CommandSession.  SInv describes one session at each place  *)
(* of its loop; the step of one session only ever adds to users, so the    *)
(* others keep their SInv (OthersKept).  HandlesHeld counts the handles.   *)
(***************************************************************************)
EXTENDS CommandSession, FiniteSetTheorems, SequenceTheorems, TLAPS

StoredRow(s) == \E u \in 1 .. Len(users) : users[u] = <<s, Len(taken[s])>>

\* A user index in the THD was given to the request taken last.
Own(s) == th[s].user_id # 0 =>
            /\ th[s].user_id \in 1 .. Len(users)
            /\ users[th[s].user_id] = <<s, Len(taken[s])>>
            /\ Len(taken[s]) > 0
            /\ Request(s).cmd = "save"
            /\ th[s].server_status = "ok"

LastStatus(s) == IF replies[s] = <<>> THEN "ok" ELSE replies[s][Len(replies[s])].status
LastUid(s)    == IF replies[s] = <<>> THEN 0 ELSE replies[s][Len(replies[s])].uid

\* What the THD holds is what was answered last.
Repeats(s) == th[s].server_status = LastStatus(s) /\ th[s].user_id = LastUid(s)

AtRead(s) == th[s].pc = "read" =>
               /\ ~th[s].over /\ ~th[s].failed /\ th[s].error = 0
               /\ th[s].command = "sleep" /\ Own(s) /\ Repeats(s)

AtWork(s) == th[s].pc \in {"dispatch", "execute", "query", "cleanup"} =>
               /\ ~th[s].over /\ ~th[s].failed /\ th[s].error = 0
               /\ Len(taken[s]) > 0 /\ ~StoredRow(s)

AtExecute(s) == th[s].pc \in {"execute", "query", "cleanup"} =>
                  /\ th[s].user_id = 0 /\ th[s].server_status = "ok"
                  /\ th[s].command = Decrypted(Request(s))
                  /\ th[s].pc = "query" => th[s].command = "save" /\ Request(s).form = "complete"
                  /\ th[s].pc = "cleanup" => th[s].command = "stop" /\ Request(s).form = "complete"

AtReply(s) == th[s].pc = "reply" =>
                /\ Own(s)
                /\ IF th[s].failed
                   THEN th[s].over /\ th[s].command = "sleep" /\ Repeats(s)
                   ELSE /\ Len(taken[s]) > 0
                        /\ th[s].user_id = 0 => ~StoredRow(s)
                        /\ IF Silent(s) THEN th[s].over
                           ELSE th[s].server_status \in AnswersTo[Request(s)]

SInv(s) == AtRead(s) /\ AtWork(s) /\ AtExecute(s) /\ AtReply(s)

\* Every row was stored by a request that was taken.
RowsInv == \A u \in 1 .. Len(users) : users[u][2] \in 1 .. Len(taken[users[u][1]])

\* OwnUser, with the bound of its index.
ReplyOwn(s) == \A i \in 1 .. Len(replies[s]) :
                 replies[s][i].uid # 0 =>
                   /\ replies[s][i].uid \in 1 .. Len(users)
                   /\ users[replies[s][i].uid] = <<s, replies[s][i].of>>
                   /\ replies[s][i].of \in 1 .. Len(taken[s])
                   /\ taken[s][replies[s][i].of].cmd = "save"
                   /\ replies[s][i].status = "ok"

\* Each running save, stop and connected task has a handle of its own to close.
Using     == {s \in Sessions : th[s].pc \in {"query", "cleanup"}}
Connected == {t \in Tasks : task[t] = "connected"}
HandlesHeld == Cardinality(Using) + Cardinality(Connected) <= handles

IInv == /\ TypeOK
        /\ \A s \in Sessions : SInv(s) /\ ReplyOwn(s)
        /\ RowsInv
        /\ HandlesHeld

-----------------------------------------------------------------------------
(* The set of requests, and the set of records a thread is in.             *)

LEMMA RequestType ==
  ASSUME NEW r \in Requests
  PROVE  r.cmd \in Commands /\ r.form \in Forms /\ r.sealed \in BOOLEAN
BY SessionAssumption

LEMMA DecryptedType ==
  ASSUME NEW r \in Requests
  PROVE  Decrypted(r) \in Commands /\ (Decrypted(r) = r.cmd \/ Decrypted(r) = "quit")
BY RequestType DEF Decrypted, Commands

\* The last request taken.
LEMMA LastRequest ==
  ASSUME TypeOK, NEW s \in Sessions, Len(taken[s]) > 0
  PROVE  Request(s) \in Requests /\ Len(taken[s]) \in Nat
<1>1. taken[s] \in Seq(Requests)
  BY DEF TypeOK
<1> QED
  BY <1>1 DEF Request

LEMMA FreshType == Fresh \in Thread
BY DEF Fresh, Thread, Commands, Statuses

\* A step of one session as the others see it: nothing of theirs changes, and users
\* only grows, by rows of that session.
OthersSee(s) ==
  /\ \A x \in Sessions \ {s} : th'[x] = th[x] /\ taken'[x] = taken[x] /\ replies'[x] = replies[x]
  /\ \/ users' = users
     \/ \E n \in Nat : users' = Append(users, <<s, n>>)
  /\ encrypted' = encrypted

\* Rows stay, and a new one belongs to s.
LEMMA RowsStay ==
  ASSUME TypeOK, NEW s \in Sessions, OthersSee(s)
  PROVE  /\ Len(users) \in Nat /\ Len(users') \in Nat /\ Len(users) <= Len(users')
         /\ \A u \in 1 .. Len(users) : users'[u] = users[u]
         /\ \A u \in 1 .. Len(users') : u \notin 1 .. Len(users) => users'[u][1] = s
<1>1. users \in Seq(Sessions \X Nat)
  BY DEF TypeOK
<1>2. CASE users' = users
  BY <1>1, <1>2
<1>3. ASSUME NEW n \in Nat, users' = Append(users, <<s, n>>)
      PROVE  /\ Len(users') = Len(users) + 1 /\ users'[Len(users) + 1] = <<s, n>>
             /\ \A u \in 1 .. Len(users) : users'[u] = users[u]
  BY <1>1, <1>3
<1> QED
  BY <1>1, <1>2, <1>3 DEF OthersSee

LEMMA OthersKept ==
  ASSUME TypeOK, NEW s \in Sessions, OthersSee(s),
         NEW x \in Sessions, x # s, SInv(x), ReplyOwn(x)
  PROVE  SInv(x)' /\ ReplyOwn(x)'
<1>1. th'[x] = th[x] /\ taken'[x] = taken[x] /\ replies'[x] = replies[x] /\ encrypted' = encrypted
  BY DEF OthersSee
<1>2. /\ Len(users) \in Nat /\ Len(users') \in Nat /\ Len(users) <= Len(users')
      /\ \A u \in 1 .. Len(users) : users'[u] = users[u]
      /\ \A u \in 1 .. Len(users') : u \notin 1 .. Len(users) => users'[u][1] = s
  BY RowsStay
<1>3. StoredRow(x)' <=> StoredRow(x)
  <2>1. ASSUME NEW u \in 1 .. Len(users'), users'[u] = <<x, Len(taken[x])>>
        PROVE  u \in 1 .. Len(users) /\ users[u] = <<x, Len(taken[x])>>
    <3>1. users'[u][1] = x
      BY <2>1
    <3> QED
      BY <1>2, <2>1, <3>1
  <2>2. ASSUME NEW u \in 1 .. Len(users), users[u] = <<x, Len(taken[x])>>
        PROVE  u \in 1 .. Len(users') /\ users'[u] = <<x, Len(taken[x])>>
    BY <1>2, <2>2
  <2> QED
    BY <1>1, <2>1, <2>2 DEF StoredRow
<1>4. Own(x) => Own(x)'
  <2> SUFFICES ASSUME Own(x), th[x].user_id # 0
               PROVE  Own(x)'
    BY <1>1 DEF Own
  <2>1. th[x].user_id \in 1 .. Len(users) /\ th[x].user_id \in 1 .. Len(users')
    BY <1>2 DEF Own
  <2>2. users'[th[x].user_id] = <<x, Len(taken[x])>>
    BY <1>2, <2>1 DEF Own
  <2> QED
    BY <1>1, <2>1, <2>2 DEF Own, Request
<1>5. Repeats(x) => Repeats(x)'
  BY <1>1 DEF Repeats, LastStatus, LastUid
<1>6. SInv(x)'
  <2>1. AtRead(x)'
    BY <1>1, <1>4, <1>5 DEF SInv, AtRead
  <2>2. AtWork(x)'
    BY <1>1, <1>3 DEF SInv, AtWork
  <2>3. AtExecute(x)'
    BY <1>1 DEF SInv, AtExecute, Decrypted, Request
  <2>4. AtReply(x)'
    BY <1>1, <1>3, <1>4, <1>5 DEF SInv, AtReply, Silent, Request, AnswersTo
  <2> QED
    BY <2>1, <2>2, <2>3, <2>4 DEF SInv
<1>7. ReplyOwn(x)'
  <2> SUFFICES ASSUME NEW i \in 1 .. Len(replies[x]), replies[x][i].uid # 0
               PROVE  /\ replies[x][i].uid \in 1 .. Len(users')
                      /\ users'[replies[x][i].uid] = <<x, replies[x][i].of>>
                      /\ replies[x][i].of \in 1 .. Len(taken[x])
                      /\ taken[x][replies[x][i].of].cmd = "save"
                      /\ replies[x][i].status = "ok"
    BY <1>1 DEF ReplyOwn
  <2>1. /\ replies[x][i].uid \in 1 .. Len(users)
        /\ users[replies[x][i].uid] = <<x, replies[x][i].of>>
        /\ replies[x][i].of \in 1 .. Len(taken[x])
        /\ taken[x][replies[x][i].of].cmd = "save"
        /\ replies[x][i].status = "ok"
    BY DEF ReplyOwn
  <2> DEFINE u == replies[x][i].uid
  <2>2. u \in 1 .. Len(users)
    BY <2>1
  <2> HIDE DEF u
  <2>3. u \in 1 .. Len(users') /\ users'[u] = users[u]
    BY <1>2, <2>2
  <2> QED
    BY <2>1, <2>3 DEF u
<1> QED
  BY <1>6, <1>7

-----------------------------------------------------------------------------
(* One step of a session: its own invariant, and what the others see.      *)

LEMMA ThreadSet ==
  ASSUME TypeOK, NEW s \in Sessions, NEW t \in Thread, th' = [th EXCEPT ![s] = t]
  PROVE  /\ th' \in [Sessions -> Thread] /\ th'[s] = t
         /\ \A x \in Sessions \ {s} : th'[x] = th[x]
BY DEF TypeOK

\* Only the THD of s changes.
LEMMA SetsThread ==
  ASSUME TypeOK, NEW s \in Sessions, NEW t \in Thread, Sets(s, t)
  PROVE  /\ TypeOK' /\ OthersSee(s) /\ th'[s] = t
         /\ taken' = taken /\ replies' = replies /\ users' = users /\ encrypted' = encrypted
<1>1. /\ th' \in [Sessions -> Thread] /\ th'[s] = t
      /\ \A x \in Sessions \ {s} : th'[x] = th[x]
  BY ThreadSet DEF Sets
<1> QED
  BY <1>1 DEF Sets, History, Database, TypeOK, OthersSee

\* Where s answered nothing and users did not change, its replies are as before.
LEMMA RepliesStay ==
  ASSUME NEW s \in Sessions, ReplyOwn(s),
         replies'[s] = replies[s], taken'[s] = taken[s], users' = users
  PROVE  ReplyOwn(s)'
BY DEF ReplyOwn

\* The fields of a record in Thread, one by one.
LEMMA ThreadFields ==
  ASSUME NEW t \in Thread
  PROVE  /\ t.command \in Commands /\ t.server_status \in Statuses /\ t.user_id \in Nat
         /\ t.error \in 0 .. 2 /\ t.over \in BOOLEAN /\ t.failed \in BOOLEAN
         /\ t.pc \in {"read", "dispatch", "execute", "query", "cleanup", "reply", "closed"}
BY DEF Thread

LEMMA ThreadOf ==
  ASSUME TypeOK, NEW s \in Sessions
  PROVE  th[s] \in Thread
BY DEF TypeOK

Fine(s) == TypeOK' /\ OthersSee(s) /\ SInv(s)' /\ ReplyOwn(s)'

LEMMA ReceiveFine ==
  ASSUME IInv, NEW s \in Sessions, Receive(s)
  PROVE  Fine(s)
<1> USE DEF IInv
<1> DEFINE t == [th[s] EXCEPT !.pc = "dispatch"]
<1>1. PICK r \in Asks[s] : taken' = [taken EXCEPT ![s] = Append(@, r)]
  BY DEF Receive
<1>2. r \in Requests /\ taken[s] \in Seq(Requests) /\ users \in Seq(Sessions \X Nat)
  BY SessionAssumption DEF TypeOK
<1>3. /\ taken'[s] = Append(taken[s], r) /\ taken' \in [Sessions -> Seq(Requests)]
      /\ \A x \in Sessions \ {s} : taken'[x] = taken[x]
  BY <1>1, <1>2 DEF TypeOK
<1>4. /\ Len(taken[s]) \in Nat /\ Len(taken'[s]) = Len(taken[s]) + 1
      /\ \A i \in 1 .. Len(taken[s]) : taken'[s][i] = taken[s][i]
  BY <1>2, <1>3
<1>5. t \in Thread /\ t.pc = "dispatch" /\ ~t.over /\ ~t.failed /\ t.error = 0
  BY ThreadOf, ThreadFields DEF Thread, SInv, AtRead, Receive, At
<1>6. /\ th' \in [Sessions -> Thread] /\ th'[s] = t
      /\ \A x \in Sessions \ {s} : th'[x] = th[x]
  <2>1. th' = [th EXCEPT ![s] = t]
    BY DEF Receive
  <2> QED
    BY <1>5, <2>1, ThreadSet
<1>7. TypeOK' /\ OthersSee(s)
  BY <1>3, <1>6 DEF TypeOK, OthersSee, Receive, Database
<1>8. ~StoredRow(s)'
  <2> SUFFICES ASSUME NEW u \in 1 .. Len(users), users[u] = <<s, Len(taken[s]) + 1>>
               PROVE  FALSE
    BY <1>4 DEF StoredRow, Receive
  <2>1. users[u][1] = s /\ users[u][2] = Len(taken[s]) + 1
    OBVIOUS
  <2> QED
    BY <1>4, <2>1 DEF RowsInv
<1>9. SInv(s)'
  BY <1>4, <1>5, <1>6, <1>8 DEF SInv, AtRead, AtWork, AtExecute, AtReply
<1>10. ReplyOwn(s)'
  <2>1. replies' = replies /\ users' = users
    BY DEF Receive
  <2> SUFFICES ASSUME NEW i \in 1 .. Len(replies[s]), replies[s][i].uid # 0
               PROVE  /\ replies[s][i].uid \in 1 .. Len(users)
                      /\ users[replies[s][i].uid] = <<s, replies[s][i].of>>
                      /\ replies[s][i].of \in 1 .. Len(taken'[s])
                      /\ taken'[s][replies[s][i].of].cmd = "save"
                      /\ replies[s][i].status = "ok"
    BY <2>1 DEF ReplyOwn
  <2>2. replies[s][i].of \in 1 .. Len(taken[s])
    BY DEF ReplyOwn
  <2>3. replies[s][i].of \in 1 .. Len(taken'[s]) /\ taken'[s][replies[s][i].of] = taken[s][replies[s][i].of]
    BY <1>4, <2>2
  <2> QED
    BY <2>3 DEF ReplyOwn
<1> QED
  BY <1>7, <1>9, <1>10 DEF Fine

LEMMA ReadFailsFine ==
  ASSUME IInv, NEW s \in Sessions, ReadFails(s)
  PROVE  Fine(s)
<1> USE DEF IInv
<1>1. PICK e \in 0 .. 2 : Sets(s, [th[s] EXCEPT !.pc = "reply", !.error = e,
                                                 !.over = TRUE, !.failed = TRUE])
  BY DEF ReadFails
<1> DEFINE t == [th[s] EXCEPT !.pc = "reply", !.error = e, !.over = TRUE, !.failed = TRUE]
<1>2. /\ t \in Thread /\ t.pc = "reply" /\ t.over /\ t.failed /\ t.command = th[s].command
      /\ t.server_status = th[s].server_status /\ t.user_id = th[s].user_id
  BY ThreadOf DEF Thread
<1>3. /\ TypeOK' /\ OthersSee(s) /\ th'[s] = t
      /\ taken' = taken /\ replies' = replies /\ users' = users /\ encrypted' = encrypted
  BY <1>1, <1>2, SetsThread
<1>4. AtRead(s) /\ th[s].pc = "read"
  BY DEF SInv, ReadFails, At
<1>5. Own(s)' /\ Repeats(s)'
  BY <1>2, <1>3, <1>4 DEF AtRead, Own, Repeats, LastStatus, LastUid, Request
<1>6. SInv(s)'
  BY <1>2, <1>3, <1>4, <1>5 DEF SInv, AtRead, AtWork, AtExecute, AtReply
<1>7. ReplyOwn(s)'
  BY <1>3, RepliesStay
<1> QED
  BY <1>3, <1>6, <1>7 DEF Fine

LEMMA DispatchFine ==
  ASSUME IInv, NEW s \in Sessions, Dispatch(s)
  PROVE  Fine(s)
<1> USE DEF IInv
<1> DEFINE t == [th[s] EXCEPT !.pc = "execute", !.command = Decrypted(Request(s)),
                              !.user_id = 0, !.server_status = "ok"]
<1>1. AtWork(s) /\ th[s].pc = "dispatch"
  BY DEF SInv, Dispatch, At
<1>2. Decrypted(Request(s)) \in Commands
  BY <1>1, LastRequest, DecryptedType DEF AtWork
<1>3. /\ t \in Thread /\ t.pc = "execute" /\ t.over = th[s].over /\ t.failed = th[s].failed
      /\ t.error = th[s].error /\ t.command = Decrypted(Request(s))
      /\ t.server_status = "ok" /\ t.user_id = 0
  BY <1>2, ThreadOf DEF Thread, Statuses
<1>4. /\ TypeOK' /\ OthersSee(s) /\ th'[s] = t
      /\ taken' = taken /\ replies' = replies /\ users' = users /\ encrypted' = encrypted
  BY <1>3, SetsThread DEF Dispatch
<1>5. StoredRow(s)' <=> StoredRow(s)
  BY <1>4 DEF StoredRow
<1>6. SInv(s)'
  BY <1>1, <1>3, <1>4, <1>5 DEF SInv, AtRead, AtWork, AtExecute, AtReply, Decrypted, Request
<1>7. ReplyOwn(s)'
  BY <1>4, RepliesStay
<1> QED
  BY <1>4, <1>6, <1>7 DEF Fine

-----------------------------------------------------------------------------
(* Executing a command leads to a reply with a status that belongs to it.  *)

\* Whatever sets the status to one of the request's answers and keeps the user index
\* at 0 is fine; so is what ends the session in silence.
LEMMA ComesToReply ==
  ASSUME IInv, NEW s \in Sessions, th[s].pc \in {"execute", "query", "cleanup"},
         NEW t \in Thread, th' = [th EXCEPT ![s] = t],
         UNCHANGED <<encrypted, History, task>>,
         handles' \in 0 .. MaxHandles, lock' \in {"free", "held", "kept"},
         t.pc = "reply", t.failed = th[s].failed, t.command = th[s].command,
         t.user_id = th[s].user_id,
         IF Silent(s) THEN t.over ELSE t.server_status \in AnswersTo[Request(s)]
  PROVE  Fine(s) /\ th'[s] = t /\ ~th'[s].failed
<1> USE DEF IInv
<1>1. AtWork(s) /\ AtExecute(s)
  BY DEF SInv
<1>2. /\ th' \in [Sessions -> Thread] /\ th'[s] = t
      /\ \A x \in Sessions \ {s} : th'[x] = th[x]
      /\ taken' = taken /\ replies' = replies /\ users' = users /\ encrypted' = encrypted
  BY ThreadSet DEF History
<1>3. TypeOK' /\ OthersSee(s)
  BY <1>2 DEF TypeOK, OthersSee
<1>4. Own(s)' /\ ~StoredRow(s)' /\ ~t.failed /\ Len(taken[s]) > 0
  BY <1>1, <1>2 DEF AtWork, AtExecute, Own, StoredRow
<1>5. AtReply(s)'
  <2>1. Silent(s)' = Silent(s) /\ (AnswersTo[Request(s)])' = AnswersTo[Request(s)]
    BY <1>2 DEF Silent, AnswersTo, Request
  <2> QED
    BY <1>2, <1>4, <2>1 DEF AtReply, Silent
<1>6. SInv(s)'
  BY <1>2, <1>5 DEF SInv, AtRead, AtWork, AtExecute
<1>7. ReplyOwn(s)'
  BY <1>2, RepliesStay
<1> QED
  BY <1>2, <1>3, <1>4, <1>6, <1>7 DEF Fine

LEMMA RepliesNext ==
  ASSUME IInv, NEW s \in Sessions, th[s].pc \in {"execute", "query", "cleanup"},
         NEW t \in Thread, Sets(s, t),
         t.pc = "reply", t.failed = th[s].failed, t.command = th[s].command,
         t.user_id = th[s].user_id,
         IF Silent(s) THEN t.over ELSE t.server_status \in AnswersTo[Request(s)]
  PROVE  Fine(s) /\ th'[s].pc = "reply" /\ ~th'[s].failed
<1>1. /\ th' = [th EXCEPT ![s] = t] /\ UNCHANGED <<encrypted, History, task>>
      /\ handles' \in 0 .. MaxHandles /\ lock' \in {"free", "held", "kept"}
  BY DEF Sets, Database, IInv, TypeOK
<1> QED
  BY <1>1, ComesToReply

\* The request being executed, and how its command relates to it.
LEMMA ExecutedRequest ==
  ASSUME IInv, NEW s \in Sessions, th[s].pc = "execute"
  PROVE  /\ Request(s) \in Requests /\ Request(s).form \in Forms
         /\ th[s].command = Request(s).cmd \/ th[s].command = "quit"
         /\ th[s].server_status = "ok"
<1>1. AtWork(s) /\ AtExecute(s) /\ TypeOK
  BY DEF IInv, SInv
<1> QED
  BY <1>1, LastRequest, RequestType, DecryptedType DEF AtWork, AtExecute

\* AnswersTo, case by case.
LEMMA AnswerSets ==
  ASSUME NEW r \in Requests
  PROVE  /\ r.cmd \in {"sleep", "hand"} => "ok" \in AnswersTo[r]
         /\ r.cmd \in NeedsObject /\ r.form # "complete" => "not_json" \in AnswersTo[r]
         /\ r.cmd = "start" /\ r.form = "complete" =>
              {"no_service", "ok", "already", "max_user"} \subseteq AnswersTo[r]
         /\ r.cmd = "stop" /\ r.form = "complete" => "ok" \in AnswersTo[r]
         /\ r.cmd = "save" /\ r.form = "complete" =>
              {"ok", "open_error", "query_error"} \subseteq AnswersTo[r]
<1>1. CASE r.cmd \in {"sleep", "hand"}
  BY <1>1 DEF AnswersTo, NeedsObject
<1>2. CASE r.cmd \in NeedsObject /\ r.form # "complete"
  BY <1>2 DEF AnswersTo, NeedsObject
<1>3. CASE r.cmd = "start" /\ r.form = "complete"
  BY <1>3 DEF AnswersTo, NeedsObject
<1>4. CASE r.cmd = "stop" /\ r.form = "complete"
  BY <1>4 DEF AnswersTo, NeedsObject
<1>5. CASE r.cmd = "save" /\ r.form = "complete"
  BY <1>5 DEF AnswersTo, NeedsObject
<1> QED
  BY <1>1, <1>2, <1>3, <1>4, <1>5 DEF NeedsObject

\* Every action that executes a command without the database.
LEMMA SimpleFine ==
  ASSUME IInv, NEW s \in Sessions,
         \/ NotJson(s) \/ Start(s) \/ Stop(s) \/ HandShake(s) \/ Sleep(s) \/ Quit(s)
         \/ SaveMissing(s) \/ SaveOpenFails(s)
  PROVE  Fine(s) /\ th'[s].pc = "reply" /\ ~th'[s].failed
<1>1. th[s].pc = "execute"
  BY DEF NotJson, Start, Stop, Stopping, HandShake, Sleep, Quit, SaveMissing, SaveOpenFails,
     Executing, At
<1>2. th[s] \in Thread
  BY ThreadOf DEF IInv
<1> DEFINE r == Request(s)
<1>3. /\ r \in Requests /\ r.form \in Forms /\ th[s].server_status = "ok"
      /\ th[s].command = r.cmd \/ th[s].command = "quit"
  BY <1>1, ExecutedRequest
<1>4. ASSUME NEW st \in Statuses, Done(s, st), st \in AnswersTo[r], ~Silent(s)
      PROVE  Fine(s) /\ th'[s].pc = "reply" /\ ~th'[s].failed
  <2> DEFINE t == [th[s] EXCEPT !.pc = "reply", !.server_status = st]
  <2>1. /\ t \in Thread /\ t.pc = "reply" /\ t.failed = th[s].failed
        /\ t.command = th[s].command /\ t.user_id = th[s].user_id /\ t.server_status = st
    BY <1>2 DEF Thread
  <2>2. Sets(s, t)
    BY <1>4 DEF Done
  <2> QED
    BY <1>1, <1>4, <2>1, <2>2, RepliesNext
<1> PICK zero \in 0 .. 2 : zero = 0
  OBVIOUS
<1> PICK two \in 0 .. 2 : two = 2
  OBVIOUS
<1>5. CASE NotJson(s)
  <2> DEFINE t == [th[s] EXCEPT !.pc = "reply", !.server_status = "not_json",
                                !.error = zero, !.over = TRUE]
  <2>1. /\ t \in Thread /\ t.pc = "reply" /\ t.failed = th[s].failed /\ t.over
        /\ t.command = th[s].command /\ t.user_id = th[s].user_id
        /\ t.server_status = "not_json"
    <3>1. "not_json" \in Statuses
      BY DEF Statuses
    <3> QED
      BY <1>2, <3>1 DEF Thread
  <2>2. r.cmd \in NeedsObject /\ r.form # "complete"
    BY <1>3, <1>5 DEF NotJson, Executing, NeedsObject
  <2>3. "not_json" \in AnswersTo[r]
    BY <1>3, <2>2, AnswerSets
  <2>4. Sets(s, t)
    BY <1>5 DEF NotJson
  <2> QED
    BY <1>1, <2>1, <2>3, <2>4, RepliesNext
<1>6. CASE Start(s)
  <2>1. PICK st \in {"no_service", "ok", "already", "max_user"} : Done(s, st)
    BY <1>6 DEF Start
  <2>2. r.cmd = "start" /\ r.form = "complete" /\ ~Silent(s)
    BY <1>3, <1>6 DEF Start, Executing, Silent
  <2>3. st \in AnswersTo[r] /\ st \in Statuses
    BY <1>3, <2>1, <2>2, AnswerSets DEF Statuses
  <2> QED
    BY <1>4, <2>1, <2>2, <2>3
<1>7. CASE Stop(s)
  <2>1. r.cmd = "stop" /\ r.form = "complete" /\ ~Silent(s) /\ Done(s, "ok")
    BY <1>3, <1>7 DEF Stop, Stopping, Executing, Silent
  <2> QED
    BY <1>3, <1>4, <2>1, AnswerSets DEF Statuses
<1>8. CASE Sleep(s)
  <2>1. r.cmd = "sleep" /\ ~Silent(s) /\ Done(s, "ok")
    BY <1>3, <1>8 DEF Sleep, Executing, Silent
  <2> QED
    BY <1>3, <1>4, <2>1, AnswerSets DEF Statuses
<1>9. CASE SaveMissing(s)
  <2>1. r.cmd \in NeedsObject /\ r.form # "complete" /\ ~Silent(s) /\ Done(s, "not_json")
    BY <1>3, <1>9 DEF SaveMissing, Executing, Silent, NeedsObject
  <2> QED
    BY <1>3, <1>4, <2>1, AnswerSets DEF Statuses
<1>10. CASE SaveOpenFails(s)
  <2>1. r.cmd = "save" /\ r.form = "complete" /\ ~Silent(s) /\ Done(s, "open_error")
    BY <1>3, <1>10 DEF SaveOpenFails, Executing, Silent
  <2> QED
    BY <1>3, <1>4, <2>1, AnswerSets DEF Statuses
<1>11. CASE HandShake(s)
  <2>1. \/ Sets(s, [th[s] EXCEPT !.pc = "reply"])
        \/ Sets(s, [th[s] EXCEPT !.pc = "reply", !.error = 2])
    BY <1>11 DEF HandShake
  <2>2. r.cmd = "hand" /\ ~Silent(s)
    BY <1>3, <1>11 DEF HandShake, Executing, Silent
  <2>3. "ok" \in AnswersTo[r]
    BY <1>3, <2>2, AnswerSets
  <2> DEFINE t(e) == [th[s] EXCEPT !.pc = "reply", !.error = e]
             u    == [th[s] EXCEPT !.pc = "reply"]
  <2>4. CASE Sets(s, u)
    <3>1. /\ u \in Thread /\ u.pc = "reply" /\ u.failed = th[s].failed
          /\ u.command = th[s].command /\ u.user_id = th[s].user_id
          /\ u.server_status = th[s].server_status
      BY <1>2 DEF Thread
    <3> HIDE DEF u
    <3> QED
      BY <1>1, <1>3, <2>2, <2>3, <2>4, <3>1, RepliesNext
  <2>5. CASE Sets(s, t(two))
    <3>1. /\ t(two) \in Thread /\ t(two).pc = "reply" /\ t(two).failed = th[s].failed
          /\ t(two).command = th[s].command /\ t(two).user_id = th[s].user_id
          /\ t(two).server_status = th[s].server_status
      BY <1>2 DEF Thread
    <3> HIDE DEF t
    <3> QED
      BY <1>1, <1>3, <2>2, <2>3, <2>5, <3>1, RepliesNext
  <2> QED
    BY <2>1, <2>4, <2>5
<1>12. CASE Quit(s)
  <2> DEFINE t == [th[s] EXCEPT !.pc = "reply", !.error = zero, !.over = TRUE]
  <2>1. /\ t \in Thread /\ t.pc = "reply" /\ t.failed = th[s].failed /\ t.over
        /\ t.command = th[s].command /\ t.user_id = th[s].user_id
    BY <1>2 DEF Thread
  <2>2. Silent(s) /\ Sets(s, t)
    BY <1>12 DEF Quit, Executing, Silent
  <2> QED
    BY <1>1, <2>1, <2>2, RepliesNext
<1> QED
  BY <1>5, <1>6, <1>7, <1>8, <1>9, <1>10, <1>11, <1>12

\* StartNotification returns with the mutex locked.
LEMMA StartMaxUserFine ==
  ASSUME IInv, NEW s \in Sessions, StartMaxUser(s)
  PROVE  Fine(s) /\ th'[s].pc = "reply" /\ ~th'[s].failed
<1> DEFINE t == [th[s] EXCEPT !.pc = "reply", !.server_status = "max_user"]
<1>1. th[s].pc = "execute" /\ th[s] \in Thread
  BY ThreadOf DEF StartMaxUser, Executing, At, IInv
<1>2. /\ t \in Thread /\ t.pc = "reply" /\ t.failed = th[s].failed
      /\ t.command = th[s].command /\ t.user_id = th[s].user_id
      /\ t.server_status = "max_user"
  BY <1>1 DEF Thread, Statuses
<1>3. Request(s) \in Requests /\ Request(s).cmd = "start" /\ Request(s).form = "complete" /\ ~Silent(s)
  BY <1>1, ExecutedRequest DEF StartMaxUser, Executing, Silent
<1>4. "max_user" \in AnswersTo[Request(s)]
  BY <1>3, AnswerSets
<1>5. /\ th' = [th EXCEPT ![s] = t] /\ UNCHANGED <<encrypted, History, task>>
      /\ handles' \in 0 .. MaxHandles /\ lock' \in {"free", "held", "kept"}
  BY DEF StartMaxUser, Database, IInv, TypeOK
<1> HIDE DEF t
<1> QED
  BY <1>1, <1>2, <1>3, <1>4, <1>5, ComesToReply

\* SaveToken and CleanUp go on with a database handle.
LEMMA OpensFine ==
  ASSUME IInv, NEW s \in Sessions, SaveOpens(s) \/ StopOpens(s)
  PROVE  Fine(s) /\ th'[s].pc \in {"query", "cleanup"} /\ ~th'[s].failed
<1> USE DEF IInv
<1>1. PICK p \in {"query", "cleanup"} :
         /\ th' = [th EXCEPT ![s] = [th[s] EXCEPT !.pc = p]]
         /\ p = "query" => th[s].command = "save"
         /\ p = "cleanup" => th[s].command = "stop"
  BY DEF SaveOpens, StopOpens, Stopping, Executing
<1> DEFINE t == [th[s] EXCEPT !.pc = p]
<1>2. /\ AtWork(s) /\ AtExecute(s) /\ th[s].pc = "execute" /\ Request(s).form = "complete"
      /\ handles < MaxHandles /\ handles' = handles + 1
      /\ lock' \in {"free", "held", "kept"} /\ task' = task
      /\ taken' = taken /\ replies' = replies /\ users' = users /\ encrypted' = encrypted
  BY DEF SInv, SaveOpens, StopOpens, Stopping, Executing, At, History, TypeOK
<1>3. /\ t \in Thread /\ t.pc = p /\ t.over = th[s].over /\ t.failed = th[s].failed
      /\ t.error = th[s].error /\ t.command = th[s].command /\ t.user_id = th[s].user_id
      /\ t.server_status = th[s].server_status
  BY ThreadOf DEF Thread
<1>4. /\ th' \in [Sessions -> Thread] /\ th'[s] = t
      /\ \A x \in Sessions \ {s} : th'[x] = th[x]
  BY <1>1, <1>3, ThreadSet
<1>5. handles' \in 0 .. MaxHandles
  BY <1>2, SessionAssumption DEF TypeOK
<1>6. TypeOK' /\ OthersSee(s)
  BY <1>2, <1>4, <1>5 DEF TypeOK, OthersSee
<1> HIDE DEF t
<1>7. SInv(s)'
  BY <1>1, <1>2, <1>3, <1>4 DEF SInv, AtRead, AtWork, AtExecute, AtReply, StoredRow,
     Decrypted, Request
<1>8. ReplyOwn(s)'
  BY <1>2, RepliesStay
<1> QED
  BY <1>2, <1>3, <1>4, <1>6, <1>7, <1>8 DEF Fine, AtWork

\* At its query a session executes a complete save, in CleanUp a complete stop.
LEMMA AtDatabase ==
  ASSUME IInv, NEW s \in Sessions, th[s].pc \in {"query", "cleanup"}
  PROVE  /\ Request(s) \in Requests /\ Request(s).form = "complete"
         /\ Request(s).cmd = IF th[s].pc = "query" THEN "save" ELSE "stop"
         /\ th[s].server_status = "ok"
         /\ AtWork(s) /\ AtExecute(s) /\ ~Silent(s) /\ Len(taken[s]) \in Nat
<1>1. AtWork(s) /\ AtExecute(s) /\ TypeOK
  BY DEF IInv, SInv
<1>2. Request(s) \in Requests /\ Len(taken[s]) \in Nat
  BY <1>1, LastRequest DEF AtWork
<1> QED
  BY <1>1, <1>2, DecryptedType DEF AtExecute, Silent

LEMMA QueryFailsFine ==
  ASSUME IInv, NEW s \in Sessions, QueryFails(s)
  PROVE  Fine(s) /\ th'[s].pc = "reply" /\ ~th'[s].failed
<1> DEFINE t == [th[s] EXCEPT !.pc = "reply", !.server_status = "query_error"]
<1>1. th[s].pc = "query" /\ Sets(s, t)
  BY DEF QueryFails, Done, At
<1>2. /\ Request(s) \in Requests /\ Request(s).cmd = "save" /\ Request(s).form = "complete"
      /\ ~Silent(s)
  BY <1>1, AtDatabase
<1>3. "query_error" \in AnswersTo[Request(s)]
  BY <1>2, AnswerSets
<1>4. /\ t \in Thread /\ t.pc = "reply" /\ t.failed = th[s].failed
      /\ t.command = th[s].command /\ t.user_id = th[s].user_id
      /\ t.server_status = "query_error"
  BY ThreadOf DEF Thread, Statuses, IInv
<1> HIDE DEF t
<1> QED
  BY <1>1, <1>2, <1>3, <1>4, RepliesNext

\* The database handles that are in use are open.
LEMMA SetsFinite ==
  /\ IsFiniteSet(Using) /\ Cardinality(Using) \in Nat
  /\ IsFiniteSet(Connected) /\ Cardinality(Connected) \in Nat
<1>1. Using \subseteq Sessions /\ Connected \subseteq Tasks
  BY DEF Using, Connected
<1> QED
  BY <1>1, FS_Subset, FS_CardinalityType, SessionAssumption

LEMMA UserHasHandle ==
  ASSUME IInv, NEW s \in Using
  PROVE  handles \in 1 .. MaxHandles
<1>1. Cardinality(Using) # 0
  BY SetsFinite, FS_EmptySet
<1> QED
  BY <1>1, SetsFinite, SessionAssumption DEF IInv, HandlesHeld, TypeOK

LEMMA StopClosesFine ==
  ASSUME IInv, NEW s \in Sessions, StopCloses(s)
  PROVE  Fine(s) /\ th'[s].pc = "reply" /\ ~th'[s].failed
<1> DEFINE t == [th[s] EXCEPT !.pc = "reply"]
<1>1. th[s].pc = "cleanup" /\ s \in Using
  BY DEF StopCloses, At, Using
<1>2. /\ Request(s) \in Requests /\ Request(s).cmd = "stop" /\ Request(s).form = "complete"
      /\ ~Silent(s) /\ th[s].server_status = "ok"
  BY <1>1, AtDatabase
<1>3. "ok" \in AnswersTo[Request(s)]
  BY <1>2, AnswerSets
<1>4. /\ t \in Thread /\ t.pc = "reply" /\ t.failed = th[s].failed
      /\ t.command = th[s].command /\ t.user_id = th[s].user_id
      /\ t.server_status = th[s].server_status
  BY ThreadOf DEF Thread, IInv
<1>5. handles' \in 0 .. MaxHandles
  BY <1>1, UserHasHandle, SessionAssumption DEF StopCloses
<1>6. /\ th' = [th EXCEPT ![s] = t] /\ UNCHANGED <<encrypted, History, task>>
      /\ lock' \in {"free", "held", "kept"}
  BY DEF StopCloses
<1> HIDE DEF t
<1> QED
  BY <1>1, <1>2, <1>3, <1>4, <1>5, <1>6, ComesToReply

LEMMA StoreFine ==
  ASSUME IInv, NEW s \in Sessions, Store(s)
  PROVE  Fine(s)
<1> USE DEF IInv
<1>1. th[s].pc = "query" /\ TypeOK
  BY DEF Store, At
<1>2. /\ Request(s) \in Requests /\ Request(s).cmd = "save" /\ Request(s).form = "complete"
      /\ AtWork(s) /\ AtExecute(s) /\ ~Silent(s) /\ Len(taken[s]) \in Nat
  BY <1>1, AtDatabase
<1>3. users \in Seq(Sessions \X Nat) /\ <<s, Len(taken[s])>> \in Sessions \X Nat
  BY <1>2 DEF TypeOK
<1>4. /\ users' \in Seq(Sessions \X Nat) /\ Len(users) \in Nat
      /\ Len(users') = Len(users) + 1 /\ users'[Len(users')] = <<s, Len(taken[s])>>
      /\ \A u \in 1 .. Len(users) : users'[u] = users[u]
  BY <1>3 DEF Store
<1> DEFINE n == Len(users')
           t == [th[s] EXCEPT !.pc = "reply", !.user_id = n]
<1>5. n \in Nat \ {0}
  BY <1>4
<1>6. /\ t \in Thread /\ t.pc = "reply" /\ t.failed = th[s].failed
      /\ t.command = th[s].command /\ t.user_id = n /\ t.server_status = th[s].server_status
  BY <1>5, ThreadOf DEF Thread
<1>7. /\ th' \in [Sessions -> Thread] /\ th'[s] = t
      /\ \A x \in Sessions \ {s} : th'[x] = th[x]
  <2>1. th' = [th EXCEPT ![s] = t]
    BY DEF Store
  <2> QED
    BY <1>6, <2>1, ThreadSet
<1>8. taken' = taken /\ replies' = replies /\ encrypted' = encrypted
  BY DEF Store
<1>9. TypeOK' /\ OthersSee(s)
  BY <1>2, <1>4, <1>7, <1>8 DEF TypeOK, OthersSee, Store, Database
<1>10. AtReply(s)'
  <2>1. Silent(s)' = Silent(s) /\ (AnswersTo[Request(s)])' = AnswersTo[Request(s)]
        /\ "ok" \in AnswersTo[Request(s)]
    BY <1>2, <1>6, <1>7, <1>8, AnswerSets DEF Silent, AnswersTo, Request
  <2>2. Own(s)'
    BY <1>1, <1>2, <1>4, <1>5, <1>6, <1>7, <1>8 DEF Own, Request, AtWork, AtExecute
  <2> QED
    BY <1>1, <1>2, <1>5, <1>6, <1>7, <1>8, <2>1, <2>2 DEF AtReply, AtWork, AtExecute
<1>11. SInv(s)'
  BY <1>6, <1>7, <1>10 DEF SInv, AtRead, AtWork, AtExecute
<1>12. ReplyOwn(s)'
  <2> SUFFICES ASSUME NEW i \in 1 .. Len(replies[s]), replies[s][i].uid # 0
               PROVE  /\ replies[s][i].uid \in 1 .. Len(users')
                      /\ users'[replies[s][i].uid] = <<s, replies[s][i].of>>
                      /\ replies[s][i].of \in 1 .. Len(taken[s])
                      /\ taken[s][replies[s][i].of].cmd = "save"
                      /\ replies[s][i].status = "ok"
    BY <1>8 DEF ReplyOwn
  <2>1. /\ replies[s][i].uid \in 1 .. Len(users)
        /\ users[replies[s][i].uid] = <<s, replies[s][i].of>>
        /\ replies[s][i].of \in 1 .. Len(taken[s])
        /\ taken[s][replies[s][i].of].cmd = "save"
        /\ replies[s][i].status = "ok"
    BY DEF ReplyOwn
  <2>2. /\ replies[s][i].uid \in 1 .. Len(users')
        /\ users'[replies[s][i].uid] = users[replies[s][i].uid]
    BY <1>4, <2>1
  <2> QED
    BY <2>1, <2>2
<1> QED
  BY <1>9, <1>11, <1>12 DEF Fine

-----------------------------------------------------------------------------
(* Answering, and going back to do_command.                                *)

\* A session that goes on reads with what it answered last in its THD; one that ends
\* has nothing left.
LEMMA BackFields ==
  ASSUME TypeOK, NEW s \in Sessions, NEW e \in 0 .. 2, Back(s, e)
  PROVE  /\ th' \in [Sessions -> Thread]
         /\ \A x \in Sessions \ {s} : th'[x] = th[x]
         /\ th[s].over \/ e # 0 => th'[s].pc = "closed"
         /\ ~(th[s].over \/ e # 0) =>
              /\ th'[s].pc = "read" /\ ~th'[s].over /\ th'[s].failed = th[s].failed
              /\ th'[s].error = th[s].error /\ th'[s].command = "sleep"
              /\ th'[s].server_status = th[s].server_status /\ th'[s].user_id = th[s].user_id
<1>1. CASE th[s].over \/ e # 0
  <2> DEFINE t == [Fresh EXCEPT !.pc = "closed"]
  <2>1. t \in Thread /\ t.pc = "closed"
    BY FreshType DEF Thread
  <2>2. th' = [th EXCEPT ![s] = t]
    BY <1>1 DEF Back
  <2> QED
    BY <1>1, <2>1, <2>2, ThreadSet
<1>2. CASE ~(th[s].over \/ e # 0)
  <2> DEFINE t == [th[s] EXCEPT !.pc = "read", !.command = "sleep"]
  <2>1. /\ t \in Thread /\ t.pc = "read" /\ t.over = th[s].over /\ t.failed = th[s].failed
        /\ t.error = th[s].error /\ t.command = "sleep" /\ t.server_status = th[s].server_status
        /\ t.user_id = th[s].user_id
    BY ThreadOf DEF Thread, Commands
  <2>2. th' = [th EXCEPT ![s] = t]
    BY <1>2 DEF Back
  <2> QED
    BY <1>2, <2>1, <2>2, ThreadSet
<1> QED
  BY <1>1, <1>2

\* No answer was written: the session ends.
LEMMA EndFine ==
  ASSUME IInv, NEW s \in Sessions, At(s, "reply"), NEW e \in 0 .. 2,
         Back(s, e), th[s].over \/ e # 0,
         UNCHANGED <<encrypted, History, Database, lock>>
  PROVE  Fine(s) /\ th'[s].pc = "closed"
<1> USE DEF IInv
<1>1. /\ th' \in [Sessions -> Thread] /\ th'[s].pc = "closed"
      /\ \A x \in Sessions \ {s} : th'[x] = th[x]
  BY BackFields
<1>2. TypeOK' /\ OthersSee(s)
  BY <1>1 DEF TypeOK, OthersSee, History, Database
<1>3. SInv(s)'
  BY <1>1 DEF SInv, AtRead, AtWork, AtExecute, AtReply
<1>4. ReplyOwn(s)'
  BY RepliesStay DEF History
<1> QED
  BY <1>1, <1>2, <1>3, <1>4 DEF Fine

\* A session that stays silent is over.
LEMMA SilentOver ==
  ASSUME IInv, NEW s \in Sessions, NoAnswer(s)
  PROVE  th[s].error \in 0 .. 2 /\ (th[s].over \/ th[s].error # 0)
<1>1. th[s] \in Thread
  BY ThreadOf DEF IInv
<1>2. AtReply(s) /\ th[s].pc = "reply" /\ (Silent(s) \/ th[s].error = 2)
  BY DEF IInv, SInv, NoAnswer, At
<1> QED
  BY <1>1, <1>2, ThreadFields DEF AtReply, Silent

LEMMA NoAnswerFine ==
  ASSUME IInv, NEW s \in Sessions, NoAnswer(s)
  PROVE  Fine(s)
BY SilentOver, EndFine DEF NoAnswer

LEMMA AnswerFailsFine ==
  ASSUME IInv, NEW s \in Sessions, AnswerFails(s)
  PROVE  Fine(s)
<1>1. Back(s, 2) /\ At(s, "reply") /\ UNCHANGED <<encrypted, History, Database, lock>>
  BY DEF AnswerFails
<1>2. 2 \in 0 .. 2 /\ 2 # 0
  OBVIOUS
<1> QED
  BY <1>1, <1>2, EndFine

\* The answer that is appended.
TheAnswer(s) == [of |-> Len(taken[s]), status |-> th[s].server_status,
                 uid |-> th[s].user_id, after |-> th[s].failed]

LEMMA AnswerFields ==
  ASSUME IInv, NEW s \in Sessions, Answer(s)
  PROVE  /\ TheAnswer(s) \in Reply /\ replies[s] \in Seq(Reply)
         /\ Len(replies[s]) \in Nat /\ Len(replies'[s]) = Len(replies[s]) + 1
         /\ replies'[s] \in Seq(Reply) /\ replies' \in [Sessions -> Seq(Reply)]
         /\ replies'[s][Len(replies'[s])] = TheAnswer(s)
         /\ \A i \in 1 .. Len(replies[s]) : replies'[s][i] = replies[s][i]
         /\ \A x \in Sessions \ {s} : replies'[x] = replies[x]
<1>1. th[s] \in Thread /\ taken[s] \in Seq(Requests) /\ replies[s] \in Seq(Reply)
      /\ replies \in [Sessions -> Seq(Reply)]
  BY ThreadOf DEF IInv, TypeOK
<1>2. TheAnswer(s) \in Reply
  BY <1>1, ThreadFields DEF TheAnswer, Reply
<1>3. replies' = [replies EXCEPT ![s] = Append(replies[s], TheAnswer(s))]
  BY DEF Answer, TheAnswer
<1> HIDE DEF TheAnswer
<1> QED
  BY <1>1, <1>2, <1>3

LEMMA AnswerFine ==
  ASSUME IInv, NEW s \in Sessions, Answer(s)
  PROVE  Fine(s)
<1> USE DEF IInv
<1>1. th[s].pc = "reply" /\ Back(s, th[s].error) /\ AtReply(s) /\ th[s].error \in 0 .. 2
  BY ThreadOf, ThreadFields DEF SInv, Answer, At
<1>2. /\ th' \in [Sessions -> Thread]
      /\ \A x \in Sessions \ {s} : th'[x] = th[x]
      /\ th[s].over \/ th[s].error # 0 => th'[s].pc = "closed"
      /\ ~(th[s].over \/ th[s].error # 0) =>
           /\ th'[s].pc = "read" /\ ~th'[s].over /\ th'[s].failed = th[s].failed
           /\ th'[s].error = th[s].error /\ th'[s].command = "sleep"
           /\ th'[s].server_status = th[s].server_status /\ th'[s].user_id = th[s].user_id
  BY <1>1, BackFields
<1>3. /\ TheAnswer(s) \in Reply
      /\ Len(replies[s]) \in Nat /\ Len(replies'[s]) = Len(replies[s]) + 1
      /\ replies'[s] \in Seq(Reply) /\ replies' \in [Sessions -> Seq(Reply)]
      /\ replies'[s][Len(replies'[s])] = TheAnswer(s)
      /\ \A i \in 1 .. Len(replies[s]) : replies'[s][i] = replies[s][i]
      /\ \A x \in Sessions \ {s} : replies'[x] = replies[x]
  BY AnswerFields
<1>4. /\ TheAnswer(s).of = Len(taken[s]) /\ TheAnswer(s).status = th[s].server_status
      /\ TheAnswer(s).uid = th[s].user_id
  BY DEF TheAnswer
<1>5. taken' = taken /\ users' = users /\ encrypted' = encrypted
  BY DEF Answer
<1>6. TypeOK' /\ OthersSee(s)
  BY <1>2, <1>3, <1>5 DEF TypeOK, OthersSee, Answer, Database
<1>7. SInv(s)'
  <2>1. CASE th'[s].pc = "closed"
    BY <2>1 DEF SInv, AtRead, AtWork, AtExecute, AtReply
  <2>2. CASE ~(th[s].over \/ th[s].error # 0)
    <3>1. ~th[s].failed /\ Own(s)
      BY <1>1, <2>2 DEF AtReply
    <3>2. Own(s)'
      BY <1>2, <1>5, <2>2, <3>1 DEF Own, Request
    <3>3. Repeats(s)'
      <4>1. replies'[s] # <<>>
        BY <1>3
      <4> QED
        BY <1>2, <1>3, <1>4, <2>2, <4>1 DEF Repeats, LastStatus, LastUid
    <3> QED
      BY <1>2, <2>2, <3>1, <3>2, <3>3 DEF SInv, AtRead, AtWork, AtExecute, AtReply
  <2> QED
    BY <1>2, <2>1, <2>2
<1>8. ReplyOwn(s)'
  <2> SUFFICES ASSUME NEW i \in 1 .. Len(replies'[s]), replies'[s][i].uid # 0
               PROVE  /\ replies'[s][i].uid \in 1 .. Len(users)
                      /\ users[replies'[s][i].uid] = <<s, replies'[s][i].of>>
                      /\ replies'[s][i].of \in 1 .. Len(taken[s])
                      /\ taken[s][replies'[s][i].of].cmd = "save"
                      /\ replies'[s][i].status = "ok"
    BY <1>5 DEF ReplyOwn
  <2>1. CASE i \in 1 .. Len(replies[s])
    <3>1. replies'[s][i] = replies[s][i]
      BY <1>3, <2>1
    <3>2. ReplyOwn(s)
      OBVIOUS
    <3> QED
      BY <2>1, <3>1, <3>2 DEF ReplyOwn
  <2>2. CASE i = Len(replies'[s])
    <3>1. Own(s) /\ Len(taken[s]) \in Nat
      BY <1>1 DEF AtReply, TypeOK
    <3>2. /\ replies'[s][i].of = Len(taken[s]) /\ replies'[s][i].status = th[s].server_status
          /\ replies'[s][i].uid = th[s].user_id
      BY <1>3, <1>4, <2>2
    <3>3. th[s].user_id # 0
      BY <3>2
    <3>4. /\ th[s].user_id \in 1 .. Len(users)
          /\ users[th[s].user_id] = <<s, Len(taken[s])>>
          /\ Len(taken[s]) > 0 /\ taken[s][Len(taken[s])].cmd = "save"
          /\ th[s].server_status = "ok"
      BY <3>1, <3>3 DEF Own, Request
    <3>5. Len(taken[s]) \in 1 .. Len(taken[s])
      BY <3>1, <3>4
    <3> QED
      BY <3>2, <3>4, <3>5
  <2> QED
    BY <1>3, <2>1, <2>2
<1> QED
  BY <1>6, <1>7, <1>8 DEF Fine

-----------------------------------------------------------------------------
(* The whole invariant.                                                    *)

LEMMA SessionFine ==
  ASSUME IInv, NEW s \in Sessions, Receive(s) \/ ReadFails(s) \/ Serve(s)
  PROVE  Fine(s)
BY ReceiveFine, ReadFailsFine, DispatchFine, SimpleFine, StartMaxUserFine, OpensFine,
   StopClosesFine, QueryFailsFine, StoreFine, NoAnswerFine, AnswerFine, AnswerFailsFine DEF Serve, Execute

LEMMA RowsAfter ==
  ASSUME IInv, NEW s \in Sessions, Receive(s) \/ ReadFails(s) \/ Serve(s)
  PROVE  RowsInv'
<1>1. users \in Seq(Sessions \X Nat) /\ taken \in [Sessions -> Seq(Requests)]
  BY DEF IInv, TypeOK
<1>2. CASE Receive(s)
  <2>1. PICK r \in Asks[s] : taken' = [taken EXCEPT ![s] = Append(@, r)]
    BY <1>2 DEF Receive
  <2>2. r \in Requests
    BY SessionAssumption
  <2>3. \A x \in Sessions : Len(taken[x]) \in Nat /\ Len(taken'[x]) \in {Len(taken[x]), Len(taken[x]) + 1}
    BY <1>1, <2>1, <2>2
  <2> SUFFICES ASSUME NEW u \in 1 .. Len(users)
               PROVE  users[u][2] \in 1 .. Len(taken'[users[u][1]])
    BY <1>2 DEF RowsInv, Receive
  <2>4. users[u][1] \in Sessions /\ users[u][2] \in Nat
    BY <1>1
  <2>5. users[u][2] \in 1 .. Len(taken[users[u][1]])
    BY DEF IInv, RowsInv
  <2> QED
    BY <2>3, <2>4, <2>5
<1>3. CASE Store(s)
  <2>1. th[s].pc = "query"
    BY <1>3 DEF Store, At
  <2>2. Len(taken[s]) \in Nat /\ Len(taken[s]) > 0
    BY <2>1, AtDatabase DEF AtWork
  <2>3. users' = Append(users, <<s, Len(taken[s])>>) /\ taken' = taken
    BY <1>3 DEF Store
  <2>4. /\ Len(users) \in Nat /\ Len(users') = Len(users) + 1
        /\ users'[Len(users) + 1] = <<s, Len(taken[s])>>
        /\ \A u \in 1 .. Len(users) : users'[u] = users[u]
    BY <1>1, <2>2, <2>3
  <2> SUFFICES ASSUME NEW u \in 1 .. Len(users')
               PROVE  users'[u][2] \in 1 .. Len(taken[users'[u][1]])
    BY <2>3 DEF RowsInv
  <2>5. CASE u \in 1 .. Len(users)
    BY <2>4, <2>5 DEF IInv, RowsInv
  <2>6. CASE u = Len(users) + 1
    BY <2>2, <2>4, <2>6
  <2> QED
    BY <2>4, <2>5, <2>6
<1>4. ASSUME users' = users, taken' = taken
      PROVE  RowsInv'
  BY <1>4 DEF IInv, RowsInv
<1>5. CASE ReadFails(s)
  BY <1>4, <1>5 DEF ReadFails, Sets, History
<1>6. CASE Serve(s) /\ ~Store(s)
  <2>1. users' = users /\ taken' = taken
    BY <1>6 DEF Serve, Execute, Dispatch, NotJson, Start, StartMaxUser, Stop, StopOpens,
       StopCloses, HandShake, Sleep, Quit, SaveMissing, SaveOpenFails, SaveOpens, QueryFails,
       NoAnswer, Answer, AnswerFails, Done, Sets, History
  <2> QED
    BY <1>4, <2>1
<1> QED
  BY <1>2, <1>3, <1>5, <1>6

(* The count of handles.                                                   *)

\* A session that neither begins to use the database nor ends it.
LEMMA SameUsing ==
  ASSUME NEW s \in Sessions, \A x \in Sessions \ {s} : th'[x] = th[x],
         (s \in Using)' <=> s \in Using, UNCHANGED <<handles, task>>, HandlesHeld
  PROVE  HandlesHeld'
<1>1. Using' = Using /\ Connected' = Connected
  BY DEF Using, Connected
<1> QED
  BY <1>1 DEF HandlesHeld

\* A session begins to use the database with one more handle.
LEMMA UsingBegins ==
  ASSUME NEW s \in Sessions, \A x \in Sessions \ {s} : th'[x] = th[x],
         s \notin Using, (s \in Using)', handles' = handles + 1, handles \in Nat,
         task' = task, HandlesHeld
  PROVE  HandlesHeld'
<1>1. Using' = Using \cup {s} /\ Connected' = Connected
  BY DEF Using, Connected
<1>2. Cardinality(Using') = Cardinality(Using) + 1
  BY <1>1, SetsFinite, FS_AddElement
<1> QED
  BY <1>1, <1>2, SetsFinite DEF HandlesHeld

\* A session is done with the database and closes at most its own handle.
LEMMA UsingEnds ==
  ASSUME NEW s \in Sessions, \A x \in Sessions \ {s} : th'[x] = th[x],
         s \in Using, (s \notin Using)', handles' \in {handles - 1, handles},
         handles \in Nat, task' = task, HandlesHeld
  PROVE  HandlesHeld'
<1>1. Using' = Using \ {s} /\ Connected' = Connected
  BY DEF Using, Connected
<1>2. Cardinality(Using') = Cardinality(Using) - 1
  BY <1>1, SetsFinite, FS_RemoveElement
<1> QED
  BY <1>1, <1>2, SetsFinite DEF HandlesHeld

LEMMA HandlesAfter ==
  ASSUME IInv, NEW s \in Sessions, Receive(s) \/ ReadFails(s) \/ Serve(s)
  PROVE  HandlesHeld'
<1>1. HandlesHeld /\ handles \in Nat /\ TypeOK
  BY DEF IInv, TypeOK
<1>2. Fine(s)
  BY SessionFine
<1>3. \A x \in Sessions \ {s} : th'[x] = th[x]
  BY <1>2 DEF Fine, OthersSee
<1>4. th \in [Sessions -> Thread] /\ th' \in [Sessions -> Thread]
  BY <1>1, <1>2 DEF Fine, TypeOK
<1>5. CASE SaveOpens(s) \/ StopOpens(s)
  <2>1. s \notin Using /\ (s \in Using)'
    BY <1>5, OpensFine DEF SaveOpens, StopOpens, Stopping, Executing, At, Using
  <2>2. handles' = handles + 1 /\ task' = task
    BY <1>5 DEF SaveOpens, StopOpens
  <2> QED
    BY <1>1, <1>3, <2>1, <2>2, UsingBegins
<1>6. CASE QueryFails(s) \/ Store(s) \/ StopCloses(s)
  <2>1. s \in Using
    BY <1>6 DEF QueryFails, Store, StopCloses, At, Using
  <2>2. th'[s].pc = "reply"
    <3>1. CASE Store(s)
      BY <1>4, <3>1 DEF Store, Thread
    <3> QED
      BY <1>6, <3>1, QueryFailsFine, StopClosesFine
  <2>3. handles' \in {handles - 1, handles} /\ task' = task
    BY <1>6 DEF QueryFails, Done, Sets, Store, StopCloses, Database
  <2>4. (s \notin Using)'
    BY <2>2 DEF Using
  <2> QED
    BY <1>1, <1>3, <2>1, <2>3, <2>4, UsingEnds
<1>7. CASE /\ ~SaveOpens(s) /\ ~StopOpens(s)
           /\ ~QueryFails(s) /\ ~Store(s) /\ ~StopCloses(s)
  <2>1. UNCHANGED <<handles, task>>
    BY <1>7 DEF Receive, ReadFails, Serve, Execute, Dispatch, NotJson, Start, StartMaxUser, Stop,
       HandShake, Sleep, Quit, SaveMissing, SaveOpenFails, NoAnswer, Answer, AnswerFails,
       Done, Sets, Database
  <2>2. s \notin Using /\ (s \notin Using)'
    <3>1. CASE NoAnswer(s) \/ Answer(s) \/ AnswerFails(s)
      <4>1. PICK e \in 0 .. 2 : Back(s, e)
        BY <1>1, <3>1, ThreadOf, ThreadFields DEF NoAnswer, Answer, AnswerFails
      <4>2. th'[s].pc \in {"closed", "read"}
        BY <1>1, <4>1, BackFields
      <4> QED
        BY <3>1, <4>2 DEF NoAnswer, Answer, AnswerFails, At, Using
    <3>2. CASE Receive(s) \/ ReadFails(s) \/ Dispatch(s)
      <4>1. th[s].pc \in {"read", "dispatch"}
        BY <3>2 DEF Receive, ReadFails, Dispatch, At
      <4>2. th'[s].pc \in {"dispatch", "reply", "execute"}
        <5>1. CASE Receive(s)
          BY <1>4, <5>1 DEF Receive, Thread
        <5>2. CASE ReadFails(s)
          <6>1. PICK e \in 0 .. 2 : th' = [th EXCEPT ![s] =
                  [th[s] EXCEPT !.pc = "reply", !.error = e, !.over = TRUE, !.failed = TRUE]]
            BY <5>2 DEF ReadFails, Sets
          <6> QED
            BY <1>4, <6>1 DEF Thread
        <5>3. CASE Dispatch(s)
          BY <1>4, <5>3 DEF Dispatch, Sets, Thread
        <5> QED
          BY <3>2, <5>1, <5>2, <5>3
      <4> QED
        BY <4>1, <4>2 DEF Using
    <3>3. CASE \/ NotJson(s) \/ Start(s) \/ Stop(s) \/ HandShake(s) \/ Sleep(s) \/ Quit(s)
               \/ SaveMissing(s) \/ SaveOpenFails(s) \/ StartMaxUser(s)
      <4>1. th[s].pc = "execute"
        BY <3>3 DEF NotJson, Start, StartMaxUser, Stop, Stopping, HandShake, Sleep, Quit,
           SaveMissing, SaveOpenFails, Executing, At
      <4>2. th'[s].pc = "reply"
        BY <3>3, SimpleFine, StartMaxUserFine
      <4> QED
        BY <4>1, <4>2 DEF Using
    <3> QED
      BY <1>7, <3>1, <3>2, <3>3 DEF Serve, Execute
  <2> QED
    BY <1>1, <1>3, <2>1, <2>2, SameUsing
<1> QED
  BY <1>5, <1>6, <1>7

\* A task opens a handle, closes it or leaves it behind.
LEMMA TaskFine ==
  ASSUME IInv, NEW t \in Tasks, Task(t)
  PROVE  TypeOK' /\ HandlesHeld'
<1>1. /\ HandlesHeld /\ handles \in 0 .. MaxHandles /\ MaxHandles \in Nat
      /\ task \in [Tasks -> {"idle", "connected"}] /\ TypeOK
  BY SessionAssumption DEF IInv, TypeOK
<1>2. Using' = Using
  BY DEF Using, Task, TaskOpens, TaskCloses, TaskAbandons
<1>3. UNCHANGED <<encrypted, th, taken, replies, users, lock>>
  BY DEF Task, TaskOpens, TaskCloses, TaskAbandons, History
<1>4. CASE TaskOpens(t)
  <2>1. Connected' = Connected \cup {t} /\ t \notin Connected
    BY <1>1, <1>4 DEF TaskOpens, Connected
  <2>2. Cardinality(Connected') = Cardinality(Connected) + 1
    BY <2>1, SetsFinite, FS_AddElement
  <2>3. handles' = handles + 1 /\ handles' \in 0 .. MaxHandles
    BY <1>1, <1>4 DEF TaskOpens
  <2>4. HandlesHeld'
    BY <1>1, <1>2, <2>2, <2>3, SetsFinite DEF HandlesHeld
  <2>5. TypeOK'
    BY <1>1, <1>3, <1>4, <2>3 DEF TypeOK, TaskOpens
  <2> QED
    BY <2>4, <2>5
<1>5. CASE TaskCloses(t) \/ TaskAbandons(t)
  <2>1. Connected' = Connected \ {t} /\ t \in Connected
    BY <1>1, <1>5 DEF TaskCloses, TaskAbandons, Connected
  <2>2. /\ Cardinality(Connected') = Cardinality(Connected) - 1
        /\ Cardinality(Connected') \in Nat
    BY <2>1, SetsFinite, FS_RemoveElement, FS_CardinalityType
  <2>3. handles > 0 /\ handles' \in {handles - 1, handles}
    BY <1>1, <1>5, <2>2, SetsFinite DEF HandlesHeld, TaskCloses, TaskAbandons
  <2>4. HandlesHeld'
    BY <1>1, <1>2, <2>2, <2>3, SetsFinite DEF HandlesHeld
  <2>5. TypeOK'
    <3>1. handles' \in 0 .. MaxHandles
      BY <1>1, <2>3
    <3>2. task' \in [Tasks -> {"idle", "connected"}]
      BY <1>1, <1>5 DEF TaskCloses, TaskAbandons
    <3> QED
      BY <1>1, <1>3, <3>1, <3>2 DEF TypeOK
  <2> QED
    BY <2>4, <2>5
<1> QED
  BY <1>4, <1>5 DEF Task

LEMMA InitIInv == Init => IInv
<1> SUFFICES ASSUME Init PROVE IInv
  OBVIOUS
<1>1. TypeOK
  BY FreshType, SessionAssumption DEF Init, TypeOK
<1>2. ASSUME NEW s \in Sessions PROVE SInv(s) /\ ReplyOwn(s)
  <2>1. th[s] = Fresh /\ taken[s] = <<>> /\ replies[s] = <<>> /\ users = <<>>
    BY DEF Init
  <2> QED
    BY <2>1 DEF Fresh, SInv, AtRead, AtWork, AtExecute, AtReply, Own, Repeats, LastStatus,
       LastUid, ReplyOwn
<1>3. RowsInv
  BY DEF Init, RowsInv
<1>4. HandlesHeld
  <2>1. Using = {} /\ Connected = {}
    BY DEF Init, Fresh, Using, Connected
  <2>2. Cardinality({}) = 0 /\ handles = 0
    BY FS_EmptySet DEF Init
  <2> QED
    BY <2>1, <2>2 DEF HandlesHeld
<1> QED
  BY <1>1, <1>2, <1>3, <1>4 DEF IInv

LEMMA NextIInv == IInv /\ [Next]_vars => IInv'
<1> SUFFICES ASSUME IInv, [Next]_vars PROVE IInv'
  OBVIOUS
<1>1. ASSUME NEW s \in Sessions, Receive(s) \/ ReadFails(s) \/ Serve(s)
      PROVE  IInv'
  <2>1. Fine(s) /\ RowsInv' /\ HandlesHeld'
    BY <1>1, SessionFine, RowsAfter, HandlesAfter
  <2>2. ASSUME NEW x \in Sessions PROVE SInv(x)' /\ ReplyOwn(x)'
    <3>1. CASE x = s
      BY <2>1, <3>1 DEF Fine
    <3>2. CASE x # s
      BY <2>1, <3>2, OthersKept DEF Fine, IInv
    <3> QED
      BY <3>1, <3>2
  <2> QED
    BY <2>1, <2>2 DEF IInv, Fine
<1>2. ASSUME NEW t \in Tasks, Task(t)
      PROVE  IInv'
  <2>1. TypeOK' /\ HandlesHeld'
    BY <1>2, TaskFine
  <2>2. UNCHANGED <<encrypted, th, taken, replies, users>>
    BY <1>2 DEF Task, TaskOpens, TaskCloses, TaskAbandons, History
  <2>3. ASSUME NEW s \in Sessions PROVE SInv(s)' /\ ReplyOwn(s)'
    <3>1. SInv(s)' <=> SInv(s)
      BY <2>2 DEF SInv, AtRead, AtWork, AtExecute, AtReply, Own, Repeats, LastStatus, LastUid,
         StoredRow, Request, Silent, Decrypted, AnswersTo
    <3>2. ReplyOwn(s)' <=> ReplyOwn(s)
      BY <2>2 DEF ReplyOwn
    <3> QED
      BY <3>1, <3>2 DEF IInv
  <2>4. RowsInv'
    BY <2>2 DEF IInv, RowsInv
  <2> QED
    BY <2>1, <2>3, <2>4 DEF IInv
<1>3. CASE UNCHANGED vars
  <2>1. UNCHANGED <<encrypted, th, taken, replies, users, handles, task, lock>>
    BY <1>3 DEF vars
  <2>2. ASSUME NEW s \in Sessions PROVE SInv(s)' /\ ReplyOwn(s)'
    <3>1. SInv(s)' <=> SInv(s)
      BY <2>1 DEF SInv, AtRead, AtWork, AtExecute, AtReply, Own, Repeats, LastStatus, LastUid,
         StoredRow, Request, Silent, Decrypted, AnswersTo
    <3>2. ReplyOwn(s)' <=> ReplyOwn(s)
      BY <2>1 DEF ReplyOwn
    <3> QED
      BY <3>1, <3>2 DEF IInv
  <2>3. TypeOK' /\ RowsInv' /\ HandlesHeld'
    BY <2>1 DEF IInv, TypeOK, RowsInv, HandlesHeld, Using, Connected
  <2> QED
    BY <2>2, <2>3 DEF IInv
<1> QED
  BY <1>1, <1>2, <1>3 DEF Next

\* Every session is where SInv says, every row and reply is accounted for, and whoever
\* uses the database has a handle of its own, in each reachable state of
\* dispatch_command, SaveToken, CleanUp and MysqlDealTask.
THEOREM Inductive == Spec => []IInv
BY InitIInv, NextIInv, PTL DEF Spec

\* Every variable of the command loop keeps its type; so no handle is closed twice and
\* none is opened beyond the limit.
THEOREM TypeCorrect == Spec => []TypeOK
<1>1. IInv => TypeOK
  BY DEF IInv
<1> QED
  BY Inductive, <1>1, PTL

\* The user index of a stored token reaches only the client that stored it, as the
\* answer to that save.
THEOREM OwnUserCorrect == Spec => []OwnUser
<1>1. IInv => OwnUser
  BY DEF IInv, ReplyOwn, OwnUser
<1> QED
  BY Inductive, <1>1, PTL

-----------------------------------------------------------------------------
(***************************************************************************)
(* Refinement: each step is a step of CommandService or a stutter.  The    *)
(* answer is given when it is written; a write that fails ends a session.  *)
(***************************************************************************)
\* A sequence of replies shows as a sequence.
LEMMA ShownSeq ==
  ASSUME NEW r \in Seq(Reply)
  PROVE  Shown(r) \in Seq([status : Statuses, uid : Nat]) /\ Len(Shown(r)) = Len(r)
<1> DEFINE S == [status : Statuses, uid : Nat]
<1>1. Len(r) \in Nat /\ \A i \in 1 .. Len(r) : r[i] \in Reply
  OBVIOUS
<1>2. \A i \in 1 .. Len(r) : [status |-> r[i].status, uid |-> r[i].uid] \in S
  BY <1>1 DEF Reply
<1>3. Shown(r) \in [1 .. Len(r) -> S]
  BY <1>2 DEF Shown
<1> HIDE DEF S
<1>4. Shown(r) \in Seq(S)
  BY <1>1, <1>3, SeqDef
<1>5. Len(Shown(r)) = Len(r)
  BY <1>1, <1>3, <1>4, LenProperties
<1> QED
  BY <1>4, <1>5 DEF S

\* Another answer shows as another answer.
LEMMA ShownAppend ==
  ASSUME NEW r \in Seq(Reply), NEW a \in Reply
  PROVE  /\ Shown(Append(r, a)) = Append(Shown(r), [status |-> a.status, uid |-> a.uid])
         /\ Len(Shown(r)) = Len(r)
<1> DEFINE b == [status |-> a.status, uid |-> a.uid]
           ra == Append(r, a)
<1>1. /\ Len(r) \in Nat /\ Len(ra) = Len(r) + 1 /\ ra[Len(r) + 1] = a
      /\ \A i \in 1 .. Len(r) : ra[i] = r[i]
  OBVIOUS
<1>2. Shown(r) \in Seq([status : Statuses, uid : Nat]) /\ Len(Shown(r)) = Len(r)
  BY ShownSeq
<1>3. b \in [status : Statuses, uid : Nat]
  BY DEF Reply
<1>4. Shown(ra) \in Seq([status : Statuses, uid : Nat]) /\ Len(Shown(ra)) = Len(r) + 1
  <2>1. ra \in Seq(Reply)
    OBVIOUS
  <2> QED
    BY <1>1, <2>1, ShownSeq
<1> HIDE DEF b, ra
<1>5. \A i \in 1 .. Len(r) + 1 : Shown(ra)[i] = Append(Shown(r), b)[i]
  <2> SUFFICES ASSUME NEW i \in 1 .. Len(r) + 1
               PROVE  Shown(ra)[i] = Append(Shown(r), b)[i]
    OBVIOUS
  <2>1. CASE i \in 1 .. Len(r)
    <3>1. Append(Shown(r), b)[i] = Shown(r)[i]
      BY <1>2, <1>3, <2>1
    <3>2. Shown(ra)[i] = Shown(r)[i]
      BY <1>1, <2>1 DEF Shown
    <3> QED
      BY <3>1, <3>2
  <2>2. CASE i = Len(r) + 1
    <3>1. Append(Shown(r), b)[i] = b
      BY <1>1, <1>2, <1>3, <2>2
    <3>2. Shown(ra)[i] = b
      BY <1>1, <2>2 DEF Shown, b
    <3> QED
      BY <3>1, <3>2
  <2>3. i \in 1 .. Len(r) \/ i = Len(r) + 1
    BY <1>1
  <2> QED
    BY <2>1, <2>2, <2>3
<1>6. Append(Shown(r), b) \in Seq([status : Statuses, uid : Nat]) /\ Len(Append(Shown(r), b)) = Len(r) + 1
  BY <1>1, <1>2, <1>3
<1>7. Shown(ra) = Append(Shown(r), b)
  BY <1>4, <1>5, <1>6, SeqEqual
<1> QED
  BY <1>2, <1>7 DEF b, ra

\* What the last reply shows is what the abstract session repeats.
LEMMA LastShown ==
  ASSUME TypeOK, NEW s \in Sessions
  PROVE  Service!LastReply(s) = [status |-> LastStatus(s), uid |-> LastUid(s)]
<1>1. replies[s] \in Seq(Reply) /\ Written[s] = Shown(replies[s])
  BY DEF TypeOK, Written
<1>2. CASE replies[s] = <<>>
  <2>1. Written[s] = <<>>
    BY <1>1, <1>2 DEF Shown
  <2> QED
    BY <1>2, <2>1 DEF Service!LastReply, LastStatus, LastUid
<1>3. CASE replies[s] # <<>>
  <2>1. Len(replies[s]) \in 1 .. Len(replies[s])
    BY <1>1, <1>3
  <2>2. /\ Len(Written[s]) = Len(replies[s]) /\ Written[s] # <<>>
        /\ Written[s][Len(replies[s])] = [status |-> replies[s][Len(replies[s])].status,
                                          uid |-> replies[s][Len(replies[s])].uid]
    BY <1>1, <2>1 DEF Shown
  <2> QED
    BY <1>3, <2>2 DEF Service!LastReply, LastStatus, LastUid
<1> QED
  BY <1>2, <1>3

\* A step of s leaves what the others show alone.
LEMMA ShownMoves ==
  ASSUME TypeOK, NEW s \in Sessions, OthersSee(s)
  PROVE  /\ Waiting' = [Waiting EXCEPT ![s] = Waits(s)']
         /\ Open' = [Open EXCEPT ![s] = ~At(s, "closed")']
         /\ Written' = [Written EXCEPT ![s] = Shown(replies[s])']
<1>1. \A x \in Sessions \ {s} : th'[x] = th[x] /\ replies'[x] = replies[x]
  BY DEF OthersSee
<1>2. \A x \in Sessions \ {s} : Waits(x)' = Waits(x) /\ At(x, "closed")' = At(x, "closed")
  BY <1>1 DEF Waits, At
<1>3. Waiting' = [Waiting EXCEPT ![s] = Waits(s)']
  BY <1>2 DEF Waiting
<1>4. Open' = [Open EXCEPT ![s] = ~At(s, "closed")']
  BY <1>2 DEF Open
<1>5. Written' = [Written EXCEPT ![s] = Shown(replies[s])']
  BY <1>1 DEF Written, Shown
<1> QED
  BY <1>3, <1>4, <1>5

LEMMA Booleans ==
  ASSUME NEW s \in Sessions
  PROVE  /\ Waits(s) \in BOOLEAN /\ At(s, "closed") \in BOOLEAN
         /\ Waits(s)' \in BOOLEAN /\ At(s, "closed")' \in BOOLEAN
<1>1. Waits(s) \in BOOLEAN
  BY DEF Waits
<1>2. Waits(s)' \in BOOLEAN
  BY DEF Waits
<1>3. At(s, "closed") \in BOOLEAN
  BY DEF At
<1>4. At(s, "closed")' \in BOOLEAN
  BY DEF At
<1> QED
  BY <1>1, <1>2, <1>3, <1>4

\* A step that shows nothing.
LEMMA Stutters ==
  ASSUME TypeOK, NEW s \in Sessions, OthersSee(s),
         Waits(s)' <=> Waits(s), At(s, "closed")' <=> At(s, "closed"),
         UNCHANGED <<taken, replies, users>>
  PROVE  UNCHANGED Service!vars
<1>1. \A x \in Sessions \ {s} : th'[x] = th[x]
  BY DEF OthersSee
<1>2. \A x \in Sessions : Waits(x)' = Waits(x) /\ At(x, "closed")' = At(x, "closed")
  <2> SUFFICES ASSUME NEW x \in Sessions
               PROVE  Waits(x)' = Waits(x) /\ At(x, "closed")' = At(x, "closed")
    OBVIOUS
  <2>1. CASE x = s
    BY <2>1, Booleans
  <2>2. CASE x # s
    BY <1>1, <2>2 DEF Waits, At
  <2> QED
    BY <2>1, <2>2
<1>3. Waiting' = Waiting /\ Open' = Open /\ Written' = Written
  BY <1>2 DEF Waiting, Open, Written
<1> QED
  BY <1>3 DEF Service!vars

\* The session ends without an answer.
LEMMA Ends ==
  ASSUME IInv, NEW s \in Sessions, At(s, "reply"), NEW e \in 0 .. 2, Back(s, e),
         th[s].over \/ e # 0, UNCHANGED <<encrypted, History, Database, lock>>
  PROVE  Service!End(s)
<1>1. Fine(s) /\ th'[s].pc = "closed" /\ TypeOK
  BY EndFine DEF IInv
<1>2. At(s, "closed")' /\ ~At(s, "closed")
  BY <1>1 DEF At
<1>3. Waits(s)' = FALSE
  BY <1>1 DEF Waits, At
<1>4. UNCHANGED <<taken, replies, users>>
  BY DEF History
<1>5. Waiting' = [Waiting EXCEPT ![s] = FALSE] /\ Open' = [Open EXCEPT ![s] = FALSE]
  BY <1>1, <1>2, <1>3, ShownMoves DEF Fine
<1>6. Open[s] /\ Written' = Written
  BY <1>2, <1>4 DEF Open, Written
<1> QED
  BY <1>4, <1>5, <1>6 DEF Service!End

LEMMA ReceiveTakes ==
  ASSUME IInv, NEW s \in Sessions, Receive(s)
  PROVE  Service!Take(s)
<1>1. Fine(s) /\ TypeOK
  BY ReceiveFine DEF IInv
<1>2. PICK r \in Asks[s] : taken' = [taken EXCEPT ![s] = Append(@, r)]
  BY DEF Receive
<1>3. r \in Requests
  BY SessionAssumption
<1>4. th[s].pc = "read" /\ th'[s].pc = "dispatch"
  BY <1>1 DEF Receive, At, TypeOK, Thread
<1>5. ~Waits(s) /\ Waits(s)' = TRUE /\ ~At(s, "closed") /\ At(s, "closed")' = FALSE
  BY <1>4 DEF Waits, At
<1>6. Waiting' = [Waiting EXCEPT ![s] = TRUE] /\ Open' = [Open EXCEPT ![s] = TRUE]
  BY <1>1, <1>5, ShownMoves DEF Fine
<1>7. Open[s] /\ ~Waiting[s] /\ Open' = Open
  BY <1>5, <1>6 DEF Open, Waiting
<1>8. Written' = Written /\ users' = users
  BY DEF Receive, Written
<1> QED
  BY <1>2, <1>3, <1>6, <1>7, <1>8 DEF Service!Take

LEMMA StoreStores ==
  ASSUME IInv, NEW s \in Sessions, Store(s)
  PROVE  Service!Store(s)
<1>1. Fine(s) /\ TypeOK /\ AtWork(s)
  BY StoreFine DEF IInv, SInv
<1>2. th[s].pc = "query" /\ ~StoredRow(s) /\ ~th[s].failed
  BY <1>1 DEF Store, At, AtWork
<1>3. th'[s].pc = "reply" /\ ~th'[s].failed
  BY <1>1, <1>2 DEF Store, At, TypeOK, Thread
<1>4. Waits(s) /\ Waits(s)' /\ ~At(s, "closed") /\ ~At(s, "closed")'
  BY <1>2, <1>3 DEF Waits, At
<1>5. \A x \in Sessions \ {s} : th'[x] = th[x]
  BY <1>1 DEF Fine, OthersSee
<1>6. Waiting' = Waiting /\ Open' = Open /\ Written' = Written
  <2>1. \A x \in Sessions : Waits(x)' = Waits(x) /\ At(x, "closed")' = At(x, "closed")
    <3> SUFFICES ASSUME NEW x \in Sessions
                 PROVE  Waits(x)' = Waits(x) /\ At(x, "closed")' = At(x, "closed")
      OBVIOUS
    <3>1. CASE x = s
      BY <1>4, <3>1, Booleans
    <3>2. CASE x # s
      BY <1>5, <3>2 DEF Waits, At
    <3> QED
      BY <3>1, <3>2
  <2>2. replies' = replies
    BY DEF Store
  <2> QED
    BY <2>1, <2>2 DEF Waiting, Open, Written
<1>7. Waiting[s] /\ ~Service!Stored(s)
  BY <1>2, <1>4 DEF Waiting, Service!Stored, Service!Current, StoredRow
<1> QED
  BY <1>6, <1>7 DEF Store, Service!Store, Service!Current

LEMMA AnswerAnswers ==
  ASSUME IInv, NEW s \in Sessions, Answer(s)
  PROVE  Service!Answer(s) \/ Service!LastWord(s)
<1>1. /\ Fine(s) /\ TypeOK /\ AtReply(s) /\ th[s] \in Thread
      /\ At(s, "reply") /\ ~Silent(s) /\ Back(s, th[s].error) /\ th[s].pc = "reply"
  BY AnswerFine, ThreadOf DEF IInv, SInv, Answer, At
<1> DEFINE a == [status |-> th[s].server_status, uid |-> th[s].user_id]
<1>2. /\ th[s].over \/ th[s].error # 0 => th'[s].pc = "closed"
      /\ ~(th[s].over \/ th[s].error # 0) => th'[s].pc = "read"
  BY <1>1, BackFields, ThreadFields
<1>3. Waits(s)' = FALSE /\ ~At(s, "closed")
  BY <1>1, <1>2 DEF Waits, At
<1>4. taken' = taken /\ users' = users
  BY DEF Answer
<1>5. Shown(replies[s])' = Append(Shown(replies[s]), a)
  <2>1. /\ TheAnswer(s) \in Reply /\ replies[s] \in Seq(Reply)
    BY AnswerFields
  <2>2. replies'[s] = Append(replies[s], TheAnswer(s))
    <3>1. replies \in [Sessions -> Seq(Reply)] /\ replies' = [replies EXCEPT ![s] = Append(replies[s], TheAnswer(s))]
      BY <1>1 DEF TypeOK, Answer, TheAnswer
    <3> QED
      BY <3>1
  <2>3. TheAnswer(s).status = th[s].server_status /\ TheAnswer(s).uid = th[s].user_id
    BY DEF TheAnswer
  <2>4. Shown(replies'[s]) = Append(Shown(replies[s]), a)
    BY <2>1, <2>2, <2>3, ShownAppend
  <2> QED
    BY <2>4 DEF Shown
<1>6. /\ Waiting' = [Waiting EXCEPT ![s] = FALSE]
      /\ Open' = [Open EXCEPT ![s] = ~At(s, "closed")']
      /\ Written' = [Written EXCEPT ![s] = Append(Written[s], a)]
  <2>1. Written[s] = Shown(replies[s])
    BY DEF Written
  <2> QED
    BY <1>1, <1>3, <1>5, <2>1, ShownMoves DEF Fine
<1>7. Open[s] /\ Waiting \in [Sessions -> BOOLEAN]
  BY <1>3 DEF Open, Waiting, Waits, At
<1>8. CASE th[s].failed
  <2>1. th[s].over /\ Repeats(s) /\ ~Waits(s)
    BY <1>1, <1>8 DEF AtReply, Waits, At
  <2>2. At(s, "closed")' = TRUE /\ ~Waiting[s]
    BY <1>2, <2>1 DEF At, Waiting
  <2>3. Open' = [Open EXCEPT ![s] = FALSE]
    BY <1>6, <2>2
  <2>4. Waiting' = Waiting
    BY <1>6, <1>7, <2>2
  <2>5. Service!LastReply(s) = a
    BY <1>1, <2>1, LastShown DEF Repeats
  <2> HIDE DEF a
  <2>6. Service!LastWord(s)
    BY <1>4, <1>6, <1>7, <2>2, <2>3, <2>4, <2>5 DEF Service!LastWord
  <2> QED
    BY <2>6
<1>9. CASE ~th[s].failed
  <2>1. /\ Waits(s) /\ Own(s)
        /\ th[s].user_id = 0 => ~StoredRow(s)
        /\ th[s].server_status \in AnswersTo[Request(s)]
    BY <1>1, <1>9 DEF AtReply, Waits, At
  <2>2. Waiting[s]
    BY <2>1 DEF Waiting
  <2>3. Service!Stored(s) <=> StoredRow(s)
    BY DEF Service!Stored, Service!Current, StoredRow
  <2>4. th[s].user_id # 0 => StoredRow(s)
    BY <2>1 DEF Own, StoredRow
  <2>5. Service!Right(s, a)
    <3>1. CASE th[s].user_id = 0
      BY <2>1, <2>3, <3>1 DEF Service!Right, Request
    <3>2. CASE th[s].user_id # 0
      BY <2>1, <2>3, <2>4, <3>2 DEF Service!Right, Service!Current, Request, Own
    <3> QED
      BY <3>1, <3>2
  <2>6. a \in [status : AnswersTo[taken[s][Len(taken[s])]], uid : 0 .. Len(users)]
    <3>1. th[s].user_id \in 0 .. Len(users)
      <4>1. Len(users) \in Nat
        BY <1>1 DEF TypeOK
      <4> QED
        BY <2>1, <4>1 DEF Own
    <3> QED
      BY <2>1, <3>1 DEF Request
  <2>7. \E b \in BOOLEAN : Open' = [Open EXCEPT ![s] = b]
    BY <1>6
  <2> HIDE DEF a
  <2>8. Service!Answer(s)
    BY <1>4, <1>6, <1>7, <2>2, <2>5, <2>6, <2>7 DEF Service!Answer
  <2> QED
    BY <2>8
<1> QED
  BY <1>8, <1>9

\* What CommandService does not see of a session.
LEMMA Hidden ==
  ASSUME IInv, NEW s \in Sessions,
         ReadFails(s) \/ Dispatch(s) \/ (Execute(s) /\ ~Store(s))
  PROVE  UNCHANGED Service!vars
<1>1. Fine(s) /\ TypeOK /\ OthersSee(s) /\ th[s] \in Thread /\ AtRead(s) /\ AtWork(s)
  BY SessionFine, ThreadOf DEF Serve, IInv, Fine, SInv
<1>2. UNCHANGED <<taken, replies, users>>
  BY DEF ReadFails, Dispatch, Execute, NotJson, Start, StartMaxUser, Stop, StopOpens,
     StopCloses, HandShake, Sleep, Quit, SaveMissing, SaveOpenFails, SaveOpens, QueryFails, Done, Sets, History
<1>3. CASE ReadFails(s)
  <2>1. PICK e \in 0 .. 2 : Sets(s, [th[s] EXCEPT !.pc = "reply", !.error = e,
                                                   !.over = TRUE, !.failed = TRUE])
    BY <1>3 DEF ReadFails
  <2> DEFINE t == [th[s] EXCEPT !.pc = "reply", !.error = e, !.over = TRUE, !.failed = TRUE]
  <2>2. t \in Thread /\ t.pc = "reply" /\ t.failed
    BY <1>1 DEF Thread
  <2>3. th'[s] = t
    BY <1>1, <2>1, <2>2, SetsThread
  <2>4. th[s].pc = "read"
    BY <1>3 DEF ReadFails, At
  <2>5. ~Waits(s) /\ ~Waits(s)' /\ ~At(s, "closed") /\ ~At(s, "closed")'
    BY <2>2, <2>3, <2>4 DEF Waits, At
  <2> QED
    BY <1>1, <1>2, <2>5, Stutters
<1>4. CASE Dispatch(s) \/ (Execute(s) /\ ~Store(s))
  <2>1. th[s].pc \in {"dispatch", "execute", "query", "cleanup"}
    BY <1>4 DEF Dispatch, Execute, NotJson, Start, StartMaxUser, Stop, StopOpens, Stopping,
       StopCloses, HandShake, Sleep, Quit, SaveMissing, SaveOpenFails, SaveOpens, QueryFails, Store, Executing, At
  <2>2. ~th[s].failed
    BY <1>1, <2>1 DEF AtWork
  <2>3. th'[s].pc \in {"execute", "query", "cleanup", "reply"} /\ ~th'[s].failed
    <3>1. CASE Dispatch(s)
      <4> DEFINE t == [th[s] EXCEPT !.pc = "execute", !.command = Decrypted(Request(s)),
                                    !.user_id = 0, !.server_status = "ok"]
      <4>1. t.pc = "execute" /\ t.failed = th[s].failed
        BY <1>1 DEF Thread
      <4>2. th'[s] = t
        BY <1>1, <3>1 DEF Dispatch, Sets, TypeOK
      <4> QED
        BY <2>2, <4>1, <4>2
    <3>2. CASE \/ NotJson(s) \/ Start(s) \/ Stop(s) \/ HandShake(s) \/ Sleep(s) \/ Quit(s)
               \/ SaveMissing(s) \/ SaveOpenFails(s)
      <4>1. th'[s].pc = "reply" /\ AtReply(s)'
        BY <3>2, SimpleFine DEF Fine, SInv
      <4>2. ~th'[s].failed
        BY <3>2, SimpleFine
      <4> QED
        BY <4>1, <4>2
    <3>3. CASE SaveOpens(s) \/ StopOpens(s)
      BY <3>3, OpensFine
    <3>4. CASE StartMaxUser(s) \/ StopCloses(s) \/ QueryFails(s)
      BY <3>4, StartMaxUserFine, StopClosesFine, QueryFailsFine
    <3> QED
      BY <1>4, <3>1, <3>2, <3>3, <3>4 DEF Execute
  <2>4. Waits(s) /\ Waits(s)' /\ ~At(s, "closed") /\ ~At(s, "closed")'
    BY <2>1, <2>2, <2>3 DEF Waits, At
  <2> QED
    BY <1>1, <1>2, <2>4, Stutters
<1> QED
  BY <1>3, <1>4

LEMMA RefinementInit == Init => Service!Init
<1> SUFFICES ASSUME Init PROVE Service!Init
  OBVIOUS
<1>1. \A s \in Sessions : th[s].pc = "read"
  BY DEF Init, Fresh
<1>2. Waiting = [s \in Sessions |-> FALSE] /\ Open = [s \in Sessions |-> TRUE]
  BY <1>1 DEF Waiting, Waits, Open, At
<1>3. Written = [s \in Sessions |-> <<>>]
  BY DEF Written, Shown, Init
<1> QED
  BY <1>2, <1>3 DEF Init, Service!Init

LEMMA RefinementStep == IInv /\ [Next]_vars => [Service!Next]_(Service!vars)
<1> SUFFICES ASSUME IInv, [Next]_vars PROVE [Service!Next]_(Service!vars)
  OBVIOUS
<1>1. CASE UNCHANGED vars
  BY <1>1 DEF vars, Service!vars, Waiting, Waits, Written, Open, At
<1>2. ASSUME NEW t \in Tasks, Task(t) PROVE UNCHANGED Service!vars
  BY <1>2 DEF Task, TaskOpens, TaskCloses, TaskAbandons, History, Service!vars, Waiting, Waits,
     Written, Open, At
<1>3. ASSUME NEW s \in Sessions, Receive(s) PROVE Service!Next
  BY <1>3, ReceiveTakes DEF Service!Next
<1>4. ASSUME NEW s \in Sessions, ReadFails(s) PROVE UNCHANGED Service!vars
  BY <1>4, Hidden
<1>5. ASSUME NEW s \in Sessions, Serve(s) PROVE [Service!Next]_(Service!vars)
  <2>1. CASE Dispatch(s) \/ (Execute(s) /\ ~Store(s))
    BY <2>1, Hidden
  <2>2. CASE Store(s)
    BY <2>2, StoreStores DEF Service!Next
  <2>3. CASE NoAnswer(s)
    BY <2>3, SilentOver, Ends DEF NoAnswer, Service!Next
  <2>4. CASE AnswerFails(s)
    <3>1. 2 \in 0 .. 2 /\ 2 # 0 /\ Back(s, 2) /\ At(s, "reply") /\ UNCHANGED <<encrypted, History, Database, lock>>
      BY <2>4 DEF AnswerFails
    <3>2. Service!End(s)
      BY <3>1, Ends
    <3> QED
      BY <3>2 DEF Service!Next
  <2>5. CASE Answer(s)
    BY <2>5, AnswerAnswers DEF Service!Next
  <2> QED
    BY <1>5, <2>1, <2>2, <2>3, <2>4, <2>5 DEF Serve
<1> QED
  BY <1>1, <1>2, <1>3, <1>4, <1>5 DEF Next

\* The command loop implements CommandService: one answer per request, with a status
\* of that request and the user index it stored, and after a failed read at most a
\* repetition of the last answer.
THEOREM Refinement == Spec => ImplementsService
<1>1. Init => Service!Init
  BY RefinementInit
<1>2. IInv /\ [Next]_vars => [Service!Next]_(Service!vars)
  BY RefinementStep
<1> QED
  BY Inductive, <1>1, <1>2, PTL DEF Spec, ImplementsService, Service!Spec
=============================================================================
