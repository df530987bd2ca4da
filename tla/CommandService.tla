--------------------------- MODULE CommandService ---------------------------
(***************************************************************************)
(* What a session promises its client: a request is answered at most once  *)
(* and before the next one is taken, with a status that belongs to that    *)
(* request, and with a user index exactly where the request stored a       *)
(* token; a session may end at any time; when it ends because a packet     *)
(* could not be read, its last word repeats the answer before.             *)
(***************************************************************************)
EXTENDS Naturals, Sequences

CONSTANTS Sessions, Requests,
          AnswersTo  \* the statuses a request may be answered with

VARIABLES taken,    \* the requests each session took
          waiting,  \* whether the last of them is still to be answered
          replies,  \* what it answered: status and user index
          open,     \* whether it goes on
          users     \* the session and request each user index was given to

vars == <<taken, waiting, replies, open, users>>

Init == /\ taken   = [s \in Sessions |-> <<>>]
        /\ waiting = [s \in Sessions |-> FALSE]
        /\ replies = [s \in Sessions |-> <<>>]
        /\ open    = [s \in Sessions |-> TRUE]
        /\ users   = <<>>

Take(s) == /\ open[s] /\ ~waiting[s]
           /\ \E r \in Requests : taken' = [taken EXCEPT ![s] = Append(@, r)]
           /\ waiting' = [waiting EXCEPT ![s] = TRUE]
           /\ UNCHANGED <<replies, open, users>>

Current(s) == <<s, Len(taken[s])>>

Stored(s) == \E u \in 1 .. Len(users) : users[u] = Current(s)

\* The request's token gets the next user index.
Store(s) == /\ waiting[s] /\ ~Stored(s)
            /\ users' = Append(users, Current(s))
            /\ UNCHANGED <<taken, waiting, replies, open>>

Right(s, reply) ==
  /\ reply.status \in AnswersTo[taken[s][Len(taken[s])]]
  /\ IF Stored(s) THEN /\ reply.status = "ok"
                       /\ reply.uid \in 1 .. Len(users) /\ users[reply.uid] = Current(s)
                  ELSE reply.uid = 0

\* The session may end with its answer.
Answer(s) == /\ open[s] /\ waiting[s]
             /\ \E reply \in [status : AnswersTo[taken[s][Len(taken[s])]],
                              uid : 0 .. Len(users)] :
                  /\ Right(s, reply)
                  /\ replies' = [replies EXCEPT ![s] = Append(@, reply)]
             /\ waiting' = [waiting EXCEPT ![s] = FALSE]
             /\ \E b \in BOOLEAN : open' = [open EXCEPT ![s] = b]
             /\ UNCHANGED <<taken, users>>

End(s) == /\ open[s]
          /\ open' = [open EXCEPT ![s] = FALSE]
          /\ waiting' = [waiting EXCEPT ![s] = FALSE]
          /\ UNCHANGED <<taken, replies, users>>

LastReply(s) == IF replies[s] = <<>> THEN [status |-> "ok", uid |-> 0]
                                     ELSE replies[s][Len(replies[s])]

LastWord(s) == /\ ~waiting[s] /\ open[s]
               /\ replies' = [replies EXCEPT ![s] = Append(@, LastReply(s))]
               /\ open' = [open EXCEPT ![s] = FALSE]
               /\ UNCHANGED <<taken, waiting, users>>

Next == \E s \in Sessions : Take(s) \/ Store(s) \/ Answer(s) \/ End(s) \/ LastWord(s)

Spec == Init /\ [][Next]_vars
=============================================================================
