----------------------------- MODULE MCSession -----------------------------
EXTENDS CommandSession

CONSTANTS s1, s2, t1

\* One request for each way through dispatch_command.  In the build with encryption
\* a sleep that does not decrypt is a quit; with sealed requests that build does what
\* the one without encryption does.
Ask(c, f) == [cmd |-> c, form |-> f, sealed |-> TRUE]
Unsealed(c) == [cmd |-> c, form |-> "text", sealed |-> FALSE]
SomeRequests == {Ask(c, "complete") : c \in NeedsObject} \cup
                {Ask("stop", "object"), Ask("save", "object"), Ask("save", "text"),
                 Ask("sleep", "text"), Unsealed("sleep"), Unsealed("hand")}

\* The second client competes for the database and for LOCK_SetupNoti.
Repertoire == [s \in {s1, s2} |-> IF s = s1 THEN SomeRequests
                                  ELSE {Ask("save", "complete"), Ask("stop", "complete")}]

TwoAndOne == [s \in {s1, s2} |-> IF s = s1 THEN 2 ELSE 1]
=============================================================================
