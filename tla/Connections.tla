---------------------------- MODULE Connections ----------------------------
(***************************************************************************)
(* The connections of one rm3 process to PostgreSQL: connectWrap and the    *)
(* transaction helpers of lib/db.js, and the ways in which the operations   *)
(* of lib/update and the look-ups of lib/query.js hold a connection, give   *)
(* it back and fail.                                                       *)
(*                                                                         *)
(* A request runs operations one after the other.  Each takes a connection *)
(* from the pool (pg.connect), sends its statements one by one, and calls  *)
(* `done' before it answers.  The pool has a limit; who finds it empty     *)
(* waits in line.  Statements fail, connections are lost with whatever     *)
(* transaction was open on them, answers to COMMIT get lost, and the       *)
(* process dies, not least by an error handler that expects a connection   *)
(* it is not given; the requests in it die too, and PostgreSQL rolls back. *)
(*                                                                         *)
(* What the statements write is modelled in EntityUpdates; here a write is *)
(* its name.  Transactions that wait for each other are modelled there.    *)
(*                                                                         *)
(* A definition that a comment calls a mutant is a plausible mistake in    *)
(* the code of the definition after it, and no part of the specification.  *)
(***************************************************************************)
EXTENDS Naturals, Sequences, FiniteSets

CONSTANTS
    Requests,   \* HTTP requests to the process
    Conns,      \* as many connections as the pool may have
    NoConn,     \* no connection
    Workload,   \* what each of them asks for
    MaxFaults   \* bound on failures of statements, connections and processes

Kinds == {"history", "account", "photo"}

ASSUME ConnsExist == Conns # {} /\ NoConn \notin Conns
ASSUME WorkloadIsKnown == Workload \in [Requests -> Kinds]
ASSUME MaxFaultsIsNat == MaxFaults \in Nat

VARIABLES
    up,         \* is there a process?
    queue,      \* requests that wait for a connection, first come first served
    conns,      \* the connections, on both of their ends
    req,        \* how far each request is
    kept,       \* what each operation of each request has written for good
    doubtful,   \* history: requests that lost the answer to a write or COMMIT
    faults      \* number of failures so far

vars == <<up, queue, conns, req, kept, doubtful, faults>>

---------------------------------------------------------------------------
(* Operations and requests. *)

\* A look-up of lib/query.js: one statement, and a last callback that takes
\* (err, done, ...) and so needs no connection.
Look == <<"select">>

\* fetchViaLog, with _readLogentry, which takes no row for an error.
LookInLog == <<"read">>

\* createCredential, updateCredential, addBlob: one statement, no BEGIN.
Store == <<"insert">>

\* createEntity; "exec" is execLogentry and writeTags.
Create == <<"BEGIN", "exec", "log", "COMMIT">>

\* updateEntity; "read" is lookupOldLogentry and "clear" clearTags.
Change == <<"BEGIN", "read", "clear", "exec", "log", "COMMIT">>

Ops == {"find", "revision", "store", "create", "change"}
Looks == {"find", "revision"}
Transactions == {"create", "change"}

Sql == [find |-> Look, revision |-> LookInLog, store |-> Store,
        create |-> Create, change |-> Change]

Writes == {"clear", "exec", "log", "insert"}
Sent(op, n) == {Sql[op][i] : i \in 1..n} \cap Writes
StepsIn(op) == Len(Sql[op])
Effect(op) == Sent(op, StepsIn(op))

\* entityFromPath looks up the permissions and then the page or (fetchViaLog)
\* a revision; what a request does before that, or finds in a cache, is left
\* out.  Then comes the handler: history of a page, create.html of a user, whose
\* page does not exist yet, and edit.html of a photo with another picture.
Program == [history  |-> <<"find", "revision">>,
            account  |-> <<"find", "create", "store">>,
            photo    |-> <<"find", "find", "change", "store">>]

MaxOps == 4
OpsIn(r) == Len(Program[Workload[r]])
Ended == {"ok", "error", "lost"}
Holding == {"running", "undoing"}

\* op and step are the operation and the statement that are next.
Request == [at : {"new", "queued"} \cup Holding \cup Ended,
            op : 1..MaxOps, step : 1..6, conn : Conns \cup {NoConn}]

\* alive and tx are the server's end: is the session there, and its
\* transaction with what that has written so far.
Connection == [pool : {"closed", "idle", "held"}, alive : BOOLEAN,
               tx : {"none", "open", "aborted"}, written : SUBSET Writes]
Closed == [pool |-> "closed", alive |-> FALSE, tx |-> "none", written |-> {}]
Opened == [pool |-> "held", alive |-> TRUE, tx |-> "none", written |-> {}]

Op(r) == Program[Workload[r]][req[r].op]
Statement(r) == Sql[Op(r)][req[r].step]
Conn(r) == conns[req[r].conn]

LastStatement(r) == req[r].step = StepsIn(Op(r))
LastOperation(r) == req[r].op = OpsIn(r)

Holds(r, c) == req[r].at \in Holding /\ req[r].conn = c

Fault == faults < MaxFaults /\ faults' = faults + 1

---------------------------------------------------------------------------
(* Processes.  A supervisor starts the process again (docs/admin.md). *)

Die ==
    /\ up' = FALSE
    /\ queue' = <<>>
    /\ conns' = [c \in Conns |-> Closed]
    /\ req' = [r \in Requests |->
                  IF req[r].at \in {"queued"} \cup Holding
                  THEN [req[r] EXCEPT !.at = "lost", !.conn = NoConn]
                  ELSE req[r]]
    /\ UNCHANGED <<kept, doubtful>>

Kill == up /\ Fault /\ Die

Restart ==
    /\ ~up
    /\ up' = TRUE
    /\ UNCHANGED <<queue, conns, req, kept, doubtful, faults>>

---------------------------------------------------------------------------
(* The pool. *)

\* A request comes and asks for its first connection.
Arrive(r) ==
    /\ up /\ req[r].at = "new"
    /\ req' = [req EXCEPT ![r].at = "queued"]
    /\ queue' = Append(queue, r)
    /\ UNCHANGED <<up, conns, kept, doubtful, faults>>

Serve(c, conn) ==
    /\ conns' = [conns EXCEPT ![c] = conn]
    /\ req' = [req EXCEPT ![Head(queue)].at = "running", ![Head(queue)].conn = c]
    /\ queue' = Tail(queue)
    /\ UNCHANGED <<up, kept, doubtful, faults>>

\* An idle connection is lent, whether or not the server still knows it.
Lend(c) ==
    /\ queue # <<>> /\ conns[c].pool = "idle"
    /\ Serve(c, [conns[c] EXCEPT !.pool = "held"])

NoneIdle == \A c \in Conns : conns[c].pool # "idle"

Open(c) ==
    /\ queue # <<>> /\ NoneIdle /\ conns[c].pool = "closed"
    /\ Serve(c, Opened)

\* handleConnectError passes on the error with a `done' in the place of the
\* client.  A look-up calls it; the others ask it for a client, and throw.
RefuseConnection(c) ==
    /\ queue # <<>> /\ NoneIdle /\ conns[c].pool = "closed"
    /\ Fault
    /\ IF Op(Head(queue)) = "find"
       THEN /\ req' = [req EXCEPT ![Head(queue)].at = "error"]
            /\ queue' = Tail(queue)
            /\ UNCHANGED <<up, conns, kept, doubtful>>
       ELSE Die

---------------------------------------------------------------------------
(* Statements that succeed. *)

\* What the server does, for a statement of r on a connection that becomes
\* `pool' for the process.  A write outside of a transaction is committed.
Perform(r, pool) ==
    LET s == Statement(r)
        open == Conn(r).tx = "open"
        write == {s} \cap Writes
    IN  /\ conns' = [conns EXCEPT ![req[r].conn] =
              [pool |-> pool, alive |-> TRUE,
               tx |-> IF s = "BEGIN" THEN "open"
                      ELSE IF s = "COMMIT" THEN "none" ELSE Conn(r).tx,
               written |-> IF s = "COMMIT" THEN {}
                           ELSE IF open THEN Conn(r).written \cup write ELSE {}]]
        /\ kept' = [kept EXCEPT ![r][req[r].op] =
              @ \cup (IF s = "COMMIT" THEN Conn(r).written
                      ELSE IF open THEN {} ELSE write)]

Runs(r) == req[r].at = "running" /\ Conn(r).alive

RunStatement(r) ==
    /\ Runs(r) /\ ~LastStatement(r)
    /\ Perform(r, "held")
    /\ req' = [req EXCEPT ![r].step = @ + 1]
    /\ UNCHANGED <<up, queue, doubtful, faults>>

\* done(null), and the callback goes on to the next operation.
FinishOperation(r) ==
    /\ Runs(r) /\ LastStatement(r) /\ ~LastOperation(r)
    /\ Perform(r, "idle")
    /\ req' = [req EXCEPT ![r] = [at |-> "queued", op |-> req[r].op + 1, step |-> 1,
                                  conn |-> NoConn]]
    /\ queue' = Append(queue, r)
    /\ UNCHANGED <<up, doubtful, faults>>

Answer(r) ==
    /\ Runs(r) /\ LastStatement(r) /\ LastOperation(r)
    /\ Perform(r, "idle")
    /\ req' = [req EXCEPT ![r].at = "ok", ![r].conn = NoConn]
    /\ UNCHANGED <<up, queue, doubtful, faults>>

\* A look-up finds no row, or one that says no: not found, not allowed, wrong
\* password.  done is called without an error.
GiveUp(r) ==
    /\ Runs(r) /\ LastStatement(r) /\ Op(r) = "find"
    /\ Perform(r, "idle")
    /\ req' = [req EXCEPT ![r].at = "error", ![r].conn = NoConn]
    /\ UNCHANGED <<up, queue, doubtful, faults>>

---------------------------------------------------------------------------
(* Statements that fail. *)

\* The session is gone, or the server refuses the statement, which aborts the
\* transaction; readLogentry also fails by itself, when there is no row.
Fails(r) ==
    /\ req[r].at = "running"
    /\ \/ ~Conn(r).alive /\ UNCHANGED faults
       \/ Conn(r).alive /\ Statement(r) \notin {"BEGIN", "COMMIT", "read"} /\ Fault
       \/ Conn(r).alive /\ Statement(r) = "read" /\ UNCHANGED faults

TxAfter(r) ==
    IF Conn(r).tx = "open" /\ Statement(r) # "read" THEN "aborted" ELSE Conn(r).tx

\* Mutant: done is not called for an error.
FailLookLeaking(r) ==
    /\ Fails(r) /\ Op(r) \in Looks
    /\ req' = [req EXCEPT ![r].at = "error", ![r].conn = NoConn]
    /\ UNCHANGED <<up, queue, conns, kept, doubtful>>

\* done(err) has the pool close the connection, and the error is passed on.
FailLook(r) ==
    /\ Fails(r) /\ Op(r) \in Looks
    /\ conns' = [conns EXCEPT ![req[r].conn] = Closed]
    /\ req' = [req EXCEPT ![r].at = "error", ![r].conn = NoConn]
    /\ UNCHANGED <<up, queue, kept, doubtful>>

\* openTransaction and the first DELETE of clearTags report their errors
\* without the client; doCleanup asks undefined to roll back.
Careless == {"BEGIN", "clear"}
FailCarelessly(r) == Fails(r) /\ Op(r) \notin Looks /\ Statement(r) \in Careless /\ Die

\* Every other error comes with the client, to doCleanup and postCommitErr.
FailUpdate(r) ==
    /\ Fails(r) /\ Op(r) \notin Looks /\ Statement(r) \notin Careless
    /\ conns' = [conns EXCEPT ![req[r].conn].tx = TxAfter(r)]
    /\ req' = [req EXCEPT ![r].at = "undoing"]
    /\ UNCHANGED <<up, queue, kept, doubtful>>

\* Mutant: the connection is given back before the transaction is undone.
UndoLater(r) ==
    /\ req[r].at = "undoing"
    /\ conns' = [conns EXCEPT ![req[r].conn] =
                    IF Conn(r).alive THEN [Conn(r) EXCEPT !.pool = "idle"] ELSE Closed]
    /\ req' = [req EXCEPT ![r].at = "error", ![r].conn = NoConn]
    /\ UNCHANGED <<up, queue, kept, doubtful, faults>>

\* Mutant: an error after which the rollback went well is no error.
UndoQuietly(r) ==
    /\ req[r].at = "undoing"
    /\ conns' = [conns EXCEPT ![req[r].conn] =
                    IF Conn(r).alive THEN [Opened EXCEPT !.pool = "idle"] ELSE Closed]
    /\ req' = [req EXCEPT ![r].at = IF Conn(r).alive THEN "ok" ELSE "error",
                          ![r].conn = NoConn]
    /\ UNCHANGED <<up, queue, kept, doubtful, faults>>

\* Mutant: a ROLLBACK that fails is tried again.
UndoAgain(r) ==
    /\ req[r].at = "undoing"
    /\ IF Conn(r).alive
       THEN /\ conns' = [conns EXCEPT ![req[r].conn] = [Opened EXCEPT !.pool = "idle"]]
            /\ req' = [req EXCEPT ![r].at = "error", ![r].conn = NoConn]
       ELSE UNCHANGED <<conns, req>>
    /\ UNCHANGED <<up, queue, kept, doubtful, faults>>

\* rollbackTransaction and done(err): a connection that cannot roll back is
\* closed, another goes back to the pool.  (A ROLLBACK without BEGIN is a
\* warning.)  The first error is the answer.
Undo(r) ==
    /\ req[r].at = "undoing"
    /\ conns' = [conns EXCEPT ![req[r].conn] =
                    IF Conn(r).alive THEN [Opened EXCEPT !.pool = "idle"] ELSE Closed]
    /\ req' = [req EXCEPT ![r].at = "error", ![r].conn = NoConn]
    /\ UNCHANGED <<up, queue, kept, doubtful, faults>>

\* The server ends a session, in use or idle: its transaction is undone.
Sever(c) ==
    /\ conns[c].pool # "closed" /\ conns[c].alive
    /\ Fault
    /\ conns' = [conns EXCEPT ![c] = [Closed EXCEPT !.pool = conns[c].pool]]
    /\ UNCHANGED <<up, queue, req, kept, doubtful>>

\* ... just after it has committed, so the answer does not arrive.
SeverAnswer(r) ==
    /\ Runs(r) /\ Statement(r) \in {"COMMIT", "insert"}
    /\ Fault
    /\ kept' = [kept EXCEPT ![r][req[r].op] =
                   @ \cup (IF Statement(r) = "COMMIT" THEN Conn(r).written ELSE {"insert"})]
    /\ conns' = [conns EXCEPT ![req[r].conn] = [Closed EXCEPT !.pool = "held"]]
    /\ doubtful' = doubtful \cup {r}
    /\ UNCHANGED <<up, queue, req>>

---------------------------------------------------------------------------
Init ==
    /\ up = TRUE
    /\ queue = <<>>
    /\ conns = [c \in Conns |-> Closed]
    /\ req = [r \in Requests |-> [at |-> "new", op |-> 1, step |-> 1, conn |-> NoConn]]
    /\ kept = [r \in Requests |-> [i \in 1..MaxOps |-> {}]]
    /\ doubtful = {}
    /\ faults = 0

\* The pool, when somebody waits; a request that has a connection.
Dispense == \E c \in Conns : Lend(c) \/ Open(c)
Proceed(r) ==
    \/ RunStatement(r) \/ FinishOperation(r) \/ Answer(r) \/ GiveUp(r)
    \/ FailLook(r) \/ FailCarelessly(r) \/ FailUpdate(r) \/ Undo(r)

Done == (\A r \in Requests : req[r].at \in Ended) /\ up /\ UNCHANGED vars

Next ==
    \/ Kill \/ Restart \/ Dispense \/ Done
    \/ \E r \in Requests : Arrive(r) \/ Proceed(r) \/ SeverAnswer(r)
    \/ \E c \in Conns : RefuseConnection(c) \/ Sever(c)

\* PostgreSQL answers or fails every statement, and node.js runs callbacks.
Fairness == WF_vars(Dispense) /\ \A r \in Requests : WF_vars(Proceed(r))

Spec == Init /\ [][Next]_vars
FairSpec == Spec /\ Fairness

---------------------------------------------------------------------------
(* Properties. *)

TypeOK ==
    /\ up \in BOOLEAN
    /\ queue \in Seq(Requests)
    /\ conns \in [Conns -> Connection]
    /\ req \in [Requests -> Request]
    /\ \A r \in Requests : req[r].conn \in Conns <=> req[r].at \in Holding
    /\ kept \in [Requests -> [1..MaxOps -> SUBSET Writes]]
    /\ doubtful \subseteq Requests
    /\ faults \in Nat

\* A connection that waits in the pool has no transaction open.  The comment
\* at lib/db.js:103 says: "If you leave a client in the pool with an unaborted
\* transaction __very bad things__ will happen."
IdleIsClean ==
    \A c \in Conns : conns[c].pool = "idle" => conns[c].tx = "none" /\ conns[c].written = {}

\* Connections neither leak nor are shared: one that is out of the pool is
\* held by one request that still runs on it, whichever way other operations
\* ended (done is called once on each path of doCleanup and of the look-ups).
HeldByOne ==
    \A c \in Conns :
        /\ conns[c].pool = "held" <=> \E r \in Requests : Holds(r, c)
        /\ \A r, s \in Requests : Holds(r, c) /\ Holds(s, c) => r = s

\* Whatever fails, is lost or dies at whatever statement: of an operation all
\* writes are kept or none.  A request that is told of success has kept those
\* of all its operations; one that is told of an error has kept those of the
\* operations before the one that failed, and of that one nothing, unless the
\* answer to the write itself was lost (doCleanup, postCommitErr).
AnswersAreTrue ==
    \A r \in Requests : \A i \in 1..OpsIn(r) :
        LET all == Effect(Program[Workload[r]][i])
        IN  /\ kept[r][i] \in {{}, all}
            /\ req[r].at = "ok" \/ i < req[r].op => kept[r][i] = all
            /\ req[r].at = "error" /\ i >= req[r].op /\ r \notin doubtful
                  => kept[r][i] = {}

\* Every request that has asked for a connection is answered, or its process
\* dies: nobody waits in line for ever, because nobody waits for a connection
\* who holds one and every holder gives his back.
RequestsEnd ==
    \A r \in Requests : req[r].at = "queued" ~> req[r].at \in Ended

=============================================================================
