------------------------- MODULE Connections_proofs -------------------------
(***************************************************************************)
(* Proofs that connections are returned clean and once, and that answers    *)
(* are true, for any number of requests, connections and failures.          *)
(*                                                                         *)
(* The invariant follows a connection from hand to hand: who waits for one  *)
(* waits once (Waiting), one that is out belongs to one request (HeldByOne), *)
(* and what is written on it and not committed is what that request has     *)
(* sent since its BEGIN (OnTheWire).  So there is nothing left to commit or  *)
(* to undo when it comes back (AtRest), and what has been kept is all of    *)
(* the operations that are over and nothing of the others (Books).          *)
(***************************************************************************)
EXTENDS Connections, TLAPS

---------------------------------------------------------------------------
(* The operations. *)

\* A transaction is bracketed by BEGIN and COMMIT; other operations are one
\* statement, and only "store" writes.
LEMMA Statements ==
    ASSUME NEW op \in Ops
    PROVE  /\ StepsIn(op) \in 1..6
           /\ op \in Transactions =>
                /\ StepsIn(op) > 1
                /\ \A n \in 1..StepsIn(op) :
                      /\ Sql[op][n] = "BEGIN" <=> n = 1
                      /\ Sql[op][n] = "COMMIT" <=> n = StepsIn(op)
                      /\ Sql[op][n] # "insert"
           /\ op \notin Transactions =>
                /\ StepsIn(op) = 1
                /\ Sql[op][1] \notin {"BEGIN", "COMMIT"}
           /\ op \in Looks => Sql[op][1] \notin Writes
           /\ op = "store" => Sql[op][1] = "insert"
<1>1. CASE op = "find"
  BY <1>1 DEF Sql, Ops, Look, Looks, Transactions, Writes, StepsIn
<1>2. CASE op = "revision"
  BY <1>2 DEF Sql, Ops, LookInLog, Looks, Transactions, Writes, StepsIn
<1>3. CASE op = "store"
  BY <1>3 DEF Sql, Ops, Store, Looks, Transactions, Writes, StepsIn
<1>4. CASE op = "create"
  BY <1>4 DEF Sql, Ops, Create, Looks, Transactions, Writes, StepsIn
<1>5. CASE op = "change"
  BY <1>5 DEF Sql, Ops, Change, Looks, Transactions, Writes, StepsIn
<1> QED  BY <1>1, <1>2, <1>3, <1>4, <1>5 DEF Ops

LEMMA Programs ==
    ASSUME NEW r \in Requests
    PROVE  /\ OpsIn(r) \in 1..MaxOps
           /\ \A i \in 1..OpsIn(r) : Program[Workload[r]][i] \in Ops
<1>1. Workload[r] \in Kinds
  BY WorkloadIsKnown
<1> QED  BY <1>1 DEF Kinds, Program, Ops, MaxOps, OpsIn

LEMMA SentMore ==
    ASSUME NEW op \in Ops, NEW n \in 1..StepsIn(op)
    PROVE  Sent(op, n) = Sent(op, n - 1) \cup ({Sql[op][n]} \cap Writes)
<1>1. n \in Nat /\ 1..n = (1..(n - 1)) \cup {n}
  BY Statements
<1> QED  BY <1>1 DEF Sent

LEMMA SentNothing ==
    ASSUME NEW op \in Ops
    PROVE  Sent(op, 0) = {}
BY DEF Sent

---------------------------------------------------------------------------
(* The invariant. *)

\* Who waits in line waits once, and holds nothing.
Waiting ==
    /\ \A i \in 1..Len(queue) : req[queue[i]].at = "queued"
    /\ \A i, j \in 1..Len(queue) : queue[i] = queue[j] => i = j

\* A request is within its program and its operation.
Standing(r) ==
    /\ req[r].op \in 1..OpsIn(r)
    /\ req[r].step \in 1..StepsIn(Op(r))
    /\ req[r].at \in {"new", "queued"} => req[r].step = 1
    /\ req[r].at = "ok" => LastOperation(r)
Steps == \A r \in Requests : Standing(r)

\* Nothing is open on a connection that is idle or lost.
AtRest ==
    \A c \in Conns :
        /\ conns[c].pool = "idle" \/ ~conns[c].alive
              => conns[c].tx = "none" /\ conns[c].written = {}
        /\ conns[c].pool = "closed" => ~conns[c].alive

\* What is written on a connection is what its holder has sent since BEGIN.
Wire(r) ==
    Runs(r) =>
        IF req[r].step = 1
        THEN Conn(r).tx = "none" /\ Conn(r).written = {}
        ELSE Conn(r).tx = "open" /\ Conn(r).written = Sent(Op(r), req[r].step - 1)
OnTheWire == \A r \in Requests : Wire(r)

\* Operations that are over have kept everything, those to come nothing, and
\* the one between has kept all or nothing.
Book(r) ==
    /\ \A i \in 1..OpsIn(r) :
          /\ i < req[r].op => kept[r][i] = Effect(Program[Workload[r]][i])
          /\ i > req[r].op => kept[r][i] = {}
    /\ req[r].at = "ok" => kept[r][req[r].op] = Effect(Op(r))
    /\ req[r].at # "ok" => \/ kept[r][req[r].op] = {}
                           \/ r \in doubtful /\ kept[r][req[r].op] = Effect(Op(r))
    /\ req[r].at \in {"new", "queued"} \/ Runs(r) => kept[r][req[r].op] = {}
Books == \A r \in Requests : Book(r)

Inv == TypeOK /\ Waiting /\ Steps /\ HeldByOne /\ AtRest /\ OnTheWire /\ Books

LEMMA OpsAreKnown ==
    ASSUME TypeOK, Steps, NEW r \in Requests
    PROVE  /\ Op(r) \in Ops
           /\ req[r].op \in 1..MaxOps /\ req[r].op \in Nat
           /\ req[r].step \in 1..6 /\ req[r].step \in Nat
           /\ StepsIn(Op(r)) \in Nat /\ OpsIn(r) \in Nat
           /\ req[r].step = StepsIn(Op(r)) \/ Op(r) \in Transactions
<1>1. Op(r) \in Ops
  BY Programs DEF Op, Steps, Standing
<1>2. Op(r) \notin Transactions => StepsIn(Op(r)) = 1
  BY <1>1, Statements
<1>3. StepsIn(Op(r)) \in 1..6 /\ OpsIn(r) \in 1..MaxOps
  BY <1>1, Programs, Statements
<1> QED  BY <1>1, <1>2, <1>3 DEF Steps, Standing, MaxOps

\* The invariant holds initially.
LEMMA InvInit == Init => Inv
<1> SUFFICES ASSUME Init PROVE Inv
  OBVIOUS
<1> USE DEF Init
<1>1. /\ queue = <<>> /\ Len(queue) = 0
      /\ \A r \in Requests : req[r] = [at |-> "new", op |-> 1, step |-> 1, conn |-> NoConn]
      /\ \A c \in Conns : conns[c] = Closed
  OBVIOUS
<1>2. TypeOK
  BY <1>1, ConnsExist DEF TypeOK, Request, Connection, Closed, MaxOps, Holding, Ended
<1>3. Steps
  <2> SUFFICES ASSUME NEW r \in Requests
               PROVE  1 \in 1..OpsIn(r) /\ 1 \in 1..StepsIn(Op(r))
    BY <1>1 DEF Steps, Standing
  <2>1. Op(r) \in Ops
    BY <1>1, Programs DEF Op
  <2> QED  BY <2>1, Programs, Statements
<1>4. Waiting /\ AtRest
  BY <1>1 DEF Waiting, AtRest, Closed
<1>5. HeldByOne
  BY <1>1 DEF HeldByOne, Holds, Holding, Closed
<1>6. OnTheWire
  BY <1>1 DEF OnTheWire, Wire, Runs
<1>7. Books
  <2> SUFFICES ASSUME NEW r \in Requests PROVE Book(r)
    BY DEF Books
  <2>1. req[r].op = 1 /\ req[r].at = "new" /\ OpsIn(r) \in 1..MaxOps
    BY <1>1, Programs
  <2>2. \A i \in 1..OpsIn(r) : kept[r][i] = {} /\ ~(i < 1)
    BY <2>1 DEF MaxOps
  <2>3. kept[r][1] = {}
    BY DEF MaxOps
  <2> QED  BY <2>1, <2>2, <2>3 DEF Book
<1> QED  BY <1>2, <1>3, <1>4, <1>5, <1>6, <1>7 DEF Inv

---------------------------------------------------------------------------
(* Statements that succeed. *)

\* What a statement does, given what was on the wire before it.
LEMMA Performed ==
    ASSUME Inv, NEW r \in Requests, Runs(r), NEW pool, Perform(r, pool)
    PROVE  /\ conns' = [conns EXCEPT ![req[r].conn] =
                [pool |-> pool, alive |-> TRUE,
                 tx |-> IF LastStatement(r) THEN "none" ELSE "open",
                 written |-> IF LastStatement(r) THEN {} ELSE Sent(Op(r), req[r].step)]]
           /\ kept' = [kept EXCEPT ![r][req[r].op] =
                          IF LastStatement(r) THEN Effect(Op(r)) ELSE {}]
           /\ kept[r][req[r].op] = {}
           /\ req[r].conn \in Conns
<1> DEFINE n == req[r].step
<1>1. /\ Op(r) \in Ops /\ n \in 1..StepsIn(Op(r)) /\ n \in Nat
      /\ Statement(r) = Sql[Op(r)][n]
  BY OpsAreKnown DEF Inv, Steps, Standing, Statement
<1>2. kept[r][req[r].op] = {} /\ req[r].conn \in Conns
  BY DEF Inv, Books, Book, Runs, TypeOK, Holding
<1>3. IF n = 1 THEN Conn(r).tx = "none" /\ Conn(r).written = {}
      ELSE Conn(r).tx = "open" /\ Conn(r).written = Sent(Op(r), n - 1)
  BY DEF Inv, OnTheWire, Wire
<1>4. Sent(Op(r), n) = Sent(Op(r), n - 1) \cup ({Statement(r)} \cap Writes)
  BY <1>1, SentMore
<1>5. LastStatement(r) <=> n = StepsIn(Op(r))
  BY DEF LastStatement
<1>6. CASE Op(r) \in Transactions
  <2>1. /\ StepsIn(Op(r)) > 1 /\ StepsIn(Op(r)) \in 1..6
        /\ Statement(r) = "BEGIN" <=> n = 1
        /\ Statement(r) = "COMMIT" <=> LastStatement(r)
    BY <1>1, <1>5, <1>6, Statements
  <2>2. CASE n = 1
    <3>1. Statement(r) = "BEGIN" /\ ~LastStatement(r) /\ {Statement(r)} \cap Writes = {}
      BY <2>1, <2>2, <1>5 DEF Writes
    <3>2. Sent(Op(r), n) = {}
      BY <3>1, <2>2, <1>4, <1>1, SentNothing
    <3> QED  BY <3>1, <3>2, <2>2, <1>2, <1>3, Zenon DEF Perform
  <2>3. CASE n # 1 /\ LastStatement(r)
    <3>1. Statement(r) = "COMMIT" /\ Statement(r) # "BEGIN" /\ {Statement(r)} \cap Writes = {}
      BY <2>1, <2>3 DEF Writes
    <3>2. Conn(r).written = Effect(Op(r))
      BY <3>1, <2>3, <1>3, <1>4, <1>5 DEF Effect
    <3> QED  BY <3>1, <3>2, <2>3, <1>2 DEF Perform
  <2>4. CASE n # 1 /\ ~LastStatement(r)
    <3>1. Statement(r) \notin {"BEGIN", "COMMIT"}
      BY <2>1, <2>4
    <3>2. Conn(r).written \cup ({Statement(r)} \cap Writes) = Sent(Op(r), n)
      BY <2>4, <1>3, <1>4
    <3> QED  BY <3>1, <3>2, <2>4, <1>2, <1>3 DEF Perform
  <2> QED  BY <2>2, <2>3, <2>4
<1>7. CASE Op(r) \notin Transactions
  <2>1. n = 1 /\ LastStatement(r) /\ Statement(r) \notin {"BEGIN", "COMMIT"}
    BY <1>1, <1>5, <1>7, Statements
  <2>2. Effect(Op(r)) = {Statement(r)} \cap Writes
    BY <2>1, <1>1, <1>4, <1>5, SentNothing DEF Effect
  <2> QED  BY <2>1, <2>2, <1>2, <1>3 DEF Perform
<1> QED  BY <1>6, <1>7

LEMMA LineStays ==
    ASSUME TypeOK, Waiting, queue' = queue,
           \A s \in Requests : req[s].at = "queued" => req'[s].at = "queued"
    PROVE  Waiting'
<1>1. \A i \in 1..Len(queue) : queue[i] \in Requests
  BY DEF TypeOK
<1> QED  BY <1>1 DEF Waiting

\* Who joins the line was not in it.
LEMMA JoinLine ==
    ASSUME TypeOK, Waiting, NEW r \in Requests, req[r].at # "queued",
           queue' = Append(queue, r), req'[r].at = "queued",
           \A s \in Requests : s # r => req'[s] = req[s]
    PROVE  Waiting'
<1> queue \in Seq(Requests)
  BY DEF TypeOK
<1>1. \A i \in 1..Len(queue) : queue[i] \in Requests /\ req[queue[i]].at = "queued"
  BY DEF Waiting
<1>2. \A i \in 1..Len(queue) : queue[i] # r
  BY <1>1
<1>3. \A i \in 1..Len(queue) : req'[queue[i]].at = "queued"
  BY <1>1, <1>2
<1>4. /\ Len(queue') = Len(queue) + 1 /\ Len(queue) \in Nat
      /\ \A i \in 1..Len(queue') : queue'[i] = IF i = Len(queue) + 1 THEN r ELSE queue[i]
  OBVIOUS
<1>5. \A i \in 1..Len(queue') : i = Len(queue) + 1 \/ i \in 1..Len(queue)
  BY <1>4
<1>6. \A i \in 1..Len(queue') : req'[queue'[i]].at = "queued"
  BY <1>3, <1>4, <1>5
<1>7. ASSUME NEW i \in 1..Len(queue'), NEW j \in 1..Len(queue'), queue'[i] = queue'[j]
      PROVE  i = j
  <2>1. CASE i \in 1..Len(queue) /\ j \in 1..Len(queue)
    BY <1>4, <1>7, <2>1 DEF Waiting
  <2>2. CASE ~(i \in 1..Len(queue) /\ j \in 1..Len(queue))
    BY <1>2, <1>4, <1>5, <1>7, <2>2
  <2> QED  BY <2>1, <2>2
<1> QED  BY <1>6, <1>7 DEF Waiting

\* A step of one request on its own connection leaves the others alone.
OwnStep(r, x, y) ==
    /\ req[r].at \in Holding /\ x \in Connection /\ y \in Request
    /\ conns' = [conns EXCEPT ![req[r].conn] = x]
    /\ req' = [req EXCEPT ![r] = y]
    /\ kept' = [kept EXCEPT ![r] = kept'[r]]
    /\ doubtful \subseteq doubtful'
    /\ y.at \in Holding => y.conn = req[r].conn
    /\ x.pool = "held" <=> y.at \in Holding
    /\ x.pool = "idle" \/ ~x.alive => x.tx = "none" /\ x.written = {}
    /\ x.pool = "closed" => ~x.alive

LEMMA OthersStay ==
    ASSUME Inv, NEW r \in Requests, NEW x, NEW y, OwnStep(r, x, y)
    PROVE  /\ conns' \in [Conns -> Connection] /\ req' \in [Requests -> Request]
           /\ HeldByOne' /\ AtRest'
           /\ \A s \in Requests : s # r =>
                /\ req'[s] = req[s]
                /\ Standing(s)' /\ Wire(s)' /\ Book(s)'
           /\ req'[r] = y
           /\ conns'[req[r].conn] = x
<1> USE DEF OwnStep
<1>1. /\ req[r].conn \in Conns
      /\ conns \in [Conns -> Connection] /\ req \in [Requests -> Request]
      /\ kept \in [Requests -> [1..MaxOps -> SUBSET Writes]]
  BY DEF Inv, TypeOK
<1>2. conns' \in [Conns -> Connection] /\ req' \in [Requests -> Request]
  BY <1>1
<1>3. /\ \A s \in Requests : s # r => req'[s] = req[s] /\ kept'[s] = kept[s]
      /\ req'[r] = y /\ conns'[req[r].conn] = x
      /\ \A d \in Conns : d # req[r].conn => conns'[d] = conns[d]
  BY <1>1
<1>4. \A s \in Requests : s # r /\ req[s].at \in Holding => req[s].conn \in Conns /\ req[s].conn # req[r].conn
  BY <1>1 DEF Inv, HeldByOne, Holds, TypeOK
<1>5. HeldByOne'
  <2>1. \A d \in Conns : \A s \in Requests : s # r => (Holds(s, d)' <=> Holds(s, d))
    BY <1>3 DEF Holds
  <2>2. \A d \in Conns : Holds(r, d)' <=> y.at \in Holding /\ d = req[r].conn
    BY <1>3 DEF Holds
  <2>3. \A d \in Conns : Holds(r, d) <=> d = req[r].conn
    BY DEF Holds
  <2>4. \A d \in Conns : d # req[r].conn => (conns'[d].pool = conns[d].pool)
    BY <1>3
  <2>5. \A d \in Conns : /\ conns[d].pool = "held" <=> \E s \in Requests : Holds(s, d)
                         /\ \A s, t \in Requests : Holds(s, d) /\ Holds(t, d) => s = t
    BY DEF Inv, HeldByOne
  <2> QED  BY <2>1, <2>2, <2>3, <2>4, <2>5, <1>1, <1>3 DEF HeldByOne
<1>6. AtRest'
  BY <1>3 DEF Inv, AtRest
<1>7. ASSUME NEW s \in Requests, s # r
      PROVE  Standing(s)' /\ Wire(s)' /\ Book(s)'
  <2>1. req'[s] = req[s] /\ kept'[s] = kept[s] /\ Op(s)' = Op(s)
    BY <1>3, <1>7 DEF Op
  <2>2. Runs(s)' => Runs(s) /\ Conn(s)' = Conn(s)
    BY <1>3, <1>4, <1>7, <2>1 DEF Runs, Conn, Holding
  <2>3. Standing(s) /\ Wire(s) /\ Book(s)
    BY DEF Inv, Steps, OnTheWire, Books
  <2>4. Wire(s)'
    BY <2>1, <2>2, <2>3 DEF Wire
  <2>5. Book(s)'
    BY <2>1, <2>2, <2>3 DEF Book
  <2>6. Standing(s)'
    BY <2>1, <2>3 DEF Standing, LastOperation
  <2> QED  BY <2>4, <2>5, <2>6
<1> QED  BY <1>2, <1>3, <1>5, <1>6, <1>7

\* The next statement of a transaction.
LEMMA RunStatementKeepsInv ==
    ASSUME Inv, NEW r \in Requests, RunStatement(r)
    PROVE  Inv'
<1> DEFINE c == req[r].conn
<1>1. /\ Runs(r) /\ ~LastStatement(r) /\ Perform(r, "held")
      /\ req' = [req EXCEPT ![r].step = req[r].step + 1]
      /\ UNCHANGED <<up, queue, doubtful, faults>>
  BY DEF RunStatement
<1>2. /\ conns' = [conns EXCEPT ![c] = [pool |-> "held", alive |-> TRUE, tx |-> "open",
                                       written |-> Sent(Op(r), req[r].step)]]
      /\ kept' = [kept EXCEPT ![r][req[r].op] = {}]
      /\ kept[r][req[r].op] = {}
      /\ c \in Conns
  BY <1>1, Performed
<1>3. /\ Op(r) \in Ops /\ req[r].step \in 1..StepsIn(Op(r)) /\ StepsIn(Op(r)) \in 1..6
      /\ req[r].step # StepsIn(Op(r)) /\ req[r].op \in 1..MaxOps
  BY <1>1, OpsAreKnown, Statements DEF Inv, Steps, Standing, LastStatement
<1>4. /\ req[r].at = "running" /\ req \in [Requests -> Request]
      /\ kept \in [Requests -> [1..MaxOps -> SUBSET Writes]] /\ kept' = kept
  BY <1>1, <1>2, <1>3 DEF Runs, Inv, TypeOK
<1> DEFINE x == [pool |-> "held", alive |-> TRUE, tx |-> "open",
                 written |-> Sent(Op(r), req[r].step)]
           y == [req[r] EXCEPT !.step = req[r].step + 1]
<1>5. x \in Connection /\ y \in Request
  <2>1. x \in Connection
    BY DEF Connection, Sent
  <2>2. req[r] \in Request
    BY <1>4
  <2>3. y \in Request
    BY <1>3, <2>2 DEF Request
  <2> QED  BY <2>1, <2>3
<1>6. /\ y.at = req[r].at /\ y.op = req[r].op /\ y.step = req[r].step + 1
      /\ y.conn = req[r].conn
  BY <1>4 DEF Request
<1>7. /\ HeldByOne' /\ AtRest' /\ conns' \in [Conns -> Connection] /\ req' \in [Requests -> Request]
      /\ \A s \in Requests : s # r => req'[s] = req[s] /\ Standing(s)' /\ Wire(s)' /\ Book(s)'
      /\ req'[r] = y /\ conns'[c] = x
  <2>1. OwnStep(r, x, y)
    BY <1>1, <1>2, <1>4, <1>5, <1>6 DEF OwnStep, Holding
  <2> QED  BY <2>1, OthersStay
<1>8. TypeOK'
  BY <1>1, <1>4, <1>6, <1>7 DEF Inv, TypeOK
<1>9. Waiting'
  BY <1>1, <1>6, <1>7, LineStays DEF Inv
<1>10. \A s \in Requests : Op(s)' = Op(s)
  BY <1>6, <1>7 DEF Op
<1>11. Steps'
  <2>1. Standing(r)'
    BY <1>3, <1>4, <1>6, <1>7, <1>10, OpsAreKnown DEF Inv, Steps, Standing
  <2> QED  BY <2>1, <1>7 DEF Steps
<1>12. OnTheWire'
  <2>1. Wire(r)'
    BY <1>3, <1>6, <1>7, <1>10 DEF Wire, Conn
  <2> QED  BY <2>1, <1>7 DEF OnTheWire
<1>13. Books'
  <2>1. Book(r)
    BY DEF Inv, Books
  <2>2. Book(r)'
    BY <2>1, <1>1, <1>2, <1>4, <1>6, <1>7, <1>10 DEF Book
  <2> QED  BY <2>2, <1>7 DEF Books
<1> QED  BY <1>7, <1>8, <1>9, <1>11, <1>12, <1>13 DEF Inv

\* The end of an operation that is not the last.
LEMMA FinishOperationKeepsInv ==
    ASSUME Inv, NEW r \in Requests, FinishOperation(r)
    PROVE  Inv'
<1> DEFINE c == req[r].conn
           x == [pool |-> "idle", alive |-> TRUE, tx |-> "none", written |-> {}]
           y == [at |-> "queued", op |-> req[r].op + 1, step |-> 1, conn |-> NoConn]
<1>1. /\ Runs(r) /\ LastStatement(r) /\ ~LastOperation(r) /\ Perform(r, "idle")
      /\ req' = [req EXCEPT ![r] = y]
      /\ queue' = Append(queue, r)
      /\ UNCHANGED <<up, doubtful, faults>>
  BY DEF FinishOperation
<1>2. /\ conns' = [conns EXCEPT ![c] = x]
      /\ kept' = [kept EXCEPT ![r][req[r].op] = Effect(Op(r))]
      /\ c \in Conns
  BY <1>1, Performed
<1>3. /\ req[r].op \in 1..OpsIn(r) /\ OpsIn(r) \in 1..MaxOps /\ req[r].op # OpsIn(r)
      /\ Op(r) \in Ops /\ req[r].op + 1 \in 1..OpsIn(r) /\ req[r].op + 1 \in 1..MaxOps
  BY <1>1, OpsAreKnown, Programs DEF Inv, Steps, Standing, LastOperation, MaxOps
<1>4. /\ req[r].at = "running" /\ req \in [Requests -> Request]
      /\ kept \in [Requests -> [1..MaxOps -> SUBSET Writes]] /\ queue \in Seq(Requests)
  BY <1>1 DEF Runs, Inv, TypeOK
<1>5. x \in Connection /\ y \in Request
  <2>1. x \in Connection
    BY DEF Connection
  <2>2. y \in Request
    BY <1>3 DEF Request
  <2> QED  BY <2>1, <2>2
<1>6. /\ y.at = "queued" /\ y.op = req[r].op + 1 /\ y.step = 1 /\ y.conn = NoConn
  OBVIOUS
<1>7. kept' = [kept EXCEPT ![r] = kept'[r]]
  BY <1>2, <1>4
<1>8. /\ HeldByOne' /\ AtRest' /\ conns' \in [Conns -> Connection] /\ req' \in [Requests -> Request]
      /\ \A s \in Requests : s # r => req'[s] = req[s] /\ Standing(s)' /\ Wire(s)' /\ Book(s)'
      /\ req'[r] = y
  <2>1. OwnStep(r, x, y)
    BY <1>1, <1>2, <1>4, <1>5, <1>6, <1>7 DEF OwnStep, Holding
  <2> QED  BY <2>1, OthersStay
<1>9. kept' \in [Requests -> [1..MaxOps -> SUBSET Writes]]
  BY <1>2, <1>4 DEF Effect, Sent
<1>10. TypeOK'
  BY <1>1, <1>4, <1>6, <1>8, <1>9, ConnsExist DEF Inv, TypeOK, Holding
<1>11. Waiting'
  BY <1>1, <1>4, <1>6, <1>8, JoinLine DEF Inv
<1>12. Op(r)' \in Ops /\ Op(r)' = Program[Workload[r]][req[r].op + 1]
  BY <1>3, <1>6, <1>8, Programs DEF Op
<1>13. Steps'
  <2>1. 1 \in 1..StepsIn(Op(r)')
    BY <1>12, Statements
  <2>2. Standing(r)'
    BY <2>1, <1>3, <1>6, <1>8 DEF Standing
  <2> QED  BY <2>2, <1>8 DEF Steps
<1>14. OnTheWire'
  BY <1>6, <1>8 DEF OnTheWire, Wire, Runs
<1>15. Books'
  <2>1. \A i \in 1..OpsIn(r) : kept'[r][i] = IF i = req[r].op THEN Effect(Op(r)) ELSE kept[r][i]
    BY <1>2, <1>3, <1>4 DEF MaxOps
  <2>2. Book(r)
    BY DEF Inv, Books
  <2>3. Book(r)'
    BY <2>1, <2>2, <1>3, <1>6, <1>8 DEF Book, Op, MaxOps
  <2> QED  BY <2>3, <1>8 DEF Books
<1> QED  BY <1>8, <1>10, <1>11, <1>13, <1>14, <1>15 DEF Inv


\* A request ends, and its connection goes back or is closed.
LEMMA EndKeepsInv ==
    ASSUME Inv, NEW r \in Requests, req[r].at \in Holding,
           NEW x \in Connection, NEW a \in {"ok", "error"}, NEW k \in SUBSET Writes,
           x.pool # "held", x.tx = "none", x.written = {}, x.pool = "closed" => ~x.alive,
           conns' = [conns EXCEPT ![req[r].conn] = x],
           req' = [req EXCEPT ![r].at = a, ![r].conn = NoConn],
           kept' = [kept EXCEPT ![r][req[r].op] = k],
           UNCHANGED <<up, queue, doubtful>>, faults' \in Nat,
           a = "ok" => LastOperation(r) /\ k = Effect(Op(r)),
           a = "error" => k = {} \/ (r \in doubtful /\ k = Effect(Op(r)))
    PROVE  Inv'
<1> DEFINE z == [req[r] EXCEPT !.at = a]
           y == [z EXCEPT !.conn = NoConn]
<1>1. /\ req \in [Requests -> Request] /\ kept \in [Requests -> [1..MaxOps -> SUBSET Writes]]
      /\ queue \in Seq(Requests)
  BY DEF Inv, TypeOK
<1>2. req[r] \in Request /\ req[r].at # "queued"
  BY <1>1 DEF Holding
<1>3. req' = [req EXCEPT ![r] = y]
  BY <1>1, Zenon
<1>4. /\ y \in Request /\ y.at \notin Holding
      /\ y.at = a /\ y.op = req[r].op /\ y.step = req[r].step /\ y.conn = NoConn
  <2>1. z \in Request /\ z.at = a /\ z.op = req[r].op /\ z.step = req[r].step
    BY <1>2 DEF Request, Ended
  <2> QED  BY <2>1 DEF Request, Holding
<1> HIDE DEF y
<1>5. kept' = [kept EXCEPT ![r] = kept'[r]] /\ kept' \in [Requests -> [1..MaxOps -> SUBSET Writes]]
  BY <1>1
<1>6. /\ HeldByOne' /\ AtRest' /\ conns' \in [Conns -> Connection] /\ req' \in [Requests -> Request]
      /\ \A s \in Requests : s # r => req'[s] = req[s] /\ Standing(s)' /\ Wire(s)' /\ Book(s)'
      /\ req'[r].at = a /\ req'[r].op = req[r].op /\ req'[r].step = req[r].step
      /\ req'[r].conn = NoConn
  <2>1. OwnStep(r, x, y)
    BY <1>3, <1>4, <1>5 DEF OwnStep
  <2> QED  BY <2>1, <1>4, OthersStay
<1>7. TypeOK'
  <2>1. \A s \in Requests : req'[s].conn \in Conns <=> req'[s].at \in Holding
    BY <1>4, <1>6, ConnsExist DEF Inv, TypeOK
  <2> QED  BY <2>1, <1>1, <1>5, <1>6 DEF Inv, TypeOK
<1>8. Waiting'
  BY <1>2, <1>6, LineStays DEF Inv
<1>9. /\ req[r].op \in 1..OpsIn(r) /\ OpsIn(r) \in 1..MaxOps
      /\ req[r].step \in 1..StepsIn(Op(r))
  BY Programs DEF Inv, Steps, Standing
<1>10. Op(r)' = Op(r) /\ a \notin {"new", "queued", "running"}
  BY <1>6 DEF Op
<1>11. Steps'
  <2>1. Standing(r)'
    BY <1>6, <1>9, <1>10 DEF Standing, LastOperation
  <2> QED  BY <2>1, <1>6 DEF Steps
<1>12. OnTheWire'
  BY <1>6, <1>10 DEF OnTheWire, Wire, Runs
<1>13. Books'
  <2>1. \A i \in 1..OpsIn(r) : kept'[r][i] = IF i = req[r].op THEN k ELSE kept[r][i]
    BY <1>1, <1>9 DEF MaxOps
  <2>2. Book(r)
    BY DEF Inv, Books
  <2>3. Book(r)'
    BY <2>1, <2>2, <1>6, <1>9, <1>10 DEF Book, Runs, MaxOps
  <2> QED  BY <2>3, <1>6 DEF Books
<1> QED  BY <1>6, <1>7, <1>8, <1>11, <1>12, <1>13 DEF Inv

LEMMA EffectOfLooks ==
    ASSUME NEW op \in Looks
    PROVE  Effect(op) = {}
<1>1. op \in Ops /\ StepsIn(op) = 1 /\ {Sql[op][1]} \cap Writes = {}
  BY Statements DEF Looks, Ops, Transactions
<1> QED  BY <1>1, SentMore, SentNothing DEF Effect

LEMMA AnswerKeepsInv ==
    ASSUME Inv, NEW r \in Requests, Answer(r) \/ GiveUp(r)
    PROVE  Inv'
<1> DEFINE x == [pool |-> "idle", alive |-> TRUE, tx |-> "none", written |-> {}]
<1>1. /\ Runs(r) /\ LastStatement(r) /\ Perform(r, "idle")
      /\ UNCHANGED <<up, queue, doubtful, faults>>
  BY DEF Answer, GiveUp
<1>2. /\ conns' = [conns EXCEPT ![req[r].conn] = x]
      /\ kept' = [kept EXCEPT ![r][req[r].op] = Effect(Op(r))]
  BY <1>1, Performed
<1>3. x \in Connection /\ Effect(Op(r)) \in SUBSET Writes
  BY DEF Connection, Effect, Sent
<1>4. req[r].at \in Holding /\ faults' \in Nat
  BY <1>1 DEF Runs, Holding, Inv, TypeOK
<1>5. CASE Answer(r)
  <2>1. LastOperation(r) /\ req' = [req EXCEPT ![r].at = "ok", ![r].conn = NoConn]
    BY <1>5 DEF Answer
  <2> QED  BY <2>1, <1>1, <1>2, <1>3, <1>4, EndKeepsInv
<1>6. CASE GiveUp(r)
  <2>1. Op(r) \in Looks /\ req' = [req EXCEPT ![r].at = "error", ![r].conn = NoConn]
    BY <1>6 DEF GiveUp, Looks
  <2>2. Effect(Op(r)) = {}
    BY <2>1, EffectOfLooks
  <2> QED  BY <2>1, <2>2, <1>1, <1>2, <1>3, <1>4, EndKeepsInv
<1> QED  BY <1>5, <1>6


---------------------------------------------------------------------------
(* Statements that fail. *)

\* What happens to the one fault counter in every failure.
LEMMA FaultsAreNat == TypeOK /\ (Fault \/ UNCHANGED faults) => faults' \in Nat
BY DEF TypeOK, Fault

LEMMA KeptStays ==
    ASSUME TypeOK, NEW r \in Requests, NEW i \in 1..MaxOps
    PROVE  kept = [kept EXCEPT ![r][i] = kept[r][i]] /\ kept[r][i] \in SUBSET Writes
BY DEF TypeOK

LEMMA FailLookKeepsInv ==
    ASSUME Inv, NEW r \in Requests, FailLook(r)
    PROVE  Inv'
<1> DEFINE k == kept[r][req[r].op]
<1>1. /\ req[r].at = "running" /\ faults' \in Nat
      /\ conns' = [conns EXCEPT ![req[r].conn] = Closed]
      /\ req' = [req EXCEPT ![r].at = "error", ![r].conn = NoConn]
      /\ UNCHANGED <<up, queue, kept, doubtful>>
  BY FaultsAreNat DEF FailLook, Fails, Inv
<1>2. req[r].op \in 1..MaxOps
  BY OpsAreKnown DEF Inv
<1>3. kept = [kept EXCEPT ![r][req[r].op] = k] /\ k \in SUBSET Writes
  BY <1>2, KeptStays DEF Inv
<1>4. k = {} \/ (r \in doubtful /\ k = Effect(Op(r)))
  BY <1>1 DEF Inv, Books, Book
<1>5. Closed \in Connection
  BY DEF Closed, Connection
<1> QED  BY <1>1, <1>3, <1>4, <1>5, EndKeepsInv DEF Holding, Closed

LEMMA UndoKeepsInv ==
    ASSUME Inv, NEW r \in Requests, Undo(r)
    PROVE  Inv'
<1> DEFINE k == kept[r][req[r].op]
           x == IF Conn(r).alive THEN [Opened EXCEPT !.pool = "idle"] ELSE Closed
<1>1. /\ req[r].at = "undoing" /\ faults' \in Nat
      /\ conns' = [conns EXCEPT ![req[r].conn] = x]
      /\ req' = [req EXCEPT ![r].at = "error", ![r].conn = NoConn]
      /\ UNCHANGED <<up, queue, kept, doubtful>>
  BY DEF Undo, Inv, TypeOK
<1>2. req[r].op \in 1..MaxOps
  BY OpsAreKnown DEF Inv
<1>3. kept = [kept EXCEPT ![r][req[r].op] = k] /\ k \in SUBSET Writes
  BY <1>2, KeptStays DEF Inv
<1>4. k = {} \/ (r \in doubtful /\ k = Effect(Op(r)))
  BY <1>1 DEF Inv, Books, Book
<1>5. x \in Connection /\ x.pool # "held" /\ x.tx = "none" /\ x.written = {}
      /\ (x.pool = "closed" => ~x.alive)
  BY DEF Opened, Closed, Connection
<1> QED  BY <1>1, <1>3, <1>4, <1>5, EndKeepsInv DEF Holding

\* A request keeps its connection, on which nothing more will be executed.
LEMMA StayKeepsInv ==
    ASSUME Inv, NEW r \in Requests, req[r].at \in Holding,
           NEW x \in Connection, NEW a \in Holding, NEW k \in SUBSET Writes,
           x.pool = "held", ~x.alive => x.tx = "none" /\ x.written = {},
           a = "running" => ~x.alive,
           conns' = [conns EXCEPT ![req[r].conn] = x],
           req' = [req EXCEPT ![r].at = a],
           kept' = [kept EXCEPT ![r][req[r].op] = k],
           UNCHANGED <<up, queue>>, faults' \in Nat,
           doubtful \subseteq doubtful', doubtful' \subseteq Requests,
           k = {} \/ (r \in doubtful' /\ k = Effect(Op(r)))
    PROVE  Inv'
<1> DEFINE y == [req[r] EXCEPT !.at = a]
<1>1. /\ req \in [Requests -> Request] /\ kept \in [Requests -> [1..MaxOps -> SUBSET Writes]]
      /\ queue \in Seq(Requests) /\ req[r].conn \in Conns
  BY DEF Inv, TypeOK
<1>2. req[r] \in Request /\ req[r].at # "queued" /\ a \notin {"new", "queued", "ok"}
  BY <1>1 DEF Holding
<1>3. req' = [req EXCEPT ![r] = y]
  BY <1>1, Zenon
<1>4. /\ y \in Request /\ y.at \in Holding
      /\ y.at = a /\ y.op = req[r].op /\ y.step = req[r].step /\ y.conn = req[r].conn
  BY <1>2 DEF Request
<1> HIDE DEF y
<1>5. kept' = [kept EXCEPT ![r] = kept'[r]] /\ kept' \in [Requests -> [1..MaxOps -> SUBSET Writes]]
  BY <1>1
<1>6. /\ HeldByOne' /\ AtRest' /\ conns' \in [Conns -> Connection] /\ req' \in [Requests -> Request]
      /\ \A s \in Requests : s # r => req'[s] = req[s] /\ Standing(s)' /\ Wire(s)' /\ Book(s)'
      /\ req'[r].at = a /\ req'[r].op = req[r].op /\ req'[r].step = req[r].step
      /\ req'[r].conn = req[r].conn /\ conns'[req[r].conn] = x
  <2>1. OwnStep(r, x, y)
    BY <1>3, <1>4, <1>5 DEF OwnStep
  <2> QED  BY <2>1, <1>4, OthersStay
<1>7. TypeOK'
  <2>1. \A s \in Requests : req'[s].conn \in Conns <=> req'[s].at \in Holding
    BY <1>1, <1>4, <1>6 DEF Inv, TypeOK
  <2> QED  BY <2>1, <1>1, <1>5, <1>6 DEF Inv, TypeOK
<1>8. Waiting'
  BY <1>2, <1>6, LineStays DEF Inv
<1>9. /\ req[r].op \in 1..OpsIn(r) /\ OpsIn(r) \in 1..MaxOps
      /\ req[r].step \in 1..StepsIn(Op(r))
  BY Programs DEF Inv, Steps, Standing
<1>10. Op(r)' = Op(r) /\ ~Runs(r)'
  BY <1>6 DEF Op, Runs, Conn
<1>11. Steps'
  <2>1. Standing(r)'
    BY <1>2, <1>6, <1>9, <1>10 DEF Standing
  <2> QED  BY <2>1, <1>6 DEF Steps
<1>12. OnTheWire'
  BY <1>6, <1>10 DEF OnTheWire, Wire
<1>13. Books'
  <2>1. \A i \in 1..OpsIn(r) : kept'[r][i] = IF i = req[r].op THEN k ELSE kept[r][i]
    BY <1>1, <1>9 DEF MaxOps
  <2>2. Book(r)
    BY DEF Inv, Books
  <2>3. Book(r)'
    BY <2>1, <2>2, <1>2, <1>6, <1>9, <1>10 DEF Book, MaxOps
  <2> QED  BY <2>3, <1>6 DEF Books
<1> QED  BY <1>6, <1>7, <1>8, <1>11, <1>12, <1>13 DEF Inv

LEMMA FailUpdateKeepsInv ==
    ASSUME Inv, NEW r \in Requests, FailUpdate(r)
    PROVE  Inv'
<1> DEFINE k == kept[r][req[r].op]
           x == [Conn(r) EXCEPT !.tx = TxAfter(r)]
<1>1. /\ req[r].at = "running" /\ faults' \in Nat
      /\ conns' = [conns EXCEPT ![req[r].conn].tx = TxAfter(r)]
      /\ req' = [req EXCEPT ![r].at = "undoing"]
      /\ UNCHANGED <<up, queue, kept, doubtful>>
  BY FaultsAreNat DEF FailUpdate, Fails, Inv
<1>2. req[r].op \in 1..MaxOps
  BY OpsAreKnown DEF Inv
<1>3. kept = [kept EXCEPT ![r][req[r].op] = k] /\ k \in SUBSET Writes
  BY <1>2, KeptStays DEF Inv
<1>4. k = {} \/ (r \in doubtful /\ k = Effect(Op(r)))
  BY <1>1 DEF Inv, Books, Book
<1>5. /\ req[r].conn \in Conns /\ conns \in [Conns -> Connection]
      /\ Conn(r) \in Connection /\ doubtful \subseteq Requests
  BY <1>1 DEF Inv, TypeOK, Conn, Holding
<1>6. conns' = [conns EXCEPT ![req[r].conn] = x]
  BY <1>1, <1>5, Zenon DEF Conn
<1>7. Conn(r).pool = "held" /\ (~Conn(r).alive => Conn(r).tx = "none" /\ Conn(r).written = {})
  BY <1>1, <1>5 DEF Inv, HeldByOne, AtRest, Holds, Holding, Conn
<1>8. /\ x \in Connection /\ x.pool = "held" /\ x.alive = Conn(r).alive
      /\ x.tx = TxAfter(r) /\ x.written = Conn(r).written
  BY <1>5, <1>7 DEF Connection, TxAfter
<1>9. ~x.alive => x.tx = "none" /\ x.written = {}
  BY <1>7, <1>8 DEF TxAfter
<1> HIDE DEF x
<1> QED  BY <1>1, <1>3, <1>4, <1>5, <1>6, <1>8, <1>9, StayKeepsInv DEF Holding

\* The server has committed, and the answer is lost.
LEMMA SeverAnswerKeepsInv ==
    ASSUME Inv, NEW r \in Requests, SeverAnswer(r)
    PROVE  Inv'
<1> DEFINE done == IF Statement(r) = "COMMIT" THEN Conn(r).written ELSE {"insert"}
           x == [Closed EXCEPT !.pool = "held"]
<1>1. /\ Runs(r) /\ Statement(r) \in {"COMMIT", "insert"} /\ faults' \in Nat
      /\ kept' = [kept EXCEPT ![r][req[r].op] = kept[r][req[r].op] \cup done]
      /\ conns' = [conns EXCEPT ![req[r].conn] = x]
      /\ doubtful' = doubtful \cup {r}
      /\ UNCHANGED <<up, queue, req>>
  BY FaultsAreNat DEF SeverAnswer, Inv
<1>2. /\ Op(r) \in Ops /\ req[r].step \in 1..StepsIn(Op(r)) /\ req[r].step \in Nat
      /\ Statement(r) = Sql[Op(r)][req[r].step]
      /\ StepsIn(Op(r)) \in 1..6
  BY OpsAreKnown, Statements DEF Inv, Steps, Standing, Statement
<1>3. done = Effect(Op(r))
  <2>1. Sent(Op(r), req[r].step) = Sent(Op(r), req[r].step - 1) \cup ({Statement(r)} \cap Writes)
    BY <1>2, SentMore
  <2>2. CASE Statement(r) = "COMMIT"
    <3>1. Op(r) \in Transactions
      <4>1. Op(r) \notin Transactions => req[r].step = 1
        BY <1>2, OpsAreKnown, Statements
      <4> QED  BY <4>1, <1>2, <2>2, Statements
    <3>2. req[r].step = StepsIn(Op(r)) /\ req[r].step # 1
      BY <3>1, <1>2, <2>2, Statements
    <3>3. Conn(r).written = Sent(Op(r), req[r].step - 1)
      BY <1>1, <3>2 DEF Inv, OnTheWire, Wire
    <3>4. {Statement(r)} \cap Writes = {}
      BY <2>2 DEF Writes
    <3> QED  BY <2>1, <2>2, <3>2, <3>3, <3>4 DEF Effect
  <2>3. CASE Statement(r) = "insert"
    <3>1. Op(r) \notin Transactions
      BY <1>2, <2>3, Statements
    <3>2. req[r].step = 1 /\ StepsIn(Op(r)) = 1
      BY <1>2, <3>1, Statements
    <3>3. Sent(Op(r), req[r].step - 1) = {}
      BY <1>2, <3>2, SentNothing
    <3> QED  BY <2>1, <2>3, <3>2, <3>3 DEF Effect, Writes
  <2> QED  BY <1>1, <2>2, <2>3
<1>4. /\ kept[r][req[r].op] = {} /\ req[r].at = "running" /\ req[r].at \in Holding
      /\ req \in [Requests -> Request] /\ doubtful \subseteq Requests
  BY <1>1 DEF Inv, Books, Book, Runs, TypeOK, Holding
<1>5. kept' = [kept EXCEPT ![r][req[r].op] = Effect(Op(r))] /\ Effect(Op(r)) \in SUBSET Writes
  BY <1>1, <1>3, <1>4 DEF Effect, Sent
<1>6. req' = [req EXCEPT ![r].at = "running"]
  BY <1>1, <1>4 DEF Request
<1>7. x \in Connection /\ x.pool = "held" /\ x.tx = "none" /\ x.written = {} /\ ~x.alive
  BY DEF Closed, Connection
<1>8. doubtful \subseteq doubtful' /\ doubtful' \subseteq Requests /\ r \in doubtful'
  BY <1>1, <1>4
<1> HIDE DEF x
<1> QED  BY <1>1, <1>4, <1>5, <1>6, <1>7, <1>8, StayKeepsInv DEF Holding

\* The server ends a session: nothing of it is left, whoever has it.
LEMMA SeverKeepsInv ==
    ASSUME Inv, NEW c \in Conns, Sever(c)
    PROVE  Inv'
<1> DEFINE x == [Closed EXCEPT !.pool = conns[c].pool]
<1>1. /\ conns' = [conns EXCEPT ![c] = x] /\ faults' \in Nat
      /\ conns[c].pool # "closed"
      /\ UNCHANGED <<up, queue, req, kept, doubtful>>
  BY FaultsAreNat DEF Sever, Inv
<1>2. conns \in [Conns -> Connection]
  BY DEF Inv, TypeOK
<1>3. /\ x \in Connection /\ x.pool = conns[c].pool /\ ~x.alive
      /\ x.tx = "none" /\ x.written = {}
  BY <1>2 DEF Closed, Connection
<1> HIDE DEF x
<1>4. /\ conns' \in [Conns -> Connection] /\ conns'[c] = x
      /\ \A d \in Conns : /\ d # c => conns'[d] = conns[d]
                          /\ conns'[d].pool = conns[d].pool
  BY <1>1, <1>2, <1>3
<1>5. TypeOK' /\ Waiting'
  BY <1>1, <1>4 DEF Inv, TypeOK, Waiting
<1>6. \A r \in Requests : /\ Op(r)' = Op(r)
                          /\ Runs(r)' => Runs(r) /\ Conn(r)' = Conn(r)
  <2> SUFFICES ASSUME NEW r \in Requests
               PROVE  Op(r)' = Op(r) /\ (Runs(r)' => Runs(r) /\ Conn(r)' = Conn(r))
    OBVIOUS
  <2>1. Op(r)' = Op(r)
    BY <1>1 DEF Op
  <2>2. ASSUME Runs(r)' PROVE Runs(r) /\ Conn(r)' = Conn(r)
    <3>1. req[r].at = "running" /\ req[r].conn \in Conns /\ conns'[req[r].conn].alive
      BY <1>1, <2>2 DEF Runs, Conn, Inv, TypeOK, Holding
    <3>2. req[r].conn # c
      BY <1>3, <1>4, <3>1
    <3> QED  BY <1>1, <1>4, <3>1, <3>2 DEF Runs, Conn
  <2> QED  BY <2>1, <2>2
<1>7. Steps'
  BY <1>1, <1>6 DEF Inv, Steps, Standing, LastOperation
<1>8. HeldByOne' /\ AtRest'
  BY <1>1, <1>3, <1>4 DEF Inv, HeldByOne, Holds, AtRest
<1>9. OnTheWire'
  <2> SUFFICES ASSUME NEW r \in Requests PROVE Wire(r)'
    BY DEF OnTheWire
  <2>1. Wire(r)
    BY DEF Inv, OnTheWire
  <2> QED  BY <2>1, <1>1, <1>6 DEF Wire
<1>10. Books'
  <2> SUFFICES ASSUME NEW r \in Requests PROVE Book(r)'
    BY DEF Books
  <2>1. Book(r)
    BY DEF Inv, Books
  <2> QED  BY <2>1, <1>1, <1>6 DEF Book
<1> QED  BY <1>5, <1>7, <1>8, <1>9, <1>10 DEF Inv

---------------------------------------------------------------------------
(* The pool and the processes. *)

\* A request that only changes its place: enough for what it has kept.
OnlyMoves(r) ==
    /\ UNCHANGED <<kept, doubtful>>
    /\ req'[r].op = req[r].op /\ req'[r].step = req[r].step
    /\ req'[r].at = "ok" <=> req[r].at = "ok"
    /\ req'[r].at \in {"new", "queued"} => req[r].at \in {"new", "queued"}
    /\ Runs(r)' => Runs(r) \/ req[r].at \in {"new", "queued"}

LEMMA BooksStay ==
    ASSUME Inv, NEW r \in Requests, OnlyMoves(r)
    PROVE  Standing(r)' /\ Book(r)' /\ Op(r)' = Op(r)
<1> USE DEF OnlyMoves
<1>1. Op(r)' = Op(r)
  BY DEF Op
<1>2. Standing(r) /\ Book(r)
  BY DEF Inv, Steps, Books
<1>3. Standing(r)'
  BY <1>1, <1>2 DEF Standing, LastOperation
<1>4. Book(r)'
  BY <1>1, <1>2 DEF Book
<1> QED  BY <1>1, <1>3, <1>4

LEMMA DieKeepsInv ==
    ASSUME Inv, Die, faults' \in Nat
    PROVE  Inv'
<1>1. /\ queue' = <<>> /\ up' = FALSE /\ kept' = kept /\ doubtful' = doubtful
      /\ \A c \in Conns : conns'[c] = Closed
      /\ conns' \in [Conns -> Connection]
  BY DEF Die, Closed, Connection
<1>2. req \in [Requests -> Request]
  BY DEF Inv, TypeOK
<1>3. ASSUME NEW r \in Requests
      PROVE  /\ req'[r] \in Request
             /\ req'[r].op = req[r].op /\ req'[r].step = req[r].step
             /\ req'[r].at = IF req[r].at \in {"queued"} \cup Holding THEN "lost" ELSE req[r].at
             /\ req'[r].conn = NoConn
  <2>1. req[r] \in Request
    BY <1>2
  <2>2. CASE req[r].at \in {"queued"} \cup Holding
    <3> DEFINE z == [req[r] EXCEPT !.at = "lost"]
               y == [z EXCEPT !.conn = NoConn]
    <3>1. z \in Request /\ z.at = "lost" /\ z.op = req[r].op /\ z.step = req[r].step
      BY <2>1 DEF Request, Ended
    <3>2. y \in Request /\ y.at = "lost" /\ y.op = req[r].op /\ y.step = req[r].step /\ y.conn = NoConn
      BY <3>1 DEF Request
    <3>3. req'[r] = y
      BY <2>2, Zenon DEF Die
    <3> QED  BY <2>2, <3>2, <3>3
  <2>3. CASE req[r].at \notin {"queued"} \cup Holding
    <3>1. req'[r] = req[r]
      BY <2>3 DEF Die
    <3>2. req[r].conn = NoConn
      BY <2>1, <2>3 DEF Inv, TypeOK, Request
    <3> QED  BY <2>1, <2>3, <3>1, <3>2
  <2> QED  BY <2>2, <2>3
<1>4. req' \in [Requests -> Request]
  BY <1>3 DEF Die
<1>5. \A r \in Requests : req'[r].at \notin {"queued", "running"} \cup Holding
  BY <1>3 DEF Holding
<1>6. TypeOK'
  <2>1. \A r \in Requests : req'[r].conn \in Conns <=> req'[r].at \in Holding
    BY <1>3, <1>5, ConnsExist
  <2>2. queue' \in Seq(Requests) /\ up' \in BOOLEAN
    <3>1. <<>> \in Seq(Requests)
      OBVIOUS
    <3> QED  BY <3>1, <1>1, Zenon
  <2>3. /\ kept' \in [Requests -> [1..MaxOps -> SUBSET Writes]]
        /\ doubtful' \subseteq Requests /\ conns' \in [Conns -> Connection]
    BY <1>1 DEF Inv, TypeOK
  <2> QED  BY <2>1, <2>2, <2>3, <1>4 DEF TypeOK
<1>7. Waiting'
  BY <1>1 DEF Waiting
<1>8. HeldByOne' /\ AtRest'
  BY <1>1, <1>5 DEF HeldByOne, Holds, AtRest, Closed
<1>9. OnTheWire'
  BY <1>5 DEF OnTheWire, Wire, Runs
<1>10. \A r \in Requests : Standing(r)' /\ Book(r)'
  <2> SUFFICES ASSUME NEW r \in Requests PROVE Standing(r)' /\ Book(r)'
    OBVIOUS
  <2>1. OnlyMoves(r)
    BY <1>1, <1>3, <1>5 DEF OnlyMoves, Runs, Holding
  <2> QED  BY <2>1, BooksStay
<1> QED  BY <1>6, <1>7, <1>8, <1>9, <1>10 DEF Inv, Steps, Books

\* The first of the line leaves it.
LEMMA FrontOfLine ==
    ASSUME TypeOK, Waiting, queue # <<>>
    PROVE  /\ Head(queue) \in Requests /\ req[Head(queue)].at = "queued"
           /\ Tail(queue) \in Seq(Requests)
           /\ \A i \in 1..Len(Tail(queue)) :
                /\ Tail(queue)[i] \in Requests /\ Tail(queue)[i] # Head(queue)
                /\ req[Tail(queue)[i]].at = "queued"
           /\ \A i, j \in 1..Len(Tail(queue)) : Tail(queue)[i] = Tail(queue)[j] => i = j
<1>1. /\ queue \in Seq(Requests) /\ Len(queue) \in Nat /\ Len(queue) >= 1
      /\ Head(queue) = queue[1] /\ Tail(queue) \in Seq(Requests)
      /\ Len(Tail(queue)) = Len(queue) - 1
      /\ \A i \in 1..Len(Tail(queue)) : Tail(queue)[i] = queue[i + 1]
  BY DEF TypeOK
<1>2. \A i \in 1..Len(queue) : queue[i] \in Requests /\ req[queue[i]].at = "queued"
  BY <1>1 DEF Waiting
<1>3. \A i \in 1..Len(Tail(queue)) : i + 1 \in 1..Len(queue) /\ i + 1 # 1
  BY <1>1
<1>4. \A i, j \in 1..Len(queue) : queue[i] = queue[j] => i = j
  BY DEF Waiting
<1>5. Head(queue) \in Requests /\ req[Head(queue)].at = "queued"
  BY <1>1, <1>2
<1>6. ASSUME NEW i \in 1..Len(Tail(queue))
      PROVE  /\ Tail(queue)[i] \in Requests /\ Tail(queue)[i] # Head(queue)
             /\ req[Tail(queue)[i]].at = "queued"
  BY <1>1, <1>2, <1>3, <1>4
<1>7. ASSUME NEW i \in 1..Len(Tail(queue)), NEW j \in 1..Len(Tail(queue)),
             Tail(queue)[i] = Tail(queue)[j]
      PROVE  i = j
  <2>1. queue[i + 1] = queue[j + 1]
    BY <1>1, <1>7
  <2>2. i + 1 = j + 1
    BY <2>1, <1>3, <1>4
  <2> QED  BY <2>2
<1> QED  BY <1>1, <1>5, <1>6, <1>7

LEMMA LeaveLine ==
    ASSUME TypeOK, Waiting, queue # <<>>, queue' = Tail(queue),
           \A s \in Requests : s # Head(queue) => req'[s] = req[s]
    PROVE  Waiting'
<1>1. /\ Tail(queue) \in Seq(Requests)
      /\ \A i \in 1..Len(Tail(queue)) :
            /\ Tail(queue)[i] \in Requests /\ Tail(queue)[i] # Head(queue)
            /\ req[Tail(queue)[i]].at = "queued"
      /\ \A i, j \in 1..Len(Tail(queue)) : Tail(queue)[i] = Tail(queue)[j] => i = j
  BY FrontOfLine
<1>2. \A i \in 1..Len(Tail(queue)) : req'[Tail(queue)[i]] = req[Tail(queue)[i]]
  BY <1>1
<1> HIDE DEF Waiting
<1>3. \A i \in 1..Len(Tail(queue)) : req'[Tail(queue)[i]].at = "queued"
  BY <1>1, <1>2
<1> QED  BY <1>1, <1>3 DEF Waiting

\* A connection is lent: nothing is open on it.
LEMMA ServeKeepsInv ==
    ASSUME Inv, NEW c \in Conns, NEW x \in Connection, queue # <<>>, Serve(c, x),
           conns[c].pool # "held", x.pool = "held", x.tx = "none", x.written = {}
    PROVE  Inv'
<1> DEFINE h == Head(queue)
           z == [req[h] EXCEPT !.at = "running"]
           y == [z EXCEPT !.conn = c]
<1>1. /\ conns' = [conns EXCEPT ![c] = x]
      /\ req' = [req EXCEPT ![h].at = "running", ![h].conn = c]
      /\ queue' = Tail(queue)
      /\ UNCHANGED <<up, kept, doubtful, faults>>
  BY DEF Serve
<1>2. h \in Requests /\ req[h].at = "queued" /\ Tail(queue) \in Seq(Requests)
  BY FrontOfLine DEF Inv
<1> HIDE DEF h
<1>3. /\ req \in [Requests -> Request] /\ conns \in [Conns -> Connection]
      /\ req[h] \in Request
  BY <1>2 DEF Inv, TypeOK
<1>4. req' = [req EXCEPT ![h] = y]
  BY <1>1, <1>3, Zenon
<1>5. /\ y \in Request /\ y.at = "running" /\ y.op = req[h].op /\ y.step = req[h].step
      /\ y.conn = c
  <2>1. z \in Request /\ z.at = "running" /\ z.op = req[h].op /\ z.step = req[h].step
    BY <1>3 DEF Request, Holding
  <2> QED  BY <2>1 DEF Request
<1> HIDE DEF y
<1>6. /\ conns' \in [Conns -> Connection] /\ req' \in [Requests -> Request]
      /\ \A s \in Requests : s # h => req'[s] = req[s]
      /\ req'[h] = y /\ conns'[c] = x
      /\ \A d \in Conns : d # c => conns'[d] = conns[d]
  BY <1>1, <1>2, <1>3, <1>4, <1>5
<1>7. \A s \in Requests : ~Holds(s, c)
  BY DEF Inv, HeldByOne
<1>8. TypeOK'
  <2>1. \A s \in Requests : req'[s].conn \in Conns <=> req'[s].at \in Holding
    BY <1>5, <1>6 DEF Inv, TypeOK, Holding
  <2> QED  BY <2>1, <1>1, <1>2, <1>6 DEF Inv, TypeOK
<1>9. Waiting'
  BY <1>1, <1>6, LeaveLine DEF Inv, h
<1>10. HeldByOne'
  <2>1. \A d \in Conns : /\ conns[d].pool = "held" <=> \E s \in Requests : Holds(s, d)
                         /\ \A s, t \in Requests : Holds(s, d) /\ Holds(t, d) => s = t
    BY DEF Inv, HeldByOne
  <2>2. \A d \in Conns : \A s \in Requests :
            Holds(s, d)' <=> IF s = h THEN d = c ELSE Holds(s, d)
    BY <1>5, <1>6 DEF Holds, Holding
  <2>3. \A d \in Conns : ~Holds(h, d)
    BY <1>2 DEF Holds, Holding
  <2> QED  BY <2>1, <2>2, <2>3, <1>2, <1>6, <1>7 DEF HeldByOne
<1>11. AtRest'
  BY <1>6 DEF Inv, AtRest
<1>12. ASSUME NEW s \in Requests
       PROVE  Standing(s)' /\ Wire(s)' /\ Book(s)'
  <2>1. OnlyMoves(s)
    <3>1. CASE s = h
      BY <3>1, <1>1, <1>2, <1>5, <1>6 DEF OnlyMoves
    <3>2. CASE s # h
      <4>1. req'[s] = req[s] /\ (req[s].at = "running" => req[s].conn \in Conns /\ req[s].conn # c)
        BY <3>2, <1>6, <1>7 DEF Inv, TypeOK, Holds, Holding
      <4>2. Runs(s)' => Runs(s)
        BY <4>1, <1>6 DEF Runs, Conn
      <4> QED  BY <4>1, <4>2, <1>1 DEF OnlyMoves
    <3> QED  BY <3>1, <3>2
  <2>2. Standing(s)' /\ Book(s)' /\ Op(s)' = Op(s)
    BY <2>1, BooksStay
  <2>3. CASE s = h
    <3>1. req'[s].step = 1
      BY <2>3, <1>2, <1>5, <1>6 DEF Inv, Steps, Standing
    <3>2. Conn(s)' = x
      BY <2>3, <1>5, <1>6 DEF Conn
    <3> QED  BY <2>2, <3>1, <3>2 DEF Wire
  <2>4. CASE s # h
    <3>1. req'[s] = req[s] /\ (req[s].at = "running" => req[s].conn \in Conns /\ req[s].conn # c)
      BY <2>4, <1>6, <1>7 DEF Inv, TypeOK, Holds, Holding
    <3>2. Runs(s)' => Runs(s) /\ Conn(s)' = Conn(s)
      BY <3>1, <1>6 DEF Runs, Conn
    <3>3. Wire(s)
      BY DEF Inv, OnTheWire
    <3> QED  BY <2>2, <3>1, <3>2, <3>3 DEF Wire
  <2> QED  BY <2>2, <2>3, <2>4
<1> QED  BY <1>8, <1>9, <1>10, <1>11, <1>12 DEF Inv, Steps, OnTheWire, Books


\* A request that holds nothing changes its place.
LEMMA MoveKeepsInv ==
    ASSUME Inv, NEW r \in Requests, req[r].at \in {"new", "queued"}, NEW a \in {"queued", "error"},
           a = "queued" => req[r].at = "new",
           req' = [req EXCEPT ![r].at = a],
           UNCHANGED <<up, conns, kept, doubtful>>, faults' \in Nat,
           queue' \in Seq(Requests), Waiting'
    PROVE  Inv'
<1> DEFINE y == [req[r] EXCEPT !.at = a]
<1>1. req \in [Requests -> Request] /\ req[r] \in Request
  BY DEF Inv, TypeOK
<1>2. req' = [req EXCEPT ![r] = y]
  BY <1>1, Zenon
<1>3. /\ y \in Request /\ y.at = a /\ y.op = req[r].op /\ y.step = req[r].step
      /\ y.conn = req[r].conn
  BY <1>1 DEF Request, Ended
<1> HIDE DEF y
<1>4. /\ req' \in [Requests -> Request] /\ req'[r] = y
      /\ \A s \in Requests : s # r => req'[s] = req[s]
  BY <1>1, <1>2, <1>3
<1>5. \A s \in Requests : /\ req'[s].conn = req[s].conn
                          /\ req'[s].at \in Holding <=> req[s].at \in Holding
  BY <1>3, <1>4 DEF Holding
<1>6. TypeOK'
  BY <1>4, <1>5 DEF Inv, TypeOK
<1>7. HeldByOne' /\ AtRest'
  BY <1>5 DEF Inv, HeldByOne, Holds, AtRest
<1>8. ASSUME NEW s \in Requests
      PROVE  Standing(s)' /\ Wire(s)' /\ Book(s)'
  <2>1. Runs(s)' => Runs(s) /\ Conn(s)' = Conn(s) /\ s # r
    BY <1>3, <1>4 DEF Runs, Conn
  <2>2. OnlyMoves(s)
    BY <2>1, <1>3, <1>4 DEF OnlyMoves
  <2>3. Standing(s)' /\ Book(s)' /\ Op(s)' = Op(s)
    BY <2>2, BooksStay
  <2>4. Wire(s)
    BY DEF Inv, OnTheWire
  <2>5. Wire(s)'
    BY <2>1, <2>3, <2>4, <1>4 DEF Wire
  <2> QED  BY <2>3, <2>5
<1> QED  BY <1>6, <1>7, <1>8 DEF Inv, Steps, OnTheWire, Books

LEMMA ArriveKeepsInv ==
    ASSUME Inv, NEW r \in Requests, Arrive(r)
    PROVE  Inv'
<1>1. /\ req[r].at = "new" /\ req' = [req EXCEPT ![r].at = "queued"]
      /\ queue' = Append(queue, r)
      /\ UNCHANGED <<up, conns, kept, doubtful, faults>>
  BY DEF Arrive
<1>2. /\ req \in [Requests -> Request] /\ queue' \in Seq(Requests) /\ faults' \in Nat
  BY <1>1 DEF Inv, TypeOK
<1>3. req'[r].at = "queued" /\ \A s \in Requests : s # r => req'[s] = req[s]
  BY <1>1, <1>2
<1>4. Waiting'
  BY <1>1, <1>3, JoinLine DEF Inv
<1> QED  BY <1>1, <1>2, <1>4, MoveKeepsInv

LEMMA DispenseKeepsInv ==
    ASSUME Inv, NEW c \in Conns, Lend(c) \/ Open(c)
    PROVE  Inv'
<1>1. conns[c] \in Connection
  BY DEF Inv, TypeOK
<1>2. CASE Lend(c)
  <2> DEFINE x == [conns[c] EXCEPT !.pool = "held"]
  <2>1. queue # <<>> /\ conns[c].pool = "idle" /\ Serve(c, x)
    BY <1>2 DEF Lend
  <2>2. conns[c].tx = "none" /\ conns[c].written = {}
    BY <2>1 DEF Inv, AtRest
  <2>3. x \in Connection /\ x.pool = "held" /\ x.tx = "none" /\ x.written = {}
    BY <1>1, <2>2 DEF Connection
  <2> HIDE DEF x
  <2> QED  BY <2>1, <2>3, ServeKeepsInv
<1>3. CASE Open(c)
  <2>1. queue # <<>> /\ conns[c].pool = "closed" /\ Serve(c, Opened)
    BY <1>3 DEF Open
  <2>2. Opened \in Connection /\ Opened.pool = "held" /\ Opened.tx = "none" /\ Opened.written = {}
    BY DEF Opened, Connection
  <2> QED  BY <2>1, <2>2, ServeKeepsInv
<1> QED  BY <1>2, <1>3

LEMMA RefuseKeepsInv ==
    ASSUME Inv, NEW c \in Conns, RefuseConnection(c)
    PROVE  Inv'
<1> DEFINE h == Head(queue)
<1>1. queue # <<>> /\ faults' \in Nat
  BY FaultsAreNat DEF RefuseConnection, Inv
<1>2. h \in Requests /\ req[h].at = "queued" /\ Tail(queue) \in Seq(Requests)
  BY <1>1, FrontOfLine DEF Inv
<1>3. CASE Op(h) = "find"
  <2>1. /\ req' = [req EXCEPT ![h].at = "error"]
        /\ queue' = Tail(queue) /\ UNCHANGED <<up, conns, kept, doubtful>>
    BY <1>3 DEF RefuseConnection
  <2>2. \A s \in Requests : s # h => req'[s] = req[s]
    BY <2>1 DEF Inv, TypeOK
  <2>3. Waiting'
    BY <1>1, <2>1, <2>2, LeaveLine DEF Inv
  <2> HIDE DEF h
  <2> QED  BY <1>1, <1>2, <2>1, <2>3, MoveKeepsInv
<1>4. CASE Op(h) # "find"
  BY <1>1, <1>4, DieKeepsInv DEF RefuseConnection
<1> QED  BY <1>3, <1>4

LEMMA CarelessKeepsInv ==
    ASSUME Inv, Kill \/ \E r \in Requests : FailCarelessly(r)
    PROVE  Inv'
<1>1. Die /\ faults' \in Nat
  BY FaultsAreNat DEF Kill, FailCarelessly, Fails, Inv
<1> QED  BY <1>1, DieKeepsInv

LEMMA RestKeepsInv ==
    ASSUME Inv, UNCHANGED <<queue, conns, req, kept, doubtful, faults>>, up' \in BOOLEAN
    PROVE  Inv'
<1>1. TypeOK' /\ Waiting' /\ HeldByOne' /\ AtRest'
  BY DEF Inv, TypeOK, Waiting, HeldByOne, AtRest, Holds
<1>2. Steps' /\ OnTheWire' /\ Books'
  BY DEF Inv, Steps, Standing, LastOperation, OnTheWire, Wire, Books, Book, Runs, Conn, Op
<1> QED  BY <1>1, <1>2 DEF Inv

LEMMA InvStep ==
    ASSUME Inv, [Next]_vars
    PROVE  Inv'
<1>1. CASE Kill
  BY <1>1, CarelessKeepsInv
<1>2. CASE Restart
  BY <1>2, RestKeepsInv DEF Restart
<1>3. CASE Dispense
  BY <1>3, DispenseKeepsInv DEF Dispense
<1>4. CASE Done \/ UNCHANGED vars
  <2>1. UNCHANGED vars
    BY <1>4 DEF Done
  <2> QED  BY <2>1, RestKeepsInv DEF vars, Inv, TypeOK
<1>5. ASSUME NEW r \in Requests, Arrive(r) PROVE Inv'
  BY <1>5, ArriveKeepsInv
<1>6. ASSUME NEW r \in Requests, Proceed(r) PROVE Inv'
  <2>1. CASE RunStatement(r)
    BY <2>1, RunStatementKeepsInv
  <2>2. CASE FinishOperation(r)
    BY <2>2, FinishOperationKeepsInv
  <2>3. CASE Answer(r) \/ GiveUp(r)
    BY <2>3, AnswerKeepsInv
  <2>4. CASE FailLook(r)
    BY <2>4, FailLookKeepsInv
  <2>5. CASE FailCarelessly(r)
    BY <2>5, CarelessKeepsInv
  <2>6. CASE FailUpdate(r)
    BY <2>6, FailUpdateKeepsInv
  <2>7. CASE Undo(r)
    BY <2>7, UndoKeepsInv
  <2> QED  BY <1>6, <2>1, <2>2, <2>3, <2>4, <2>5, <2>6, <2>7 DEF Proceed
<1>7. ASSUME NEW r \in Requests, SeverAnswer(r) PROVE Inv'
  BY <1>7, SeverAnswerKeepsInv
<1>8. ASSUME NEW c \in Conns, RefuseConnection(c) PROVE Inv'
  BY <1>8, RefuseKeepsInv
<1>9. ASSUME NEW c \in Conns, Sever(c) PROVE Inv'
  BY <1>9, SeverKeepsInv
<1> QED  BY <1>1, <1>2, <1>3, <1>4, <1>5, <1>6, <1>7, <1>8, <1>9 DEF Next

---------------------------------------------------------------------------
(* Theorems. *)

LEMMA InvHolds == Spec => []Inv
<1>1. Init => Inv
  BY InvInit
<1>2. Inv /\ [Next]_vars => Inv'
  BY InvStep
<1> QED  BY <1>1, <1>2, PTL DEF Spec

\* Every variable keeps its type, and exactly the requests that run have a
\* connection.
THEOREM ConnectionsTyped == Spec => []TypeOK
<1>1. Inv => TypeOK
  BY DEF Inv
<1> QED  BY <1>1, InvHolds, PTL

\* Connections wait in the pool with no transaction open, for any number of
\* requests, connections and faults (connectWrap, doCleanup in lib/db.js).
THEOREM ReturnedClean == Spec => []IdleIsClean
<1>1. Inv => IdleIsClean
  BY DEF Inv, AtRest, IdleIsClean
<1> QED  BY <1>1, InvHolds, PTL

\* A connection that is out is held by one request that still runs on it
\* (each path of doCleanup and of the look-ups calls done once).
THEOREM HeldOnce == Spec => []HeldByOne
<1>1. Inv => HeldByOne
  BY DEF Inv
<1> QED  BY <1>1, InvHolds, PTL

\* Of an operation all or nothing is kept, and what a request is told agrees
\* with what it has kept (doCleanup, postCommitErr, the pages' callbacks).
THEOREM AnswersTrue == Spec => []AnswersAreTrue
<1>1. Inv => AnswersAreTrue
  <2> SUFFICES ASSUME Inv, NEW r \in Requests, NEW i \in 1..OpsIn(r)
               PROVE  LET all == Effect(Program[Workload[r]][i])
                      IN  /\ kept[r][i] \in {{}, all}
                          /\ req[r].at = "ok" \/ i < req[r].op => kept[r][i] = all
                          /\ req[r].at = "error" /\ i >= req[r].op /\ r \notin doubtful
                                => kept[r][i] = {}
    BY DEF AnswersAreTrue
  <2>1. Standing(r) /\ Book(r)
    BY DEF Inv, Steps, Books
  <2>2. /\ req[r].op \in 1..OpsIn(r) /\ OpsIn(r) \in Nat
        /\ req[r].at = "ok" => req[r].op = OpsIn(r)
    BY <2>1, Programs DEF Standing, LastOperation, MaxOps
  <2>3. i < req[r].op \/ i = req[r].op \/ i > req[r].op
    BY <2>2
  <2> QED  BY <2>1, <2>2, <2>3 DEF Book, Op
<1> QED  BY <1>1, InvHolds, PTL

=============================================================================
