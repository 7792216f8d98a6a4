--------------------- MODULE EntityUpdates_refinement ---------------------
(* The update operations implement PageStore: whoever reads wh_entity sees *)
(* whole operations happen one at a time, although each is several SQL     *)
(* statements and any number of clients send theirs at once.               *)
EXTENDS EntityUpdates_proofs

---------------------------------------------------------------------------
(* Revisions are numbered before they are used.  This tells the page a Move *)
(* has moved from the stub it leaves, whose revision is one of its own.    *)

Numbered ==
    /\ TypeOK
    /\ nextId > 0
    /\ \A l \in wh_log : l.revisionId < nextId
    /\ \A c \in Clients :
         /\ tx[c].id < nextId
         /\ tx[c].kind # "purge" => tx[c].le.revisionId <= tx[c].id
         /\ pc[c] \in {"waiting", "executed"} => tx[c].kind # "purge"

\* An operation starts with a revision that is its own or was in the log.
LEMMA BeginNumbered ==
    ASSUME Numbered, NEW c \in Clients, NEW kind, NEW exec, NEW insert,
           NEW ids \in {1, 2}, NEW le, kind # "purge",
           le.revisionId \in Nat, le.revisionId <= nextId,
           Begin(c, kind, exec, insert, ids, le), TypeOK'
    PROVE  Numbered'
  <1>1. /\ nextId \in Nat /\ nextId' = nextId + ids /\ wh_log' = wh_log
        /\ tx'[c].id = nextId /\ tx'[c].le = le /\ tx'[c].kind = kind
        /\ \A d \in Clients \ {c} : tx'[d] = tx[d] /\ pc'[d] = pc[d]
    BY DEF Numbered, TypeOK, Begin, tables
  <1>2. \A l \in wh_log : l.revisionId \in Nat
    BY DEF Numbered, TypeOK, LogEntry, LogRow
  <1>3. \A l \in wh_log' : l.revisionId < nextId'
    BY <1>1, <1>2 DEF Numbered
  <1>4. ASSUME NEW d \in Clients
        PROVE  /\ tx'[d].id < nextId'
               /\ tx'[d].kind # "purge" => tx'[d].le.revisionId <= tx'[d].id
               /\ pc'[d] \in {"waiting", "executed"} => tx'[d].kind # "purge"
    <2>1. CASE d = c
      BY <1>1, <2>1
    <2>2. CASE d # c
      <3>1. tx[d].id \in Nat
        BY DEF Numbered, TypeOK, Operation
      <3> QED BY <1>1, <2>2, <3>1 DEF Numbered
    <2> QED BY <2>1, <2>2
  <1>5. nextId' > 0
    BY <1>1
  <1> QED BY <1>3, <1>4, <1>5 DEF Numbered

\* A client that is done keeps no number.
LEMMA ResetNumbered ==
    ASSUME Numbered, NEW c \in Clients, Reset(c), nextId' = nextId, TypeOK',
           \A l \in wh_log' : l.revisionId < nextId
    PROVE  Numbered'
  <1>1. /\ tx'[c] = NoOperation /\ pc'[c] = "idle"
        /\ \A d \in Clients \ {c} : tx'[d] = tx[d] /\ pc'[d] = pc[d]
    BY DEF Numbered, TypeOK, Reset
  <1>2. NoOperation.id = 0 /\ NoOperation.le.revisionId = 0
    BY DEF NoOperation, NoEntry, FirstEntry
  <1>3. \A d \in Clients :
          /\ tx'[d].id < nextId'
          /\ tx'[d].kind # "purge" => tx'[d].le.revisionId <= tx'[d].id
          /\ pc'[d] \in {"waiting", "executed"} => tx'[d].kind # "purge"
    BY <1>1, <1>2 DEF Numbered
  <1> QED BY <1>3 DEF Numbered

LEMMA RequestNumbered ==
    ASSUME Numbered, NEW c \in Clients, Request(c), TypeOK'
    PROVE  Numbered'
  <1>1. /\ nextId \in Nat /\ nextId <= nextId
        /\ \A l \in wh_log : l.revisionId \in Nat /\ l.revisionId <= nextId
    BY DEF Numbered, TypeOK, LogEntry, LogRow
  <1>2. CASE LoadPage(c) \/ LoadRevision(c)
    BY <1>2 DEF Numbered, TypeOK, LoadPage, LoadRevision, tables
  <1>3. CASE Respond(c)
    BY <1>3, ResetNumbered DEF Respond, tables, Numbered
  <1>4. CASE CreateEntity(c)
    <2>1. PICK p \in Paths, exec \in BOOLEAN, ts \in SUBSET Tags :
            Begin(c, "create", exec, TRUE, 1,
                  FirstEntry(p, nextId, PublishDraft("none"),
                             [body |-> nextId, tags |-> ts]))
      BY <1>4 DEF CreateEntity
    <2> DEFINE le == FirstEntry(p, nextId, PublishDraft("none"),
                                [body |-> nextId, tags |-> ts])
    <2>2. le.revisionId = nextId
      BY DEF FirstEntry
    <2>3. Begin(c, "create", exec, TRUE, 1, le)
      BY <2>1
    <2> HIDE DEF le
    <2> QED BY <1>1, <2>2, <2>3, BeginNumbered
  <1>5. CASE HoldComment(c)
    <2>1. PICK p \in Paths, t \in Tags :
            Begin(c, "comment", FALSE, TRUE, 1,
                  FirstEntry(p, nextId, "review",
                             [body |-> nextId, tags |-> {t}]))
      BY <1>5 DEF HoldComment
    <2> DEFINE le == FirstEntry(p, nextId, "review",
                                [body |-> nextId, tags |-> {t}])
    <2>2. le.revisionId = nextId
      BY DEF FirstEntry
    <2>3. Begin(c, "comment", FALSE, TRUE, 1, le)
      BY <2>1
    <2> HIDE DEF le
    <2> QED BY <1>1, <2>2, <2>3, BeginNumbered
  <1>6. CASE UpdateEntity(c)
    <2>1. PICK exec \in BOOLEAN, ts \in SUBSET Tags, old \in wh_log :
            /\ old.revisionId = hand[c].revisionId
            /\ \/ Begin(c, "edit", exec, FALSE, 1,
                        Redrafted(hand[c], old, [body |-> nextId, tags |-> ts]))
               \/ Begin(c, "edit", exec, TRUE, 1,
                        Revised(hand[c], old, exec, [body |-> nextId, tags |-> ts]))
      BY <1>6 DEF UpdateEntity
    <2> DEFINE same == Redrafted(hand[c], old, [body |-> nextId, tags |-> ts])
               new == Revised(hand[c], old, exec, [body |-> nextId, tags |-> ts])
    <2>2. same.revisionId = hand[c].revisionId
      BY DEF Redrafted, Revised, NextEntry
    <2>3. new.revisionId = nextId
      BY DEF Revised, NextEntry
    <2>4. Begin(c, "edit", exec, FALSE, 1, same) \/ Begin(c, "edit", exec, TRUE, 1, new)
      BY <2>1
    <2> HIDE DEF same, new
    <2>5. same.revisionId \in Nat /\ same.revisionId <= nextId
      BY <1>1, <2>1, <2>2
    <2>6. CASE Begin(c, "edit", exec, FALSE, 1, same)
      BY <2>5, <2>6, BeginNumbered
    <2>7. CASE Begin(c, "edit", exec, TRUE, 1, new)
      BY <1>1, <2>3, <2>7, BeginNumbered
    <2> QED BY <2>4, <2>6, <2>7
  <1>7. CASE CommitEntityRev(c)
    <2>1. PICK l \in wh_log :
            Begin(c, "publish", TRUE, FALSE, 1,
                  [l EXCEPT !.workflow = PublishDraft(l.workflow)])
      BY <1>7 DEF CommitEntityRev
    <2>2. l \in LogRow
      BY DEF Numbered, TypeOK, LogEntry
    <2>3. [l EXCEPT !.workflow = PublishDraft(l.workflow)].revisionId = l.revisionId
      BY <2>2 DEF LogRow
    <2> QED BY <1>1, <2>1, <2>3, BeginNumbered
  <1>8. CASE UpdateWorkflow(c)
    <2>1. PICK l \in wh_log :
            Begin(c, "approve", ApproveHeld(hand[c].workflow) = "published",
                  FALSE, 1, [l EXCEPT !.workflow = ApproveHeld(hand[c].workflow)])
      BY <1>8 DEF UpdateWorkflow
    <2>2. l \in LogRow
      BY DEF Numbered, TypeOK, LogEntry
    <2>3. [l EXCEPT !.workflow = ApproveHeld(hand[c].workflow)].revisionId
            = l.revisionId
      BY <2>2 DEF LogRow
    <2> QED BY <1>1, <2>1, <2>3, BeginNumbered
  <1>9. CASE DeleteEntity(c)
    <2> DEFINE le == NextEntry(hand[c], "Delete", "none", hand[c].data, NoPath)
    <2>1. le.revisionId = nextId
      BY DEF NextEntry
    <2>2. Begin(c, "delete", TRUE, TRUE, 1, le)
      BY <1>9 DEF DeleteEntity
    <2> HIDE DEF le
    <2> QED BY <1>1, <2>1, <2>2, BeginNumbered
  <1>10. CASE MoveEntity(c)
    <2>1. PICK q \in Paths :
            Begin(c, "move", TRUE, TRUE, 2,
                  NextEntry(hand[c], "Move", "none", hand[c].data, q))
      BY <1>10 DEF MoveEntity
    <2> DEFINE le == NextEntry(hand[c], "Move", "none", hand[c].data, q)
    <2>2. le.revisionId = nextId
      BY DEF NextEntry
    <2>3. Begin(c, "move", TRUE, TRUE, 2, le)
      BY <2>1
    <2> HIDE DEF le
    <2> QED BY <1>1, <2>2, <2>3, BeginNumbered
  <1>11. CASE PurgeEntity(c)
    <2>1. PICK r \in wh_entity :
            tx' = [tx EXCEPT ![c] =
                     [NoOperation EXCEPT
                        !.kind = "purge",
                        !.le = FirstEntry(r.path, r.entityId, "none", Blank)]]
      BY <1>11 DEF PurgeEntity
    <2>2. /\ tx'[c].id = 0 /\ tx'[c].kind = "purge" /\ pc'[c] = "cleared"
          /\ \A d \in Clients \ {c} : tx'[d] = tx[d] /\ pc'[d] = pc[d]
      BY <1>11, <2>1 DEF Numbered, TypeOK, NoOperation, PurgeEntity
    <2>3. wh_log' = wh_log /\ nextId' = nextId
      BY <1>11 DEF PurgeEntity, tables
    <2> QED BY <2>2, <2>3 DEF Numbered
  <1> QED
    BY <1>2, <1>3, <1>4, <1>5, <1>6, <1>7, <1>8, <1>9, <1>10, <1>11 DEF Request

\* A step that keeps the numbers of the operations and adds nothing to the log.
LEMMA QuietNumbered ==
    ASSUME Numbered, TypeOK', nextId' = nextId, wh_log' \subseteq wh_log,
           \A d \in Clients : /\ tx'[d].id = tx[d].id
                              /\ tx'[d].kind = tx[d].kind
                              /\ tx'[d].le.revisionId = tx[d].le.revisionId
                              /\ \/ pc'[d] \in {"waiting", "executed"} =>
                                      pc[d] \in {"waiting", "executed"}
                                 \/ tx[d].kind # "purge"
    PROVE  Numbered'
  BY DEF Numbered

LEMMA WorkNumbered ==
    ASSUME Numbered, NEW c \in Clients, Work(c), TypeOK'
    PROVE  Numbered'
  <1>0. TypeOK /\ tx[c] \in Operation /\ tx[c].le \in LogRow
    BY DEF Numbered, TypeOK, Operation, LogEntry
  <1>1. CASE LogNotFound(c) \/ DeadlockDetected(c) \/ PurgeTags(c)
    BY <1>1, ResetNumbered DEF LogNotFound, DeadlockDetected, PurgeTags, Rollback,
       tables, Numbered
  <1>2. CASE IssueClearTags(c)
    <2>1. tx' = [tx EXCEPT ![c].seen = RowsAt(tx[c].le.path)]
          /\ nextId' = nextId /\ wh_log' = wh_log
      BY <1>2 DEF IssueClearTags, tables
    <2>2. \A d \in Clients : tx'[d] = IF d = c
                               THEN [tx[c] EXCEPT !.seen = RowsAt(tx[c].le.path)]
                               ELSE tx[d]
      BY <1>0, <2>1 DEF TypeOK
    <2>3. \A d \in Clients : pc'[d] = IF d = c THEN "clearing" ELSE pc[d]
      BY <1>0, <1>2 DEF IssueClearTags, TypeOK
    <2> QED BY <1>0, <2>1, <2>2, <2>3, QuietNumbered DEF Operation
  <1>3. CASE FinishClearTags(c) \/ IssueExec(c)
    BY <1>0, <1>3, QuietNumbered DEF FinishClearTags, IssueExec, tables, TypeOK
  <1>4. CASE FinishExec(c)
    <2>1. CASE Rollback(c)
      BY <2>1, ResetNumbered DEF Rollback, tables, Numbered
    <2>2. CASE ~Rollback(c)
      <3>1. tx' = [tx EXCEPT ![c].le.evtFinal = TRUE, ![c].raced = Raced(c)]
            /\ nextId' = nextId /\ wh_log' = wh_log
            /\ tx[c].kind # "purge"
            /\ \A d \in Clients \ {c} : pc'[d] = pc[d]
        BY <1>0, <1>4, <2>2 DEF FinishExec, tables, TypeOK
      <3>2. \A d \in Clients :
              tx'[d] = IF d = c
                       THEN [tx[c] EXCEPT !.le = [tx[c].le EXCEPT !.evtFinal = TRUE],
                                          !.raced = Raced(c)]
                       ELSE tx[d]
        BY <1>0, <3>1 DEF TypeOK
      <3>3. [tx[c].le EXCEPT !.evtFinal = TRUE].revisionId = tx[c].le.revisionId
        BY <1>0 DEF LogRow
      <3>4. /\ tx'[c].id = tx[c].id /\ tx'[c].kind = tx[c].kind
            /\ tx'[c].le.revisionId = tx[c].le.revisionId
        BY <1>0, <3>2, <3>3 DEF Operation
      <3> QED BY <3>1, <3>2, <3>4, QuietNumbered
    <2> QED BY <2>1, <2>2
  <1>5. CASE FinishWait(c)
    <2>1. CASE Rollback(c)
      BY <2>1, ResetNumbered DEF Rollback, tables, Numbered
    <2>2. CASE ~Rollback(c)
      BY <1>0, <1>5, <2>2, QuietNumbered DEF FinishWait, tables, TypeOK
    <2> QED BY <2>1, <2>2
  <1>6. CASE Commit(c)
    <2>1. /\ wh_log' \subseteq wh_log \cup {tx[c].le}
          /\ nextId' = nextId /\ Reset(c) /\ pc[c] = "executed"
      BY <1>6 DEF Commit, LogAfter
    <2>2. tx[c].kind # "purge"
      BY <2>1 DEF Numbered
    <2>3. tx[c].le.revisionId < nextId
      <3>1. /\ tx[c].le.revisionId \in Nat /\ tx[c].id \in Nat /\ nextId \in Nat
        BY <1>0 DEF TypeOK, Operation, LogRow
      <3>2. tx[c].le.revisionId <= tx[c].id /\ tx[c].id < nextId
        BY <2>2 DEF Numbered
      <3> QED BY <3>1, <3>2
    <2> QED BY <2>1, <2>3, ResetNumbered DEF Numbered
  <1>7. CASE PurgeRow(c) \/ PurgeLog(c)
    BY <1>0, <1>7, QuietNumbered DEF PurgeRow, PurgeLog, tables, TypeOK
  <1> QED BY <1>1, <1>2, <1>3, <1>4, <1>5, <1>6, <1>7 DEF Work

LEMMA InitNumbered == Init => Numbered
  <1> SUFFICES ASSUME Init PROVE Numbered
    OBVIOUS
  <1>1. TypeOK
    BY InitTypes
  <1>2. Cardinality(Seeded) \in Nat /\ nextId = Cardinality(Seeded) + 1
    BY SeededArePaths, FS_CardinalityType DEF Init
  <1>3. \A l \in wh_log : l.revisionId < nextId
    <2>1. PICK number \in [Seeded -> 1..Cardinality(Seeded)] :
            wh_log = {[FirstEntry(p, number[p], "published", Blank)
                         EXCEPT !.evtFinal = TRUE] : p \in Seeded}
      BY DEF Init
    <2>2. SUFFICES ASSUME NEW p \in Seeded
                   PROVE  [FirstEntry(p, number[p], "published", Blank)
                             EXCEPT !.evtFinal = TRUE].revisionId < nextId
      BY <2>1
    <2>3. number[p] \in 1..Cardinality(Seeded)
      BY <2>1, <2>2
    <2> QED BY <1>2, <2>3 DEF FirstEntry
  <1>4. \A c \in Clients : tx[c] = NoOperation /\ pc[c] = "idle"
    BY DEF Init
  <1>5. NoOperation.id = 0 /\ NoOperation.le.revisionId = 0
    BY DEF NoOperation, NoEntry, FirstEntry
  <1> QED BY <1>1, <1>2, <1>3, <1>4, <1>5 DEF Numbered

LEMMA NextNumbered == Numbered /\ [Next]_vars => Numbered'
  <1> SUFFICES ASSUME Numbered, [Next]_vars PROVE Numbered'
    OBVIOUS
  <1>1. TypeOK'
    BY NextTypes DEF Numbered
  <1>2. CASE UNCHANGED vars \/ Quiet
    <2>1. UNCHANGED <<wh_log, nextId, tx, pc>>
      BY <1>2 DEF Quiet, vars, tables
    <2> QED BY <1>1, <2>1 DEF Numbered
  <1>3. ASSUME NEW c \in Clients, Fail(c) PROVE Numbered'
    BY <1>1, <1>3, ResetNumbered DEF Fail, Rollback, tables, Numbered
  <1>4. ASSUME NEW c \in Clients, Request(c) \/ Work(c) PROVE Numbered'
    BY <1>1, <1>4, RequestNumbered, WorkNumbered
  <1> QED BY <1>2, <1>3, <1>4 DEF Next

---------------------------------------------------------------------------
(* What an open transaction will do to the visible pages when it commits.  *)

\* One row at a path takes the place of those that were there.
Replaces(del, ins, p) ==
    /\ \A y \in ins : y.path = p
    /\ ins = {} => del = {}

\* The rows a Move brings to q are rows from p with another path, and one stub
\* of its own stays at p.
Brings(t, del, ins, p, q) ==
    /\ \E z \in ins :
         /\ z.path = p /\ z.stub /\ z.movedTo = q /\ z.revisionId = t.id + 1
         /\ \A y \in ins \ {z} :
              /\ y.path = q
              /\ \E x \in del : /\ y.stub = x.stub /\ y.data = x.data
                                /\ y.entityId = x.entityId
    /\ del # {} => \E y \in ins : y.revisionId = t.le.revisionId

\* What operation t replaces and writes is what its log entry says.
Effect(t, del, ins) ==
    LET le == t.le
    IN  /\ \A x \in del : x.path = le.path
        /\ CASE le.evtClass = "Create" ->
                  /\ Replaces(del, ins, le.path) /\ ins # {}
                  /\ \A y \in ins : ~y.stub
             [] le.evtClass = "Update" ->
                  /\ Replaces(del, ins, le.path)
                  /\ \A y \in ins : ~y.stub
             [] le.evtClass = "Delete" ->
                  /\ Replaces(del, ins, le.path)
                  /\ del = {} => ins = {}
                  /\ \A y \in ins : y.stub /\ y.movedTo = NoPath
             [] le.evtClass = "Move" -> Brings(t, del, ins, le.path, le.toPath)

Idle(c) == entDel[c] = {} /\ entIns[c] = {}

Planned(c) == Idle(c) \/ Effect(tx[c], entDel[c], entIns[c])

Whole == Inv /\ Numbered /\ \A c \in Clients : Planned(c)

\* The statement on wh_entity gives the transaction its effect.
LEMMA FinishExecEffect ==
    ASSUME Whole, NEW c \in Clients, FinishExec(c), ~Rollback(c)
    PROVE  Planned(c)'
  <1>0. TypeOK /\ tx[c] \in Operation /\ tx[c].le \in LogRow
    BY DEF Whole, Inv, TypeOK, Operation, LogEntry
  <1>1. /\ entDel'[c] = Found(c) /\ entIns'[c] = Written(c)
        /\ tx'[c] = [tx[c] EXCEPT !.le = [tx[c].le EXCEPT !.evtFinal = TRUE],
                                  !.raced = Raced(c)]
    BY <1>0 DEF FinishExec, TypeOK
  <1>2. /\ tx'[c].le.path = tx[c].le.path /\ tx'[c].le.toPath = tx[c].le.toPath
        /\ tx'[c].le.evtClass = tx[c].le.evtClass
        /\ tx'[c].le.entityId = tx[c].le.entityId
        /\ tx'[c].le.revisionId = tx[c].le.revisionId
        /\ tx'[c].le.revisionNum = tx[c].le.revisionNum
        /\ tx'[c].le.data = tx[c].le.data
        /\ tx'[c].id = tx[c].id
    BY <1>0, <1>1 DEF Operation, LogRow
  <1>3. \A x \in Found(c) : x \in Row /\ x.path = tx[c].le.path
    BY <1>0 DEF Found, Qualified, RowsAt, TypeOK
  <1>4. CASE tx[c].le.evtClass = "Create"
    <2>1. Written(c) = {CreatedRow(c)}
      BY <1>4 DEF Written
    <2>2. CreatedRow(c).path = tx[c].le.path /\ ~CreatedRow(c).stub
      BY DEF CreatedRow
    <2>3. /\ entIns'[c] # {}
          /\ \A y \in entIns'[c] : y.path = tx'[c].le.path /\ ~y.stub
      BY <1>1, <1>2, <2>1, <2>2
    <2> QED BY <1>1, <1>2, <1>3, <1>4, <2>3 DEF Planned, Effect, Replaces
  <1>5. CASE tx[c].le.evtClass = "Update"
    <2>1. Written(c) = UpdatedRows(c)
      BY <1>5 DEF Written
    <2>2. \A y \in UpdatedRows(c) : y.path = tx[c].le.path /\ ~y.stub
      BY DEF UpdatedRows, CreatedRow
    <2>3. UpdatedRows(c) = {} => Found(c) = {}
      BY DEF UpdatedRows
    <2> QED BY <1>1, <1>2, <1>3, <1>5, <2>1, <2>2, <2>3 DEF Planned, Effect, Replaces
  <1>6. CASE tx[c].le.evtClass = "Delete"
    <2>1. Written(c) = DeletedRows(c)
      BY <1>6 DEF Written
    <2>2. \A y \in DeletedRows(c) :
            y.path = tx[c].le.path /\ y.stub /\ y.movedTo = NoPath
      BY <1>3 DEF DeletedRows, Stamped, Row
    <2>3. DeletedRows(c) = {} <=> Found(c) = {}
      BY DEF DeletedRows
    <2> QED BY <1>1, <1>2, <1>3, <1>6, <2>1, <2>2, <2>3 DEF Planned, Effect, Replaces
  <1>7. CASE tx[c].le.evtClass = "Move"
    <2>1. Written(c) = MovedRows(c) \cup {MovedStub(c)}
      BY <1>7 DEF Written
    <2>2. LET z == MovedStub(c)
          IN  /\ z.path = tx[c].le.path /\ z.stub /\ z.movedTo = tx[c].le.toPath
              /\ z.revisionId = tx[c].id + 1
      BY DEF MovedStub, CreatedRow
    <2>3. \A x \in Found(c) :
            LET y == [Stamped(x, c) EXCEPT !.path = tx[c].le.toPath]
            IN  /\ y.path = tx[c].le.toPath /\ y.revisionId = tx[c].le.revisionId
                /\ y.stub = x.stub /\ y.data = x.data /\ y.entityId = x.entityId
      BY <1>3 DEF Stamped, Row
    <2>4. /\ \A y \in MovedRows(c) :
               /\ y.path = tx[c].le.toPath /\ y.revisionId = tx[c].le.revisionId
               /\ \E x \in Found(c) : /\ y.stub = x.stub /\ y.data = x.data
                                       /\ y.entityId = x.entityId
          /\ Found(c) # {} => MovedRows(c) # {}
      BY <2>3 DEF MovedRows
    <2>5. entDel'[c] # {} => \E y \in entIns'[c] : y.revisionId = tx'[c].le.revisionId
      BY <1>1, <1>2, <2>1, <2>4
    <2>6. \E z \in entIns'[c] :
            /\ z.path = tx[c].le.path /\ z.stub /\ z.movedTo = tx[c].le.toPath
            /\ z.revisionId = tx'[c].id + 1
            /\ \A y \in entIns'[c] \ {z} :
                 /\ y.path = tx[c].le.toPath
                 /\ \E x \in entDel'[c] : /\ y.stub = x.stub /\ y.data = x.data
                                          /\ y.entityId = x.entityId
      <3>1. MovedStub(c) \in entIns'[c]
        BY <1>1, <2>1
      <3> WITNESS MovedStub(c) \in entIns'[c]
      <3> QED BY <1>1, <1>2, <2>1, <2>2, <2>4
    <2>7. Brings(tx'[c], entDel'[c], entIns'[c], tx[c].le.path, tx[c].le.toPath)
      BY <1>2, <2>5, <2>6 DEF Brings
    <2> QED BY <1>1, <1>2, <1>3, <1>7, <2>7 DEF Planned, Effect
  <1> QED BY <1>0, <1>4, <1>5, <1>6, <1>7 DEF LogRow

\* A client that has written nothing of its own, or whose writes and operation
\* stay as they are, keeps the effect it had.
LEMMA KeepsEffect ==
    ASSUME NEW c \in Clients, Planned(c),
           entDel'[c] = entDel[c], entIns'[c] = entIns[c],
           tx'[c] = tx[c] \/ Idle(c)
    PROVE  Planned(c)'
  BY DEF Planned, Idle

LEMMA ResetEffect ==
    ASSUME TypeOK, NEW c \in Clients, Reset(c)
    PROVE  Planned(c)'
  BY DEF TypeOK, Reset, Idle, Planned

LEMMA WorkEffect ==
    ASSUME Whole, NEW c \in Clients, Work(c)
    PROVE  Planned(c)'
  <1>0. TypeOK /\ Planned(c)
    BY DEF Whole, Inv
  <1>1. CASE \/ LogNotFound(c) \/ DeadlockDetected(c) \/ PurgeTags(c) \/ Commit(c)
    BY <1>0, <1>1, ResetEffect DEF LogNotFound, DeadlockDetected, PurgeTags,
       Rollback, Commit
  <1>2. CASE FinishExec(c)
    <2>1. CASE Rollback(c)
      BY <1>0, <2>1, ResetEffect DEF Rollback
    <2> QED BY <1>2, <2>1, FinishExecEffect
  <1>3. CASE FinishWait(c)
    <2>1. CASE Rollback(c)
      BY <1>0, <2>1, ResetEffect DEF Rollback
    <2>2. CASE ~Rollback(c)
      BY <1>0, <1>3, <2>2, KeepsEffect DEF FinishWait, pending
    <2> QED BY <2>1, <2>2
  <1>4. CASE \/ IssueClearTags(c) \/ FinishClearTags(c) \/ IssueExec(c)
             \/ PurgeRow(c) \/ PurgeLog(c)
    <2>1. /\ pc[c] \notin {"waiting", "executed"}
          /\ entDel' = entDel /\ entIns' = entIns
      BY <1>4 DEF IssueClearTags, FinishClearTags, IssueExec, PurgeRow,
         PurgeLog, pending
    <2>2. Idle(c)
      BY <2>1, NothingPending DEF Whole, Idle
    <2> QED BY <1>0, <2>1, <2>2, KeepsEffect
  <1> QED BY <1>1, <1>2, <1>3, <1>4 DEF Work

LEMMA RequestEffect ==
    ASSUME Whole, NEW c \in Clients, Request(c)
    PROVE  Planned(c)'
  <1>0. TypeOK /\ Planned(c)
    BY DEF Whole, Inv
  <1>1. CASE Respond(c)
    BY <1>0, <1>1, ResetEffect DEF Respond
  <1>2. CASE ~Respond(c)
    <2>1. /\ pc[c] \in {"idle", "loaded"}
          /\ entDel' = entDel
          /\ entIns' = entIns
      BY <1>2 DEF Request, LoadPage, LoadRevision, CreateEntity, HoldComment,
         UpdateEntity, CommitEntityRev, UpdateWorkflow, DeleteEntity,
         MoveEntity, PurgeEntity, Begin, pending
    <2>2. Idle(c)
      BY <2>1, NothingPending DEF Whole, Idle
    <2> QED BY <1>0, <2>1, <2>2, KeepsEffect
  <1> QED BY <1>1, <1>2

LEMMA NextWhole == Whole /\ [Next]_vars => Whole'
  <1> SUFFICES ASSUME Whole, [Next]_vars PROVE Whole'
    OBVIOUS
  <1>1. Inv' /\ Numbered'
    BY NextApart, NextNumbered DEF Whole
  <1>2. CASE UNCHANGED vars \/ Quiet
    <2>1. UNCHANGED <<tx, entDel, entIns>>
      BY <1>2 DEF Quiet, vars, pending
    <2> QED BY <1>1, <2>1, KeepsEffect DEF Whole
  <1>3. ASSUME NEW c \in Clients, Request(c) \/ Work(c) \/ Fail(c)
        PROVE  \A d \in Clients : Planned(d)'
    <2>1. Planned(c)'
      <3>1. CASE Fail(c)
        BY <3>1, ResetEffect DEF Fail, Rollback, Whole, Inv
      <3> QED BY <1>3, <3>1, RequestEffect, WorkEffect
    <2>2. ASSUME NEW d \in Clients \ {c} PROVE Planned(d)'
      BY <1>3, OthersKeep, KeepsEffect DEF Whole, Inv
    <2> QED BY <2>1, <2>2
  <1> QED BY <1>1, <1>2, <1>3 DEF Whole, Next

LEMMA InitWhole == Init => Whole
  BY InitApart, InitNumbered DEF Init, Whole, Idle, Planned

---------------------------------------------------------------------------
(* The steps of the store                                                  *)

\* A commit is a publication, a deletion, a move, or nothing at all.
LEMMA CommitIsOneStep ==
    ASSUME Whole, Whole', NEW c \in Clients, Commit(c)
    PROVE  [Store!Next]_wh_entity
  <1> DEFINE p == tx[c].le.path
             q == tx[c].le.toPath
  <1>0. /\ TypeOK /\ tx[c].le \in LogEntry /\ p \in Paths
        /\ tx[c].le.evtClass \in {"Create", "Update", "Delete", "Move"}
    BY DEF Whole, Inv, TypeOK, Operation, LogEntry, LogRow
  <1>1. /\ pc[c] = "executed"
        /\ wh_entity' = (wh_entity \ entDel[c]) \cup entIns[c]
    BY DEF Commit
  <1>2. /\ entDel[c] \subseteq wh_entity
        /\ \A y \in entIns[c], s \in wh_entity \ entDel[c] : ~Clash(y, s)
        /\ \A y, z \in entIns[c] : y # z => ~Clash(y, z)
    BY <1>1, DuplicateFree DEF Whole, Inv, WritesApart
  <1>3. Store!Apart'
    BY DEF Whole, Inv, OneHome, Store!Apart
  <1>4. \A x, y \in wh_entity : x.path = y.path => x = y
    BY DEF Whole, Inv, OneHome
  <1>5. CASE Idle(c)
    BY <1>1, <1>5 DEF Idle
  <1>6. ASSUME Effect(tx[c], entDel[c], entIns[c]), Replaces(entDel[c], entIns[c], p), NEW y \in entIns[c]
        PROVE  /\ Store!Replace(p, y)
               /\ entDel[c] = {} \/ Store!At(p) # {}
               /\ y \in wh_entity'
    <2>1. y.path = p /\ entIns[c] = {y}
      BY <1>2, <1>6 DEF Replaces, Clash
    <2>2. entDel[c] = Store!At(p)
      BY <1>2, <1>6, <2>1 DEF Effect, Store!At, Clash
    <2> QED BY <1>1, <2>1, <2>2 DEF Store!Replace
  <1>7. CASE Effect(tx[c], entDel[c], entIns[c]) /\ tx[c].le.evtClass \in {"Create", "Update"}
    <2>1. Replaces(entDel[c], entIns[c], p) /\ \A y \in entIns[c] : ~y.stub
      BY <1>7 DEF Effect
    <2>2. CASE entIns[c] = {}
      BY <1>5, <2>1, <2>2 DEF Replaces, Idle
    <2>3. CASE entIns[c] # {}
      <3>1. PICK y \in entIns[c] : TRUE
        BY <2>3
      <3>2. Store!Publish(p)
        BY <1>6, <1>7, <2>1, <3>1 DEF Store!Publish
      <3> QED BY <1>0, <1>3, <3>2 DEF Store!Next, Store!Step
    <2> QED BY <2>2, <2>3
  <1>8. CASE Effect(tx[c], entDel[c], entIns[c]) /\ tx[c].le.evtClass = "Delete"
    <2>1. /\ Replaces(entDel[c], entIns[c], p) /\ \A y \in entIns[c] : y.stub /\ y.movedTo = NoPath
          /\ entDel[c] = {} => entIns[c] = {}
      BY <1>8 DEF Effect
    <2>2. CASE entIns[c] = {}
      BY <1>5, <2>1, <2>2 DEF Replaces, Idle
    <2>3. CASE entIns[c] # {}
      <3>1. PICK y \in entIns[c] : TRUE
        BY <2>3
      <3>2. Store!Retire(p)
        BY <1>6, <1>8, <2>1, <2>3, <3>1 DEF Store!Retire
      <3> QED BY <1>0, <1>3, <3>2 DEF Store!Next, Store!Step
    <2> QED BY <2>2, <2>3
  <1>9. CASE Effect(tx[c], entDel[c], entIns[c]) /\ tx[c].le.evtClass = "Move"
    <2>1. q \in Paths
      BY <1>0, <1>9 DEF LogEntry
    <2>2. Brings(tx[c], entDel[c], entIns[c], p, q) /\ \A x \in entDel[c] : x.path = p
      BY <1>9 DEF Effect
    <2>3. PICK z \in entIns[c] :
            /\ z.path = p /\ z.stub /\ z.movedTo = q /\ z.revisionId = tx[c].id + 1
            /\ \A y \in entIns[c] \ {z} :
                 /\ y.path = q
                 /\ \E x \in entDel[c] : /\ y.stub = x.stub /\ y.data = x.data
                                         /\ y.entityId = x.entityId
      BY <2>2 DEF Brings
    <2>4. Store!At(p) = entDel[c]
      BY <1>2, <2>2, <2>3 DEF Store!At, Clash
    <2>5. CASE entDel[c] = {}
      <3>1. entIns[c] = {z}
        BY <2>3, <2>5
      <3>2. Store!LeaveStub(p, q)
        BY <1>1, <2>3, <2>4, <2>5, <3>1 DEF Store!LeaveStub, Store!Replace
      <3> QED BY <1>0, <1>3, <2>1, <3>2 DEF Store!Next, Store!Step
    <2>6. CASE entDel[c] # {}
      <3>1. PICK y \in entIns[c] : y.revisionId = tx[c].le.revisionId
        BY <2>2, <2>6 DEF Brings
      <3>2. y # z
        <4>1. tx[c].le.revisionId <= tx[c].id
          BY <1>1 DEF Whole, Numbered
        <4>2. tx[c].id \in Nat /\ tx[c].le.revisionId \in Nat
          BY <1>0 DEF TypeOK, Operation, LogEntry, LogRow
        <4> QED BY <2>3, <3>1, <4>1, <4>2
      <3>3. PICK x \in entDel[c] : /\ y.stub = x.stub /\ y.data = x.data
                                   /\ y.entityId = x.entityId
        BY <2>3, <3>1, <3>2
      <3>4. y.path = q /\ p # q
        BY <1>2, <2>3, <3>1, <3>2 DEF Clash
      <3>5. Store!At(q) = {}
        BY <1>2, <2>2, <3>1, <3>4 DEF Store!At, Clash
      <3>6. entIns[c] = {y, z}
        BY <1>2, <2>3, <3>1, <3>4 DEF Clash
      <3>7. /\ x \in Store!At(p) /\ y \in wh_entity' /\ z \in wh_entity'
            /\ wh_entity' = (wh_entity \ Store!At(p)) \cup {y, z}
        BY <1>1, <2>4, <3>3, <3>6
      <3>8. Store!Relocate(p, q)
        BY <2>3, <3>3, <3>4, <3>5, <3>7 DEF Store!Relocate
      <3> QED BY <1>0, <1>3, <2>1, <3>8 DEF Store!Next, Store!Step
    <2> QED BY <2>5, <2>6
  <1> QED BY <1>0, <1>5, <1>7, <1>8, <1>9 DEF Whole, Planned

\* rm3rm -E takes the page at its path away, or nothing that is there now.
LEMMA PurgeRowIsOneStep ==
    ASSUME Whole, Whole', NEW c \in Clients, PurgeRow(c)
    PROVE  [Store!Next]_wh_entity
  <1> DEFINE p == tx[c].le.path
  <1>1. /\ wh_entity' = wh_entity \ Found(c)
        /\ Found(c) \subseteq Store!At(p)
    BY DEF PurgeRow, Found, Qualified, RowsAt, Store!At
  <1>2. Store!Apart' /\ p \in Paths
    BY DEF Whole, Inv, OneHome, Store!Apart, TypeOK, Operation, LogEntry, LogRow
  <1>3. CASE Found(c) = {}
    BY <1>1, <1>3
  <1>4. CASE Found(c) # {}
    <2>1. Found(c) = Store!At(p)
      BY <1>1, <1>4 DEF Store!At, Whole, Inv, OneHome
    <2> QED BY <1>1, <1>2, <2>1 DEF Store!Next, Store!Step, Store!Forget
  <1> QED BY <1>3, <1>4

\* Whatever the clients do, the pages change by whole operations, one at a time.
THEOREM UpdatesImplementPageStore == Spec => PagesChangeAtOnce
  <1>1. Init => Store!Init
    <2> SUFFICES ASSUME Init PROVE Store!Init
      OBVIOUS
    <2>1. Store!Apart
      BY InitApart DEF Inv, OneHome, Store!Apart
    <2>2. \A r \in wh_entity : ~r.stub
      BY DEF Init, SeedRow
    <2> QED BY <2>1, <2>2 DEF Store!Init
  <1>2. Whole /\ Whole' /\ [Next]_vars => [Store!Next]_wh_entity
    <2> SUFFICES ASSUME Whole, Whole', [Next]_vars, wh_entity' # wh_entity
                 PROVE  Store!Next
      OBVIOUS
    <2>1. PICK c \in Clients : Request(c) \/ Work(c) \/ Fail(c)
      BY DEF Next, Quiet, vars, tables
    <2>2. Commit(c) \/ PurgeRow(c)
      BY <2>1
      DEF Request, Work, LoadPage, LoadRevision, Respond, CreateEntity,
          HoldComment, UpdateEntity, CommitEntityRev, UpdateWorkflow,
          DeleteEntity, MoveEntity, PurgeEntity, LogNotFound, IssueClearTags,
          FinishClearTags, IssueExec, FinishExec, FinishWait, PurgeLog,
          PurgeTags, DeadlockDetected, Fail, Rollback, Begin, tables
    <2> QED BY <2>2, CommitIsOneStep, PurgeRowIsOneStep
  <1>3. Spec => []Whole
    BY InitWhole, NextWhole, PTL DEF Spec
  <1> QED BY <1>1, <1>2, <1>3, PTL DEF Spec, PagesChangeAtOnce, Store!Spec
=============================================================================
