----------------------- MODULE EntityUpdates_proofs -----------------------
(* What the update operations keep true for any set of clients, paths and  *)
(* tags and any workload: types, the isolation of open transactions, and   *)
(* that a page is never in two places.                                     *)
EXTENDS EntityUpdates, FiniteSetTheorems, TLAPS

---------------------------------------------------------------------------
(* Types                                                                   *)

\* An entity and its log entry carry over into each other's type.
LEMMA EntityTypes ==
    /\ \A r \in Row : FromRow(r) \in Entity
    /\ \A l \in LogEntry : FromLog(l) \in Entity
    /\ \A w \in Workflow : PublishDraft(w) \in Workflow
    /\ \A w \in Workflow : ApproveHeld(w) \in Workflow
  <1>1. \A r \in Row : FromRow(r) \in Entity
    BY DEF FromRow, Row, Entity, Workflow
  <1>2. \A l \in LogEntry : FromLog(l) \in Entity
    BY DEF FromLog, LogEntry, LogRow, Entity
  <1> QED BY <1>1, <1>2 DEF Workflow, PublishDraft, ApproveHeld

\* What a client holds when it is idle is typed.
LEMMA NothingTypes ==
    /\ NoEntry \in LogEntry
    /\ NoEntity \in Entity
    /\ NoOperation \in Operation
    /\ Blank \in Content
  <1>1. AnyPath \in Paths
    BY PathsExist DEF AnyPath
  <1>2. Blank \in Content
    BY DEF Blank, Content
  <1>3. NoEntry \in LogEntry
    BY <1>1, <1>2 DEF NoEntry, FirstEntry, LogEntry, LogRow, Workflow
  <1>4. NoEntity \in Entity
    BY <1>3, EntityTypes DEF NoEntity
  <1>5. NoOperation \in Operation
    BY <1>3 DEF NoOperation, Operation, Kinds
  <1> QED BY <1>2, <1>3, <1>4, <1>5

\* The entries the operations build are entries.
LEMMA EntryTypes ==
    ASSUME nextId \in Nat
    PROVE  /\ \A h \in Entity, w \in Workflow, d \in Content :
                 \A class \in {"Create", "Update", "Delete"} :
                   NextEntry(h, class, w, d, NoPath) \in LogEntry
           /\ \A h \in Entity, w \in Workflow, d \in Content, q \in Paths :
                 NextEntry(h, "Move", w, d, q) \in LogEntry
           /\ \A p \in Paths, n \in Nat, w \in Workflow, d \in Content :
                 FirstEntry(p, n, w, d) \in LogEntry
  <1>1. ASSUME NEW h \in Entity, NEW w \in Workflow, NEW d \in Content,
               NEW class \in {"Create", "Update", "Delete", "Move"},
               NEW q \in Paths \cup {NoPath}
        PROVE  NextEntry(h, class, w, d, q) \in LogRow
    BY <1>1 DEF NextEntry, LogRow, Entity
  <1>2. ASSUME NEW p \in Paths, NEW n \in Nat, NEW w \in Workflow,
               NEW d \in Content
        PROVE  FirstEntry(p, n, w, d) \in LogEntry
    BY <1>2 DEF FirstEntry, LogEntry, LogRow
  <1> QED BY <1>1, <1>2 DEF NextEntry, LogEntry

\* Starting an operation on a well-formed entry keeps the types.
LEMMA BeginTypes ==
    ASSUME TypeOK, NEW c \in Clients, NEW kind \in Kinds,
           NEW exec \in BOOLEAN, NEW insert \in BOOLEAN, NEW ids \in Nat,
           NEW le \in LogEntry, Begin(c, kind, exec, insert, ids, le)
    PROVE  TypeOK'
  <1>1. nextId' \in Nat
    BY DEF TypeOK, Begin
  <1>2. [kind |-> kind, exec |-> exec, insert |-> insert, id |-> nextId,
         le |-> le, seen |-> {}, raced |-> FALSE] \in Operation
    BY DEF TypeOK, Operation
  <1>3. tx' \in [Clients -> Operation]
    BY <1>2 DEF TypeOK, Begin
  <1>4. pc' \in [Clients -> Stages]
    BY DEF TypeOK, Begin, Stages
  <1> QED
    BY <1>1, <1>3, <1>4 DEF TypeOK, Begin, tables, pending, history

\* The rows an operation writes are rows.
LEMMA WrittenTypes ==
    ASSUME TypeOK, NEW c \in Clients
    PROVE  Written(c) \subseteq Row
  <1>1. tx[c] \in Operation /\ tx[c].le \in LogEntry /\ tx[c].id \in Nat
    BY DEF TypeOK, Operation
  <1>2. Found(c) \subseteq Row
    BY DEF TypeOK, Found, Qualified, RowsAt
  <1>3. CreatedRow(c) \in Row
    BY <1>1 DEF CreatedRow, Row, LogEntry, LogRow
  <1>4. UpdatedRows(c) \subseteq Row
    BY <1>2, <1>3 DEF UpdatedRows, Row
  <1>5. \A r \in Row : Stamped(r, c) \in Row
    BY <1>1 DEF Stamped, Row, LogEntry, LogRow
  <1>6. DeletedRows(c) \subseteq Row
    <2> SUFFICES ASSUME NEW r \in Row
                 PROVE  [Stamped(r, c) EXCEPT !.stub = TRUE,
                           !.entityId = tx[c].le.entityId, !.data = Blank,
                           !.movedTo = NoPath] \in Row
      BY <1>2 DEF DeletedRows
    <2> QED BY <1>1, <1>5, NothingTypes DEF Row, LogEntry, LogRow
  <1>7. CASE tx[c].le.evtClass = "Move"
    <2>1. tx[c].le.toPath \in Paths
      BY <1>1, <1>7 DEF LogEntry
    <2>2. MovedRows(c) \subseteq Row
      BY <1>2, <1>5, <2>1 DEF MovedRows, Row
    <2>3. MovedStub(c) \in Row
      <3>1. tx[c].id + 1 \in Nat
        BY <1>1
      <3>2. CreatedRow(c).path \in Paths
        BY <1>3 DEF Row
      <3> QED
        BY <1>3, <2>1, <3>1, <3>2, NothingTypes DEF MovedStub, Row
    <2> QED BY <1>7, <2>2, <2>3 DEF Written
  <1>8. CASE tx[c].le.evtClass # "Move"
    BY <1>1, <1>3, <1>4, <1>6, <1>8 DEF Written, LogEntry, LogRow
  <1> QED BY <1>7, <1>8

\* The initial tables are typed.
LEMMA InitTypes == Init => TypeOK
  <1> SUFFICES ASSUME Init PROVE TypeOK
    OBVIOUS
  <1>1. Cardinality(Seeded) \in Nat
    BY SeededArePaths, FS_CardinalityType
  <1>2. PICK number \in [Seeded -> 1..Cardinality(Seeded)] :
          /\ wh_entity = {SeedRow(p, number[p]) : p \in Seeded}
          /\ wh_log = {[FirstEntry(p, number[p], "published", Blank)
                         EXCEPT !.evtFinal = TRUE] : p \in Seeded}
    BY DEF Init
  <1>3. \A p \in Seeded : p \in Paths /\ number[p] \in Nat
    BY <1>1, <1>2, SeededArePaths
  <1>4. wh_entity \subseteq Row
    <2> SUFFICES ASSUME NEW p \in Seeded PROVE SeedRow(p, number[p]) \in Row
      BY <1>2
    <2> QED BY <1>3, NothingTypes DEF SeedRow, Row
  <1>5. wh_log \subseteq LogEntry
    <2> SUFFICES ASSUME NEW p \in Seeded
                 PROVE  [FirstEntry(p, number[p], "published", Blank)
                           EXCEPT !.evtFinal = TRUE] \in LogEntry
      BY <1>2
    <2> QED
      BY <1>3, NothingTypes DEF FirstEntry, LogEntry, LogRow, Workflow
  <1>6. nextId \in Nat
    BY <1>1 DEF Init
  <1>7. pc \in [Clients -> Stages]
    BY DEF Init, Stages
  <1> QED BY <1>4, <1>5, <1>6, <1>7, NothingTypes DEF Init, TypeOK

\* Forgetting a request keeps the types of what it leaves alone.
LEMMA ResetTypes ==
    ASSUME TypeOK, NEW c \in Clients, Reset(c)
    PROVE  /\ pc' \in [Clients -> Stages]
           /\ hand' \in [Clients -> Entity]
           /\ tx' \in [Clients -> Operation]
           /\ target' \in [Clients -> SUBSET Nat]
           /\ tagDel' \in [Clients -> SUBSET TagRow]
           /\ entDel' \in [Clients -> SUBSET Row]
           /\ entIns' \in [Clients -> SUBSET Row]
  BY NothingTypes DEF TypeOK, Reset, Stages

LEMMA RollbackTypes ==
    ASSUME TypeOK, NEW c \in Clients, Rollback(c)
    PROVE  TypeOK'
  BY ResetTypes DEF TypeOK, Rollback, tables, history

\* Every request keeps the types.
LEMMA RequestTypes ==
    ASSUME TypeOK, NEW c \in Clients, Request(c)
    PROVE  TypeOK'
  <1> USE DEF tables, pending, history
  <1>0. hand[c] \in Entity /\ hand[c].workflow \in Workflow
        /\ hand[c].data \in Content /\ nextId \in Nat
    BY DEF TypeOK, Entity
  <1>1. CASE LoadPage(c)
    <2>1. hand' \in [Clients -> Entity] /\ pc' \in [Clients -> Stages]
      BY <1>1, EntityTypes DEF TypeOK, LoadPage, Stages
    <2> QED BY <1>1, <2>1 DEF TypeOK, LoadPage
  <1>2. CASE LoadRevision(c)
    <2>1. hand' \in [Clients -> Entity] /\ pc' \in [Clients -> Stages]
      BY <1>2, EntityTypes DEF TypeOK, LoadRevision, Stages
    <2> QED BY <1>2, <2>1 DEF TypeOK, LoadRevision
  <1>3. CASE Respond(c)
    BY <1>3, ResetTypes DEF TypeOK, Respond
  <1>4. CASE CreateEntity(c)
    <2>1. PICK p \in Paths, exec \in BOOLEAN, ts \in SUBSET Tags :
            Begin(c, "create", exec, TRUE, 1,
                  FirstEntry(p, nextId, PublishDraft("none"),
                             [body |-> nextId, tags |-> ts]))
      BY <1>4 DEF CreateEntity
    <2>2. [body |-> nextId, tags |-> ts] \in Content
      BY <1>0 DEF Content
    <2>3. PublishDraft("none") \in Workflow
      BY DEF PublishDraft, Workflow
    <2>4. FirstEntry(p, nextId, PublishDraft("none"),
                     [body |-> nextId, tags |-> ts]) \in LogEntry
      BY <1>0, <2>2, <2>3, EntryTypes
    <2> QED BY <2>1, <2>4, BeginTypes DEF Kinds
  <1>5. CASE HoldComment(c)
    <2>1. PICK p \in Paths, t \in Tags :
            Begin(c, "comment", FALSE, TRUE, 1,
                  FirstEntry(p, nextId, "review",
                             [body |-> nextId, tags |-> {t}]))
      BY <1>5 DEF HoldComment
    <2>2. [body |-> nextId, tags |-> {t}] \in Content /\ "review" \in Workflow
      BY <1>0 DEF Content, Workflow
    <2>3. FirstEntry(p, nextId, "review",
                     [body |-> nextId, tags |-> {t}]) \in LogEntry
      BY <1>0, <2>2, EntryTypes
    <2> QED BY <2>1, <2>3, BeginTypes DEF Kinds
  <1>6. CASE UpdateEntity(c)
    <2>1. PICK exec \in BOOLEAN, ts \in SUBSET Tags, old \in wh_log :
            \/ Begin(c, "edit", exec, FALSE, 1,
                     Redrafted(hand[c], old, [body |-> nextId, tags |-> ts]))
            \/ Begin(c, "edit", exec, TRUE, 1,
                     Revised(hand[c], old, exec, [body |-> nextId, tags |-> ts]))
      BY <1>6 DEF UpdateEntity
    <2>2. old \in LogEntry
      BY DEF TypeOK
    <2>3. [body |-> nextId, tags |-> ts] \in Content
      BY <1>0 DEF Content
    <2>4. \A x \in BOOLEAN :
            Revised(hand[c], old, x, [body |-> nextId, tags |-> ts]) \in LogEntry
      <3>1. \A x \in BOOLEAN : (IF x THEN PublishDraft("none") ELSE "none") \in Workflow
        BY DEF PublishDraft, Workflow
      <3> QED BY <1>0, <2>3, <3>1, EntryTypes DEF Revised
    <2>5. Redrafted(hand[c], old, [body |-> nextId, tags |-> ts]) \in LogEntry
      <3>1. /\ hand[c].revisionId \in Nat /\ hand[c].revisionNum \in Nat
            /\ old.base \in Nat /\ old.workflow \in Workflow
        BY <1>0, <2>2 DEF Entity, LogEntry, LogRow
      <3> QED BY <2>4, <3>1 DEF Redrafted, LogEntry, LogRow
    <2> QED BY <2>1, <2>4, <2>5, BeginTypes DEF Kinds
  <1>7. CASE CommitEntityRev(c)
    <2>1. PICK l \in wh_log :
            Begin(c, "publish", TRUE, FALSE, 1,
                  [l EXCEPT !.workflow = PublishDraft(l.workflow)])
      BY <1>7 DEF CommitEntityRev
    <2>2. l \in LogEntry /\ PublishDraft(l.workflow) \in Workflow
      BY EntityTypes DEF TypeOK, LogEntry, LogRow
    <2>3. [l EXCEPT !.workflow = PublishDraft(l.workflow)] \in LogEntry
      BY <2>2 DEF LogEntry, LogRow
    <2> QED BY <2>1, <2>3, BeginTypes DEF Kinds
  <1>8. CASE UpdateWorkflow(c)
    <2> DEFINE state == ApproveHeld(hand[c].workflow)
    <2>1. PICK l \in wh_log :
            Begin(c, "approve", state = "published", FALSE, 1,
                  [l EXCEPT !.workflow = state])
      BY <1>8 DEF UpdateWorkflow
    <2>2. l \in LogEntry /\ state \in Workflow
      BY <1>0, EntityTypes DEF TypeOK
    <2> HIDE DEF state
    <2>3. [l EXCEPT !.workflow = state] \in LogEntry
      BY <2>2 DEF LogEntry, LogRow
    <2>4. (state = "published") \in BOOLEAN
      OBVIOUS
    <2> QED BY <2>1, <2>3, <2>4, BeginTypes DEF Kinds
  <1>9. CASE DeleteEntity(c)
    <2>1. NextEntry(hand[c], "Delete", "none", hand[c].data, NoPath) \in LogEntry
      BY <1>0, EntryTypes DEF Workflow
    <2> QED BY <1>9, <2>1, BeginTypes DEF DeleteEntity, Kinds
  <1>10. CASE MoveEntity(c)
    <2>1. PICK q \in Paths :
            Begin(c, "move", TRUE, TRUE, 2,
                  NextEntry(hand[c], "Move", "none", hand[c].data, q))
      BY <1>10 DEF MoveEntity
    <2>2. NextEntry(hand[c], "Move", "none", hand[c].data, q) \in LogEntry
      BY <1>0, EntryTypes DEF Workflow
    <2> QED BY <2>1, <2>2, BeginTypes DEF Kinds
  <1>11. CASE PurgeEntity(c)
    <2>1. PICK r \in wh_entity :
            tx' = [tx EXCEPT ![c] =
                     [NoOperation EXCEPT
                        !.kind = "purge",
                        !.le = FirstEntry(r.path, r.entityId, "none", Blank)]]
      BY <1>11 DEF PurgeEntity
    <2>2. FirstEntry(r.path, r.entityId, "none", Blank) \in LogEntry
      BY <1>0, EntryTypes, NothingTypes DEF TypeOK, Row, Workflow
    <2>3. [NoOperation EXCEPT
             !.kind = "purge",
             !.le = FirstEntry(r.path, r.entityId, "none", Blank)] \in Operation
      BY <2>2, NothingTypes DEF Operation, Kinds
    <2>4. tx' \in [Clients -> Operation]
      BY <2>1, <2>3 DEF TypeOK
    <2>5. pc' \in [Clients -> Stages]
      BY <1>11 DEF PurgeEntity, TypeOK, Stages
    <2> QED BY <1>11, <2>4, <2>5 DEF PurgeEntity, TypeOK
  <1> QED
    BY <1>1, <1>2, <1>3, <1>4, <1>5, <1>6, <1>7, <1>8, <1>9, <1>10, <1>11
       DEF Request

\* Every step of a running operation keeps the types.
LEMMA WorkTypes ==
    ASSUME TypeOK, NEW c \in Clients, Work(c)
    PROVE  TypeOK'
  <1> USE DEF tables, pending, history
  <1>0. /\ tx[c] \in Operation
        /\ tx[c].le \in LogEntry
        /\ tx[c].id \in Nat
        /\ tx[c].le.path \in Paths
    BY DEF TypeOK, Operation, LogEntry, LogRow
  <1>1. CASE LogNotFound(c)
    BY <1>1, ResetTypes DEF TypeOK, LogNotFound
  <1>2. CASE IssueClearTags(c)
    <2>1. RowsAt(tx[c].le.path) \in SUBSET Row
      BY DEF TypeOK, RowsAt
    <2>2. tx' \in [Clients -> Operation]
      BY <1>0, <1>2, <2>1 DEF IssueClearTags, TypeOK, Operation
    <2>3. tagDel' \in [Clients -> SUBSET TagRow]
      BY <1>2 DEF IssueClearTags, TypeOK
    <2>4. pc' \in [Clients -> Stages]
      BY <1>2 DEF IssueClearTags, TypeOK, Stages
    <2> QED BY <1>2, <2>2, <2>3, <2>4 DEF IssueClearTags, TypeOK
  <1>3. CASE FinishClearTags(c)
    <2>1. tagDel' \in [Clients -> SUBSET TagRow]
      BY <1>3 DEF FinishClearTags, TypeOK
    <2>2. pc' \in [Clients -> Stages]
      BY <1>3 DEF FinishClearTags, TypeOK, Stages
    <2> QED BY <1>3, <2>1, <2>2 DEF FinishClearTags, TypeOK
  <1>4. CASE IssueExec(c)
    <2>1. {r.rid : r \in Qualified(c)} \in SUBSET Nat
      BY DEF Qualified, RowsAt, TypeOK, Row
    <2>2. target' \in [Clients -> SUBSET Nat]
      BY <1>4, <2>1 DEF IssueExec, TypeOK
    <2>3. pc' \in [Clients -> Stages]
      BY <1>4 DEF IssueExec, TypeOK, Stages
    <2> QED BY <1>4, <2>2, <2>3 DEF IssueExec, TypeOK
  <1>5. CASE FinishExec(c)
    <2>1. CASE Rollback(c)
      BY <2>1, RollbackTypes
    <2>2. CASE ~Rollback(c)
      <3>1. Found(c) \in SUBSET Row /\ Written(c) \in SUBSET Row
        BY WrittenTypes DEF Found, Qualified, RowsAt, TypeOK
      <3>2. /\ entDel' = [entDel EXCEPT ![c] = Found(c)]
            /\ entIns' = [entIns EXCEPT ![c] = Written(c)]
            /\ tx' = [tx EXCEPT ![c].le.evtFinal = TRUE, ![c].raced = Raced(c)]
            /\ pc' = [pc EXCEPT ![c] = IF Contended(c, Written(c))
                                       THEN "waiting" ELSE "executed"]
            /\ UNCHANGED <<tables, nextId, hand, target, tagDel, history>>
        BY <1>5, <2>2 DEF FinishExec
      <3>3. entDel' \in [Clients -> SUBSET Row] /\ entIns' \in [Clients -> SUBSET Row]
        BY <3>1, <3>2 DEF TypeOK
      <3>4. [tx[c].le EXCEPT !.evtFinal = TRUE] \in LogEntry
        BY <1>0 DEF LogEntry, LogRow
      <3>5. Raced(c) \in BOOLEAN
        BY DEF Raced
      <3>6. tx' = [tx EXCEPT ![c] =
                     [tx[c] EXCEPT !.le = [tx[c].le EXCEPT !.evtFinal = TRUE],
                                   !.raced = Raced(c)]]
        BY <3>2
      <3>7. tx' \in [Clients -> Operation]
        BY <1>0, <3>4, <3>5, <3>6 DEF TypeOK, Operation
      <3>8. pc' \in [Clients -> Stages]
        BY <3>2 DEF TypeOK, Stages
      <3> QED BY <3>2, <3>3, <3>7, <3>8 DEF TypeOK
    <2> QED BY <2>1, <2>2
  <1>6. CASE FinishWait(c)
    <2>1. CASE Rollback(c)
      BY <2>1, RollbackTypes
    <2>2. CASE ~Rollback(c)
      BY <1>6, <2>2 DEF FinishWait, TypeOK, Stages
    <2> QED BY <2>1, <2>2
  <1>7. CASE DeadlockDetected(c)
    BY <1>7, RollbackTypes DEF DeadlockDetected
  <1>8. CASE Commit(c)
    <2>1. wh_entity' \subseteq Row
      BY <1>8 DEF Commit, TypeOK
    <2>2. TagsWritten(c) \subseteq TagRow
      BY <1>0 DEF TagsWritten, TagRow, LogEntry, LogRow, Content
    <2>3. wh_tag' \subseteq TagRow
      BY <1>8, <2>2 DEF Commit, TypeOK
    <2>4. wh_log' \subseteq LogEntry
      BY <1>0, <1>8 DEF Commit, LogAfter, TypeOK
    <2>5. disturbed' \subseteq Paths
      BY <1>0, <1>8 DEF Commit, TypeOK, LogEntry, LogRow
    <2>6. defaced' \subseteq Nat
      BY <1>0, <1>8 DEF Commit, TypeOK, LogEntry, LogRow
    <2> QED
      BY <1>8, <2>1, <2>3, <2>4, <2>5, <2>6, ResetTypes DEF Commit, TypeOK
  <1>9. CASE PurgeRow(c)
    <2>1. pc' \in [Clients -> Stages]
      BY <1>9 DEF PurgeRow, TypeOK, Stages
    <2> QED BY <1>0, <1>9, <2>1 DEF PurgeRow, TypeOK
  <1>10. CASE PurgeLog(c)
    <2>1. pc' \in [Clients -> Stages]
      BY <1>10 DEF PurgeLog, TypeOK, Stages
    <2>2. defaced' \subseteq Nat /\ wh_log' \subseteq LogEntry
      BY <1>10 DEF PurgeLog, TypeOK, LogEntry, LogRow
    <2> QED BY <1>10, <2>1, <2>2 DEF PurgeLog, TypeOK
  <1>11. CASE PurgeTags(c)
    BY <1>11, ResetTypes DEF PurgeTags, TypeOK
  <1> QED
    BY <1>1, <1>2, <1>3, <1>4, <1>5, <1>6, <1>7, <1>8, <1>9, <1>10, <1>11
       DEF Work

LEMMA NextTypes == TypeOK /\ [Next]_vars => TypeOK'
  <1> SUFFICES ASSUME TypeOK, [Next]_vars PROVE TypeOK'
    OBVIOUS
  <1>1. CASE UNCHANGED vars
    BY <1>1 DEF TypeOK, vars, tables, pending, history
  <1>2. CASE Quiet
    BY <1>1, <1>2 DEF Quiet
  <1>3. ASSUME NEW c \in Clients, Request(c) \/ Work(c) PROVE TypeOK'
    BY <1>3, RequestTypes, WorkTypes
  <1>4. ASSUME NEW c \in Clients, Fail(c) PROVE TypeOK'
    BY <1>4, RollbackTypes DEF Fail
  <1> QED BY <1>1, <1>2, <1>3, <1>4 DEF Next

\* The tables, the entities in memory, the operations and their uncommitted
\* writes keep their types whatever the clients do.
THEOREM TypeCorrect == Spec => []TypeOK
  <1> QED BY InitTypes, NextTypes, PTL DEF Spec

---------------------------------------------------------------------------
(* One path, one page.  OneHome alone is not inductive: a commit keeps it  *)
(* because what an open transaction will commit was compared with the      *)
(* table and with the other open transactions when it was written, and has *)
(* stayed apart from them since.                                           *)

Inv == TypeOK /\ OneHome /\ WritesApart

LEMMA ClashSymmetric == \A r, s : Clash(r, s) => Clash(s, r)
  BY DEF Clash

\* What the two operators say of an open transaction.
LEMMA DuplicateFree ==
    \A new, old : ~Duplicate(new, old) <=>
        /\ \A r \in new, s \in wh_entity \ old : ~Clash(r, s)
        /\ \A r, s \in new : r # s => ~Clash(r, s)
  BY DEF Duplicate

LEMMA NoDuplicateOfNothing == ~Duplicate({}, {})
  BY DEF Duplicate

\* A step that leaves the table alone, and after which its client has no
\* uncommitted rows, keeps the transactions apart.
LEMMA QuietStep ==
    ASSUME Inv, NEW c \in Clients,
           wh_entity' = wh_entity,
           entDel'[c] = {}, entIns'[c] = {},
           \A d \in Clients \ {c} : /\ pc'[d] = pc[d]
                                    /\ entDel'[d] = entDel[d]
                                    /\ entIns'[d] = entIns[d]
    PROVE  OneHome' /\ WritesApart'
  <1>1. OneHome'
    BY DEF Inv, OneHome
  <1>2. ASSUME NEW d \in Clients
        PROVE  /\ pc'[d] \notin {"waiting", "executed"} =>
                    entDel'[d] = {} /\ entIns'[d] = {}
               /\ entDel'[d] \subseteq wh_entity'
               /\ pc'[d] = "executed" => ~Duplicate(entIns[d], entDel[d])'
    <2>1. CASE d = c
      BY <2>1 DEF Duplicate
    <2>2. CASE d # c
      BY <2>2 DEF Inv, WritesApart, Duplicate
    <2> QED BY <2>1, <2>2
  <1>3. ASSUME NEW d \in Clients, NEW e \in Clients, d # e
        PROVE  /\ entDel'[d] \cap entDel'[e] = {}
               /\ pc'[d] = "executed" /\ pc'[e] = "executed" =>
                    \A r \in entIns'[d], s \in entIns'[e] : ~Clash(r, s)
    <2>1. CASE d = c \/ e = c
      BY <1>3, <2>1
    <2>2. CASE d # c /\ e # c
      BY <1>3, <2>2 DEF Inv, WritesApart
    <2> QED BY <2>1, <2>2
  <1> QED BY <1>1, <1>2, <1>3 DEF WritesApart

\* A client that is at none of the two stages has no uncommitted rows.
LEMMA NothingPending ==
    ASSUME Inv, NEW c \in Clients, pc[c] \notin {"waiting", "executed"}
    PROVE  entDel[c] = {} /\ entIns[c] = {}
  BY DEF Inv, WritesApart

LEMMA RollbackApart ==
    ASSUME Inv, NEW c \in Clients, Reset(c), wh_entity' = wh_entity
    PROVE  OneHome' /\ WritesApart'
  BY QuietStep DEF Reset, Inv, TypeOK

LEMMA RequestApart ==
    ASSUME Inv, NEW c \in Clients, Request(c)
    PROVE  OneHome' /\ WritesApart'
  <1>1. CASE Respond(c)
    BY <1>1, RollbackApart DEF Respond, tables
  <1>2. CASE ~Respond(c)
    <2>1. /\ pc[c] \in {"idle", "loaded"}
          /\ wh_entity' = wh_entity
          /\ entDel' = entDel
          /\ entIns' = entIns
          /\ \A d \in Clients \ {c} : pc'[d] = pc[d]
      BY <1>2 DEF Inv, TypeOK, Request, LoadPage, LoadRevision, CreateEntity,
         HoldComment, UpdateEntity, CommitEntityRev, UpdateWorkflow,
         DeleteEntity, MoveEntity, PurgeEntity, Begin, tables, pending
    <2>2. entDel[c] = {} /\ entIns[c] = {}
      BY <2>1, NothingPending
    <2> QED BY <2>1, <2>2, QuietStep
  <1> QED BY <1>1, <1>2

\* The row locks: the rows a statement rewrites are in no other transaction.
LEMMA FoundIsFree ==
    ASSUME NEW c \in Clients, NEW d \in Clients, c # d, ~RowLocked(c)
    PROVE  Found(c) \cap entDel[d] = {}
  BY DEF RowLocked, Found

\* The statement on wh_entity keeps the open transactions apart.
LEMMA FinishExecApart ==
    ASSUME Inv, NEW c \in Clients, FinishExec(c)
    PROVE  OneHome' /\ WritesApart'
  <1>1. CASE Rollback(c)
    BY <1>1, RollbackApart DEF Rollback, tables
  <1>2. CASE ~Rollback(c)
    <2>1. /\ ~RowLocked(c)
          /\ Contended(c, Written(c)) \/ ~Duplicate(Written(c), Found(c))
          /\ entDel' = [entDel EXCEPT ![c] = Found(c)]
          /\ entIns' = [entIns EXCEPT ![c] = Written(c)]
          /\ pc' = [pc EXCEPT ![c] = IF Contended(c, Written(c))
                                     THEN "waiting" ELSE "executed"]
          /\ wh_entity' = wh_entity
      BY <1>2 DEF FinishExec, tables
    <2>2. /\ entDel'[c] = Found(c)
          /\ entIns'[c] = Written(c)
          /\ pc'[c] = (IF Contended(c, Written(c)) THEN "waiting" ELSE "executed")
          /\ \A d \in Clients \ {c} : /\ entDel'[d] = entDel[d]
                                       /\ entIns'[d] = entIns[d]
                                       /\ pc'[d] = pc[d]
      BY <2>1 DEF Inv, TypeOK
    <2>3. OneHome'
      BY <2>1 DEF Inv, OneHome
    <2>4. ASSUME NEW d \in Clients
          PROVE  /\ pc'[d] \notin {"waiting", "executed"} =>
                      entDel'[d] = {} /\ entIns'[d] = {}
                 /\ entDel'[d] \subseteq wh_entity'
                 /\ pc'[d] = "executed" => ~Duplicate(entIns[d], entDel[d])'
      <3>1. CASE d = c
        <4>1. entDel'[c] \subseteq wh_entity'
          BY <2>1, <2>2 DEF Found, Qualified, RowsAt
        <4>2. pc'[c] = "executed" => ~Duplicate(entIns[c], entDel[c])'
          BY <2>1, <2>2 DEF Duplicate
        <4> QED BY <2>2, <3>1, <4>1, <4>2
      <3>2. CASE d # c
        BY <2>1, <2>2, <3>2 DEF Inv, WritesApart, Duplicate
      <3> QED BY <3>1, <3>2
    <2>5. ASSUME NEW d \in Clients, d # c
          PROVE  /\ entDel'[c] \cap entDel'[d] = {}
                 /\ pc'[c] = "executed" =>
                      \A r \in entIns'[c], s \in entIns'[d] : ~Clash(r, s)
      <3>1. Found(c) \cap entDel[d] = {}
        BY <2>1, <2>5, FoundIsFree
      <3> QED BY <2>2, <2>5, <3>1 DEF Contended
    <2>6. ASSUME NEW d \in Clients, NEW e \in Clients, d # e
          PROVE  /\ entDel'[d] \cap entDel'[e] = {}
                 /\ pc'[d] = "executed" /\ pc'[e] = "executed" =>
                      \A r \in entIns'[d], s \in entIns'[e] : ~Clash(r, s)
      <3>1. CASE d = c
        BY <2>5, <2>6, <3>1
      <3>2. CASE e = c
        BY <2>5, <2>6, <3>2, ClashSymmetric
      <3>3. CASE d # c /\ e # c
        BY <2>2, <2>6, <3>3 DEF Inv, WritesApart
      <3> QED BY <3>1, <3>2, <3>3
    <2> QED BY <2>3, <2>4, <2>6 DEF WritesApart
  <1> QED BY <1>1, <1>2

LEMMA FinishWaitApart ==
    ASSUME Inv, NEW c \in Clients, FinishWait(c)
    PROVE  OneHome' /\ WritesApart'
  <1>1. CASE Rollback(c)
    BY <1>1, RollbackApart DEF Rollback, tables
  <1>2. CASE ~Rollback(c)
    <2>1. /\ ~Contended(c, entIns[c])
          /\ ~Duplicate(entIns[c], entDel[c])
          /\ pc' = [pc EXCEPT ![c] = "executed"]
          /\ UNCHANGED <<wh_entity, entDel, entIns>>
      BY <1>2 DEF FinishWait, tables, pending
    <2>2. pc'[c] = "executed" /\ \A d \in Clients \ {c} : pc'[d] = pc[d]
      BY <2>1 DEF Inv, TypeOK
    <2>3. OneHome'
      BY <2>1 DEF Inv, OneHome
    <2>4. ASSUME NEW d \in Clients
          PROVE  /\ pc'[d] \notin {"waiting", "executed"} =>
                      entDel'[d] = {} /\ entIns'[d] = {}
                 /\ entDel'[d] \subseteq wh_entity'
                 /\ pc'[d] = "executed" => ~Duplicate(entIns[d], entDel[d])'
      BY <2>1, <2>2 DEF Inv, WritesApart, Duplicate
    <2>5. ASSUME NEW d \in Clients, NEW e \in Clients, d # e
          PROVE  /\ entDel'[d] \cap entDel'[e] = {}
                 /\ pc'[d] = "executed" /\ pc'[e] = "executed" =>
                      \A r \in entIns'[d], s \in entIns'[e] : ~Clash(r, s)
      <3>1. entDel'[d] \cap entDel'[e] = {}
        BY <2>1, <2>5 DEF Inv, WritesApart
      <3>2. CASE d # c /\ e # c
        BY <2>1, <2>2, <2>5, <3>1, <3>2 DEF Inv, WritesApart
      <3>3. CASE d = c
        BY <2>1, <2>5, <3>1, <3>3 DEF Contended
      <3>4. CASE e = c
        BY <2>1, <2>5, <3>1, <3>4, ClashSymmetric DEF Contended
      <3> QED BY <3>2, <3>3, <3>4
    <2> QED BY <2>3, <2>4, <2>5 DEF WritesApart
  <1> QED BY <1>1, <1>2

\* COMMIT: what was kept apart goes into the table together.
LEMMA CommitApart ==
    ASSUME Inv, NEW c \in Clients, Commit(c)
    PROVE  OneHome' /\ WritesApart'
  <1>1. /\ pc[c] = "executed"
        /\ wh_entity' = (wh_entity \ entDel[c]) \cup entIns[c]
        /\ entDel'[c] = {} /\ entIns'[c] = {}
        /\ pc'[c] = "idle"
        /\ \A d \in Clients \ {c} : /\ entDel'[d] = entDel[d]
                                     /\ entIns'[d] = entIns[d]
                                     /\ pc'[d] = pc[d]
    BY DEF Commit, Reset, Inv, TypeOK
  <1>2. /\ \A r \in entIns[c], s \in wh_entity \ entDel[c] : ~Clash(r, s)
        /\ \A r, s \in entIns[c] : r # s => ~Clash(r, s)
    BY <1>1, DuplicateFree DEF Inv, WritesApart
  <1>3. OneHome'
    <2> SUFFICES ASSUME NEW r \in wh_entity', NEW s \in wh_entity', r # s
                 PROVE  ~Clash(r, s)
      BY DEF OneHome, Clash
    <2>1. CASE r \in wh_entity \ entDel[c] /\ s \in wh_entity \ entDel[c]
      BY <2>1 DEF Inv, OneHome, Clash
    <2>2. CASE r \in entIns[c] \/ s \in entIns[c]
      BY <1>1, <1>2, <2>2, ClashSymmetric
    <2> QED BY <1>1, <2>1, <2>2
  <1>4. ASSUME NEW d \in Clients
        PROVE  /\ pc'[d] \notin {"waiting", "executed"} =>
                    entDel'[d] = {} /\ entIns'[d] = {}
               /\ entDel'[d] \subseteq wh_entity'
               /\ pc'[d] = "executed" => ~Duplicate(entIns[d], entDel[d])'
    <2>1. CASE d = c
      BY <1>1, <2>1
    <2>2. CASE d # c
      <3>1. entDel[d] \subseteq wh_entity /\ entDel[c] \cap entDel[d] = {}
        BY <2>2 DEF Inv, WritesApart
      <3>2. ASSUME pc[d] = "executed"
            PROVE  /\ \A r \in entIns[d], s \in wh_entity' \ entDel[d] : ~Clash(r, s)
                   /\ \A r, s \in entIns[d] : r # s => ~Clash(r, s)
        <4>1. /\ \A r \in entIns[d], s \in wh_entity \ entDel[d] : ~Clash(r, s)
              /\ \A r, s \in entIns[d] : r # s => ~Clash(r, s)
          BY <3>2, DuplicateFree DEF Inv, WritesApart
        <4>2. \A r \in entIns[d], s \in entIns[c] : ~Clash(r, s)
          BY <1>1, <2>2, <3>2 DEF Inv, WritesApart
        <4> QED BY <1>1, <4>1, <4>2
      <3>3. pc'[d] = "executed" => ~Duplicate(entIns[d], entDel[d])'
        BY <1>1, <2>2, <3>2 DEF Duplicate
      <3>4. pc'[d] \notin {"waiting", "executed"} =>
              entDel'[d] = {} /\ entIns'[d] = {}
        BY <1>1, <2>2 DEF Inv, WritesApart
      <3>5. entDel'[d] \subseteq wh_entity'
        BY <1>1, <2>2, <3>1
      <3> QED BY <3>3, <3>4, <3>5
    <2> QED BY <2>1, <2>2
  <1>5. ASSUME NEW d \in Clients, NEW e \in Clients, d # e
        PROVE  /\ entDel'[d] \cap entDel'[e] = {}
               /\ pc'[d] = "executed" /\ pc'[e] = "executed" =>
                    \A r \in entIns'[d], s \in entIns'[e] : ~Clash(r, s)
    <2>1. CASE d = c \/ e = c
      BY <1>1, <1>5, <2>1
    <2>2. CASE d # c /\ e # c
      BY <1>1, <1>5, <2>2 DEF Inv, WritesApart
    <2> QED BY <2>1, <2>2
  <1> QED BY <1>3, <1>4, <1>5 DEF WritesApart

\* DELETE without a transaction waits for the rows of those that have one.
LEMMA PurgeRowApart ==
    ASSUME Inv, NEW c \in Clients, PurgeRow(c)
    PROVE  OneHome' /\ WritesApart'
  <1>1. /\ pc[c] = "executing"
        /\ ~RowLocked(c)
        /\ wh_entity' = wh_entity \ Found(c)
        /\ entDel' = entDel /\ entIns' = entIns
        /\ pc'[c] = "purgeLog"
        /\ \A d \in Clients \ {c} : pc'[d] = pc[d]
    BY DEF PurgeRow, pending, Inv, TypeOK
  <1>2. entDel[c] = {} /\ entIns[c] = {}
    BY <1>1, NothingPending
  <1>3. OneHome'
    BY <1>1 DEF Inv, OneHome
  <1>4. ASSUME NEW d \in Clients
        PROVE  /\ pc'[d] \notin {"waiting", "executed"} =>
                    entDel'[d] = {} /\ entIns'[d] = {}
               /\ entDel'[d] \subseteq wh_entity'
               /\ pc'[d] = "executed" => ~Duplicate(entIns[d], entDel[d])'
    <2>1. CASE d = c
      BY <1>1, <1>2, <2>1
    <2>2. CASE d # c
      <3>1. Found(c) \cap entDel[d] = {}
        BY <1>1, <2>2, FoundIsFree
      <3> QED BY <1>1, <2>2, <3>1 DEF Inv, WritesApart, Duplicate
    <2> QED BY <2>1, <2>2
  <1>5. ASSUME NEW d \in Clients, NEW e \in Clients, d # e
        PROVE  /\ entDel'[d] \cap entDel'[e] = {}
               /\ pc'[d] = "executed" /\ pc'[e] = "executed" =>
                    \A r \in entIns'[d], s \in entIns'[e] : ~Clash(r, s)
    BY <1>1, <1>2, <1>5 DEF Inv, WritesApart
  <1> QED BY <1>3, <1>4, <1>5 DEF WritesApart

LEMMA WorkApart ==
    ASSUME Inv, NEW c \in Clients, Work(c)
    PROVE  OneHome' /\ WritesApart'
  <1>1. CASE LogNotFound(c) \/ DeadlockDetected(c) \/ PurgeTags(c)
    BY <1>1, RollbackApart DEF LogNotFound, DeadlockDetected, PurgeTags,
       Rollback, tables
  <1>2. CASE IssueClearTags(c) \/ FinishClearTags(c) \/ IssueExec(c) \/ PurgeLog(c)
    <2>1. /\ pc[c] \in {"begun", "clearing", "cleared", "purgeLog"}
          /\ wh_entity' = wh_entity
          /\ entDel' = entDel
          /\ entIns' = entIns
          /\ \A d \in Clients \ {c} : pc'[d] = pc[d]
      BY <1>2 DEF Inv, TypeOK, IssueClearTags, FinishClearTags, IssueExec,
         PurgeLog, tables, pending
    <2>2. entDel[c] = {} /\ entIns[c] = {}
      BY <2>1, NothingPending
    <2> QED BY <2>1, <2>2, QuietStep
  <1>3. CASE FinishExec(c)
    BY <1>3, FinishExecApart
  <1>4. CASE FinishWait(c)
    BY <1>4, FinishWaitApart
  <1>5. CASE Commit(c)
    BY <1>5, CommitApart
  <1>6. CASE PurgeRow(c)
    BY <1>6, PurgeRowApart
  <1> QED BY <1>1, <1>2, <1>3, <1>4, <1>5, <1>6 DEF Work

LEMMA InitApart == Init => Inv
  <1> SUFFICES ASSUME Init PROVE Inv
    OBVIOUS
  <1>1. TypeOK
    BY InitTypes
  <1>2. OneHome
    <2>1. PICK number \in [Seeded -> 1..Cardinality(Seeded)] :
            /\ \A p, q \in Seeded : number[p] = number[q] => p = q
            /\ wh_entity = {SeedRow(p, number[p]) : p \in Seeded}
      BY DEF Init
    <2>2. SUFFICES ASSUME NEW p \in Seeded, NEW q \in Seeded,
                          SeedRow(p, number[p]) # SeedRow(q, number[q])
                   PROVE  p # q /\ number[p] # number[q]
      BY <2>1 DEF OneHome, SeedRow
    <2> QED BY <2>1, <2>2
  <1>3. WritesApart
    BY DEF Init, WritesApart
  <1> QED BY <1>1, <1>2, <1>3 DEF Inv

LEMMA NextApart == Inv /\ [Next]_vars => Inv'
  <1> SUFFICES ASSUME Inv, [Next]_vars PROVE Inv'
    OBVIOUS
  <1>1. TypeOK'
    BY NextTypes DEF Inv
  <1>2. CASE UNCHANGED vars \/ Quiet
    <2>1. UNCHANGED <<wh_entity, pc, entDel, entIns>>
      BY <1>2 DEF Quiet, vars, tables, pending
    <2> QED BY <1>1, <2>1 DEF Inv, OneHome, WritesApart, Duplicate
  <1>3. ASSUME NEW c \in Clients, Request(c) \/ Work(c)
        PROVE  OneHome' /\ WritesApart'
    BY <1>3, RequestApart, WorkApart
  <1>4. ASSUME NEW c \in Clients, Fail(c)
        PROVE  OneHome' /\ WritesApart'
    BY <1>4, RollbackApart DEF Fail, Rollback, tables
  <1> QED BY <1>1, <1>2, <1>3, <1>4 DEF Inv, Next

\* Open transactions never rewrite each other's rows and never hold rows that
\* could not be committed together, whatever operations run at once.
THEOREM TransactionsApart == Spec => []WritesApart
  <1>1. Spec => []Inv
    BY InitApart, NextApart, PTL DEF Spec
  <1>2. Inv => WritesApart
    BY DEF Inv
  <1> QED BY <1>1, <1>2, PTL

\* No interleaving of creates, edits, publications, deletions, moves and purges
\* puts two rows at one path, or one entity or revision in two rows.
THEOREM OnePageOnePath == Spec => []OneHome
  <1>1. Spec => []Inv
    BY InitApart, NextApart, PTL DEF Spec
  <1>2. Inv => OneHome
    BY DEF Inv
  <1> QED BY <1>1, <1>2, PTL

---------------------------------------------------------------------------
(* Provisional saves                                                       *)

\* Client c has changed nothing that it could commit to the visible tables.
Untouched(c) == tagDel[c] = {} /\ entDel[c] = {} /\ entIns[c] = {}

\* Only an operation with exec gets as far as a statement on wh_tag or
\* wh_entity; a purge does, too, but does not commit with the others.
ExecOnly(c) ==
    /\ pc[c] \in {"idle", "loaded"} => Untouched(c)
    /\ pc[c] \in {"begun", "clearing", "cleared", "executing"}
         => tx[c].exec \/ tx[c].kind = "purge"
    /\ pc[c] = "purgeLog" => tx[c].kind = "purge"
    /\ pc[c] = "waiting" => tx[c].exec
    /\ pc[c] = "executed" => tx[c].exec \/ Untouched(c)

Provisional == TypeOK /\ \A c \in Clients : ExecOnly(c)

\* A step of one client leaves what the others hold alone.
LEMMA OthersKeep ==
    ASSUME TypeOK, NEW c \in Clients, NEW d \in Clients, c # d,
           Request(c) \/ Work(c) \/ Fail(c)
    PROVE  /\ pc'[d] = pc[d] /\ tx'[d] = tx[d]
           /\ tagDel'[d] = tagDel[d] /\ entDel'[d] = entDel[d]
           /\ entIns'[d] = entIns[d]
  <1>1. CASE Request(c)
    <2>1. ASSUME NEW kind, NEW exec, NEW insert, NEW ids, NEW le,
                 Begin(c, kind, exec, insert, ids, le)
          PROVE  /\ pc'[d] = pc[d] /\ tx'[d] = tx[d]
                 /\ tagDel'[d] = tagDel[d] /\ entDel'[d] = entDel[d]
                 /\ entIns'[d] = entIns[d]
      BY <2>1 DEF TypeOK, Begin, pending
    <2>2. CASE LoadPage(c) \/ LoadRevision(c) \/ Respond(c) \/ PurgeEntity(c)
      BY <2>2 DEF TypeOK, LoadPage, LoadRevision, Respond, Reset, PurgeEntity,
         pending
    <2>3. CASE CreateEntity(c) \/ HoldComment(c)
      BY <2>1, <2>3 DEF CreateEntity, HoldComment
    <2>4. CASE UpdateEntity(c)
      BY <2>1, <2>4 DEF UpdateEntity
    <2>5. CASE CommitEntityRev(c) \/ UpdateWorkflow(c)
      BY <2>1, <2>5 DEF CommitEntityRev, UpdateWorkflow
    <2>6. CASE DeleteEntity(c) \/ MoveEntity(c)
      BY <2>1, <2>6 DEF DeleteEntity, MoveEntity
    <2> QED BY <1>1, <2>2, <2>3, <2>4, <2>5, <2>6 DEF Request
  <1>2. CASE Work(c)
    BY <1>2 DEF TypeOK, Work, LogNotFound, IssueClearTags, FinishClearTags,
       IssueExec, FinishExec, FinishWait, DeadlockDetected, Commit, PurgeRow,
       PurgeLog, PurgeTags, Rollback, Reset, pending
  <1>3. CASE Fail(c)
    BY <1>3 DEF TypeOK, Fail, Rollback, Reset
  <1> QED BY <1>1, <1>2, <1>3

\* A client that is done, one way or the other, holds nothing.
LEMMA ResetExecOnly ==
    ASSUME TypeOK, NEW c \in Clients, Reset(c)
    PROVE  ExecOnly(c)'
  BY DEF TypeOK, Reset, ExecOnly, Untouched

LEMMA RequestExecOnly ==
    ASSUME Provisional, NEW c \in Clients, Request(c)
    PROVE  ExecOnly(c)'
  <1>1. TypeOK /\ ExecOnly(c)
    BY DEF Provisional
  <1>2. ASSUME NEW kind, NEW exec \in BOOLEAN, NEW insert, NEW ids, NEW le,
               Begin(c, kind, exec, insert, ids, le),
               pc[c] \in {"idle", "loaded"}
        PROVE  ExecOnly(c)'
    <2>1. tx'[c].exec = exec
      BY <1>1, <1>2 DEF TypeOK, Begin
    <2>2. pc'[c] = IF ~exec THEN "executed"
                   ELSE IF kind = "create" THEN "cleared" ELSE "begun"
      BY <1>1, <1>2 DEF TypeOK, Begin
    <2>3. Untouched(c)'
      BY <1>1, <1>2 DEF ExecOnly, Untouched, Begin, pending
    <2> QED BY <2>1, <2>2, <2>3 DEF ExecOnly
  <1>3. CASE LoadPage(c) \/ LoadRevision(c)
    BY <1>1, <1>3 DEF TypeOK, LoadPage, LoadRevision, ExecOnly, Untouched,
       pending
  <1>4. CASE Respond(c)
    BY <1>1, <1>4, ResetExecOnly DEF Respond
  <1>5. CASE CreateEntity(c)
    BY <1>2, <1>5 DEF CreateEntity
  <1>6. CASE HoldComment(c)
    BY <1>2, <1>6 DEF HoldComment
  <1>7. CASE UpdateEntity(c)
    BY <1>2, <1>7 DEF UpdateEntity
  <1>8. CASE CommitEntityRev(c)
    BY <1>2, <1>8 DEF CommitEntityRev
  <1>9. CASE UpdateWorkflow(c)
    BY <1>2, <1>9 DEF UpdateWorkflow
  <1>10. CASE DeleteEntity(c)
    BY <1>2, <1>10 DEF DeleteEntity
  <1>11. CASE MoveEntity(c)
    BY <1>2, <1>11 DEF MoveEntity
  <1>12. CASE PurgeEntity(c)
    BY <1>1, <1>12 DEF TypeOK, PurgeEntity, ExecOnly, NoOperation
  <1> QED
    BY <1>3, <1>4, <1>5, <1>6, <1>7, <1>8, <1>9, <1>10, <1>11, <1>12
    DEF Request

LEMMA WorkExecOnly ==
    ASSUME Provisional, NEW c \in Clients, Work(c)
    PROVE  ExecOnly(c)'
  <1>1. TypeOK /\ ExecOnly(c)
    BY DEF Provisional
  <1>2. CASE LogNotFound(c) \/ DeadlockDetected(c) \/ Commit(c) \/ PurgeTags(c)
    BY <1>1, <1>2, ResetExecOnly
    DEF LogNotFound, DeadlockDetected, Rollback, Commit, PurgeTags
  <1>3. CASE IssueClearTags(c)
    BY <1>1, <1>3 DEF TypeOK, Operation, IssueClearTags, ExecOnly
  <1>4. CASE FinishClearTags(c) \/ IssueExec(c)
    BY <1>1, <1>4 DEF TypeOK, FinishClearTags, IssueExec, ExecOnly
  <1>5. CASE FinishExec(c)
    <2>1. CASE Reset(c)
      BY <1>1, <2>1, ResetExecOnly
    <2>2. CASE ~Reset(c)
      <3>1. tx[c].exec
        BY <1>1, <1>5 DEF FinishExec, ExecOnly
      <3>2. /\ tx' = [tx EXCEPT ![c].le.evtFinal = TRUE, ![c].raced = Raced(c)]
            /\ pc' = [pc EXCEPT ![c] = IF Contended(c, Written(c))
                                       THEN "waiting" ELSE "executed"]
        BY <1>5, <2>2 DEF FinishExec, Rollback
      <3>3. tx'[c].exec
        BY <1>1, <3>1, <3>2 DEF TypeOK, Operation
      <3>4. pc'[c] \in {"waiting", "executed"}
        BY <1>1, <3>2 DEF TypeOK
      <3> QED BY <3>3, <3>4 DEF ExecOnly
    <2> QED BY <2>1, <2>2
  <1>6. CASE FinishWait(c)
    <2>1. CASE Reset(c)
      BY <1>1, <2>1, ResetExecOnly
    <2>2. CASE ~Reset(c)
      BY <1>1, <1>6, <2>2 DEF TypeOK, FinishWait, Rollback, ExecOnly
    <2> QED BY <2>1, <2>2
  <1>7. CASE PurgeRow(c)
    BY <1>1, <1>7 DEF TypeOK, PurgeRow, ExecOnly
  <1>8. CASE PurgeLog(c)
    BY <1>1, <1>8 DEF TypeOK, PurgeLog, ExecOnly
  <1> QED BY <1>2, <1>3, <1>4, <1>5, <1>6, <1>7, <1>8 DEF Work

LEMMA NextExecOnly == Provisional /\ [Next]_vars => Provisional'
  <1> SUFFICES ASSUME Provisional, [Next]_vars PROVE Provisional'
    OBVIOUS
  <1>1. TypeOK'
    BY NextTypes DEF Provisional
  <1>2. CASE UNCHANGED vars \/ Quiet
    <2>1. UNCHANGED <<pc, tx, tagDel, entDel, entIns>>
      BY <1>2 DEF Quiet, vars, pending
    <2> QED BY <1>1, <2>1 DEF Provisional, ExecOnly, Untouched
  <1>3. ASSUME NEW c \in Clients, Request(c) \/ Work(c) \/ Fail(c)
        PROVE  \A d \in Clients : ExecOnly(d)'
    <2>1. ExecOnly(c)'
      <3>1. CASE Fail(c)
        BY <3>1, ResetExecOnly DEF Fail, Rollback, Provisional
      <3> QED BY <1>3, <3>1, RequestExecOnly, WorkExecOnly
    <2>2. ASSUME NEW d \in Clients \ {c} PROVE ExecOnly(d)'
      <3>1. /\ pc'[d] = pc[d] /\ tx'[d] = tx[d]
            /\ tagDel'[d] = tagDel[d] /\ entDel'[d] = entDel[d]
            /\ entIns'[d] = entIns[d]
        BY <1>3, OthersKeep DEF Provisional
      <3> QED BY <3>1 DEF Provisional, ExecOnly, Untouched
    <2> QED BY <2>1, <2>2
  <1> QED BY <1>1, <1>2, <1>3 DEF Provisional, Next

\* A provisional save changes neither the visible pages nor the tag index,
\* whatever runs beside it: exec keeps it away from every statement on them.
THEOREM DraftsStayHidden == Spec => DraftsAreInvisible
  <1>1. Init => Provisional
    BY InitTypes DEF Init, Provisional, ExecOnly, Untouched
  <1>2. ASSUME Provisional, [Next]_vars
        PROVE  [\A c \in Clients :
                  pc[c] = "executed" /\ ~tx[c].exec /\ pc'[c] = "idle"
                    => UNCHANGED <<wh_entity, wh_tag>>]_vars
    <2> SUFFICES ASSUME NEW c \in Clients, pc[c] = "executed", ~tx[c].exec,
                        pc'[c] = "idle"
                 PROVE  UNCHANGED <<wh_entity, wh_tag>>
      OBVIOUS
    <2>1. TypeOK /\ Untouched(c)
      BY <1>2 DEF Provisional, ExecOnly
    <2>2. PICK d \in Clients : Request(d) \/ Work(d) \/ Fail(d)
      BY <1>2 DEF Next, Quiet, vars
    <2>3. d = c
      BY <2>1, <2>2, OthersKeep
    <2>4. Commit(c) \/ DeadlockDetected(c) \/ Fail(c)
      BY <2>2, <2>3
      DEF Request, Work, LoadPage, LoadRevision, Respond, CreateEntity,
          HoldComment, UpdateEntity, CommitEntityRev, UpdateWorkflow,
          DeleteEntity, MoveEntity, PurgeEntity, LogNotFound, IssueClearTags,
          FinishClearTags, IssueExec, FinishExec, FinishWait, PurgeRow,
          PurgeLog, PurgeTags
    <2>5. CASE Commit(c)
      <3>1. TagsWritten(c) = {}
        BY DEF TagsWritten
      <3> QED BY <2>1, <2>5, <3>1 DEF Commit, Untouched
    <2>6. CASE DeadlockDetected(c) \/ Fail(c)
      BY <2>6 DEF DeadlockDetected, Fail, Rollback, tables
    <2> QED BY <2>4, <2>5, <2>6
  <1>3. Spec => []Provisional
    BY <1>1, NextExecOnly, PTL DEF Spec
  <1> QED BY <1>2, <1>3, PTL DEF Spec, DraftsAreInvisible

---------------------------------------------------------------------------
(* Redirects.  A Move that did not race moves a page, and a page that is   *)
(* moved is no redirect: so the new stub leads to a row that redirects     *)
(* nowhere.  That the row is no redirect follows from its entity, which is *)
(* the loaded page's: the entities of pages and of the stubs that Moves    *)
(* leave are never the same.                                               *)

Redirect(r) == r.stub /\ r.movedTo # NoPath

\* The rows, committed or not, and the log entries, written or to be written.
Rows == wh_entity \cup UNION {entIns[c] : c \in Clients}
Entries == wh_log \cup {tx[c].le : c \in {d \in Clients : tx[d].kind # "purge"}}

\* Entities of pages, and those of stubs that redirect.
PageIds == {0} \cup {l.entityId : l \in Entries}
           \cup {r.entityId : r \in {s \in Rows : Live(s)}}
           \cup {hand[c].entityId : c \in Clients}
StubIds == {r.entityId : r \in {s \in Rows : Redirect(s)}}
           \cup {tx[c].id + 1 : c \in {d \in Clients : tx[d].kind = "move"}}

\* Revisions that are Moves, and those a client may overwrite or publish.
MoveRevs == {l.revisionId : l \in {m \in Entries : m.evtClass = "Move"}}
EditRevs == {0} \cup {l.revisionId : l \in {m \in Entries : m.evtClass # "Move"}}
            \cup {hand[c].revisionId : c \in {d \in Clients : hand[d].viaLog}}

IdsApart ==
    /\ \A i \in PageIds \cup StubIds \cup MoveRevs \cup EditRevs : i < nextId
    /\ PageIds \cap StubIds = {}
    /\ MoveRevs \cap EditRevs = {}

\* What client c is to commit redirects to a row that does not redirect.
Leads(c) ==
    \A y \in entIns[c] : Redirect(y) =>
        \/ tx[c].raced /\ y.path \in {tx[c].le.path, tx[c].le.toPath}
        \/ \E z \in entIns[c] : z.path = y.movedTo /\ ~Redirect(z)

Forward(c) ==
    /\ Leads(c)
    /\ tx[c].le.evtClass = "Move" => tx[c].kind = "move"
    /\ pc[c] \in {"waiting", "executed"} => tx[c].kind # "purge"

Straight ==
    /\ Inv
    /\ IdsApart
    /\ \A c \in Clients : Forward(c)
    /\ NoRedirectLoop

LEMMA IdTypes ==
    ASSUME TypeOK
    PROVE  PageIds \cup StubIds \cup MoveRevs \cup EditRevs \subseteq Nat
  <1>1. /\ \A l \in wh_log : l \in LogRow
        /\ \A c \in Clients : tx[c].le \in LogRow /\ tx[c].id \in Nat
        /\ \A c \in Clients : hand[c] \in Entity
        /\ Rows \subseteq Row
    BY DEF TypeOK, LogEntry, Operation, Rows
  <1>2. \A l \in Entries : l.entityId \in Nat /\ l.revisionId \in Nat
    BY <1>1 DEF Entries, LogRow
  <1>3. \A c \in Clients : /\ hand[c].entityId \in Nat /\ hand[c].revisionId \in Nat
                           /\ tx[c].id + 1 \in Nat
    BY <1>1 DEF Entity
  <1>4. \A r \in Rows : r.entityId \in Nat
    BY <1>1 DEF Row
  <1>5. PageIds \subseteq Nat
    BY <1>2, <1>3, <1>4 DEF PageIds
  <1>6. StubIds \subseteq Nat
    BY <1>3, <1>4 DEF StubIds
  <1>7. MoveRevs \subseteq Nat /\ EditRevs \subseteq Nat
    BY <1>2, <1>3 DEF MoveRevs, EditRevs
  <1> QED BY <1>5, <1>6, <1>7

\* A step that takes no identifiers and names no new ones keeps them apart.
LEMMA OldIds ==
    ASSUME IdsApart, NEW c \in Clients, nextId' = nextId,
           \A d \in Clients \ {c} : /\ tx'[d] = tx[d] /\ hand'[d] = hand[d]
                                    /\ entIns'[d] = entIns[d],
           wh_log' \subseteq Entries, wh_entity' \subseteq Rows,
           \A y \in entIns'[c] : /\ Live(y) => y.entityId \in PageIds
                                 /\ Redirect(y) => y.entityId \in StubIds,
           hand'[c].entityId \in PageIds,
           hand'[c].viaLog => hand'[c].revisionId \in EditRevs,
           tx'[c].kind # "purge" =>
               /\ tx'[c].le.entityId \in PageIds
               /\ IF tx'[c].le.evtClass = "Move"
                  THEN tx'[c].le.revisionId \in MoveRevs
                  ELSE tx'[c].le.revisionId \in EditRevs,
           tx'[c].kind = "move" => tx'[c].id + 1 \in StubIds
    PROVE  IdsApart'
  <1>1. ASSUME NEW l \in Entries'
        PROVE  \/ l \in Entries
               \/ l = tx'[c].le /\ tx'[c].kind # "purge"
    BY DEF Entries
  <1>2. ASSUME NEW r \in Rows' PROVE r \in Rows \/ r \in entIns'[c]
    BY DEF Rows
  <1>3. PageIds' \subseteq PageIds
    <2>1. ASSUME NEW l \in Entries' PROVE l.entityId \in PageIds
      BY <1>1 DEF PageIds
    <2>2. ASSUME NEW r \in Rows', Live(r) PROVE r.entityId \in PageIds
      BY <1>2, <2>2 DEF PageIds
    <2>3. ASSUME NEW d \in Clients PROVE hand'[d].entityId \in PageIds
      BY DEF PageIds
    <2>4. 0 \in PageIds
      BY DEF PageIds
    <2> QED BY <2>1, <2>2, <2>3, <2>4 DEF PageIds, Live
  <1>4. StubIds' \subseteq StubIds
    <2>1. ASSUME NEW r \in Rows', Redirect(r) PROVE r.entityId \in StubIds
      BY <1>2, <2>1 DEF StubIds
    <2>2. ASSUME NEW d \in Clients, tx'[d].kind = "move"
          PROVE  tx'[d].id + 1 \in StubIds
      BY <2>2 DEF StubIds
    <2> QED BY <2>1, <2>2 DEF StubIds, Redirect
  <1>5. MoveRevs' \subseteq MoveRevs
    BY <1>1 DEF MoveRevs
  <1>6. EditRevs' \subseteq EditRevs
    <2>1. ASSUME NEW l \in Entries', l.evtClass # "Move"
          PROVE  l.revisionId \in EditRevs
      BY <1>1, <2>1 DEF EditRevs
    <2>2. ASSUME NEW d \in Clients, hand'[d].viaLog
          PROVE  hand'[d].revisionId \in EditRevs
      BY <2>2 DEF EditRevs
    <2>3. 0 \in EditRevs
      BY DEF EditRevs
    <2> QED BY <2>1, <2>2, <2>3 DEF EditRevs
  <1> QED BY <1>3, <1>4, <1>5, <1>6 DEF IdsApart

\* Beginning: the new entry names what is named already, or its own number.
LEMMA BeginIds ==
    ASSUME Straight, NEW c \in Clients, NEW kind, NEW exec, NEW insert,
           NEW ids \in {1, 2}, NEW le, kind # "purge",
           Begin(c, kind, exec, insert, ids, le),
           pc[c] \in {"idle", "loaded"},
           le.entityId \in PageIds \/ le.entityId = nextId,
           IF le.evtClass = "Move"
           THEN /\ kind = "move" /\ ids = 2 /\ le.entityId \in PageIds
                /\ le.revisionId = nextId
           ELSE kind # "move" /\ (le.revisionId \in EditRevs \/ le.revisionId = nextId)
    PROVE  IdsApart' /\ Forward(c)' /\ UNCHANGED <<wh_entity, disturbed>>
  <1>1. /\ nextId \in Nat /\ nextId' = nextId + ids
        /\ tx'[c].id = nextId /\ tx'[c].kind = kind /\ tx'[c].le = le
        /\ \A d \in Clients \ {c} : tx'[d] = tx[d]
        /\ UNCHANGED <<wh_entity, wh_log, hand, entIns, disturbed>>
    BY DEF Straight, Inv, TypeOK, Begin, tables, pending, history
  <1>2. Rows' = Rows
    BY <1>1 DEF Rows
  <1>3. ASSUME NEW l \in Entries' PROVE l \in Entries \/ l = le
    BY <1>1 DEF Entries
  <1>4. /\ \A i \in PageIds \cup StubIds \cup MoveRevs \cup EditRevs : i < nextId
        /\ PageIds \cap StubIds = {} /\ MoveRevs \cap EditRevs = {}
    BY DEF Straight, IdsApart
  <1>5. PageIds' \subseteq PageIds \cup {nextId}
        /\ (le.evtClass = "Move" => PageIds' \subseteq PageIds)
    <2>1. ASSUME NEW l \in Entries'
          PROVE  /\ l.entityId \in PageIds \cup {nextId}
                 /\ le.evtClass = "Move" => l.entityId \in PageIds
      BY <1>3 DEF PageIds
    <2> QED BY <1>1, <1>2, <2>1 DEF PageIds, Live
  <1>6. /\ StubIds' \subseteq StubIds \cup {nextId + 1}
        /\ kind # "move" => StubIds' \subseteq StubIds
    BY <1>1, <1>2 DEF StubIds, Redirect
  <1>7. /\ MoveRevs' \subseteq MoveRevs \cup {nextId}
        /\ le.evtClass # "Move" => MoveRevs' \subseteq MoveRevs
    BY <1>3 DEF MoveRevs
  <1>8. /\ EditRevs' \subseteq EditRevs \cup {nextId}
        /\ le.evtClass = "Move" => EditRevs' \subseteq EditRevs
    <2>1. ASSUME NEW l \in Entries', l.evtClass # "Move"
          PROVE  /\ l.revisionId \in EditRevs \cup {nextId}
                 /\ le.evtClass = "Move" => l.revisionId \in EditRevs
      BY <1>3, <2>1 DEF EditRevs
    <2> QED BY <1>1, <2>1 DEF EditRevs
  <1>9. ~(nextId < nextId) /\ ~(nextId + 1 < nextId) /\ nextId < nextId + ids
        /\ (ids = 2 => nextId + 1 < nextId + ids) /\ nextId # nextId + 1
    BY <1>1
  <1>10. \A i \in PageIds' \cup StubIds' \cup MoveRevs' \cup EditRevs' : i < nextId'
    <2>1. \A i \in PageIds \cup StubIds \cup MoveRevs \cup EditRevs : i \in Nat
      BY IdTypes DEF Straight, Inv
    <2> QED BY <1>1, <1>4, <1>5, <1>6, <1>7, <1>8, <1>9, <2>1
  <1>11. PageIds' \cap StubIds' = {} /\ MoveRevs' \cap EditRevs' = {}
    BY <1>4, <1>5, <1>6, <1>7, <1>8, <1>9
  <1>12. Forward(c)'
    <2>1. entIns'[c] = {} /\ (le.evtClass = "Move" => kind = "move")
      BY <1>1, NothingPending DEF Straight
    <2> QED BY <1>1, <2>1 DEF Forward, Leads
  <1> QED BY <1>1, <1>10, <1>11, <1>12 DEF IdsApart
LEMMA ResetIds ==
    ASSUME Straight, NEW c \in Clients, Reset(c), nextId' = nextId,
           wh_log' \subseteq Entries, wh_entity' \subseteq Rows
    PROVE  IdsApart' /\ Forward(c)'
  <1>1. /\ tx'[c] = NoOperation /\ hand'[c] = NoEntity /\ entIns'[c] = {}
        /\ pc'[c] = "idle"
        /\ \A d \in Clients \ {c} : /\ tx'[d] = tx[d] /\ hand'[d] = hand[d]
                                    /\ entIns'[d] = entIns[d]
    BY DEF Straight, Inv, TypeOK, Reset
  <1>2. /\ NoOperation.kind = "edit" /\ NoOperation.le.entityId = 0
        /\ NoOperation.le.revisionId = 0 /\ NoOperation.le.evtClass = "Create"
        /\ NoEntity.entityId = 0 /\ NoEntity.revisionId = 0
    BY DEF NoOperation, NoEntry, FirstEntry, NoEntity, FromLog
  <1>3. 0 \in PageIds /\ 0 \in EditRevs
    BY DEF PageIds, EditRevs
  <1>4. IdsApart'
    BY <1>1, <1>2, <1>3, OldIds DEF Straight
  <1>5. Forward(c)'
    BY <1>1, <1>2 DEF Forward, Leads
  <1> QED BY <1>4, <1>5

\* What clients have loaded and what is in the log is named.
LEMMA NamedIds ==
    ASSUME NEW c \in Clients
    PROVE  /\ hand[c].entityId \in PageIds
           /\ hand[c].viaLog => hand[c].revisionId \in EditRevs
           /\ tx[c].kind = "move" => tx[c].id + 1 \in StubIds
           /\ \A l \in Entries :
                /\ l.entityId \in PageIds
                /\ IF l.evtClass = "Move" THEN l.revisionId \in MoveRevs
                   ELSE l.revisionId \in EditRevs
           /\ wh_log \subseteq Entries /\ wh_entity \subseteq Rows
           /\ \A y \in Rows : /\ Live(y) => y.entityId \in PageIds
                              /\ Redirect(y) => y.entityId \in StubIds
           /\ \A d \in Clients : entIns[d] \subseteq Rows
           /\ tx[c].kind # "purge" => tx[c].le \in Entries
  BY DEF PageIds, StubIds, MoveRevs, EditRevs, Entries, Rows

LEMMA RequestIds ==
    ASSUME Straight, NEW c \in Clients, Request(c)
    PROVE  IdsApart' /\ Forward(c)' /\ UNCHANGED <<wh_entity, disturbed>>
  <1>0. TypeOK /\ Inv /\ IdsApart /\ Forward(c) /\ nextId \in Nat
    BY DEF Straight, Inv, TypeOK
  <1>1. CASE Respond(c)
    BY <1>1, ResetIds, NamedIds DEF Respond, tables, history
  <1>2. CASE LoadPage(c) \/ LoadRevision(c)
    <2>1. /\ hand'[c].entityId \in PageIds
          /\ hand'[c].viaLog => hand'[c].revisionId \in EditRevs
      <3>1. CASE LoadPage(c)
        <4>1. PICK r \in wh_entity : Live(r) /\ hand' = [hand EXCEPT ![c] = FromRow(r)]
          BY <3>1 DEF LoadPage
        <4> QED BY <1>0, <4>1, NamedIds DEF FromRow, TypeOK
      <3>2. CASE LoadRevision(c)
        <4>1. PICK l \in wh_log : l.evtClass \in {"Create", "Update"}
                                  /\ hand' = [hand EXCEPT ![c] = FromLog(l)]
          BY <3>2 DEF LoadRevision
        <4>2. l \in Entries
          BY NamedIds
        <4> QED BY <1>0, <4>1, <4>2, NamedIds DEF FromLog, TypeOK
      <3> QED BY <1>2, <3>1, <3>2
    <2>2. /\ nextId' = nextId /\ tx' = tx /\ entIns' = entIns
          /\ wh_entity' = wh_entity /\ wh_log' = wh_log /\ disturbed' = disturbed
          /\ pc'[c] = "loaded"
          /\ \A d \in Clients \ {c} : hand'[d] = hand[d]
      BY <1>0, <1>2 DEF LoadPage, LoadRevision, TypeOK, tables, pending, history
    <2>3. IdsApart'
      <3>1. /\ tx[c].kind # "purge" =>
                 /\ tx[c].le.entityId \in PageIds
                 /\ IF tx[c].le.evtClass = "Move" THEN tx[c].le.revisionId \in MoveRevs
                    ELSE tx[c].le.revisionId \in EditRevs
            /\ tx[c].kind = "move" => tx[c].id + 1 \in StubIds
            /\ wh_log \subseteq Entries /\ wh_entity \subseteq Rows
            /\ \A y \in entIns[c] : /\ Live(y) => y.entityId \in PageIds
                                    /\ Redirect(y) => y.entityId \in StubIds
        BY NamedIds
      <3> QED BY <1>0, <2>1, <2>2, <3>1, OldIds
    <2>4. Forward(c)'
      BY <1>0, <2>2 DEF Forward, Leads, Redirect
    <2> QED BY <2>2, <2>3, <2>4
  <1>3. CASE CreateEntity(c)
    <2>1. PICK p \in Paths, exec \in BOOLEAN, ts \in SUBSET Tags :
            Begin(c, "create", exec, TRUE, 1,
                  FirstEntry(p, nextId, PublishDraft("none"),
                             [body |-> nextId, tags |-> ts]))
      BY <1>3 DEF CreateEntity
    <2> DEFINE le == FirstEntry(p, nextId, PublishDraft("none"),
                                [body |-> nextId, tags |-> ts])
    <2>2. le.evtClass = "Create" /\ le.entityId = nextId /\ le.revisionId = nextId
      BY DEF FirstEntry
    <2>3. Begin(c, "create", exec, TRUE, 1, le) /\ pc[c] = "idle"
      BY <1>3, <2>1 DEF CreateEntity
    <2> HIDE DEF le
    <2> QED BY <2>2, <2>3, BeginIds
  <1>4. CASE HoldComment(c)
    <2>1. PICK p \in Paths, t \in Tags :
            Begin(c, "comment", FALSE, TRUE, 1,
                  FirstEntry(p, nextId, "review",
                             [body |-> nextId, tags |-> {t}]))
      BY <1>4 DEF HoldComment
    <2> DEFINE le == FirstEntry(p, nextId, "review",
                                [body |-> nextId, tags |-> {t}])
    <2>2. le.evtClass = "Create" /\ le.entityId = nextId /\ le.revisionId = nextId
      BY DEF FirstEntry
    <2>3. Begin(c, "comment", FALSE, TRUE, 1, le) /\ pc[c] = "idle"
      BY <1>4, <2>1 DEF HoldComment
    <2> HIDE DEF le
    <2> QED BY <2>2, <2>3, BeginIds
  <1>5. CASE UpdateEntity(c)
    <2>0. pc[c] = "loaded"
      BY <1>5 DEF UpdateEntity
    <2>1. PICK exec \in BOOLEAN, createNewDraft \in BOOLEAN, ts \in SUBSET Tags,
               old \in wh_log :
            \/ /\ SameRevision(hand[c], exec, createNewDraft)
               /\ Begin(c, "edit", exec, FALSE, 1,
                        Redrafted(hand[c], old, [body |-> nextId, tags |-> ts]))
            \/ Begin(c, "edit", exec, TRUE, 1,
                     Revised(hand[c], old, exec, [body |-> nextId, tags |-> ts]))
      BY <1>5 DEF UpdateEntity
    <2> DEFINE same == Redrafted(hand[c], old, [body |-> nextId, tags |-> ts])
               new == Revised(hand[c], old, exec, [body |-> nextId, tags |-> ts])
    <2>2. /\ same.revisionId = hand[c].revisionId
          /\ same.entityId = hand[c].entityId /\ same.evtClass # "Move"
      BY DEF Redrafted, Revised, NextEntry
    <2>3. /\ new.revisionId = nextId
          /\ new.entityId = hand[c].entityId /\ new.evtClass # "Move"
      BY DEF Revised, NextEntry
    <2>4. \/ hand[c].viaLog /\ Begin(c, "edit", exec, FALSE, 1, same)
          \/ Begin(c, "edit", exec, TRUE, 1, new)
      BY <2>1 DEF SameRevision
    <2> HIDE DEF same, new
    <2> QED BY <2>0, <2>2, <2>3, <2>4, BeginIds, NamedIds
  <1>6. CASE CommitEntityRev(c) \/ UpdateWorkflow(c)
    <2>1. PICK l, kind, exec, w :
            /\ l \in wh_log /\ kind \in {"publish", "approve"} /\ exec \in BOOLEAN
            /\ l.revisionId = hand[c].revisionId
            /\ Begin(c, kind, exec, FALSE, 1, [l EXCEPT !.workflow = w])
      BY <1>6 DEF CommitEntityRev, UpdateWorkflow
    <2>2. pc[c] = "loaded" /\ hand[c].viaLog
      BY <1>6 DEF CommitEntityRev, UpdateWorkflow
    <2> DEFINE le == [l EXCEPT !.workflow = w]
    <2>3. /\ le.revisionId = hand[c].revisionId /\ le.entityId = l.entityId
          /\ le.evtClass = l.evtClass
      BY <1>0, <2>1 DEF TypeOK, LogEntry, LogRow
    <2>4. l \in Entries /\ hand[c].revisionId \in EditRevs
      BY <2>1, <2>2, NamedIds
    <2>5. l.evtClass # "Move"
      BY <1>0, <2>1, <2>4, NamedIds DEF IdsApart
    <2>6. kind \notin {"purge", "move"} /\ Begin(c, kind, exec, FALSE, 1, le)
      BY <2>1
    <2>7. l.entityId \in PageIds
      BY <2>4, NamedIds
    <2> HIDE DEF le
    <2> QED BY <2>2, <2>3, <2>4, <2>5, <2>6, <2>7, BeginIds
  <1>7. CASE DeleteEntity(c)
    <2> DEFINE le == NextEntry(hand[c], "Delete", "none", hand[c].data, NoPath)
    <2>1. /\ le.revisionId = nextId /\ le.entityId = hand[c].entityId
          /\ le.evtClass = "Delete"
      BY DEF NextEntry
    <2>2. Begin(c, "delete", TRUE, TRUE, 1, le) /\ pc[c] = "loaded"
      BY <1>7 DEF DeleteEntity
    <2> HIDE DEF le
    <2> QED BY <2>1, <2>2, BeginIds, NamedIds
  <1>8. CASE MoveEntity(c)
    <2>1. PICK q \in Paths :
            Begin(c, "move", TRUE, TRUE, 2,
                  NextEntry(hand[c], "Move", "none", hand[c].data, q))
      BY <1>8 DEF MoveEntity
    <2> DEFINE le == NextEntry(hand[c], "Move", "none", hand[c].data, q)
    <2>2. /\ le.revisionId = nextId /\ le.entityId = hand[c].entityId
          /\ le.evtClass = "Move"
      BY DEF NextEntry
    <2>3. Begin(c, "move", TRUE, TRUE, 2, le) /\ pc[c] = "loaded"
      BY <1>8, <2>1 DEF MoveEntity
    <2> HIDE DEF le
    <2> QED BY <2>2, <2>3, BeginIds, NamedIds
  <1>9. CASE PurgeEntity(c)
    <2>1. PICK r \in wh_entity :
            tx' = [tx EXCEPT ![c] =
                     [NoOperation EXCEPT
                        !.kind = "purge",
                        !.le = FirstEntry(r.path, r.entityId, "none", Blank)]]
      BY <1>9 DEF PurgeEntity
    <2>2. /\ tx'[c].kind = "purge" /\ tx'[c].le.evtClass = "Create"
          /\ pc'[c] = "cleared"
          /\ \A d \in Clients \ {c} : tx'[d] = tx[d]
      BY <1>0, <1>9, <2>1 DEF TypeOK, NoOperation, PurgeEntity, FirstEntry
    <2>3. /\ nextId' = nextId /\ hand' = hand /\ entIns' = entIns
          /\ wh_entity' = wh_entity /\ wh_log' = wh_log /\ disturbed' = disturbed
      BY <1>9 DEF PurgeEntity, tables, pending, history
    <2>4. entIns[c] = {}
      BY <1>0, <1>9, NothingPending DEF PurgeEntity
    <2>5. IdsApart'
      BY <1>0, <2>2, <2>3, <2>4, OldIds, NamedIds
    <2>6. Forward(c)'
      BY <2>2, <2>3, <2>4 DEF Forward, Leads
    <2> QED BY <2>3, <2>5, <2>6
  <1> QED
    BY <1>1, <1>2, <1>3, <1>4, <1>5, <1>6, <1>7, <1>8, <1>9 DEF Request

\* The statement on wh_entity writes rows of pages, and a Move's stub, which
\* leads to the row it moved unless the Move raced.
LEMMA FinishExecIds ==
    ASSUME Straight, NEW c \in Clients, FinishExec(c)
    PROVE  IdsApart' /\ Forward(c)' /\ UNCHANGED <<wh_entity, disturbed>>
  <1>0. /\ TypeOK /\ IdsApart /\ Forward(c) /\ nextId \in Nat
        /\ tx[c] \in Operation /\ tx[c].le \in LogRow
        /\ tx[c].le.evtClass = "Move" => tx[c].le.toPath \in Paths
    BY DEF Straight, Inv, TypeOK, Operation, LogEntry
  <1>1. CASE Rollback(c)
    BY <1>1, ResetIds, NamedIds DEF Rollback, tables, history
  <1>2. CASE ~Rollback(c)
    <2>1. /\ pc[c] = "executing" /\ tx[c].kind # "purge"
          /\ entIns'[c] = Written(c)
          /\ tx'[c] = [tx[c] EXCEPT !.le = [tx[c].le EXCEPT !.evtFinal = TRUE],
                                    !.raced = Raced(c)]
          /\ nextId' = nextId /\ hand' = hand
          /\ wh_entity' = wh_entity /\ wh_log' = wh_log /\ disturbed' = disturbed
          /\ \A d \in Clients \ {c} : tx'[d] = tx[d] /\ entIns'[d] = entIns[d]
      BY <1>0, <1>2 DEF FinishExec, TypeOK, tables, history
    <2>2. /\ tx'[c].le.entityId = tx[c].le.entityId
          /\ tx'[c].le.revisionId = tx[c].le.revisionId
          /\ tx'[c].le.evtClass = tx[c].le.evtClass
          /\ tx'[c].le.path = tx[c].le.path /\ tx'[c].le.toPath = tx[c].le.toPath
          /\ tx'[c].kind = tx[c].kind /\ tx'[c].id = tx[c].id
          /\ tx'[c].raced = Raced(c)
      BY <1>0, <2>1 DEF Operation, LogRow
    <2>3. tx[c].le \in Entries /\ tx[c].le.entityId \in PageIds
      BY <2>1, NamedIds
    <2>4. /\ Found(c) \subseteq wh_entity /\ Found(c) \subseteq Row
          /\ Found(c) \subseteq Rows
          /\ \A s \in Found(c) : s.path = tx[c].le.path
      BY <1>0 DEF Found, Qualified, RowsAt, TypeOK, Rows
    <2>5. ASSUME NEW y \in Written(c)
          PROVE  \/ Live(y) /\ y.entityId = tx[c].le.entityId
                 \/ y.stub /\ y.movedTo = NoPath
                 \/ /\ tx[c].le.evtClass = "Move"
                    /\ \/ y = MovedStub(c)
                       \/ \E s \in Found(c) :
                            /\ y = [Stamped(s, c) EXCEPT !.path = tx[c].le.toPath]
                            /\ y.stub = s.stub /\ y.movedTo = s.movedTo
                            /\ y.entityId = s.entityId /\ y.path = tx[c].le.toPath
      <3>1. CASE tx[c].le.evtClass = "Create"
        BY <3>1 DEF Written, CreatedRow, Live
      <3>2. CASE tx[c].le.evtClass = "Update"
        BY <3>2 DEF Written, UpdatedRows, CreatedRow, Live
      <3>3. CASE tx[c].le.evtClass = "Delete"
        BY <2>4, <3>3 DEF Written, DeletedRows, Stamped, Row
      <3>4. CASE tx[c].le.evtClass = "Move"
        <4>1. CASE y \in MovedRows(c)
          <5>1. PICK s \in Found(c) : y = [Stamped(s, c) EXCEPT !.path = tx[c].le.toPath]
            BY <4>1 DEF MovedRows
          <5>2. /\ y.stub = s.stub /\ y.movedTo = s.movedTo
                /\ y.entityId = s.entityId /\ y.path = tx[c].le.toPath
            BY <2>4, <5>1 DEF Stamped, Row
          <5> QED BY <3>4, <5>1, <5>2
        <4> QED BY <3>4, <4>1 DEF Written
      <3> QED BY <1>0, <3>1, <3>2, <3>3, <3>4 DEF LogRow
    <2>6. /\ MovedStub(c).stub /\ MovedStub(c).entityId = tx[c].id + 1
          /\ MovedStub(c).movedTo = tx[c].le.toPath
          /\ MovedStub(c).path = tx[c].le.path
      BY DEF MovedStub, CreatedRow
    <2>7. ASSUME NEW y \in Written(c)
          PROVE  /\ Live(y) => y.entityId \in PageIds
                 /\ Redirect(y) => y.entityId \in StubIds
      <3>1. CASE Live(y) /\ y.entityId = tx[c].le.entityId
        BY <2>3, <3>1 DEF Live, Redirect
      <3>2. CASE y.stub /\ y.movedTo = NoPath
        BY <3>2 DEF Live, Redirect
      <3>3. CASE tx[c].le.evtClass = "Move" /\ y = MovedStub(c)
        BY <1>0, <2>6, <3>3, NamedIds DEF Live, Forward
      <3>4. ASSUME NEW s \in Found(c), y.stub = s.stub, y.movedTo = s.movedTo,
                   y.entityId = s.entityId
            PROVE  /\ Live(y) => y.entityId \in PageIds
                   /\ Redirect(y) => y.entityId \in StubIds
        BY <2>4, <3>4, NamedIds DEF Live, Redirect
      <3> QED BY <2>5, <3>1, <3>2, <3>3, <3>4
    <2>8. IdsApart'
      <3>1. IF tx[c].le.evtClass = "Move" THEN tx[c].le.revisionId \in MoveRevs
            ELSE tx[c].le.revisionId \in EditRevs
        BY <2>3, NamedIds
      <3>2. /\ hand[c].entityId \in PageIds
            /\ hand[c].viaLog => hand[c].revisionId \in EditRevs
            /\ tx[c].kind = "move" => tx[c].id + 1 \in StubIds
            /\ wh_log \subseteq Entries /\ wh_entity \subseteq Rows
        BY NamedIds
      <3> QED BY <1>0, <2>1, <2>2, <2>3, <2>7, <3>1, <3>2, OldIds
    <2>9. Leads(c)'
      <3> SUFFICES ASSUME NEW y \in Written(c), Redirect(y)
                   PROVE  \/ Raced(c) /\ y.path \in {tx[c].le.path, tx[c].le.toPath}
                          \/ \E z \in Written(c) : z.path = y.movedTo /\ ~Redirect(z)
        BY <2>1, <2>2 DEF Leads, Redirect
      <3>1. tx[c].le.evtClass = "Move"
        BY <2>5 DEF Redirect, Live
      <3>2. CASE Raced(c)
        BY <2>5, <2>6, <3>2 DEF Redirect, Live
      <3>3. CASE ~Raced(c)
        <4>1. /\ Found(c) # {}
              /\ \A s \in Found(c) : s.entityId = tx[c].le.entityId
          BY <3>1, <3>3 DEF Raced
        <4>2. \A s \in Found(c) : ~Redirect(s)
          BY <1>0, <2>3, <2>4, <4>1, NamedIds DEF IdsApart
        <4>3. y = MovedStub(c)
          BY <2>5, <4>2 DEF Redirect, Live
        <4>4. PICK s \in Found(c) : TRUE
          BY <4>1
        <4> DEFINE z == [Stamped(s, c) EXCEPT !.path = tx[c].le.toPath]
        <4>5. z \in Written(c)
          BY <3>1 DEF Written, MovedRows
        <4>6. z.path = tx[c].le.toPath /\ z.stub = s.stub /\ z.movedTo = s.movedTo
          BY <2>4 DEF Stamped, Row
        <4>7. ~Redirect(z)
          BY <4>2, <4>6 DEF Redirect
        <4> QED BY <2>6, <4>3, <4>5, <4>6, <4>7
      <3> QED BY <3>2, <3>3
    <2>10. Forward(c)'
      BY <1>0, <2>1, <2>2, <2>9 DEF Forward
    <2> QED BY <2>1, <2>8, <2>10
  <1> QED BY <1>1, <1>2

\* The other steps of an operation but Commit name nothing new.
LEMMA WorkIds ==
    ASSUME Straight, NEW c \in Clients, Work(c) \/ Fail(c), ~Commit(c)
    PROVE  /\ IdsApart' /\ Forward(c)'
           /\ wh_entity' \subseteq wh_entity /\ disturbed \subseteq disturbed'
  <1>0. TypeOK /\ Inv /\ IdsApart /\ Forward(c)
    BY DEF Straight, Inv
  <1>1. ASSUME Reset(c), nextId' = nextId, wh_log' = wh_log, wh_entity' = wh_entity,
               disturbed' = disturbed
        PROVE  /\ IdsApart' /\ Forward(c)'
               /\ wh_entity' \subseteq wh_entity /\ disturbed \subseteq disturbed'
    BY <1>1, ResetIds, NamedIds
  <1>2. CASE \/ Fail(c) \/ LogNotFound(c) \/ DeadlockDetected(c) \/ PurgeTags(c)
    BY <1>1, <1>2 DEF Fail, LogNotFound, DeadlockDetected, PurgeTags, Rollback,
       tables, history
  <1>3. CASE FinishExec(c)
    BY <1>3, FinishExecIds
  <1>4. ASSUME nextId' = nextId, hand' = hand, entIns' = entIns,
               wh_log' \subseteq wh_log, wh_entity' \subseteq wh_entity,
               disturbed \subseteq disturbed',
               tx'[c].le = tx[c].le, tx'[c].kind = tx[c].kind,
               tx'[c].id = tx[c].id, tx'[c].raced = tx[c].raced,
               \A d \in Clients \ {c} : tx'[d] = tx[d],
               pc'[c] \in {"waiting", "executed"} => tx[c].kind # "purge"
        PROVE  /\ IdsApart' /\ Forward(c)'
               /\ wh_entity' \subseteq wh_entity /\ disturbed \subseteq disturbed'
    <2>1. IdsApart'
      <3>1. /\ tx[c].kind # "purge" =>
                 /\ tx[c].le.entityId \in PageIds
                 /\ IF tx[c].le.evtClass = "Move" THEN tx[c].le.revisionId \in MoveRevs
                    ELSE tx[c].le.revisionId \in EditRevs
            /\ tx[c].kind = "move" => tx[c].id + 1 \in StubIds
            /\ wh_log \subseteq Entries /\ wh_entity \subseteq Rows
            /\ hand[c].entityId \in PageIds
            /\ hand[c].viaLog => hand[c].revisionId \in EditRevs
            /\ \A y \in entIns[c] : /\ Live(y) => y.entityId \in PageIds
                                    /\ Redirect(y) => y.entityId \in StubIds
        BY NamedIds
      <3>2. wh_log' \subseteq Entries /\ wh_entity' \subseteq Rows
        BY <1>4, <3>1
      <3> QED BY <1>0, <1>4, <3>1, <3>2, OldIds
    <2>2. Forward(c)'
      BY <1>0, <1>4 DEF Forward, Leads
    <2> QED BY <1>4, <2>1, <2>2
  <1>5. CASE IssueClearTags(c)
    <2>1. tx'[c] = [tx[c] EXCEPT !.seen = RowsAt(tx[c].le.path)]
          /\ pc'[c] = "clearing"
          /\ \A d \in Clients \ {c} : tx'[d] = tx[d]
      BY <1>0, <1>5 DEF IssueClearTags, TypeOK
    <2>2. /\ tx'[c].le = tx[c].le /\ tx'[c].kind = tx[c].kind
          /\ tx'[c].id = tx[c].id /\ tx'[c].raced = tx[c].raced
      BY <1>0, <2>1 DEF TypeOK, Operation
    <2> QED BY <1>4, <1>5, <2>1, <2>2 DEF IssueClearTags, tables, history
  <1>6. CASE FinishClearTags(c) \/ IssueExec(c) \/ PurgeRow(c) \/ PurgeLog(c)
    <2>1. pc'[c] \notin {"waiting", "executed"}
      BY <1>0, <1>6 DEF FinishClearTags, IssueExec, PurgeRow, PurgeLog, TypeOK
    <2>2. /\ nextId' = nextId /\ hand' = hand /\ entIns' = entIns /\ tx' = tx
          /\ wh_log' \subseteq wh_log /\ wh_entity' \subseteq wh_entity
          /\ disturbed \subseteq disturbed'
      BY <1>6 DEF FinishClearTags, IssueExec, PurgeRow, PurgeLog, tables,
         pending, history
    <2> QED BY <1>4, <2>1, <2>2
  <1>7. CASE FinishWait(c)
    <2>1. CASE Rollback(c)
      BY <1>1, <2>1 DEF Rollback, tables, history
    <2>2. CASE ~Rollback(c)
      <3>1. /\ nextId' = nextId /\ hand' = hand /\ entIns' = entIns /\ tx' = tx
            /\ wh_log' = wh_log /\ wh_entity' = wh_entity
            /\ disturbed' = disturbed /\ pc[c] = "waiting"
        BY <1>7, <2>2 DEF FinishWait, tables, pending, history
      <3> QED BY <1>0, <1>4, <3>1 DEF Forward
    <2> QED BY <2>1, <2>2
  <1> QED BY <1>2, <1>3, <1>5, <1>6, <1>7 DEF Work

\* Fewer rows and more disturbed paths make no loop.
LEMMA NoNewLoop ==
    ASSUME NoRedirectLoop, wh_entity' \subseteq wh_entity, disturbed \subseteq disturbed'
    PROVE  NoRedirectLoop'
  <1> DEFINE Stubs == {r \in wh_entity : /\ r.stub /\ r.movedTo # NoPath
                                         /\ r.path \notin disturbed}
  <1>1. Stubs' \subseteq Stubs
    OBVIOUS
  <1>2. \A S \in SUBSET Stubs : S # {} => \E r \in S : \A s \in S : s.path # r.movedTo
    BY DEF NoRedirectLoop
  <1>3. \A S \in SUBSET Stubs' : S # {} => \E r \in S : \A s \in S : s.path # r.movedTo
    BY <1>1, <1>2
  <1> HIDE DEF Stubs
  <1> QED BY <1>3 DEF NoRedirectLoop, Stubs

LEMMA CommitStraight ==
    ASSUME Straight, OneHome', NEW c \in Clients, Commit(c)
    PROVE  IdsApart' /\ Forward(c)' /\ NoRedirectLoop'
  <1>0. TypeOK /\ Leads(c) /\ Forward(c) /\ NoRedirectLoop
    BY DEF Straight, Inv, Forward
  <1>1. /\ pc[c] = "executed" /\ nextId' = nextId /\ Reset(c)
        /\ wh_entity' = (wh_entity \ entDel[c]) \cup entIns[c]
        /\ wh_log' \subseteq wh_log \cup {tx[c].le}
        /\ disturbed \subseteq disturbed'
        /\ tx[c].raced => \A p \in {tx[c].le.path, tx[c].le.toPath} \cap Paths : p \in disturbed'
    BY PathsExist DEF Commit, LogAfter
  <1>2. tx[c].le \in Entries
    BY <1>0, <1>1, NamedIds DEF Forward
  <1>3. wh_log' \subseteq Entries /\ wh_entity' \subseteq Rows
    BY <1>1, <1>2, NamedIds
  <1>4. IdsApart' /\ Forward(c)'
    BY <1>1, <1>3, ResetIds
  <1> DEFINE Stubs == {r \in wh_entity : /\ r.stub /\ r.movedTo # NoPath
                                         /\ r.path \notin disturbed}
             NewStubs == {r \in wh_entity' : /\ r.stub /\ r.movedTo # NoPath
                                             /\ r.path \notin disturbed'}
  <1>5. ASSUME NEW S \in SUBSET NewStubs, S # {}
        PROVE  \E r \in S : \A s \in S : s.path # r.movedTo
    <2>1. CASE S \cap entIns[c] # {}
      <3>1. PICK y \in S \cap entIns[c] : TRUE
        BY <2>1
      <3>2. Redirect(y) /\ y.path \in Paths
        BY <1>0, <3>1 DEF Redirect, TypeOK, Row
      <3>3. ~(tx[c].raced /\ y.path \in {tx[c].le.path, tx[c].le.toPath})
        BY <1>1, <3>1, <3>2
      <3>4. PICK z \in entIns[c] : z.path = y.movedTo /\ ~Redirect(z)
        BY <1>0, <3>1, <3>2, <3>3 DEF Leads
      <3>5. \A s \in S : s.path # y.movedTo
        <4> SUFFICES ASSUME NEW s \in S, s.path = y.movedTo PROVE FALSE
          OBVIOUS
        <4>1. s \in wh_entity' /\ z \in wh_entity'
          BY <1>1
        <4>2. s = z
          BY <3>4, <4>1 DEF OneHome
        <4> QED BY <3>4, <4>2 DEF Redirect
      <3> QED BY <3>1, <3>5
    <2>2. CASE S \cap entIns[c] = {}
      <3>1. S \in SUBSET Stubs
        BY <1>1, <2>2
      <3> HIDE DEF Stubs
      <3> QED BY <1>0, <1>5, <3>1 DEF NoRedirectLoop, Stubs
    <2> QED BY <2>1, <2>2
  <1>6. NoRedirectLoop'
    BY <1>5 DEF NoRedirectLoop
  <1> QED BY <1>4, <1>6

LEMMA NextStraight == Straight /\ [Next]_vars => Straight'
  <1> SUFFICES ASSUME Straight, [Next]_vars PROVE Straight'
    OBVIOUS
  <1>1. Inv'
    BY NextApart DEF Straight
  <1>2. CASE UNCHANGED vars \/ Quiet
    <2>1. UNCHANGED <<wh_entity, wh_log, nextId, pc, hand, tx, entIns, disturbed>>
      BY <1>2 DEF Quiet, vars, tables, pending, history
    <2>2. /\ Rows' = Rows /\ Entries' = Entries
      BY <2>1 DEF Rows, Entries
    <2>3. IdsApart'
      <3>1. PageIds' = PageIds
        BY <2>1, <2>2 DEF PageIds, Live
      <3>2. StubIds' = StubIds
        BY <2>1, <2>2 DEF StubIds, Redirect
      <3>3. MoveRevs' = MoveRevs /\ EditRevs' = EditRevs
        BY <2>1, <2>2 DEF MoveRevs, EditRevs
      <3> QED BY <2>1, <3>1, <3>2, <3>3 DEF Straight, IdsApart
    <2> QED BY <1>1, <2>1, <2>3 DEF Straight, Forward, Leads, Redirect, NoRedirectLoop
  <1>3. ASSUME NEW c \in Clients, Request(c) \/ Work(c) \/ Fail(c)
        PROVE  IdsApart' /\ NoRedirectLoop' /\ \A d \in Clients : Forward(d)'
    <2>1. IdsApart' /\ Forward(c)' /\ NoRedirectLoop'
      <3>1. CASE Request(c)
        BY <3>1, RequestIds, NoNewLoop DEF Straight
      <3>2. CASE Commit(c)
        BY <1>1, <3>2, CommitStraight DEF Inv
      <3>3. CASE (Work(c) \/ Fail(c)) /\ ~Commit(c)
        BY <3>3, WorkIds, NoNewLoop DEF Straight
      <3> QED BY <1>3, <3>1, <3>2, <3>3
    <2>2. ASSUME NEW d \in Clients \ {c} PROVE Forward(d)'
      <3>1. pc'[d] = pc[d] /\ tx'[d] = tx[d] /\ entIns'[d] = entIns[d]
        BY <1>3, OthersKeep DEF Straight, Inv
      <3> QED BY <3>1 DEF Straight, Forward, Leads, Redirect
    <2> QED BY <2>1, <2>2
  <1> QED BY <1>1, <1>2, <1>3 DEF Straight, Next

LEMMA InitStraight == Init => Straight
  <1> SUFFICES ASSUME Init PROVE Straight
    OBVIOUS
  <1>1. Inv
    BY InitApart
  <1>2. PICK number \in [Seeded -> 1..Cardinality(Seeded)] :
          /\ wh_entity = {SeedRow(p, number[p]) : p \in Seeded}
          /\ wh_log = {[FirstEntry(p, number[p], "published", Blank)
                         EXCEPT !.evtFinal = TRUE] : p \in Seeded}
    BY DEF Init
  <1>3. Cardinality(Seeded) \in Nat /\ nextId = Cardinality(Seeded) + 1
    BY SeededArePaths, FS_CardinalityType DEF Init
  <1>4. \A p \in Seeded : number[p] \in Nat /\ number[p] < nextId
    BY <1>2, <1>3
  <1>5. \A l \in wh_log : /\ l.entityId \in Nat /\ l.entityId < nextId
                          /\ l.revisionId \in Nat /\ l.revisionId < nextId
                          /\ l.evtClass = "Create"
    BY <1>2, <1>4 DEF FirstEntry
  <1>6. \A c \in Clients : /\ tx[c] = NoOperation /\ hand[c] = NoEntity
                           /\ entIns[c] = {} /\ pc[c] = "idle"
    BY DEF Init
  <1>7. /\ NoOperation.kind = "edit" /\ NoOperation.le.entityId = 0
        /\ NoOperation.le.revisionId = 0 /\ NoOperation.le.evtClass = "Create"
        /\ NoEntity.entityId = 0 /\ NoEntity.revisionId = 0
    BY DEF NoOperation, NoEntry, FirstEntry, NoEntity, FromLog
  <1>8. \A l \in Entries : /\ l.entityId < nextId /\ l.revisionId < nextId
                           /\ l.evtClass = "Create"
    BY <1>3, <1>5, <1>6, <1>7 DEF Entries
  <1>9. \A r \in Rows : r.entityId < nextId /\ ~r.stub
    BY <1>2, <1>4, <1>6 DEF Rows, SeedRow
  <1>10. StubIds = {} /\ MoveRevs = {}
    BY <1>6, <1>7, <1>8, <1>9 DEF StubIds, MoveRevs, Redirect
  <1>11. \A i \in PageIds \cup EditRevs : i < nextId
    <2>1. 0 < nextId
      BY <1>3
    <2> QED BY <1>6, <1>7, <1>8, <1>9, <2>1 DEF PageIds, EditRevs
  <1>12. IdsApart
    BY <1>10, <1>11 DEF IdsApart
  <1>13. \A c \in Clients : Forward(c)
    BY <1>6, <1>7 DEF Forward, Leads
  <1>14. NoRedirectLoop
    BY <1>9 DEF NoRedirectLoop, Rows
  <1> QED BY <1>1, <1>12, <1>13, <1>14 DEF Straight

\* Whoever follows the stubs of moved pages arrives at a page, a deleted page or
\* nothing, never at a stub seen before, whatever moves, creates and deletions
\* interleave; paths a racing Move or a purge has written are excepted.
THEOREM RedirectsEnd == Spec => []NoRedirectLoop
  <1>1. Spec => []Straight
    BY InitStraight, NextStraight, PTL DEF Spec
  <1>2. Straight => NoRedirectLoop
    BY DEF Straight
  <1> QED BY <1>1, <1>2, PTL
=============================================================================
