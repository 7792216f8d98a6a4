----------------------- MODULE EntityUpdates_recorded -----------------------
(* What the other tables say of the pages: every visible page is recorded in *)
(* wh_log, and wh_tag lists its tags.                                        *)
EXTENDS EntityUpdates_proofs

---------------------------------------------------------------------------
(* The log.  wh_entity and wh_log are written by statements of their own, so *)
(* the fact is carried by each open transaction: its log entry says what its *)
(* uncommitted rows say, and the entry it is to overwrite is in the log,     *)
(* unless it was purged meanwhile.                                           *)

\* Revision id has a log entry, or had one until a purge took it away.
Known(id) == id \in defaced \/ \E l \in wh_log : l.revisionId = id

\* Entry l describes row r, entity aside.
Describes(l, r) ==
    /\ l.revisionId = r.revisionId
    /\ l.revisionNum = r.revisionNum
    /\ l.evtFinal
    /\ IF l.evtClass = "Move" THEN l.toPath = r.path
       ELSE l.data = r.data /\ l.path = r.path

\* What client c is to commit, it is to record.
Records(c) ==
    /\ pc[c] \notin {"idle", "loaded"} /\ tx[c].kind # "purge" /\ ~tx[c].insert
         => Known(tx[c].le.revisionId)
    /\ pc[c] \in {"waiting", "executed"} => tx[c].kind # "purge"
    /\ \A r \in entIns[c] : Live(r) =>
         /\ Describes(tx[c].le, r)
         /\ \/ tx[c].le.entityId = r.entityId
            \/ tx[c].raced /\ r.path \in {tx[c].le.path, tx[c].le.toPath}

Recorded ==
    /\ Inv
    /\ Provisional
    /\ \A c \in Clients : Records(c)
    /\ RevisionRecorded

---------------------------------------------------------------------------
\* RevisionRecorded, in the words of this module.
LEMMA RecordedRows ==
    RevisionRecorded <=>
        \A r \in wh_entity : Live(r) /\ r.revisionId \notin defaced =>
            \E l \in wh_log : /\ Describes(l, r)
                              /\ l.entityId = r.entityId \/ r.path \in disturbed
  BY DEF RevisionRecorded, Describes

\* A step that adds to what is known and leaves client d alone.
LEMMA KeepsRecords ==
    ASSUME NEW d, Records(d),
           \A id : Known(id) => Known(id)',
           pc'[d] = pc[d], tx'[d] = tx[d], entIns'[d] = entIns[d]
    PROVE  Records(d)'
  <1>1. Known(tx[d].le.revisionId) => Known(tx[d].le.revisionId)'
    BY DEF Known
  <1> QED BY <1>1 DEF Records, Live, Describes

\* A client that is done has nothing to record.
LEMMA ResetRecords ==
    ASSUME TypeOK, NEW c \in Clients, Reset(c)
    PROVE  Records(c)'
  BY DEF TypeOK, Reset, Records

\* Beginning: an entry to overwrite was read from the log.
LEMMA BeginRecords ==
    ASSUME Inv, NEW c \in Clients, NEW kind, NEW exec, NEW insert \in BOOLEAN,
           NEW ids, NEW le, kind # "purge", pc[c] \in {"idle", "loaded"},
           insert \/ Known(le.revisionId),
           Begin(c, kind, exec, insert, ids, le)
    PROVE  Records(c)' /\ UNCHANGED <<wh_entity, wh_log, disturbed, defaced>>
  <1>1. /\ tx'[c].kind = kind /\ tx'[c].insert = insert /\ tx'[c].le = le
        /\ UNCHANGED <<wh_entity, wh_log, disturbed, defaced>>
    BY DEF Inv, TypeOK, Begin, tables, history
  <1>2. entIns'[c] = {}
    BY NothingPending DEF Begin, pending
  <1>3. Known(le.revisionId) => Known(tx[c].le.revisionId)'
    BY <1>1 DEF Known
  <1> QED BY <1>1, <1>2, <1>3 DEF Records

LEMMA RequestRecords ==
    ASSUME Inv, NEW c \in Clients, Request(c)
    PROVE  Records(c)' /\ UNCHANGED <<wh_entity, wh_log, disturbed, defaced>>
  <1>1. CASE Respond(c)
    BY <1>1, ResetRecords DEF Inv, Respond, tables, history
  <1>2. CASE LoadPage(c) \/ LoadRevision(c)
    <2>1. entIns'[c] = {} /\ pc'[c] = "loaded"
      BY <1>2, NothingPending DEF LoadPage, LoadRevision, pending, Inv, TypeOK
    <2> QED BY <1>2, <2>1 DEF LoadPage, LoadRevision, Records, tables, history
  <1>3. CASE PurgeEntity(c)
    <2>1. entIns'[c] = {} /\ pc'[c] = "cleared" /\ tx'[c].kind = "purge"
      BY <1>3, NothingPending
      DEF PurgeEntity, pending, Inv, TypeOK, NoOperation
    <2> QED BY <1>3, <2>1 DEF PurgeEntity, Records, tables, history
  <1>4. CASE CreateEntity(c) \/ HoldComment(c)
    BY <1>4, BeginRecords
    DEF CreateEntity, HoldComment
  <1>5. CASE UpdateEntity(c)
    <2>1. PICK exec \in BOOLEAN, createNewDraft \in BOOLEAN, ts \in SUBSET Tags,
               old \in wh_log :
            /\ old.revisionId = hand[c].revisionId
            /\ LET toData == [body |-> nextId, tags |-> ts]
               IN  \/ Begin(c, "edit", exec, FALSE, 1,
                            Redrafted(hand[c], old, toData))
                   \/ Begin(c, "edit", exec, TRUE, 1,
                            Revised(hand[c], old, exec, toData))
      BY <1>5 DEF UpdateEntity
    <2>2. Known(hand[c].revisionId)
      BY <2>1 DEF Known
    <2>3. \A toData : Redrafted(hand[c], old, toData).revisionId
                        = hand[c].revisionId
      BY DEF Redrafted, Revised, NextEntry
    <2>4. pc[c] = "loaded"
      BY <1>5 DEF UpdateEntity
    <2> QED BY <2>1, <2>2, <2>3, <2>4, BeginRecords
  <1>6. CASE CommitEntityRev(c) \/ UpdateWorkflow(c)
    <2>1. PICK l \in wh_log, kind \in {"publish", "approve"}, exec \in BOOLEAN,
               w \in Workflow :
            Begin(c, kind, exec, FALSE, 1, [l EXCEPT !.workflow = w])
      <3>1. \A v \in Workflow : PublishDraft(v) \in Workflow
                                /\ ApproveHeld(v) \in Workflow
        BY DEF Workflow, PublishDraft, ApproveHeld
      <3>2. \A l \in wh_log : l.workflow \in Workflow
        BY DEF Inv, TypeOK, LogEntry, LogRow
      <3>3. hand[c].workflow \in Workflow
        BY DEF Inv, TypeOK, Entity
      <3>4. CASE CommitEntityRev(c)
        BY <3>1, <3>2, <3>4 DEF CommitEntityRev
      <3>5. CASE UpdateWorkflow(c)
        BY <3>1, <3>3, <3>5 DEF UpdateWorkflow
      <3> QED BY <1>6, <3>4, <3>5
    <2>2. [l EXCEPT !.workflow = w].revisionId = l.revisionId
      BY DEF Inv, TypeOK, LogEntry, LogRow
    <2>3. pc[c] = "loaded"
      BY <1>6 DEF CommitEntityRev, UpdateWorkflow
    <2>4. Known(l.revisionId)
      BY DEF Known
    <2> QED BY <2>1, <2>2, <2>3, <2>4, BeginRecords
  <1>7. CASE DeleteEntity(c) \/ MoveEntity(c)
    BY <1>7, BeginRecords
    DEF DeleteEntity, MoveEntity
  <1> QED BY <1>1, <1>2, <1>3, <1>4, <1>5, <1>6, <1>7 DEF Request

\* The statement on wh_entity: the log entry describes the rows it writes.
LEMMA WrittenDescribed ==
    ASSUME TypeOK, NEW c \in Clients, NEW r \in Written(c), Live(r)
    PROVE  LET le == [tx[c].le EXCEPT !.evtFinal = TRUE]
           IN  /\ Describes(le, r)
               /\ \/ le.entityId = r.entityId
                  \/ Raced(c) /\ r.path \in {le.path, le.toPath}
  <1>1. tx[c].le \in LogRow
    BY DEF TypeOK, Operation, LogEntry
  <1>2. Found(c) \subseteq Row
    BY DEF TypeOK, Found, Qualified, RowsAt
  <1>3. CASE tx[c].le.evtClass = "Create"
    BY <1>1, <1>3 DEF Written, CreatedRow, Describes, LogRow
  <1>4. CASE tx[c].le.evtClass = "Update"
    BY <1>1, <1>4 DEF Written, UpdatedRows, CreatedRow, Describes, LogRow
  <1>5. CASE tx[c].le.evtClass = "Delete"
    <2>1. PICK s \in Found(c) : r.stub
      BY <1>2, <1>5 DEF Written, DeletedRows, Stamped, Row
    <2> QED BY <2>1 DEF Live
  <1>6. CASE tx[c].le.evtClass = "Move"
    <2>1. MovedStub(c).stub
      BY DEF MovedStub, CreatedRow
    <2>2. PICK s \in Found(c) : r = [Stamped(s, c) EXCEPT !.path = tx[c].le.toPath]
      BY <1>6, <2>1 DEF Written, MovedRows, Live
    <2>3. /\ r.revisionId = tx[c].le.revisionId
          /\ r.revisionNum = tx[c].le.revisionNum
          /\ r.path = tx[c].le.toPath
          /\ r.entityId = s.entityId
      BY <1>2, <2>2 DEF Stamped, Row
    <2>4. s.entityId # tx[c].le.entityId => Raced(c)
      BY <1>6 DEF Raced
    <2> QED BY <1>1, <1>6, <2>3, <2>4 DEF Describes, LogRow
  <1> QED BY <1>1, <1>3, <1>4, <1>5, <1>6 DEF LogRow

LEMMA FinishExecRecords ==
    ASSUME Recorded, NEW c \in Clients, FinishExec(c)
    PROVE  Records(c)' /\ UNCHANGED <<wh_entity, wh_log, disturbed, defaced>>
  <1>0. TypeOK /\ Records(c)
    BY DEF Recorded, Inv
  <1>1. CASE Rollback(c)
    BY <1>0, <1>1, ResetRecords DEF Rollback, tables, history
  <1>2. CASE ~Rollback(c)
    <2>1. /\ pc[c] = "executing" /\ tx[c].kind # "purge"
          /\ entIns' = [entIns EXCEPT ![c] = Written(c)]
          /\ tx' = [tx EXCEPT ![c].le.evtFinal = TRUE, ![c].raced = Raced(c)]
          /\ UNCHANGED <<wh_entity, wh_log, disturbed, defaced>>
      BY <1>2 DEF FinishExec, tables, history
    <2>2. /\ tx'[c].kind = tx[c].kind /\ tx'[c].insert = tx[c].insert
          /\ tx'[c].le = [tx[c].le EXCEPT !.evtFinal = TRUE]
          /\ tx'[c].raced = Raced(c)
          /\ entIns'[c] = Written(c)
      BY <1>0, <2>1 DEF TypeOK, Operation
    <2>3. tx'[c].le.revisionId = tx[c].le.revisionId
      BY <1>0, <2>2 DEF TypeOK, Operation, LogEntry, LogRow
    <2>4. Known(tx[c].le.revisionId) => Known(tx[c].le.revisionId)'
      <3>1. UNCHANGED <<wh_log, defaced>>
        BY <2>1
      <3> QED BY <2>3, <3>1 DEF Known
    <2>5. ASSUME NEW r \in Written(c), Live(r)
          PROVE  /\ Describes(tx'[c].le, r)
                 /\ \/ tx'[c].le.entityId = r.entityId
                    \/ tx'[c].raced /\ r.path \in {tx'[c].le.path, tx'[c].le.toPath}
      BY <1>0, <2>2, <2>5, WrittenDescribed
    <2> QED BY <1>0, <2>1, <2>2, <2>4, <2>5 DEF Records, Live, Describes
  <1> QED BY <1>1, <1>2

---------------------------------------------------------------------------
\* writeLogentry and updateLogentry keep every revision that was in the log.
LEMMA LogAfterKnows ==
    ASSUME NEW c \in Clients, NEW l \in wh_log
    PROVE  \E m \in LogAfter(c) : m.revisionId = l.revisionId
  <1>1. CASE tx[c].insert \/ l.revisionId # tx[c].le.revisionId
    BY <1>1 DEF LogAfter
  <1>2. CASE ~tx[c].insert /\ l.revisionId = tx[c].le.revisionId
    BY <1>2 DEF LogAfter
  <1> QED BY <1>1, <1>2

\* The entry that is written goes into the log, unless a purge was faster.
LEMMA EntryIsWritten ==
    ASSUME NEW c \in Clients, tx[c].insert \/ Known(tx[c].le.revisionId),
           tx[c].le.revisionId \notin defaced
    PROVE  tx[c].le \in LogAfter(c)
  BY DEF LogAfter, Known

LEMMA CommitRecords ==
    ASSUME Recorded, NEW c \in Clients, Commit(c)
    PROVE  RevisionRecorded' /\ \A id : Known(id) => Known(id)'
  <1> DEFINE le == tx[c].le
  <1>0. TypeOK /\ Records(c) /\ ExecOnly(c) /\ RevisionRecorded
    BY DEF Recorded, Inv, Provisional
  <1>1. /\ pc[c] = "executed"
        /\ wh_entity' = (wh_entity \ entDel[c]) \cup entIns[c]
        /\ wh_log' = LogAfter(c)
        /\ disturbed \subseteq disturbed'
        /\ tx[c].raced => \A p \in {le.path, le.toPath} \cap Paths : p \in disturbed'
        /\ defaced' = IF Undoes(c) THEN defaced \cup {le.revisionId} ELSE defaced
    BY PathsExist DEF Commit
  <1>2. \A id : Known(id) => Known(id)'
    BY <1>1, LogAfterKnows DEF Known
  <1>3. tx[c].insert \/ Known(le.revisionId)
    BY <1>0, <1>1 DEF Records
  <1>4. le \in LogRow /\ wh_log \subseteq LogRow /\ entIns[c] \subseteq Row
    BY <1>0 DEF TypeOK, Operation, LogEntry
  <1>5. ASSUME NEW r \in wh_entity', Live(r), r.revisionId \notin defaced'
        PROVE  \E l \in wh_log' : /\ Describes(l, r)
                                  /\ l.entityId = r.entityId \/ r.path \in disturbed'
    <2>1. CASE r \in entIns[c]
      <3>1. /\ Describes(le, r)
            /\ \/ le.entityId = r.entityId
               \/ tx[c].raced /\ r.path \in {le.path, le.toPath}
        BY <1>0, <1>5, <2>1 DEF Records
      <3>2. le \in wh_log'
        BY <1>1, <1>3, <1>5, <3>1, EntryIsWritten DEF Describes
      <3>3. r.path \in Paths
        BY <1>4, <2>1 DEF Row
      <3> QED BY <1>1, <3>1, <3>2, <3>3
    <2>2. CASE r \in wh_entity \ entDel[c]
      <3>1. PICK l \in wh_log : /\ Describes(l, r)
                                /\ l.entityId = r.entityId \/ r.path \in disturbed
        BY <1>0, <1>1, <1>5, <2>2, RecordedRows
      <3>2. CASE tx[c].insert \/ l.revisionId # le.revisionId
        <4>1. l \in wh_log'
          BY <1>1, <3>2 DEF LogAfter
        <4> QED BY <1>1, <3>1, <4>1
      <3>3. CASE ~tx[c].insert /\ l.revisionId = le.revisionId
        <4>1. le.revisionId = r.revisionId /\ l.evtFinal
          BY <3>1, <3>3 DEF Describes
        <4>2. le \in wh_log'
          BY <1>1, <1>3, <1>5, <4>1, EntryIsWritten
        <4>3. ~Undoes(c)
          BY <1>1, <1>5, <4>1
        <4>4. \A s \in entIns[c] : s.revisionId # r.revisionId
          BY <1>1, <2>2, DuplicateFree DEF Recorded, Inv, WritesApart, Clash
        <4>5. le.evtFinal /\ [l EXCEPT !.workflow = le.workflow] = le
          BY <3>3, <4>1, <4>3, <4>4 DEF Undoes
        <4>6. /\ le.revisionNum = l.revisionNum /\ le.evtClass = l.evtClass
              /\ le.toPath = l.toPath /\ le.data = l.data /\ le.path = l.path
              /\ le.entityId = l.entityId
          BY <1>4, <4>5 DEF LogRow
        <4>7. Describes(le, r)
          BY <3>1, <4>1, <4>5, <4>6 DEF Describes
        <4> QED BY <1>1, <3>1, <4>2, <4>6, <4>7
      <3> QED BY <3>2, <3>3
    <2> QED BY <1>1, <2>1, <2>2
  <1>6. RevisionRecorded'
    BY <1>5 DEF RevisionRecorded, Describes, Live
  <1> QED BY <1>2, <1>6

\* What every step but Commit does to the tables, the history and the client
\* that takes it.
LEMMA OtherStepRecords ==
    ASSUME Recorded, NEW c \in Clients, Request(c) \/ Work(c) \/ Fail(c),
           ~Commit(c)
    PROVE  /\ Records(c)'
           /\ RevisionRecorded'
           /\ \A id : Known(id) => Known(id)'
  <1>0. TypeOK /\ Records(c) /\ Inv /\ RevisionRecorded
    BY DEF Recorded, Inv
  <1>1. ASSUME UNCHANGED <<wh_entity, wh_log, disturbed, defaced>>
        PROVE  RevisionRecorded' /\ \A id : Known(id) => Known(id)'
    BY <1>0, <1>1 DEF RevisionRecorded, Known
  <1>2. CASE Request(c)
    BY <1>0, <1>1, <1>2, RequestRecords
  <1>3. CASE Fail(c) \/ LogNotFound(c) \/ DeadlockDetected(c)
    BY <1>0, <1>1, <1>3, ResetRecords
    DEF Fail, LogNotFound, DeadlockDetected, Rollback, tables, history
  <1>4. CASE FinishExec(c)
    BY <1>1, <1>4, FinishExecRecords
  <1>5. CASE FinishWait(c)
    <2>1. CASE Rollback(c)
      BY <1>0, <1>1, <2>1, ResetRecords DEF Rollback, tables, history
    <2>2. CASE ~Rollback(c)
      <3>1. /\ pc[c] = "waiting"
            /\ UNCHANGED <<wh_entity, wh_log, tx, entIns, disturbed, defaced>>
        BY <1>5, <2>2 DEF FinishWait, tables, pending, history
      <3>2. Known(tx[c].le.revisionId) => Known(tx[c].le.revisionId)'
        BY <3>1 DEF Known
      <3>3. Records(c)'
        BY <1>0, <3>1, <3>2 DEF Records, Live, Describes
      <3> QED BY <1>1, <3>1, <3>3
    <2> QED BY <2>1, <2>2
  <1>6. CASE IssueClearTags(c) \/ FinishClearTags(c) \/ IssueExec(c)
    <2>1. /\ pc[c] \in {"begun", "clearing", "cleared"}
          /\ pc'[c] \in {"clearing", "cleared", "executing"}
          /\ tx'[c].kind = tx[c].kind /\ tx'[c].insert = tx[c].insert
          /\ tx'[c].le = tx[c].le
          /\ UNCHANGED <<wh_entity, wh_log, entIns, disturbed, defaced>>
      BY <1>0, <1>6 DEF TypeOK, Operation, IssueClearTags, FinishClearTags,
         IssueExec, tables, pending, history
    <2>2. Known(tx[c].le.revisionId) => Known(tx[c].le.revisionId)'
      BY <2>1 DEF Known
    <2>3. entIns[c] = {}
      BY <1>0, <2>1, NothingPending
    <2>4. Records(c)'
      BY <1>0, <2>1, <2>2, <2>3 DEF Records
    <2> QED BY <1>1, <2>1, <2>4
  <1>7. CASE PurgeRow(c)
    <2>1. /\ pc[c] = "executing" /\ pc'[c] = "purgeLog"
          /\ wh_entity' \subseteq wh_entity /\ disturbed \subseteq disturbed'
          /\ UNCHANGED <<wh_log, tx, entIns, defaced>>
          /\ tx[c].kind = "purge"
      BY <1>0, <1>7 DEF PurgeRow, TypeOK, pending
    <2>2. Records(c)'
      BY <1>0, <2>1, NothingPending DEF Records
    <2>3. RevisionRecorded' /\ \A id : Known(id) => Known(id)'
      BY <1>0, <2>1 DEF RevisionRecorded, Known
    <2> QED BY <2>2, <2>3
  <1>8. CASE PurgeLog(c)
    <2>1. /\ pc[c] = "purgeLog" /\ pc'[c] = "begun"
          /\ wh_log' \subseteq wh_log
          /\ defaced \subseteq defaced'
          /\ \A l \in wh_log \ wh_log' : l.revisionId \in defaced'
          /\ UNCHANGED <<wh_entity, tx, entIns, disturbed>>
      BY <1>0, <1>8 DEF PurgeLog, TypeOK, pending
    <2>2. tx[c].kind = "purge"
      BY <2>1 DEF Recorded, Provisional, ExecOnly
    <2>3. Records(c)'
      BY <1>0, <2>1, <2>2, NothingPending DEF Records
    <2>4. \A id : Known(id) => Known(id)'
      BY <2>1 DEF Known
    <2>5. RevisionRecorded'
      BY <1>0, <2>1 DEF RevisionRecorded
    <2> QED BY <2>3, <2>4, <2>5
  <1>9. CASE PurgeTags(c)
    BY <1>0, <1>1, <1>9, ResetRecords DEF PurgeTags, history
  <1> QED BY <1>2, <1>3, <1>4, <1>5, <1>6, <1>7, <1>8, <1>9 DEF Work

LEMMA NextRecorded == Recorded /\ [Next]_vars => Recorded'
  <1> SUFFICES ASSUME Recorded, [Next]_vars PROVE Recorded'
    OBVIOUS
  <1>1. Inv' /\ Provisional'
    BY NextApart, NextExecOnly DEF Recorded
  <1>2. CASE UNCHANGED vars \/ Quiet
    <2>1. UNCHANGED <<wh_entity, wh_log, pc, tx, entIns, disturbed, defaced>>
      BY <1>2 DEF Quiet, vars, tables, pending, history
    <2> QED BY <1>1, <2>1
            DEF Recorded, Records, Known, Live, Describes, RevisionRecorded
  <1>3. ASSUME NEW c \in Clients, Request(c) \/ Work(c) \/ Fail(c)
        PROVE  RevisionRecorded' /\ \A d \in Clients : Records(d)'
    <2>1. /\ RevisionRecorded'
          /\ Records(c)'
          /\ \A id : Known(id) => Known(id)'
      <3>1. CASE Commit(c)
        BY <3>1, CommitRecords, ResetRecords DEF Commit, Recorded, Inv
      <3>2. CASE ~Commit(c)
        BY <1>3, <3>2, OtherStepRecords
      <3> QED BY <3>1, <3>2
    <2>2. ASSUME NEW d \in Clients \ {c} PROVE Records(d)'
      BY <1>3, <2>1, OthersKeep, KeepsRecords DEF Recorded, Inv
    <2> QED BY <2>1, <2>2
  <1> QED BY <1>1, <1>2, <1>3 DEF Recorded, Next

LEMMA InitRecorded == Init => Recorded
  <1> SUFFICES ASSUME Init PROVE Recorded
    OBVIOUS
  <1>1. Inv /\ Provisional
    BY InitApart, InitTypes DEF Init, Provisional, ExecOnly, Untouched
  <1>2. \A c \in Clients : Records(c)
    BY DEF Init, Records
  <1>3. RevisionRecorded
    <2>1. PICK number \in [Seeded -> 1..Cardinality(Seeded)] :
            /\ wh_entity = {SeedRow(p, number[p]) : p \in Seeded}
            /\ wh_log = {[FirstEntry(p, number[p], "published", Blank)
                           EXCEPT !.evtFinal = TRUE] : p \in Seeded}
      BY DEF Init
    <2>2. ASSUME NEW p \in Seeded
          PROVE  \E l \in wh_log : /\ Describes(l, SeedRow(p, number[p]))
                                   /\ l.entityId = SeedRow(p, number[p]).entityId
      <3> DEFINE l == [FirstEntry(p, number[p], "published", Blank)
                         EXCEPT !.evtFinal = TRUE]
      <3>1. l \in wh_log
        BY <2>1
      <3>2. Describes(l, SeedRow(p, number[p]))
            /\ l.entityId = SeedRow(p, number[p]).entityId
        BY DEF FirstEntry, Describes, SeedRow
      <3> QED BY <3>1, <3>2
    <2> QED BY <2>1, <2>2, RecordedRows
  <1> QED BY <1>1, <1>2, <1>3 DEF Recorded

\* Whatever is created, edited from an old copy, published twice, approved
\* late, moved or purged at once, a visible page is the revision it says it is.
THEOREM PagesAreRecorded == Spec => []RevisionRecorded
  <1>1. Spec => []Recorded
    BY InitRecorded, NextRecorded, PTL DEF Spec
  <1>2. Recorded => RevisionRecorded
    BY DEF Recorded
  <1> QED BY <1>1, <1>2, PTL

---------------------------------------------------------------------------
(* The tag index.  clearTags and writeTags are apart from the statement on *)
(* wh_entity, so that the index fits the page is carried by each open      *)
(* transaction: while the row at its path is the one it saw when it issued *)
(* clearTags, the tags there are those it deleted.  A row that was written *)
(* since is another one, for it bears the number of its operation.         *)

TagsAt(p) == {t \in wh_tag : t.path = p}

\* writeTags writes here.
TagPath(le) == IF le.evtClass = "Move" THEN le.toPath ELSE le.path

\* An operation's number is on no row but those it is about to commit.
Signed(c) ==
    /\ \A r \in tx[c].seen : r.by < nextId
    /\ \A y \in entIns[c] : y.by = tx[c].id /\ tx[c].id # 0
    /\ tx[c].id < nextId
    /\ pc[c] \notin {"idle", "loaded"} /\ tx[c].kind # "purge" => tx[c].id # 0
    /\ tx[c].id # 0 =>
         /\ \A r \in wh_entity : r.by # tx[c].id
         /\ \A d \in Clients : \A r \in tx[d].seen : r.by # tx[c].id
         /\ \A d \in Clients \ {c} : tx[d].id # tx[c].id

\* A deleted page and a Move's stub have no content.
Bare(S) == \A r \in S : r.stub => r.data = Blank

\* The tags that client c deletes are all there are, as long as its row is.
Cleared(c) ==
    LET p == tx[c].le.path
    IN  /\ \A t \in tagDel[c] : t.path = p
        /\ /\ tx[c].seen # {}
           /\ RowsAt(p) = tx[c].seen
           /\ p \notin disturbed
           => TagsAt(p) = tagDel[c]
        /\ tx[c].kind = "purge" /\ pc[c] \in {"purgeLog", "begun", "clearing"}
             => p \in disturbed

\* What the rows it deletes and writes have to do with what it saw and logs.
Exact(t, del, ins) ==
    /\ IF t.le.evtClass = "Create" THEN \A x \in del : x.stub
       ELSE del = t.seen /\ t.seen # {}
    /\ \E y, z \in ins : /\ y.path = t.le.path /\ z.path = TagPath(t.le)
                         /\ t.le.evtClass = "Move" => y # z
    /\ \A y \in ins :
         \/ t.le.evtClass \in {"Delete", "Move"} /\ y.stub /\ y.path = t.le.path
         \/ /\ t.le.evtClass # "Delete" /\ y.path = TagPath(t.le)
            /\ y.data = t.le.data

Settled(c) ==
    pc[c] \in {"waiting", "executed"} /\ tx[c].exec =>
        /\ \A x \in entDel[c] : x.path = tx[c].le.path
        /\ \A y \in entIns[c] : y.path \in {tx[c].le.path, TagPath(tx[c].le)}
        /\ ~tx[c].raced => Exact(tx[c], entDel[c], entIns[c])

AllSigned == (\A r \in wh_entity : r.by < nextId) /\ \A c \in Clients : Signed(c)

Fit(c) == Bare(entIns[c]) /\ Cleared(c) /\ Settled(c)

Indexed ==
    /\ Straight
    /\ Provisional
    /\ AllSigned
    /\ Bare(wh_entity)
    /\ \A c \in Clients : Fit(c)
    /\ IndexExact

\* One path's part of IndexExact.
Fits(p) ==
    /\ {t.tag : t \in TagsAt(p)} = UNION {r.data.tags : r \in {s \in RowsAt(p) : Live(s)}}
    /\ \A t, u \in TagsAt(p) : t.tag = u.tag => t = u

LEMMA FitsEverywhere == IndexExact <=> \A p \in Paths \ disturbed : Fits(p)
  BY DEF IndexExact, Fits, TagsAt

LEMMA FitsAfter == IndexExact' <=> \A p \in Paths \ disturbed' : Fits(p)'
  BY DEF IndexExact, Fits, TagsAt, RowsAt, Live

---------------------------------------------------------------------------
\* A commit leaves each path with the tags of the row it leaves there.
LEMMA CommitFits ==
    ASSUME Indexed, NEW c \in Clients, Commit(c), NEW p \in Paths \ disturbed'
    PROVE  Fits(p)'
  <1> DEFINE le == tx[c].le
  <1>0. /\ TypeOK /\ ExecOnly(c) /\ Settled(c) /\ Cleared(c) /\ Bare(entIns[c])
        /\ OneHome /\ WritesApart /\ le \in LogRow /\ le.data \in Content
        /\ le.evtClass = "Move" => le.toPath \in Paths
        /\ p \in Paths \ disturbed
    BY DEF Indexed, Fit, AllSigned, Straight, Inv, Provisional, TypeOK, Operation, LogEntry,
       LogRow, Commit
  <1>1. /\ pc[c] = "executed"
        /\ wh_entity' = (wh_entity \ entDel[c]) \cup entIns[c]
        /\ wh_tag' = (wh_tag \ tagDel[c]) \cup TagsWritten(c)
        /\ tx[c].raced => p \notin {le.path, le.toPath}
    BY PathsExist DEF Commit
  <1>2. Fits(p)
    BY <1>0, FitsEverywhere DEF Indexed
  <1>3. /\ \A t \in tagDel[c] : t.path = le.path
        /\ \A t \in TagsWritten(c) : t.path = TagPath(le)
    BY <1>0 DEF Cleared, TagsWritten, TagPath
  <1>4. ASSUME \A x \in entDel[c] \cup entIns[c] : x.path # p,
               \A t \in tagDel[c] \cup TagsWritten(c) : t.path # p
        PROVE  Fits(p)'
    <2>1. RowsAt(p)' = RowsAt(p) /\ TagsAt(p)' = TagsAt(p)
      BY <1>1, <1>4 DEF RowsAt, TagsAt
    <2> QED BY <1>2, <2>1 DEF Fits, Live
  <1>5. CASE ~tx[c].exec
    <2>1. TagsWritten(c) = {} /\ Untouched(c)
      BY <1>0, <1>1, <1>5 DEF TagsWritten, ExecOnly
    <2> QED BY <1>4, <2>1 DEF Untouched
  <1>6. CASE tx[c].exec /\ p \notin {le.path, TagPath(le)}
    BY <1>0, <1>1, <1>3, <1>4, <1>6 DEF Settled
  <1>7. CASE tx[c].exec /\ p \in {le.path, TagPath(le)}
    <2>1. ~tx[c].raced
      BY <1>1, <1>7 DEF TagPath
    <2>2. Exact(tx[c], entDel[c], entIns[c]) /\ \A x \in entDel[c] : x.path = le.path
      BY <1>0, <1>1, <1>7, <2>1 DEF Settled
    <2>3. PICK y \in entIns[c], z \in entIns[c] :
            /\ y.path = le.path /\ z.path = TagPath(le)
            /\ le.evtClass = "Move" => y # z
      BY <2>2 DEF Exact
    <2>4. /\ \A r \in entIns[c], s \in wh_entity \ entDel[c] : r.path # s.path
          /\ \A r, s \in entIns[c] : r # s => r.path # s.path
          /\ entDel[c] \subseteq wh_entity
      BY <1>0, <1>1, DuplicateFree DEF WritesApart, Clash
    <2>5. le.evtClass = "Move" => le.path # TagPath(le)
      BY <2>3, <2>4
    <2>6. PICK x \in entIns[c] : x.path = p
      BY <1>7, <2>3
    <2>7. RowsAt(p)' = {x} /\ RowsAt(p) \subseteq entDel[c]
      BY <1>1, <2>4, <2>6 DEF RowsAt
    <2>8. TagsAt(p) \subseteq tagDel[c]
      <3>1. CASE p = le.path /\ le.evtClass # "Create"
        <4>1. entDel[c] = tx[c].seen /\ tx[c].seen # {}
          BY <2>2, <3>1 DEF Exact
        <4>2. RowsAt(p) = tx[c].seen
          BY <2>2, <2>4, <2>7, <3>1, <4>1 DEF RowsAt
        <4> QED BY <1>0, <3>1, <4>1, <4>2 DEF Cleared
      <3>2. CASE p # le.path \/ le.evtClass = "Create"
        <4>1. \A r \in RowsAt(p) : ~Live(r)
          BY <2>2, <2>7, <3>2 DEF Exact, RowsAt, Live
        <4>2. {t.tag : t \in TagsAt(p)} = {}
          BY <1>2, <4>1 DEF Fits
        <4> QED BY <4>2
      <3> QED BY <3>1, <3>2
    <2>9. TagsAt(p)' = {t \in TagsWritten(c) : t.path = p}
      BY <1>1, <2>8 DEF TagsAt
    <2>10. {t.tag : t \in TagsAt(p)'} = IF Live(x) THEN x.data.tags ELSE {}
      <3>1. CASE p = TagPath(le) /\ le.evtClass # "Delete"
        <4>1. x.data = le.data
          BY <2>2, <2>5, <2>6, <3>1 DEF Exact, TagPath
        <4>2. ~Live(x) => x.data.tags = {}
          BY <1>0 DEF Bare, Blank, Live
        <4>3. TagsWritten(c) = {[path |-> p, tag |-> g, by |-> tx[c].id]
                                  : g \in le.data.tags}
          BY <1>7, <3>1 DEF TagsWritten, TagPath
        <4>4. TagsAt(p)' = TagsWritten(c)
          BY <2>9, <4>3
        <4>5. {t.tag : t \in TagsWritten(c)} = le.data.tags
          <5>1. \A t \in TagsWritten(c) : t.tag \in le.data.tags
            BY <4>3
          <5>2. ASSUME NEW g \in le.data.tags
                PROVE  \E t \in TagsWritten(c) : t.tag = g
            <6>1. [path |-> p, tag |-> g, by |-> tx[c].id] \in TagsWritten(c)
              BY <4>3
            <6> QED BY <6>1
          <5> QED BY <5>1, <5>2
        <4> QED BY <4>1, <4>2, <4>4, <4>5
      <3>2. CASE p # TagPath(le) \/ le.evtClass = "Delete"
        <4>1. ~Live(x)
          BY <1>7, <2>2, <2>6, <3>2 DEF Exact, Live
        <4>2. TagsAt(p)' = {}
          BY <1>3, <2>9, <3>2 DEF TagsWritten
        <4> QED BY <4>1, <4>2
      <3> QED BY <3>1, <3>2
    <2>11. UNION {r.data.tags : r \in {s \in RowsAt(p)' : Live(s)}}
             = IF Live(x) THEN x.data.tags ELSE {}
      <3>1. CASE Live(x)
        <4>1. {s \in RowsAt(p)' : Live(s)} = {x}
          BY <2>7, <3>1
        <4> QED BY <3>1, <4>1
      <3>2. CASE ~Live(x)
        <4>1. {s \in RowsAt(p)' : Live(s)} = {}
          BY <2>7, <3>2
        <4> QED BY <3>2, <4>1
      <3> QED BY <3>1, <3>2
    <2>12. \A t, u \in TagsWritten(c) : t.tag = u.tag => t = u
      BY DEF TagsWritten
    <2> QED BY <2>9, <2>10, <2>11, <2>12 DEF Fits, Live
  <1> QED BY <1>5, <1>6, <1>7
\* While a commit leaves the row that client d saw, it leaves the tags there.
LEMMA CommitCleared ==
    ASSUME Indexed, NEW c \in Clients, Commit(c), NEW d \in Clients \ {c}
    PROVE  Cleared(d)'
  <1> DEFINE le == tx[c].le
             p == tx[d].le.path
  <1>0. /\ TypeOK /\ ExecOnly(c) /\ Settled(c) /\ Cleared(c) /\ Cleared(d) /\ Signed(c)
        /\ p \in Paths
    BY DEF Indexed, Fit, AllSigned, Straight, Inv, Provisional, TypeOK, Operation, LogEntry, LogRow
  <1>1. /\ pc[c] = "executed"
        /\ wh_entity' = (wh_entity \ entDel[c]) \cup entIns[c]
        /\ wh_tag' = (wh_tag \ tagDel[c]) \cup TagsWritten(c)
        /\ disturbed \subseteq disturbed'
        /\ tx[c].raced /\ p \notin disturbed' => p \notin {le.path, le.toPath}
        /\ pc'[d] = pc[d] /\ tx'[d] = tx[d] /\ tagDel'[d] = tagDel[d]
    BY <1>0, PathsExist, OthersKeep DEF Commit, Work
  <1>2. /\ \A t \in tagDel[c] : t.path = le.path
        /\ \A t \in TagsWritten(c) : t.path = TagPath(le)
    BY <1>0 DEF Cleared, TagsWritten, TagPath
  <1>3. ASSUME tx[d].seen # {}, RowsAt(p)' = tx[d].seen, p \notin disturbed'
        PROVE  TagsAt(p)' = tagDel[d]
    <2>1. ASSUME \A x \in entDel[c] \cup entIns[c] : x.path # p,
                 \A t \in tagDel[c] \cup TagsWritten(c) : t.path # p
          PROVE  TagsAt(p)' = tagDel[d]
      <3>1. RowsAt(p)' = RowsAt(p) /\ TagsAt(p)' = TagsAt(p)
        BY <1>1, <2>1 DEF RowsAt, TagsAt
      <3> QED BY <1>0, <1>1, <1>3, <3>1 DEF Cleared
    <2>2. CASE ~tx[c].exec
      <3>1. TagsWritten(c) = {} /\ Untouched(c)
        BY <1>0, <1>1, <2>2 DEF TagsWritten, ExecOnly
      <3> QED BY <2>1, <3>1 DEF Untouched
    <2>3. CASE tx[c].exec /\ p \notin {le.path, TagPath(le)}
      BY <1>0, <1>1, <1>2, <2>1, <2>3 DEF Settled
    <2>4. CASE tx[c].exec /\ p \in {le.path, TagPath(le)}
      <3>1. ~tx[c].raced
        BY <1>1, <1>3, <2>4 DEF TagPath
      <3>2. PICK y \in entIns[c] : y.path = p
        BY <1>0, <1>1, <2>4, <3>1 DEF Settled, Exact
      <3>3. y \in tx[d].seen
        BY <1>1, <1>3, <3>2 DEF RowsAt
      <3> QED BY <1>0, <3>2, <3>3 DEF Signed
    <2> QED BY <2>2, <2>3, <2>4
  <1> QED BY <1>0, <1>1, <1>3 DEF Cleared, RowsAt, TagsAt

\* A step that writes no row, tag or history keeps what it leaves alone.
LEMMA TablesKept ==
    ASSUME Indexed, UNCHANGED <<wh_entity, wh_tag, disturbed>>
    PROVE  /\ IndexExact' /\ Bare(wh_entity)'
           /\ \A d \in Clients : pc'[d] = pc[d] /\ tx'[d] = tx[d] /\ tagDel'[d] = tagDel[d]
                => Cleared(d)'
  BY DEF Indexed, Fit, IndexExact, Bare, Cleared, RowsAt, TagsAt, Live

\* Numbers stay apart if a step takes a new one, keeps its own or gives it up.
LEMMA StepSigned ==
    ASSUME Indexed, TypeOK', NEW c \in Clients,
           \A d \in Clients \ {c} : /\ pc'[d] = pc[d] /\ tx'[d] = tx[d]
                                    /\ entIns'[d] = entIns[d],
           \/ tx'[c].id \in {0, tx[c].id} /\ nextId' = nextId
           \/ tx'[c].id = nextId /\ nextId < nextId',
           \A r \in tx'[c].seen : r \in tx[c].seen \cup wh_entity,
           \A r \in wh_entity' \ wh_entity : r \in entIns[c] /\ tx'[c].id = 0,
           \A y \in entIns'[c] : y.by = tx'[c].id /\ tx'[c].id # 0,
           pc'[c] \notin {"idle", "loaded"} /\ tx'[c].kind # "purge" => tx'[c].id # 0
    PROVE  AllSigned'
  <1>1. /\ \A d \in Clients : Signed(d)
        /\ \A r \in wh_entity : r.by < nextId
    BY DEF Indexed, AllSigned
  <1>2. /\ nextId \in Nat /\ nextId' \in Nat
        /\ \A r \in wh_entity : r.by \in Nat
        /\ \A d \in Clients : tx[d].id \in Nat /\ \A r \in tx[d].seen : r.by \in Nat
    <2>1. /\ wh_entity \subseteq Row
          /\ \A d \in Clients : tx[d].id \in Nat /\ tx[d].seen \subseteq Row
          /\ nextId \in Nat /\ nextId' \in Nat
      BY DEF Indexed, Straight, Inv, TypeOK, Operation
    <2>2. \A r \in Row : r.by \in Nat
      BY DEF Row
    <2> QED BY <2>1, <2>2
  <1>3. nextId <= nextId'
    BY <1>2
  <1>4. \A r \in wh_entity' : /\ r \in wh_entity \/ (r.by = tx[c].id /\ tx[c].id # 0 /\ tx'[c].id = 0)
                              /\ r.by \in Nat /\ r.by < nextId
    BY <1>1, <1>2 DEF Signed
  <1>5. \A r \in tx'[c].seen : r.by \in Nat /\ r.by < nextId
    BY <1>1, <1>2 DEF Signed
  <1>6. tx'[c].id \in Nat /\ tx'[c].id < nextId'
    BY <1>1, <1>2, <1>3 DEF Signed
  <1>7. ASSUME NEW d \in Clients, tx'[d].id # 0
        PROVE  /\ \A r \in wh_entity' : r.by # tx'[d].id
               /\ \A e \in Clients : \A r \in tx'[e].seen : r.by # tx'[d].id
               /\ \A e \in Clients \ {d} : tx'[e].id # tx'[d].id
    <2>1. CASE d = c /\ tx'[c].id = nextId /\ nextId < nextId'
      <3>1. \A e \in Clients : \A r \in tx'[e].seen : r.by < nextId
        BY <1>1, <1>5 DEF Signed
      <3>2. \A e \in Clients : tx[e].id < nextId
        BY <1>1 DEF Signed
      <3>3. ~(nextId < nextId)
        BY <1>2
      <3> QED BY <1>4, <2>1, <3>1, <3>2, <3>3
    <2>2. CASE d = c /\ tx'[c].id = tx[c].id
      BY <1>1, <1>4, <1>7, <2>2 DEF Signed
    <2>3. CASE d # c
      <3>1. tx'[d].id = tx[d].id /\ tx[d].id # 0 /\ tx[d].id < nextId
        BY <1>1, <1>7, <2>3 DEF Signed
      <3>2. tx[d].id # nextId
        BY <1>2, <3>1
      <3>3. tx'[c].id # tx[d].id
        BY <1>1, <2>3, <3>1, <3>2 DEF Signed
      <3>4. tx[c].id # 0 => tx[c].id # tx[d].id
        BY <1>1, <2>3 DEF Signed
      <3> QED BY <1>1, <1>4, <2>3, <3>1, <3>3, <3>4 DEF Signed
    <2> QED BY <1>7, <2>1, <2>2, <2>3
  <1>8. ASSUME NEW d \in Clients
        PROVE  /\ \A r \in tx'[d].seen : r.by < nextId'
               /\ \A y \in entIns'[d] : y.by = tx'[d].id /\ tx'[d].id # 0
               /\ tx'[d].id < nextId'
               /\ pc'[d] \notin {"idle", "loaded"} /\ tx'[d].kind # "purge" => tx'[d].id # 0
    <2>1. CASE d = c
      BY <1>2, <1>3, <1>5, <1>6, <2>1
    <2>2. CASE d # c
      <3>1. /\ \A r \in tx[d].seen : r.by < nextId' 
            /\ tx[d].id < nextId'
        BY <1>1, <1>2, <1>3 DEF Signed
      <3> QED BY <1>1, <2>2, <3>1 DEF Signed
    <2> QED BY <2>1, <2>2
  <1>9. \A r \in wh_entity' : r.by < nextId'
    BY <1>2, <1>3, <1>4
  <1> QED BY <1>7, <1>8, <1>9 DEF AllSigned, Signed

LEMMA ResetFits ==
    ASSUME Indexed, TypeOK', NEW c \in Clients, Reset(c), nextId' = nextId,
           \A d \in Clients \ {c} : /\ pc'[d] = pc[d] /\ tx'[d] = tx[d]
                                    /\ entIns'[d] = entIns[d],
           wh_entity' \subseteq wh_entity \cup entIns[c]
    PROVE  AllSigned' /\ Fit(c)'
  <1>1. /\ pc'[c] = "idle" /\ tx'[c] = NoOperation /\ entIns'[c] = {}
        /\ tagDel'[c] = {}
    BY DEF Indexed, Straight, Inv, TypeOK, Reset
  <1>2. NoOperation.id = 0 /\ NoOperation.seen = {} /\ NoOperation.kind = "edit"
    BY DEF NoOperation
  <1>3. AllSigned'
    BY <1>1, <1>2, StepSigned
  <1> QED BY <1>1, <1>2, <1>3 DEF Fit, Bare, Cleared, Settled

\* Most requests start an operation.
LEMMA RequestBegins ==
    ASSUME NEW c \in Clients, Request(c)
    PROVE  \/ LoadPage(c) \/ LoadRevision(c) \/ Respond(c) \/ PurgeEntity(c)
           \/ /\ pc[c] \in {"idle", "loaded"}
              /\ \E kind \in Kinds \ {"purge"}, exec \in BOOLEAN, insert \in BOOLEAN,
                    ids \in {1, 2} :
                    \E le : Begin(c, kind, exec, insert, ids, le)
  <1>1. CASE CreateEntity(c)
    BY <1>1 DEF CreateEntity, Kinds
  <1>2. CASE HoldComment(c)
    BY <1>2 DEF HoldComment, Kinds
  <1>3. CASE UpdateEntity(c)
    BY <1>3 DEF UpdateEntity, Kinds
  <1>4. CASE CommitEntityRev(c)
    BY <1>4 DEF CommitEntityRev, Kinds
  <1>5. CASE UpdateWorkflow(c)
    <2>1. (ApproveHeld(hand[c].workflow) = "published") \in BOOLEAN
      OBVIOUS
    <2> QED BY <1>5, <2>1 DEF UpdateWorkflow, Kinds
  <1>6. CASE DeleteEntity(c)
    BY <1>6 DEF DeleteEntity, Kinds
  <1>7. CASE MoveEntity(c)
    BY <1>7 DEF MoveEntity, Kinds
  <1> QED BY <1>1, <1>2, <1>3, <1>4, <1>5, <1>6, <1>7 DEF Request

LEMMA RequestFits ==
    ASSUME Indexed, TypeOK', NEW c \in Clients, Request(c)
    PROVE  AllSigned' /\ Fit(c)' /\ UNCHANGED <<wh_entity, wh_tag, disturbed>>
  <1>0. /\ TypeOK /\ Inv /\ ExecOnly(c) /\ Fit(c) /\ Signed(c) /\ AllSigned
        /\ nextId \in Nat /\ nextId # 0
    <2>1. nextId \in Nat /\ 0 < nextId
      BY DEF Indexed, Straight, Inv, TypeOK, IdsApart, PageIds
    <2> QED BY <2>1 DEF Indexed, AllSigned, Straight, Inv, Provisional
  <1>1. \A d \in Clients \ {c} : /\ pc'[d] = pc[d] /\ tx'[d] = tx[d]
                                 /\ entIns'[d] = entIns[d]
    BY <1>0, OthersKeep
  <1>2. CASE Respond(c)
    BY <1>1, <1>2, ResetFits DEF Respond, tables, history
  <1>3. CASE LoadPage(c) \/ LoadRevision(c)
    <2>1. /\ UNCHANGED <<wh_entity, wh_tag, disturbed, nextId, tx, entIns, entDel, tagDel>>
          /\ pc'[c] = "loaded"
      BY <1>0, <1>3 DEF LoadPage, LoadRevision, TypeOK, tables, pending, history
    <2>2. AllSigned'
      BY <1>0, <1>1, <2>1, StepSigned DEF Signed
    <2>3. Fit(c)'
      BY <1>0, <2>1 DEF Fit, Bare, Cleared, Settled, RowsAt, TagsAt
    <2> QED BY <2>1, <2>2, <2>3
  <1>4. CASE PurgeEntity(c)
    <2>1. PICK r \in wh_entity :
            tx' = [tx EXCEPT ![c] =
                     [NoOperation EXCEPT
                        !.kind = "purge",
                        !.le = FirstEntry(r.path, r.entityId, "none", Blank)]]
      BY <1>4 DEF PurgeEntity
    <2>2. /\ tx'[c].kind = "purge" /\ tx'[c].id = 0 /\ tx'[c].seen = {}
      BY <1>0, <2>1 DEF TypeOK, NoOperation
    <2>3. /\ UNCHANGED <<wh_entity, wh_tag, disturbed, nextId, entIns, entDel, tagDel>>
          /\ pc'[c] = "cleared" /\ pc[c] = "idle"
      BY <1>0, <1>4 DEF PurgeEntity, TypeOK, tables, pending, history
    <2>4. Untouched(c)
      BY <1>0, <2>3 DEF ExecOnly
    <2>5. AllSigned'
      BY <1>1, <2>2, <2>3, <2>4, StepSigned DEF Untouched
    <2>6. Fit(c)'
      BY <2>2, <2>3, <2>4 DEF Fit, Bare, Cleared, Settled, Untouched
    <2> QED BY <2>3, <2>5, <2>6
  <1>5. ASSUME NEW kind \in Kinds \ {"purge"}, NEW exec \in BOOLEAN,
               NEW insert \in BOOLEAN, NEW ids \in {1, 2}, NEW le,
               Begin(c, kind, exec, insert, ids, le), pc[c] \in {"idle", "loaded"}
        PROVE  AllSigned' /\ Fit(c)' /\ UNCHANGED <<wh_entity, wh_tag, disturbed>>
    <2>1. /\ UNCHANGED <<wh_entity, wh_tag, disturbed, entIns, entDel, tagDel>>
          /\ nextId' = nextId + ids /\ tx'[c].id = nextId /\ tx'[c].seen = {}
          /\ tx'[c].kind = kind /\ tx'[c].exec = exec
          /\ pc'[c] = IF ~exec THEN "executed"
                      ELSE IF kind = "create" THEN "cleared" ELSE "begun"
      BY <1>0, <1>5 DEF Begin, TypeOK, tables, pending, history
    <2>2. Untouched(c)
      BY <1>0, <1>5 DEF ExecOnly
    <2>3. nextId < nextId'
      BY <1>0, <2>1
    <2>4. AllSigned'
      BY <1>0, <1>1, <2>1, <2>2, <2>3, StepSigned DEF Untouched
    <2>5. Fit(c)'
      BY <2>1, <2>2 DEF Fit, Bare, Cleared, Settled, Untouched
    <2> QED BY <2>1, <2>4, <2>5
  <1> QED BY <1>2, <1>3, <1>4, <1>5, RequestBegins

\* The rows a statement writes and takes, when the row it hit is the one seen.
LEMMA WrittenExact ==
    ASSUME Indexed, NEW c \in Clients, tx[c].kind # "purge",
           tx[c].le.evtClass = "Move" /\ ~Raced(c) =>
               \E z \in Written(c) : z.path = tx[c].le.toPath /\ ~Redirect(z)
    PROVE  /\ Bare(Written(c))
           /\ \A x \in Found(c) : x.path = tx[c].le.path
           /\ \A y \in Written(c) : y.path \in {tx[c].le.path, TagPath(tx[c].le)}
           /\ ~Raced(c) => Exact(tx[c], Found(c), Written(c))
           /\ \A y \in Written(c) : y.by = tx[c].id
  <1> DEFINE le == tx[c].le
  <1>0. /\ TypeOK /\ Bare(wh_entity) /\ le \in LogRow
        /\ le.evtClass = "Move" => le.toPath \in Paths
    BY DEF Indexed, Straight, Inv, TypeOK, Operation, LogEntry
  <1>1. /\ Found(c) \subseteq Row
        /\ \A x \in Found(c) : x.path = le.path /\ (x.stub => x.data = Blank)
        /\ le.evtClass = "Create" => \A x \in Found(c) : x.stub
    BY <1>0 DEF Found, Qualified, RowsAt, TypeOK, Bare
  <1>2. ~Raced(c) /\ le.evtClass # "Create" => Found(c) # {} /\ Found(c) = tx[c].seen
    BY DEF Raced
  <1>3. CASE le.evtClass = "Create"
    <2>1. Written(c) = {CreatedRow(c)}
      BY <1>3 DEF Written
    <2>2. /\ CreatedRow(c).path = le.path /\ CreatedRow(c).data = le.data
          /\ ~CreatedRow(c).stub /\ CreatedRow(c).by = tx[c].id
      BY DEF CreatedRow
    <2> QED BY <1>1, <1>3, <2>1, <2>2 DEF Bare, Exact, TagPath
  <1>4. CASE le.evtClass = "Update"
    <2>1. Written(c) = UpdatedRows(c)
      BY <1>4 DEF Written
    <2>2. \A y \in UpdatedRows(c) : /\ y.path = le.path /\ y.data = le.data
                                    /\ ~y.stub /\ y.by = tx[c].id
      BY DEF UpdatedRows, CreatedRow
    <2>3. Found(c) # {} => UpdatedRows(c) # {}
      BY DEF UpdatedRows
    <2> QED BY <1>1, <1>2, <1>4, <2>1, <2>2, <2>3 DEF Bare, Exact, TagPath
  <1>5. CASE le.evtClass = "Delete"
    <2>1. Written(c) = DeletedRows(c)
      BY <1>5 DEF Written
    <2>2. \A y \in DeletedRows(c) : /\ y.path = le.path /\ y.data = Blank
                                    /\ y.stub /\ y.by = tx[c].id
      BY <1>1 DEF DeletedRows, Stamped, Row
    <2>3. Found(c) # {} => DeletedRows(c) # {}
      BY DEF DeletedRows
    <2> QED BY <1>1, <1>2, <1>5, <2>1, <2>2, <2>3 DEF Bare, Exact, TagPath
  <1>6. CASE le.evtClass = "Move"
    <2>1. Written(c) = MovedRows(c) \cup {MovedStub(c)}
      BY <1>6 DEF Written
    <2>2. /\ MovedStub(c).path = le.path /\ MovedStub(c).data = Blank
          /\ MovedStub(c).stub /\ MovedStub(c).by = tx[c].id
          /\ MovedStub(c).movedTo = le.toPath
      BY DEF MovedStub, CreatedRow
    <2>3. ASSUME NEW y \in MovedRows(c)
          PROVE  /\ y.path = le.toPath /\ y.by = tx[c].id
                 /\ y.stub => y.data = Blank
                 /\ ~Raced(c) => y.data = le.data
      <3>1. PICK x \in Found(c) : y = [Stamped(x, c) EXCEPT !.path = le.toPath]
        BY DEF MovedRows
      <3>2. /\ y.path = le.toPath /\ y.by = tx[c].id
            /\ y.stub = x.stub /\ y.data = x.data
        BY <1>1, <3>1 DEF Stamped, Row
      <3>3. ~Raced(c) => x.data = le.data
        BY <1>6 DEF Raced
      <3> QED BY <1>1, <3>2, <3>3
    <2>4. TagPath(le) = le.toPath
      BY <1>6 DEF TagPath
    <2>5. ASSUME ~Raced(c)
          PROVE  \E y, z \in Written(c) : y.path = le.path /\ z.path = le.toPath /\ y # z
      <3>1. PICK z \in Written(c) : z.path = le.toPath /\ ~Redirect(z)
        BY <1>6, <2>5
      <3>2. Redirect(MovedStub(c))
        BY <1>0, <1>6, <2>2, PathsExist DEF Redirect
      <3> QED BY <2>1, <2>2, <3>1, <3>2
    <2>6. ~Raced(c) => Exact(tx[c], Found(c), Written(c))
      BY <1>1, <1>2, <1>6, <2>1, <2>2, <2>3, <2>4, <2>5 DEF Exact
    <2> QED BY <1>1, <2>1, <2>2, <2>3, <2>4, <2>6 DEF Bare
  <1> QED BY <1>0, <1>3, <1>4, <1>5, <1>6 DEF LogRow

LEMMA FinishExecFits ==
    ASSUME Indexed, Straight', NEW c \in Clients, FinishExec(c)
    PROVE  AllSigned' /\ Fit(c)' /\ UNCHANGED <<wh_entity, wh_tag, disturbed>>
  <1>0. /\ TypeOK /\ TypeOK' /\ ExecOnly(c) /\ Fit(c) /\ Signed(c) /\ Leads(c)'
        /\ tx[c] \in Operation /\ tx[c].le \in LogRow
    BY DEF Indexed, AllSigned, Straight, Forward, Inv, Provisional, TypeOK, Operation,
       LogEntry
  <1>1. \A d \in Clients \ {c} : /\ pc'[d] = pc[d] /\ tx'[d] = tx[d]
                                 /\ entIns'[d] = entIns[d]
    BY <1>0, OthersKeep DEF Work
  <1>2. CASE Rollback(c)
    BY <1>0, <1>1, <1>2, ResetFits DEF Rollback, tables, history
  <1>3. CASE ~Rollback(c)
    <2>1. /\ pc[c] = "executing" /\ tx[c].kind # "purge"
          /\ entDel'[c] = Found(c) /\ entIns'[c] = Written(c)
          /\ tx'[c] = [tx[c] EXCEPT !.le = [tx[c].le EXCEPT !.evtFinal = TRUE],
                                    !.raced = Raced(c)]
          /\ pc'[c] \in {"waiting", "executed"}
          /\ UNCHANGED <<wh_entity, wh_tag, disturbed, nextId, tagDel>>
      BY <1>0, <1>3 DEF FinishExec, TypeOK, tables, history
    <2>2. /\ tx'[c].le.evtClass = tx[c].le.evtClass
          /\ tx'[c].le.path = tx[c].le.path /\ tx'[c].le.toPath = tx[c].le.toPath
          /\ tx'[c].le.data = tx[c].le.data
          /\ tx'[c].kind = tx[c].kind /\ tx'[c].id = tx[c].id
          /\ tx'[c].seen = tx[c].seen /\ tx'[c].raced = Raced(c)
      BY <1>0, <2>1 DEF Operation, LogRow
    <2>3. ASSUME tx[c].le.evtClass = "Move", ~Raced(c)
          PROVE  \E z \in Written(c) : z.path = tx[c].le.toPath /\ ~Redirect(z)
      <3>1. tx[c].le.toPath \in Paths
        BY <1>0, <2>3 DEF TypeOK, Operation, LogEntry
      <3>2. Redirect(MovedStub(c)) /\ MovedStub(c).movedTo = tx[c].le.toPath
        BY <3>1, PathsExist DEF MovedStub, CreatedRow, Redirect
      <3>3. MovedStub(c) \in Written(c)
        BY <2>3 DEF Written
      <3>4. \A y \in Written(c) : Redirect(y) =>
              \/ Raced(c)
              \/ \E z \in Written(c) : z.path = y.movedTo /\ ~Redirect(z)
        BY <1>0, <2>1, <2>2 DEF Leads, Redirect
      <3> QED BY <2>3, <3>2, <3>3, <3>4
    <2>4. /\ Bare(Written(c))
          /\ \A x \in Found(c) : x.path = tx[c].le.path
          /\ \A y \in Written(c) : y.path \in {tx[c].le.path, TagPath(tx[c].le)}
          /\ ~Raced(c) => Exact(tx[c], Found(c), Written(c))
          /\ \A y \in Written(c) : y.by = tx[c].id
      BY <2>1, <2>3, WrittenExact
    <2>5. tx[c].id # 0
      BY <1>0, <2>1 DEF Signed
    <2>6. AllSigned'
      <3>1. /\ tx'[c].id = tx[c].id /\ nextId' = nextId
            /\ tx'[c].seen \subseteq tx[c].seen \cup wh_entity
            /\ wh_entity' \ wh_entity = {}
            /\ \A y \in entIns'[c] : y.by = tx'[c].id /\ tx'[c].id # 0
        BY <2>1, <2>2, <2>4, <2>5
      <3> QED BY <1>0, <1>1, <2>2, <2>5, <3>1, StepSigned
    <2>7. Cleared(c)'
      BY <1>0, <2>1, <2>2 DEF Fit, Cleared, RowsAt, TagsAt
    <2>8. Settled(c)'
      <3>1. TagPath(tx'[c].le) = TagPath(tx[c].le)
        BY <2>2 DEF TagPath
      <3>2. ~Raced(c) => Exact(tx'[c], Found(c), Written(c))
        BY <2>2, <2>4, <3>1 DEF Exact
      <3> QED BY <2>1, <2>2, <2>4, <3>1, <3>2 DEF Settled
    <2>9. Bare(entIns[c])'
      BY <2>1, <2>4 DEF Bare
    <2> QED BY <2>1, <2>6, <2>7, <2>8, <2>9 DEF Fit
  <1> QED BY <1>2, <1>3

\* The steps of an operation before and after the one on wh_entity, and the
\* statements of a purge.
LEMMA WorkFits ==
    ASSUME Indexed, Straight', NEW c \in Clients, Work(c) \/ Fail(c), ~Commit(c)
    PROVE  /\ AllSigned' /\ Bare(wh_entity)' /\ IndexExact'
           /\ \A d \in Clients : Fit(d)'
  <1>0. /\ TypeOK /\ TypeOK' /\ Inv /\ ExecOnly(c) /\ Fit(c) /\ Signed(c) /\ AllSigned
        /\ tx[c] \in Operation /\ tx[c].le.path \in Paths /\ IndexExact /\ Bare(wh_entity)
    BY DEF Indexed, AllSigned, Straight, Inv, Provisional, TypeOK, Operation, LogEntry,
       LogRow
  <1>1. \A d \in Clients \ {c} : /\ pc'[d] = pc[d] /\ tx'[d] = tx[d]
                                 /\ tagDel'[d] = tagDel[d] /\ entDel'[d] = entDel[d]
                                 /\ entIns'[d] = entIns[d]
    BY <1>0, OthersKeep
  <1>2. ASSUME NEW d \in Clients \ {c}, Cleared(d)' PROVE Fit(d)'
    BY <1>1, <1>2 DEF Indexed, Fit, Bare, Settled
  <1>3. ASSUME AllSigned', Fit(c)', UNCHANGED <<wh_entity, wh_tag, disturbed>>
        PROVE  /\ AllSigned' /\ Bare(wh_entity)' /\ IndexExact'
               /\ \A d \in Clients : Fit(d)'
    BY <1>1, <1>2, <1>3, TablesKept
  <1>4. CASE Fail(c) \/ LogNotFound(c) \/ DeadlockDetected(c)
    <2>1. /\ Reset(c)
          /\ UNCHANGED <<nextId, wh_entity, wh_tag, disturbed>>
      BY <1>4 DEF Fail, LogNotFound, DeadlockDetected, Rollback, tables, history
    <2> QED BY <1>0, <1>1, <1>3, <2>1, ResetFits
  <1>5. CASE FinishExec(c)
    BY <1>3, <1>5, FinishExecFits
  <1>6. CASE FinishWait(c)
    <2>1. CASE Rollback(c)
      BY <1>0, <1>1, <1>3, <2>1, ResetFits DEF Rollback, tables, history
    <2>2. CASE ~Rollback(c)
      <3>1. /\ pc[c] = "waiting" /\ pc'[c] = "executed"
            /\ UNCHANGED <<wh_entity, wh_tag, disturbed, nextId, tx, tagDel, entDel, entIns>>
        BY <1>0, <1>6, <2>2 DEF FinishWait, TypeOK, tables, pending, history
      <3>2. AllSigned'
        BY <1>0, <1>1, <3>1, StepSigned DEF Signed
      <3>3. Fit(c)'
        BY <1>0, <3>1 DEF Fit, Bare, Cleared, Settled, RowsAt, TagsAt
      <3> QED BY <1>3, <3>1, <3>2, <3>3
    <2> QED BY <2>1, <2>2
  <1>7. CASE IssueClearTags(c)
    <2>1. /\ tx'[c] = [tx[c] EXCEPT !.seen = RowsAt(tx[c].le.path)]
          /\ tagDel'[c] = TagsAt(tx[c].le.path)
          /\ pc[c] = "begun" /\ pc'[c] = "clearing"
          /\ UNCHANGED <<wh_entity, wh_tag, disturbed, nextId, entDel, entIns>>
      BY <1>0, <1>7 DEF IssueClearTags, TypeOK, TagsAt, tables, history
    <2>2. /\ tx'[c].le = tx[c].le /\ tx'[c].kind = tx[c].kind /\ tx'[c].id = tx[c].id
          /\ tx'[c].seen = RowsAt(tx[c].le.path)
      BY <1>0, <2>1 DEF Operation
    <2>3. entIns[c] = {}
      BY <1>0, <2>1, NothingPending
    <2>4. AllSigned'
      BY <1>0, <1>1, <2>1, <2>2, <2>3, StepSigned DEF Signed, RowsAt
    <2>5. Fit(c)'
      BY <1>0, <2>1, <2>2, <2>3 DEF Fit, Bare, Cleared, Settled, RowsAt, TagsAt
    <2> QED BY <1>3, <2>1, <2>4, <2>5
  <1>8. CASE FinishClearTags(c) \/ IssueExec(c)
    <2>1. /\ tagDel'[c] \in {tagDel[c], tagDel[c] \cap wh_tag}
          /\ pc[c] \in {"clearing", "cleared"} /\ pc'[c] \in {"cleared", "executing"}
          /\ UNCHANGED <<wh_entity, wh_tag, disturbed, nextId, tx, entDel, entIns>>
      BY <1>0, <1>8 DEF FinishClearTags, IssueExec, TypeOK, tables, pending, history
    <2>2. AllSigned'
      BY <1>0, <1>1, <2>1, StepSigned DEF Signed
    <2>3. Fit(c)'
      BY <1>0, <2>1 DEF Fit, Bare, Cleared, Settled, RowsAt, TagsAt
    <2> QED BY <1>3, <2>1, <2>2, <2>3
  <1>9. CASE PurgeLog(c)
    <2>1. /\ pc[c] = "purgeLog" /\ pc'[c] = "begun"
          /\ UNCHANGED <<wh_entity, wh_tag, disturbed, nextId, tx, tagDel, entDel, entIns>>
      BY <1>0, <1>9 DEF PurgeLog, TypeOK, pending
    <2>2. tx[c].kind = "purge"
      BY <1>0, <2>1 DEF ExecOnly
    <2>3. AllSigned'
      BY <1>0, <1>1, <2>1, <2>2, StepSigned DEF Signed
    <2>4. Fit(c)'
      BY <1>0, <2>1 DEF Fit, Bare, Cleared, Settled, RowsAt, TagsAt
    <2> QED BY <1>3, <2>1, <2>3, <2>4
  <1>10. CASE PurgeRow(c)
    <2> DEFINE p == tx[c].le.path
    <2>1. /\ pc[c] = "executing" /\ pc'[c] = "purgeLog" /\ tx[c].kind = "purge"
          /\ wh_entity' = wh_entity \ Found(c)
          /\ disturbed' = disturbed \cup {p}
          /\ UNCHANGED <<wh_tag, nextId, tx, tagDel, entDel, entIns>>
      BY <1>0, <1>10 DEF PurgeRow, TypeOK, pending
    <2>2. \A q \in Paths \ {p} : RowsAt(q)' = RowsAt(q)
      BY <2>1 DEF Found, Qualified, RowsAt
    <2>3. AllSigned'
      BY <1>0, <1>1, <2>1, StepSigned DEF Signed
    <2>5. ASSUME NEW d \in Clients PROVE Cleared(d)'
      <3>1. CASE d = c
        BY <1>0, <2>1, <3>1 DEF Fit, Cleared
      <3>2. CASE d # c
        <4>1. Cleared(d)
          BY DEF Indexed, Fit
        <4>2. tx[d].le.path # p =>
                {r \in wh_entity' : r.path = tx[d].le.path}
                  = {r \in wh_entity : r.path = tx[d].le.path}
          BY <2>1 DEF Found, Qualified, RowsAt
        <4> QED BY <1>1, <2>1, <3>2, <4>1, <4>2 DEF Cleared, RowsAt, TagsAt
      <3> QED BY <3>1, <3>2
    <2>6. IndexExact'
      <3> SUFFICES ASSUME NEW q \in Paths \ disturbed' PROVE Fits(q)'
        BY FitsAfter
      <3>1. Fits(q)
        BY <1>0, <2>1, FitsEverywhere
      <3>2. RowsAt(q)' = RowsAt(q) /\ TagsAt(q)' = TagsAt(q)
        BY <2>1, <2>2 DEF TagsAt
      <3> QED BY <3>1, <3>2 DEF Fits, Live
    <2>7. Fit(c)'
      BY <1>0, <2>1, <2>5 DEF Fit, Bare, Settled
    <2>8. Bare(wh_entity)'
      BY <1>0, <2>1 DEF Bare
    <2> QED BY <1>2, <2>3, <2>5, <2>6, <2>7, <2>8
  <1>11. CASE PurgeTags(c)
    <2> DEFINE p == tx[c].le.path
    <2>1. /\ pc[c] = "clearing" /\ tx[c].kind = "purge" /\ Reset(c)
          /\ wh_tag' = wh_tag \ tagDel[c]
          /\ UNCHANGED <<wh_entity, disturbed, nextId>>
      BY <1>11 DEF PurgeTags, history
    <2>2. p \in disturbed /\ \A t \in tagDel[c] : t.path = p
      BY <1>0, <2>1 DEF Fit, Cleared
    <2>3. \A q \in Paths \ disturbed : TagsAt(q)' = TagsAt(q) /\ RowsAt(q)' = RowsAt(q)
      BY <2>1, <2>2 DEF TagsAt, RowsAt
    <2>4. AllSigned' /\ Fit(c)'
      BY <1>0, <1>1, <2>1, ResetFits
    <2>6. ASSUME NEW d \in Clients \ {c} PROVE Cleared(d)'
      <3>1. Cleared(d)
        BY DEF Indexed, Fit
      <3>2. tx[d].le.path \notin disturbed =>
              {t \in wh_tag' : t.path = tx[d].le.path}
                = {t \in wh_tag : t.path = tx[d].le.path}
        BY <2>1, <2>2
      <3> QED BY <1>1, <2>1, <3>1, <3>2 DEF Cleared, RowsAt, TagsAt
    <2>7. IndexExact'
      <3> SUFFICES ASSUME NEW q \in Paths \ disturbed' PROVE Fits(q)'
        BY FitsAfter
      <3>1. Fits(q)
        BY <1>0, <2>1, FitsEverywhere
      <3> QED BY <2>1, <2>3, <3>1 DEF Fits, Live
    <2>8. Bare(wh_entity)'
      BY <1>0, <2>1 DEF Bare
    <2> QED BY <1>2, <2>4, <2>6, <2>7, <2>8
  <1> QED
    BY <1>4, <1>5, <1>6, <1>7, <1>8, <1>9, <1>10, <1>11 DEF Work

LEMMA CommitIndexed ==
    ASSUME Indexed, Straight', NEW c \in Clients, Commit(c)
    PROVE  /\ AllSigned' /\ Bare(wh_entity)' /\ IndexExact'
           /\ \A d \in Clients : Fit(d)'
  <1>0. TypeOK /\ TypeOK' /\ Bare(wh_entity) /\ Bare(entIns[c])
    BY DEF Indexed, Fit, Straight, Inv
  <1>1. \A d \in Clients \ {c} : /\ pc'[d] = pc[d] /\ tx'[d] = tx[d]
                                 /\ entDel'[d] = entDel[d] /\ entIns'[d] = entIns[d]
    BY <1>0, OthersKeep DEF Work
  <1>2. /\ Reset(c) /\ nextId' = nextId
        /\ wh_entity' \subseteq wh_entity \cup entIns[c]
    BY DEF Commit
  <1>3. AllSigned' /\ Fit(c)'
    BY <1>0, <1>1, <1>2, ResetFits
  <1>4. ASSUME NEW d \in Clients \ {c} PROVE Fit(d)'
    BY <1>1, CommitCleared DEF Indexed, Fit, Bare, Settled
  <1>5. Bare(wh_entity)'
    BY <1>0, <1>2 DEF Bare
  <1> QED BY <1>3, <1>4, <1>5, CommitFits, FitsAfter

LEMMA NextIndexed == Indexed /\ [Next]_vars => Indexed'
  <1> SUFFICES ASSUME Indexed, [Next]_vars PROVE Indexed'
    OBVIOUS
  <1>1. Straight' /\ Provisional' /\ TypeOK'
    BY NextStraight, NextExecOnly DEF Indexed, Provisional
  <1>2. CASE UNCHANGED vars \/ Quiet
    <2>1. UNCHANGED <<wh_entity, wh_tag, nextId, pc, tx, tagDel, entDel, entIns, disturbed>>
      BY <1>2 DEF Quiet, vars, tables, pending, history
    <2>2. IndexExact' /\ Bare(wh_entity)' /\ \A d \in Clients : Cleared(d)'
      BY <2>1, TablesKept
    <2> QED BY <1>1, <2>1, <2>2 DEF Indexed, AllSigned, Signed, Fit, Bare, Settled
  <1>3. ASSUME NEW c \in Clients, Request(c) \/ Work(c) \/ Fail(c)
        PROVE  /\ AllSigned' /\ Bare(wh_entity)' /\ IndexExact'
               /\ \A d \in Clients : Fit(d)'
    <2>1. CASE Request(c)
      <3>1. AllSigned' /\ Fit(c)' /\ UNCHANGED <<wh_entity, wh_tag, disturbed>>
        BY <1>1, <2>1, RequestFits
      <3>2. ASSUME NEW d \in Clients \ {c} PROVE Fit(d)'
        <4>1. /\ pc'[d] = pc[d] /\ tx'[d] = tx[d] /\ tagDel'[d] = tagDel[d]
              /\ entDel'[d] = entDel[d] /\ entIns'[d] = entIns[d]
          BY <2>1, OthersKeep DEF Indexed, Provisional
        <4> QED BY <3>1, <4>1, TablesKept DEF Indexed, Fit, Bare, Settled
      <3> QED BY <3>1, <3>2, TablesKept
    <2>2. CASE Commit(c)
      BY <1>1, <2>2, CommitIndexed
    <2>3. CASE (Work(c) \/ Fail(c)) /\ ~Commit(c)
      BY <1>1, <2>3, WorkFits
    <2> QED BY <1>3, <2>1, <2>2, <2>3
  <1> QED BY <1>1, <1>2, <1>3 DEF Indexed, Next

LEMMA InitIndexed == Init => Indexed
  <1> SUFFICES ASSUME Init PROVE Indexed
    OBVIOUS
  <1>1. Straight /\ Provisional
    BY InitStraight, InitTypes DEF Init, Provisional, ExecOnly, Untouched
  <1>2. \A r \in wh_entity : r.by = 0 /\ ~r.stub /\ r.data = Blank
    BY DEF Init, SeedRow
  <1>3. 0 < nextId
    BY SeededArePaths, FS_CardinalityType DEF Init
  <1>4. \A c \in Clients : /\ tx[c] = NoOperation /\ pc[c] = "idle"
                           /\ tagDel[c] = {} /\ entIns[c] = {} /\ entDel[c] = {}
    BY DEF Init
  <1>5. /\ NoOperation.id = 0 /\ NoOperation.seen = {} /\ NoOperation.kind = "edit"
    BY DEF NoOperation
  <1>6. AllSigned /\ Bare(wh_entity)
    BY <1>2, <1>3, <1>4, <1>5 DEF AllSigned, Signed, Bare
  <1>7. \A c \in Clients : Fit(c)
    BY <1>4, <1>5 DEF Fit, Bare, Cleared, Settled
  <1>8. IndexExact
    <2>1. wh_tag = {} /\ Blank.tags = {}
      BY DEF Init, Blank
    <2> QED BY <1>2, <2>1 DEF IndexExact, RowsAt
  <1> QED BY <1>1, <1>6, <1>7, <1>8 DEF Indexed

\* The tag index says what the page says, and nothing where there is no page,
\* whatever operations interleave, except at a path a racing or late operation
\* or a purge has written.
THEOREM IndexFitsPages == Spec => []IndexExact
  <1>1. Spec => []Indexed
    BY InitIndexed, NextIndexed, PTL DEF Spec
  <1>2. Indexed => IndexExact
    BY DEF Indexed
  <1> QED BY <1>1, <1>2, PTL
=============================================================================
