--------------------------- MODULE EntityUpdates ---------------------------
(***************************************************************************)
(* The update operations of rm3 (lib/update/index.js, logentry.js, tags.js) *)
(* over the tables wh_entity, wh_log and wh_tag, run by concurrent clients. *)
(*                                                                         *)
(* A client is one HTTP request or one command-line tool with one database *)
(* connection.  It first loads an entity (lib/middleware/fetch_entity.js)  *)
(* and later runs an operation on the copy it holds; the operation is a    *)
(* sequence of SQL statements between BEGIN and COMMIT at PostgreSQL's     *)
(* default isolation level, READ COMMITTED.  So a statement works on the   *)
(* rows committed when it was issued, waits for the rows other clients     *)
(* have written, and then looks again at the rows it found; hence each     *)
(* statement that can wait is two actions, Issue... and Finish... .        *)
(*                                                                         *)
(* Writes stay in the writer's own sets (entDel, entIns, tagDel) until     *)
(* Commit.  The tag inserts, the log write and COMMIT are one action: what *)
(* the first two write is seen by nobody, and holds up nobody, before it.  *)
(*                                                                         *)
(* A definition that a comment calls a mutant is a plausible mistake in    *)
(* the code of the definition after it, and no part of the specification.  *)
(***************************************************************************)
EXTENDS Naturals, FiniteSets

CONSTANTS
    Clients,    \* requests and tools that use the database
    Paths,      \* ltree paths
    NoPath,     \* "this row redirects nowhere"
    Tags,       \* values of wh_tag (wh_geotag is cleared and written alike)
    Workload,   \* the kinds of request the clients make
    Seeded,     \* paths loaded before traffic starts (rm3admin loadtemplate)
    MaxId       \* bound on the identifiers uuid.v1() hands out

Kinds == {"create", "comment", "edit", "publish", "approve",
          "delete", "move", "purge"}

ASSUME PathsExist == Paths # {} /\ NoPath \notin Paths
ASSUME WorkloadIsKnown == Workload \subseteq Kinds
ASSUME SeededArePaths == Seeded \subseteq Paths /\ IsFiniteSet(Seeded)
ASSUME MaxIdIsNat == MaxId \in Nat

VARIABLES
    wh_entity,  \* the rows of wh_entity
    wh_log,     \* the rows of wh_log
    wh_tag,     \* the rows of wh_tag
    nextId,     \* the next unused identifier
    pc,         \* where each client is
    hand,       \* the entity each client has loaded
    tx,         \* the operation each client runs
    target,     \* rows (by rid) its current entity statement found
    tagDel,     \* tag rows its clearTags found, then deleted
    entDel,     \* entity rows it has replaced or deleted, not committed
    entIns,     \* entity rows it has written, not committed
    disturbed,  \* history: paths a racing or late operation has written
    defaced     \* history: revisions whose log entry was purged or undone

tables == <<wh_entity, wh_log, wh_tag>>
pending == <<target, tagDel, entDel, entIns>>
history == <<disturbed, defaced>>
vars == <<tables, nextId, pc, hand, tx, pending, history>>

---------------------------------------------------------------------------
(* Data.  A page's content is the number of the request that wrote it and  *)
(* its indexed tags; `summary`, `data` and the full text go with the body. *)

Content == [body : Nat, tags : SUBSET Tags]
Blank == [body |-> 0, tags |-> {}]

\* states.publishWorkflow ("none" is its state "uninitialized").  "rejected"
\* is left out: no code in lib/ or bin/ calls publishWorkflow.reject.
Workflow == {"none", "draft", "review", "published"}
PublishDraft(w) == IF w \in {"none", "draft"} THEN "published" ELSE w
ApproveHeld(w) == IF w = "none" THEN "draft"
                  ELSE IF w = "review" THEN "published" ELSE w

\* A row of wh_entity.  rid and by are no columns: rid is the row through all
\* its versions, by the operation that wrote this version (PostgreSQL's xmin).
Row == [rid : Nat, by : Nat, path : Paths, stub : BOOLEAN, entityId : Nat,
        revisionId : Nat, revisionNum : Nat, data : Content,
        movedTo : Paths \cup {NoPath}]

\* A row of wh_log; data is data.toData, or data.fromData for Move and Delete.
LogRow == [path : Paths, entityId : Nat, revisionId : Nat,
           revisionNum : Nat, base : Nat,
           evtClass : {"Create", "Update", "Delete", "Move"},
           evtFinal : BOOLEAN, workflow : Workflow, data : Content,
           toPath : Paths \cup {NoPath}]
LogEntry == {l \in LogRow : l.evtClass = "Move" => l.toPath \in Paths}

TagRow == [path : Paths, tag : Tags, by : Nat]

\* An entity in a client's memory (lib/entity.js); viaLog: it has a curLogRev.
Entity == [path : Paths, entityId : Nat, revisionId : Nat, revisionNum : Nat,
           data : Content, viaLog : BOOLEAN, evtFinal : BOOLEAN,
           workflow : Workflow]

\* A running operation.  insert: writeLogentry, not updateLogentry; seen: the
\* row at its path when clearTags was issued; raced: it did not find that row.
Operation == [kind : Kinds, exec : BOOLEAN, insert : BOOLEAN, id : Nat,
              le : LogEntry, seen : SUBSET Row, raced : BOOLEAN]

Stages == {"idle", "loaded", "begun", "clearing", "cleared", "executing",
           "waiting", "executed", "purgeLog"}

FromRow(r) == [path |-> r.path, entityId |-> r.entityId,
               revisionId |-> r.revisionId, revisionNum |-> r.revisionNum,
               data |-> r.data, viaLog |-> FALSE, evtFinal |-> TRUE,
               workflow |-> "none"]

FromLog(l) == [path |-> l.path, entityId |-> l.entityId,
               revisionId |-> l.revisionId, revisionNum |-> l.revisionNum,
               data |-> l.data, viaLog |-> TRUE, evtFinal |-> l.evtFinal,
               workflow |-> l.workflow]

\* The log entry of a new revision of entity h, as each operation builds it.
NextEntry(h, class, workflow, data, toPath) ==
    [path |-> h.path, entityId |-> h.entityId, revisionId |-> nextId,
     revisionNum |-> h.revisionNum + 1, base |-> h.revisionId,
     evtClass |-> class, evtFinal |-> FALSE, workflow |-> workflow,
     data |-> data, toPath |-> toPath]

FirstEntry(p, id, workflow, data) ==
    [path |-> p, entityId |-> id, revisionId |-> id, revisionNum |-> 1,
     base |-> 0, evtClass |-> "Create", evtFinal |-> FALSE,
     workflow |-> workflow, data |-> data, toPath |-> NoPath]

AnyPath == CHOOSE p \in Paths : TRUE
NoEntry == FirstEntry(AnyPath, 0, "none", Blank)
NoEntity == FromLog(NoEntry)
NoOperation == [kind |-> "edit", exec |-> FALSE, insert |-> FALSE, id |-> 0,
                le |-> NoEntry, seen |-> {}, raced |-> FALSE]

RowsAt(p) == {r \in wh_entity : r.path = p}
Live(r) == ~r.stub

---------------------------------------------------------------------------
(* Initially the seeded pages exist, each with its Create entry.           *)

SeedRow(p, id) ==
    [rid |-> id, by |-> 0, path |-> p, stub |-> FALSE, entityId |-> id,
     revisionId |-> id, revisionNum |-> 1, data |-> Blank,
     movedTo |-> NoPath]

Init ==
    /\ \E number \in [Seeded -> 1..Cardinality(Seeded)] :
         /\ \A p, q \in Seeded : number[p] = number[q] => p = q
         /\ wh_entity = {SeedRow(p, number[p]) : p \in Seeded}
         /\ wh_log = {[FirstEntry(p, number[p], "published", Blank)
                        EXCEPT !.evtFinal = TRUE] : p \in Seeded}
    /\ wh_tag = {}
    /\ nextId = Cardinality(Seeded) + 1
    /\ pc = [c \in Clients |-> "idle"]
    /\ hand = [c \in Clients |-> NoEntity]
    /\ tx = [c \in Clients |-> NoOperation]
    /\ target = [c \in Clients |-> {}]
    /\ tagDel = [c \in Clients |-> {}]
    /\ entDel = [c \in Clients |-> {}]
    /\ entIns = [c \in Clients |-> {}]
    /\ disturbed = {}
    /\ defaced = {}

---------------------------------------------------------------------------
(* Loading an entity                                                       *)

\* entityFromPath without a revisionId; a stub answers with a redirect or 410.
LoadPage(c) ==
    /\ pc[c] = "idle"
    /\ \E r \in wh_entity : Live(r) /\ hand' = [hand EXCEPT ![c] = FromRow(r)]
    /\ pc' = [pc EXCEPT ![c] = "loaded"]
    /\ UNCHANGED <<tables, nextId, tx, pending, history>>

\* entityFromPath with a revisionId.  Entity.fromLog reads data.toData.
LoadRevision(c) ==
    /\ pc[c] = "idle"
    /\ \E l \in wh_log : /\ l.evtClass \in {"Create", "Update"}
                         /\ hand' = [hand EXCEPT ![c] = FromLog(l)]
    /\ pc' = [pc EXCEPT ![c] = "loaded"]
    /\ UNCHANGED <<tables, nextId, tx, pending, history>>

\* The client forgets everything: the request is over.
Reset(c) ==
    /\ pc' = [pc EXCEPT ![c] = "idle"]
    /\ hand' = [hand EXCEPT ![c] = NoEntity]
    /\ tx' = [tx EXCEPT ![c] = NoOperation]
    /\ target' = [target EXCEPT ![c] = {}]
    /\ tagDel' = [tagDel EXCEPT ![c] = {}]
    /\ entDel' = [entDel EXCEPT ![c] = {}]
    /\ entIns' = [entIns EXCEPT ![c] = {}]

\* The request only shows the page, or its body is refused (validateForm).
Respond(c) == pc[c] = "loaded" /\ Reset(c) /\ UNCHANGED <<tables, nextId, history>>

---------------------------------------------------------------------------
(* Starting an operation: BEGIN, readLogentry where the operation has it,  *)
(* and generateLogentry.                                                   *)

\* Mutant: exec is not handed on to clearTags and execLogentry.
BeginExecuting(c, kind, exec, insert, ids, le) ==
    /\ kind \in Workload
    /\ nextId + ids <= MaxId + 1
    /\ nextId' = nextId + ids
    /\ tx' = [tx EXCEPT ![c] = [kind |-> kind, exec |-> exec,
                                insert |-> insert, id |-> nextId, le |-> le,
                                seen |-> {}, raced |-> FALSE]]
    /\ pc' = [pc EXCEPT ![c] = IF kind = "create" THEN "cleared" ELSE "begun"]
    /\ UNCHANGED <<tables, hand, pending, history>>

Begin(c, kind, exec, insert, ids, le) ==
    /\ kind \in Workload
    /\ nextId + ids <= MaxId + 1
    /\ nextId' = nextId + ids
    /\ tx' = [tx EXCEPT ![c] = [kind |-> kind, exec |-> exec,
                                insert |-> insert, id |-> nextId, le |-> le,
                                seen |-> {}, raced |-> FALSE]]
    /\ pc' = [pc EXCEPT ![c] = IF ~exec THEN "executed"
                               ELSE IF kind = "create" THEN "cleared"
                               ELSE "begun"]
    /\ UNCHANGED <<tables, hand, pending, history>>

\* createEntity with a Boolean state (create.html, quickcreate, the tools).
CreateEntity(c) ==
    /\ pc[c] = "idle"
    /\ \E p \in Paths, exec \in BOOLEAN, ts \in SUBSET Tags :
         Begin(c, "create", exec, TRUE, 1,
               FirstEntry(p, nextId, PublishDraft("none"),
                          [body |-> nextId, tags |-> ts]))

\* createEntity with a workflow state: a comment that needs review.
HoldComment(c) ==
    /\ pc[c] = "idle"
    /\ \E p \in Paths, t \in Tags :
         Begin(c, "comment", FALSE, TRUE, 1,
               FirstEntry(p, nextId, "review",
                          [body |-> nextId, tags |-> {t}]))

\* updateEntity's entry for a new revision; an unpublished Create stays one.
Revised(h, old, exec, toData) ==
    NextEntry(h, IF ~old.evtFinal /\ old.evtClass = "Create"
                 THEN "Create" ELSE "Update",
              IF exec THEN PublishDraft("none") ELSE "none", toData, NoPath)

\* Its entry for sameRevision, which overwrites the draft that was loaded.
Redrafted(h, old, toData) ==
    [Revised(h, old, FALSE, toData)
       EXCEPT !.revisionId = h.revisionId, !.revisionNum = h.revisionNum,
              !.base = old.base, !.workflow = old.workflow]

SameRevision(h, exec, createNewDraft) ==
    h.viaLog /\ ~h.evtFinal /\ ~exec /\ ~createNewDraft

\* updateEntity, as the edit handlers call it
UpdateEntity(c) ==
    /\ pc[c] = "loaded"
    /\ \E exec, createNewDraft \in BOOLEAN, ts \in SUBSET Tags,
          old \in wh_log :
         /\ old.revisionId = hand[c].revisionId
         /\ LET toData == [body |-> nextId, tags |-> ts]
            IN  IF SameRevision(hand[c], exec, createNewDraft)
                THEN Begin(c, "edit", exec, FALSE, 1,
                           Redrafted(hand[c], old, toData))
                ELSE Begin(c, "edit", exec, TRUE, 1,
                           Revised(hand[c], old, exec, toData))

\* commitEntityRev of the revision that publish.html names, whatever it is.
CommitEntityRev(c) ==
    /\ pc[c] = "loaded"
    /\ hand[c].viaLog
    /\ \E l \in wh_log :
         /\ l.revisionId = hand[c].revisionId
         /\ Begin(c, "publish", TRUE, FALSE, 1,
                  [l EXCEPT !.workflow = PublishDraft(l.workflow)])

\* moderate.cgi and updateWorkflow: the workflow comes from the loaded copy.
UpdateWorkflow(c) ==
    /\ pc[c] = "loaded"
    /\ hand[c].viaLog
    /\ LET state == ApproveHeld(hand[c].workflow)
       IN  \E l \in wh_log :
             /\ l.revisionId = hand[c].revisionId
             /\ Begin(c, "approve", state = "published", FALSE, 1,
                      [l EXCEPT !.workflow = state])

\* deleteEntity (delete.html, also with a revisionId in its query; rm3rm)
DeleteEntity(c) ==
    /\ pc[c] = "loaded"
    /\ Begin(c, "delete", TRUE, TRUE, 1,
             NextEntry(hand[c], "Delete", "none", hand[c].data, NoPath))

\* moveEntity (rm3mv, which loads the visible page); the entityId and the
\* revisionId of the stub it leaves are the identifier after its own.
MoveEntity(c) ==
    /\ pc[c] = "loaded"
    /\ ~hand[c].viaLog
    /\ \E q \in Paths :
         Begin(c, "move", TRUE, TRUE, 2,
               NextEntry(hand[c], "Move", "none", hand[c].data, q))

\* readLogentry finds no row (update.log_not_found): rollback and give up.
LogNotFound(c) ==
    /\ pc[c] = "loaded"
    /\ \A l \in wh_log : l.revisionId # hand[c].revisionId
    /\ Reset(c)
    /\ UNCHANGED <<tables, nextId, history>>

---------------------------------------------------------------------------
(* clearTags                                                               *)

IssueClearTags(c) ==
    /\ pc[c] = "begun"
    /\ tagDel' = [tagDel EXCEPT ![c] =
                    {t \in wh_tag : t.path = tx[c].le.path}]
    /\ tx' = [tx EXCEPT ![c].seen = RowsAt(tx[c].le.path)]
    /\ pc' = [pc EXCEPT ![c] = "clearing"]
    /\ UNCHANGED <<tables, nextId, hand, target, entDel, entIns, history>>

\* Tag rows another client has deleted, and will delete for good on commit.
\* tagDel of a client that is still "clearing" is what it found, not deleted.
TagLocked(c) ==
    \E d \in Clients \ {c} : pc[d] # "clearing" /\ tagDel[c] \cap tagDel[d] # {}

FinishClearTags(c) ==
    /\ pc[c] = "clearing"
    /\ tx[c].kind # "purge"
    /\ ~TagLocked(c)
    /\ tagDel' = [tagDel EXCEPT ![c] = @ \cap wh_tag]
    /\ pc' = [pc EXCEPT ![c] = "cleared"]
    /\ UNCHANGED <<tables, nextId, hand, tx, target, entDel, entIns, history>>

---------------------------------------------------------------------------
(* execLogentry.  Create first deletes a stub at its path; Update, Delete  *)
(* and Move are UPDATE ... WHERE path, and zero rows are not an error.     *)

\* The rows that satisfy the WHERE of the client's statement.
Qualified(c) == {r \in RowsAt(tx[c].le.path) :
                   tx[c].kind # "purge" /\ tx[c].le.evtClass = "Create" => r.stub}

IssueExec(c) ==
    /\ pc[c] = "cleared"
    /\ target' = [target EXCEPT ![c] = {r.rid : r \in Qualified(c)}]
    /\ pc' = [pc EXCEPT ![c] = "executing"]
    /\ UNCHANGED <<tables, nextId, hand, tx, tagDel, entDel, entIns, history>>

\* A row the statement found is being written by another client.
RowLocked(c) ==
    \E d \in Clients \ {c} : \E r \in entDel[d] : r.rid \in target[c]

\* The rows the statement found, as they are now, if they still qualify.
Found(c) == {r \in Qualified(c) : r.rid \in target[c]}

CreatedRow(c) ==
    LET le == tx[c].le
    IN  [rid |-> tx[c].id, by |-> tx[c].id, path |-> le.path, stub |-> FALSE,
         entityId |-> le.entityId, revisionId |-> le.revisionId,
         revisionNum |-> le.revisionNum, data |-> le.data, movedTo |-> NoPath]

\* Mutant: the UPDATE forgets "revisionNum".
UpdatedRowsOldNum(c) ==
    {[CreatedRow(c) EXCEPT !.rid = r.rid, !.revisionNum = r.revisionNum]
       : r \in Found(c)}

UpdatedRows(c) == {[CreatedRow(c) EXCEPT !.rid = r.rid] : r \in Found(c)}

Stamped(r, c) == [r EXCEPT !.by = tx[c].id,
                           !.revisionId = tx[c].le.revisionId,
                           !.revisionNum = tx[c].le.revisionNum]

\* Mutant: the UPDATE of a Delete also sets path to data.toPath.
DeletedRowsMoved(c) ==
    {[Stamped(r, c) EXCEPT !.stub = TRUE, !.entityId = tx[c].le.entityId,
                           !.data = Blank, !.path = tx[c].le.toPath]
       : r \in Found(c)}

DeletedRows(c) ==
    {[Stamped(r, c) EXCEPT !.stub = TRUE, !.entityId = tx[c].le.entityId,
                           !.data = Blank, !.movedTo = NoPath]
       : r \in Found(c)}

\* Mutant: the UPDATE of a Move forgets "revisionNum".
MovedRowsOldNum(c) ==
    {[r EXCEPT !.by = tx[c].id, !.revisionId = tx[c].le.revisionId,
               !.path = tx[c].le.toPath] : r \in Found(c)}

MovedRows(c) == {[Stamped(r, c) EXCEPT !.path = tx[c].le.toPath] : r \in Found(c)}

\* Mutant: the stub's summary.path is the page's old path.
MovedStubToItself(c) ==
    [CreatedRow(c) EXCEPT !.stub = TRUE, !.entityId = tx[c].id + 1,
                          !.revisionId = tx[c].id + 1, !.data = Blank,
                          !.movedTo = tx[c].le.path]

MovedStub(c) ==
    [CreatedRow(c) EXCEPT !.stub = TRUE, !.entityId = tx[c].id + 1,
                          !.revisionId = tx[c].id + 1, !.data = Blank,
                          !.movedTo = tx[c].le.toPath]

Written(c) == CASE tx[c].le.evtClass = "Create" -> {CreatedRow(c)}
                [] tx[c].le.evtClass = "Update" -> UpdatedRows(c)
                [] tx[c].le.evtClass = "Delete" -> DeletedRows(c)
                [] tx[c].le.evtClass = "Move" -> MovedRows(c) \cup {MovedStub(c)}

\* Mutant: only path is a key.
ClashOnPath(r, s) == r.path = s.path

\* PRIMARY KEY(path), UNIQUE "entityId", UNIQUE "revisionId" of db-schema.sql
Clash(r, s) == \/ r.path = s.path
               \/ r.entityId = s.entityId
               \/ r.revisionId = s.revisionId

\* A unique index waits for the client that is writing the same key ...
Contended(c, new) ==
    \E d \in Clients \ {c} : \E r \in new, s \in entDel[d] \cup entIns[d] :
        Clash(r, s)

\* ... and then fails on a duplicate.
Duplicate(new, old) ==
    \/ \E r \in new, s \in wh_entity \ old : Clash(r, s)
    \/ \E r, s \in new : r # s /\ Clash(r, s)

\* The operation hits a row other than the one its clearTags went with, or
\* none, or a Move writes the tags of a copy that is not the row it moves.
Raced(c) ==
    /\ tx[c].le.evtClass # "Create"
    /\ \/ Found(c) = {}
       \/ Found(c) # tx[c].seen
       \/ /\ tx[c].le.evtClass = "Move"
          /\ \E r \in Found(c) : \/ r.data # tx[c].le.data
                                 \/ r.entityId # tx[c].le.entityId

\* Mutant: the connection goes back to the pool with its transaction open.
RollbackForgotten(c) ==
    /\ pc' = [pc EXCEPT ![c] = "idle"]
    /\ hand' = [hand EXCEPT ![c] = NoEntity]
    /\ tx' = [tx EXCEPT ![c] = NoOperation]
    /\ UNCHANGED <<tables, nextId, pending, history>>

\* A statement fails, or the connection or the process does: ROLLBACK.
Rollback(c) == Reset(c) /\ UNCHANGED <<tables, nextId, history>>

\* Mutant: the error of an INSERT that meets a duplicate is not passed on.
FinishExecNoError(c) ==
    /\ pc[c] = "executing"
    /\ tx[c].kind # "purge"
    /\ ~RowLocked(c)
    /\ Contended(c, Written(c)) \/ ~Duplicate(Written(c), Found(c))
    /\ entDel' = [entDel EXCEPT ![c] = Found(c)]
    /\ entIns' = [entIns EXCEPT ![c] = Written(c)]
    /\ tx' = [tx EXCEPT ![c].le.evtFinal = TRUE, ![c].raced = Raced(c)]
    /\ pc' = [pc EXCEPT ![c] = IF Contended(c, Written(c))
                               THEN "waiting" ELSE "executed"]
    /\ UNCHANGED <<tables, nextId, hand, target, tagDel, history>>

FinishExec(c) ==
    /\ pc[c] = "executing"
    /\ tx[c].kind # "purge"
    /\ ~RowLocked(c)
    /\ \/ /\ Contended(c, Written(c)) \/ ~Duplicate(Written(c), Found(c))
          /\ entDel' = [entDel EXCEPT ![c] = Found(c)]
          /\ entIns' = [entIns EXCEPT ![c] = Written(c)]
          /\ tx' = [tx EXCEPT ![c].le.evtFinal = TRUE, ![c].raced = Raced(c)]
          /\ pc' = [pc EXCEPT ![c] = IF Contended(c, Written(c))
                                     THEN "waiting" ELSE "executed"]
          /\ UNCHANGED <<tables, nextId, hand, target, tagDel, history>>
       \/ /\ ~Contended(c, Written(c))
          /\ Duplicate(Written(c), Found(c))
          /\ Rollback(c)

\* The client the unique index waited for has finished.
FinishWait(c) ==
    /\ pc[c] = "waiting"
    /\ ~Contended(c, entIns[c])
    /\ IF Duplicate(entIns[c], entDel[c])
       THEN Rollback(c)
       ELSE /\ pc' = [pc EXCEPT ![c] = "executed"]
            /\ UNCHANGED <<tables, nextId, hand, tx, pending, history>>

---------------------------------------------------------------------------
(* writeTags, writeLogentry or updateLogentry, COMMIT                      *)

\* Mutant: a Move writes the tags under the old path.
TagsWrittenAtOldPath(c) ==
    LET le == tx[c].le
    IN  IF ~tx[c].exec \/ le.evtClass = "Delete" THEN {}
        ELSE {[path |-> le.path, tag |-> t, by |-> tx[c].id] : t \in le.data.tags}

\* deleteEntity has no writeTags step; a Move writes fromData's tags.
TagsWritten(c) ==
    LET le == tx[c].le
        p == IF le.evtClass = "Move" THEN le.toPath ELSE le.path
    IN  IF ~tx[c].exec \/ le.evtClass = "Delete" THEN {}
        ELSE {[path |-> p, tag |-> t, by |-> tx[c].id] : t \in le.data.tags}

\* updateLogentry is UPDATE ... WHERE "revisionId": no row, no effect.
LogAfter(c) ==
    LET le == tx[c].le
        old == {l \in wh_log : l.revisionId = le.revisionId}
    IN  IF tx[c].insert THEN wh_log \cup {le}
        ELSE (wh_log \ old) \cup (IF old = {} THEN {} ELSE {le})

\* An updateLogentry that takes a final entry back or gives it another content
\* than the page has, or that records as final what was executed on no row.
Undoes(c) ==
    LET le == tx[c].le
    IN  /\ ~tx[c].insert
        /\ \E l \in wh_log :
              /\ l.revisionId = le.revisionId /\ l.evtFinal
              /\ \/ ~le.evtFinal
                 \/ tx[c].exec /\ \A r \in entIns[c] : r.revisionId # le.revisionId
                 \/ ~tx[c].exec /\ [l EXCEPT !.workflow = le.workflow] # le

Commit(c) ==
    /\ pc[c] = "executed"
    /\ wh_entity' = (wh_entity \ entDel[c]) \cup entIns[c]
    /\ wh_tag' = (wh_tag \ tagDel[c]) \cup TagsWritten(c)
    /\ wh_log' = LogAfter(c)
    /\ disturbed' = IF tx[c].raced
                    THEN disturbed \cup ({tx[c].le.path, tx[c].le.toPath}
                                           \ {NoPath})
                    ELSE disturbed
    /\ defaced' = IF Undoes(c) THEN defaced \cup {tx[c].le.revisionId}
                  ELSE defaced
    /\ Reset(c)
    /\ UNCHANGED nextId

Fail(c) == pc[c] \notin {"idle", "loaded"} /\ Rollback(c)

---------------------------------------------------------------------------
(* expungeEntity (rm3rm -E): five statements, each committed on its own.   *)
(* The fifth, on wh_blob, belongs to the blob store.                       *)

PurgeEntity(c) ==
    /\ pc[c] = "idle"
    /\ "purge" \in Workload
    /\ \E r \in wh_entity :
         tx' = [tx EXCEPT ![c] =
                  [NoOperation EXCEPT
                     !.kind = "purge",
                     !.le = FirstEntry(r.path, r.entityId, "none", Blank)]]
    /\ pc' = [pc EXCEPT ![c] = "cleared"]
    /\ UNCHANGED <<tables, nextId, hand, pending, history>>

PurgeRow(c) ==
    /\ pc[c] = "executing"
    /\ tx[c].kind = "purge"
    /\ ~RowLocked(c)
    /\ wh_entity' = wh_entity \ Found(c)
    /\ disturbed' = disturbed \cup {tx[c].le.path}
    /\ pc' = [pc EXCEPT ![c] = "purgeLog"]
    /\ UNCHANGED <<wh_log, wh_tag, nextId, hand, tx, pending, defaced>>

PurgeLog(c) ==
    /\ pc[c] = "purgeLog"
    /\ LET gone == {l \in wh_log : l.path = tx[c].le.path}
       IN  /\ wh_log' = wh_log \ gone
           /\ defaced' = defaced \cup {l.revisionId : l \in gone}
    /\ pc' = [pc EXCEPT ![c] = "begun"]
    /\ UNCHANGED <<wh_entity, wh_tag, nextId, hand, tx, pending, disturbed>>

PurgeTags(c) ==
    /\ pc[c] = "clearing"
    /\ tx[c].kind = "purge"
    /\ ~TagLocked(c)
    /\ wh_tag' = wh_tag \ tagDel[c]
    /\ Reset(c)
    /\ UNCHANGED <<wh_entity, wh_log, nextId, history>>

---------------------------------------------------------------------------
(* Lock waits                                                              *)

\* The client whose transaction c's statement waits for: d.
WaitsFor(c, d) ==
    /\ c # d
    /\ \/ /\ pc[c] = "clearing" /\ pc[d] # "clearing"
          /\ tagDel[c] \cap tagDel[d] # {}
       \/ pc[c] = "executing" /\ \E r \in entDel[d] : r.rid \in target[c]
       \/ /\ pc[c] = "waiting"
          /\ \E r \in entIns[c], s \in entDel[d] \cup entIns[d] : Clash(r, s)

\* PostgreSQL finds clients that wait for each other and makes one of them fail.
DeadlockDetected(c) ==
    /\ \E S \in SUBSET Clients :
         c \in S /\ \A d \in S : \E e \in S : WaitsFor(d, e)
    /\ Rollback(c)

---------------------------------------------------------------------------
Request(c) ==
    \/ LoadPage(c) \/ LoadRevision(c) \/ Respond(c)
    \/ CreateEntity(c) \/ HoldComment(c) \/ UpdateEntity(c)
    \/ CommitEntityRev(c) \/ UpdateWorkflow(c)
    \/ DeleteEntity(c) \/ MoveEntity(c) \/ PurgeEntity(c)

Work(c) ==
    \/ LogNotFound(c)
    \/ IssueClearTags(c) \/ FinishClearTags(c)
    \/ IssueExec(c) \/ FinishExec(c) \/ FinishWait(c) \/ DeadlockDetected(c)
    \/ Commit(c)
    \/ PurgeRow(c) \/ PurgeLog(c) \/ PurgeTags(c)

\* Nobody asks for anything (or nobody can: MaxId is reached).
Quiet == (\A c \in Clients : pc[c] = "idle") /\ UNCHANGED vars

Next == Quiet \/ \E c \in Clients : Request(c) \/ Work(c) \/ Fail(c)

Spec == Init /\ [][Next]_vars

\* PostgreSQL runs the statements it is sent and serves lock waits in turn;
\* a step that stays possible is taken.  Nobody owes the server a request.
FairSpec == Spec /\ \A c \in Clients : WF_vars(Work(c))

---------------------------------------------------------------------------
(* What the operations promise                                             *)

\* Every table, every in-memory entity and every operation has its type.
TypeOK ==
    /\ wh_entity \subseteq Row
    /\ wh_log \subseteq LogEntry
    /\ wh_tag \subseteq TagRow
    /\ nextId \in Nat
    /\ pc \in [Clients -> Stages]
    /\ hand \in [Clients -> Entity]
    /\ tx \in [Clients -> Operation]
    /\ target \in [Clients -> SUBSET Nat]
    /\ tagDel \in [Clients -> SUBSET TagRow]
    /\ entDel \in [Clients -> SUBSET Row]
    /\ entIns \in [Clients -> SUBSET Row]
    /\ disturbed \subseteq Paths
    /\ defaced \subseteq Nat

\* However creates, moves, publications and deletions interleave, one path
\* holds at most one page or stub, and one entity or revision is at one path:
\* the tables never hold two copies of a page (execLogentry's INSERTs and
\* UPDATEs with the keys of wh_entity).
OneHome ==
    \A r, s \in wh_entity :
        r # s => /\ r.path # s.path
                 /\ r.entityId # s.entityId
                 /\ r.revisionId # s.revisionId

\* Isolation: no row is rewritten by two open transactions, none is taken away
\* from under one, and what those past execLogentry will commit collides neither
\* with the table nor with one another, in whatever order they commit.  This is
\* what the row locks and the unique indexes do for statements that were issued
\* before the rows they hit were rewritten.
WritesApart ==
    /\ \A c \in Clients :
         /\ pc[c] \notin {"waiting", "executed"} => entDel[c] = {} /\ entIns[c] = {}
         /\ entDel[c] \subseteq wh_entity
         /\ pc[c] = "executed" => ~Duplicate(entIns[c], entDel[c])
    /\ \A c, d \in Clients : c # d =>
         /\ entDel[c] \cap entDel[d] = {}
         /\ pc[c] = "executed" /\ pc[d] = "executed" =>
              \A r \in entIns[c], s \in entIns[d] : ~Clash(r, s)

\* A visible page is the revision it says it is: wh_log has that revision, as
\* final, with that number, and it says the page's content or, for a Move, that
\* the page was brought here; the entry is of the same entity, too, unless a
\* Move raced.  (Nothing is said of entries purged or taken back.)  wh_entity
\* and wh_log are written by different statements, from data read at different
\* times: exec of an old draft, sameRevision, updateLogentry of a stale copy.
RevisionRecorded ==
    \A r \in wh_entity :
        Live(r) /\ r.revisionId \notin defaced =>
            \E l \in wh_log :
                /\ l.revisionId = r.revisionId
                /\ l.revisionNum = r.revisionNum
                /\ l.evtFinal
                /\ IF l.evtClass = "Move" THEN l.toPath = r.path
                   ELSE l.data = r.data /\ l.path = r.path
                /\ l.entityId = r.entityId \/ r.path \in disturbed

\* The tag index says of a path exactly what the visible page there says, once,
\* and nothing where there is no page, as long as no operation raced another
\* one at that path or came too late (clearTags and writeTags are statements
\* of their own, before and after the one on wh_entity).
IndexExact ==
    \A p \in Paths \ disturbed :
        /\ {t.tag : t \in {x \in wh_tag : x.path = p}}
             = UNION {r.data.tags : r \in {s \in RowsAt(p) : Live(s)}}
        /\ \A t, u \in wh_tag : t.path = p /\ u.path = p /\ t.tag = u.tag => t = u

\* Whoever follows the redirects of moved pages arrives somewhere: moves and
\* new pages on old stubs never build a loop of stubs, except through a path
\* where a purge took the row away from under a Move, which still leaves a stub.
NoRedirectLoop ==
    LET stubs == {r \in wh_entity : /\ r.stub /\ r.movedTo # NoPath
                                    /\ r.path \notin disturbed}
    IN  \A S \in SUBSET stubs :
            S # {} => \E r \in S : \A s \in S : s.path # r.movedTo

\* No operation waits for ever and no two wait for each other, whatever rows
\* they share: every operation that starts ends.
OperationsEnd ==
    \A c \in Clients : pc[c] \notin {"idle", "loaded"} ~> pc[c] = "idle"

\* A provisional save changes neither what visitors see nor the tag index,
\* whoever else writes the page in between (exec = false).
DraftsAreInvisible ==
    [][\A c \in Clients :
         pc[c] = "executed" /\ ~tx[c].exec /\ pc'[c] = "idle"
           => UNCHANGED <<wh_entity, wh_tag>>]_vars

\* Whatever the clients' statements and lock waits do, visitors see a store in
\* which every operation happens at once: a page is published, retired, moved
\* with a stub left behind, or purged, and nothing else changes (execLogentry
\* and commit; the abstract specification is PageStore).
Store == INSTANCE PageStore WITH pages <- wh_entity, Nowhere <- NoPath

PagesChangeAtOnce == Store!Spec

---------------------------------------------------------------------------
(* What the documentation says and the operations do not keep              *)

\* "It starts with the first commit, goes up to the present, and then contains
\* any draft versions ... into the future" (docs/thinking_in_rm3.md): the
\* visible revision is the last of its entity's final revisions.
PresentIsLatestFinal ==
    \A r \in wh_entity : \A l \in wh_log :
        Live(r) /\ l.evtFinal /\ l.entityId = r.entityId
          => l.revisionNum <= r.revisionNum

\* "every entity on the site has a history" (README.md): the visible revision
\* of a page is in the log.
LiveHasHistory ==
    \A r \in wh_entity : Live(r) => \E l \in wh_log : l.revisionId = r.revisionId

\* "history going back in time" (docs/thinking_in_rm3.md): a final entry stays
\* final and keeps its content.
HistoryIsKept ==
    [][\A l \in wh_log : \A m \in wh_log' :
         l.evtFinal /\ m.revisionId = l.revisionId
           => m.evtFinal /\ m.data = l.data]_vars

=============================================================================
