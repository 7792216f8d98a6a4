------------------------------- MODULE Backups -------------------------------
(***************************************************************************)
(* Semantic backups: bin/rm3backup copies a site that is in use into a     *)
(* directory, page by page (lib/dumpentity.js), then its permissions and   *)
(* credentials, and last catalog.json; bin/rm3load -d (lib/loaddump.js,    *)
(* lib/loadtemplate.js) makes another site from the directory, with        *)
(* everything of one kind at the same time.  The backup is many            *)
(* transactions, so the site changes under it; the load exits at the first *)
(* error, whatever else is on its way.                                     *)
(*                                                                         *)
(* Pages are photos, with one picture per revision, and accounts, with a   *)
(* credential each.  The history in the dump is left out: rm3load never    *)
(* loads it (its option nohistory is true unless given, and then too).     *)
(*                                                                         *)
(* A definition that a comment calls a mutant is a plausible mistake in    *)
(* the code of the definition after it, and no part of the specification.  *)
(***************************************************************************)
EXTENDS Naturals, FiniteSets, Sequences, SequencesExt

CONSTANTS
    Photos,      \* paths of photographs
    Accounts,    \* paths of users
    Records,     \* rows of the role tables, [type : {"permit", "assign"}, ...]
    NewPermits,  \* permissions that the new site may hold
    Concurrency, \* pages dumped at a time, rm3backup -c
    Existing,    \* what the new site may hold before the load
    MaxRev,      \* bound on the revisions of a page
    MaxFaults    \* bound on failing queries and file operations

Paths == Photos \cup Accounts
None == "none"

ASSUME KindsDiffer == Photos \cap Accounts = {}
ASSUME RecordsHaveTypes == \A r \in Records : r.type \in {"permit", "assign"}
ASSUME PermitsArePermits == \A r \in NewPermits : r.type = "permit"
ASSUME RecordsAreFinite == IsFiniteSet(Records)
ASSUME ConcurrencyIsPositive == Concurrency \in Nat \ {0}
ASSUME BoundsAreNat == MaxRev \in Nat \ {0} /\ MaxFaults \in Nat

VARIABLES
    site,     \* wh_entity of the old site
    pictures, \* its source blobs, <<path, revision>>
    creds,    \* the accounts that have a credential
    backup,   \* what rm3backup does
    dumping,  \* the pages it dumps now, with what it knows of each
    dir,      \* the directory
    load,     \* what rm3load does
    loading,  \* per page of the catalog, how far it is
    new,      \* the new site
    faults,   \* number of failures so far
    after,    \* history: accounts that got a credential after the scan
    unread    \* history: pictures that rm3backup failed to read

source == <<site, pictures, creds, after>>
vars == <<site, pictures, creds, backup, dumping, dir, load, loading, new, faults, after, unread>>

---------------------------------------------------------------------------
(* Data. *)

\* rev: the last revision that was made here, ids are never used again.
Page == [rev : 0..MaxRev, row : {None, "live", "stub"}]
NoPage == [rev |-> 0, row |-> None]
Live(p) == site[p].row = "live"

Picture == Paths \X (1..MaxRev)

\* had: history, whether the revision had its picture when its row was read.
\* junk: those of its pictures whose file says "undefined".
Dump == [rev : 1..MaxRev, had : BOOLEAN, pics : SUBSET Picture, junk : SUBSET Picture]

EmptyDir == [pages |-> <<>>, records |-> <<>>, creds |-> {}, catalog |-> FALSE]

\* The tables of a site that is set up, or that a load has left off in: pages,
\* blobs, with their page or without, permissions, and the keys of credentials.
\* Such a key is a name or an address, and so another account may have it.
Tables == [pages : SUBSET Paths, pics : SUBSET Picture,
           records : SUBSET NewPermits, creds : SUBSET Accounts]

Nothing == [pages |-> {}, pics |-> {}, records |-> {}, creds |-> {}]

ASSUME ExistingAreTables == Existing \subseteq Tables

\* old: history, what it held before the load.
SiteWith(old) == [pages |-> old.pages \X {1}, pics |-> old.pics, jobs |-> {},
                  records |-> old.records, creds |-> old.creds, old |-> old]

Fault == faults < MaxFaults /\ faults' = faults + 1

---------------------------------------------------------------------------
(* The old site, in use. *)

Use == UNCHANGED <<backup, dumping, dir, load, loading, new, faults, unread>>

\* A page is made, over a stub too, or edited.  What belongs to it follows in
\* a step of its own.
Save(p) ==
    /\ site[p].rev < MaxRev
    /\ site' = [site EXCEPT ![p] = [rev |-> @.rev + 1, row |-> "live"]]
    /\ creds' = IF site[p].row = "stub" THEN creds \ {p} ELSE creds
    /\ UNCHANGED <<pictures, after>> /\ Use

\* addBlob, for the revision that was made last.
Upload(p) ==
    /\ p \in Photos /\ Live(p)
    /\ <<p, site[p].rev>> \notin pictures
    /\ pictures' = pictures \cup {<<p, site[p].rev>>}
    /\ UNCHANGED <<site, creds, after>> /\ Use

\* createCredential.
AddCredential(p) ==
    /\ p \in Accounts /\ Live(p) /\ p \notin creds
    /\ creds' = creds \cup {p}
    /\ after' = IF backup.at = "idle" THEN after ELSE after \cup {p}
    /\ UNCHANGED <<site, pictures>> /\ Use

Delete(p) ==
    /\ Live(p)
    /\ site' = [site EXCEPT ![p].row = "stub"]
    /\ UNCHANGED <<pictures, creds, after>> /\ Use

\* rm3rm -E.
Purge(p) ==
    /\ site[p].row # None
    /\ site' = [site EXCEPT ![p].row = None]
    /\ pictures' = {x \in pictures : x[1] # p}
    /\ creds' = creds \ {p}
    /\ UNCHANGED after /\ Use

---------------------------------------------------------------------------
(* rm3backup. *)

BackingUp == UNCHANGED <<source, load, loading, new>>
Dumping == UNCHANGED <<faults, unread>> /\ BackingUp
Exit == backup' = [backup EXCEPT !.at = "failed"] /\ dumping' = <<>>

\* sequentialEntityScan: the paths of every row, stubs included.
Scan ==
    /\ backup.at = "idle"
    /\ backup' = [at |-> "pages", todo |-> {p \in Paths : site[p].row # None}]
    /\ UNCHANGED <<dumping, dir>> /\ Dumping

\* What is known of a page whose row has been read: blobs are not yet listed.
RowRead(p) == [at |-> "blobs", rev |-> site[p].rev, had |-> <<p, site[p].rev>> \in pictures,
               pics |-> {}, todo |-> {}, junk |-> {}]

Advance(p, d) == dumping' = [q \in DOMAIN dumping \cup {p} |-> IF q = p THEN d ELSE dumping[q]]

\* Mutant: the blobs are listed before the row is read.
ReadRowLast(p) ==
    /\ backup.at = "pages" /\ p \in backup.todo
    /\ Cardinality(DOMAIN dumping) < Concurrency /\ Live(p)
    /\ \/ /\ p \notin DOMAIN dumping
          /\ Advance(p, [RowRead(p) EXCEPT !.at = "first", !.pics = {x \in pictures : x[1] = p}])
          /\ UNCHANGED backup
       \/ /\ p \in DOMAIN dumping
          /\ Advance(p, [RowRead(p) EXCEPT !.at = "copy", !.pics = dumping[p].pics,
                                            !.todo = dumping[p].pics])
          /\ backup' = [backup EXCEPT !.todo = @ \ {p}]
    /\ UNCHANGED dir /\ Dumping

\* entityFromPath in dumpEntity.
ReadRow(p) ==
    /\ backup.at = "pages" /\ p \in backup.todo
    /\ Cardinality(DOMAIN dumping) < Concurrency /\ Live(p)
    /\ Advance(p, RowRead(p))
    /\ backup' = [backup EXCEPT !.todo = @ \ {p}]
    /\ UNCHANGED dir /\ Dumping

\* Mutant: the error is ignored, and an empty page dumped.
MissRowQuietly(p) ==
    /\ backup.at = "pages" /\ p \in backup.todo
    /\ Cardinality(DOMAIN dumping) < Concurrency /\ ~Live(p)
    /\ Advance(p, [RowRead(p) EXCEPT !.rev = 0, !.had = FALSE])
    /\ backup' = [backup EXCEPT !.todo = @ \ {p}]
    /\ UNCHANGED dir /\ Dumping

\* A page without a row is an error.  A stub has no toRec, which throws.
MissRow(p) ==
    /\ backup.at = "pages" /\ p \in backup.todo
    /\ Cardinality(DOMAIN dumping) < Concurrency /\ ~Live(p)
    /\ Exit
    /\ UNCHANGED dir /\ Dumping

\* query.listBlobs with sourceOnly: the uploads of every revision.
SourceBlobs(p) == {x \in pictures : x[1] = p}

\* queryBlobs, after the history.
ListBlobs(p) ==
    /\ p \in DOMAIN dumping /\ dumping[p].at = "blobs"
    /\ Advance(p, [dumping[p] EXCEPT !.at = "copy", !.pics = SourceBlobs(p), !.todo = SourceBlobs(p)])
    /\ UNCHANGED <<backup, dir>> /\ Dumping

\* What writeFile is given when getBlob has failed is undefined.
Write(p, x, junk) ==
    /\ p \in DOMAIN dumping /\ x \in dumping[p].todo
    /\ Advance(p, [dumping[p] EXCEPT !.todo = @ \ {x}, !.junk = @ \cup junk])
    /\ UNCHANGED <<backup, dir>> /\ BackingUp

\* writeBlobs, every blob by itself: the row of its blob may have been purged
\* since, its file is always there (expunge leaves it).
CopyBlob(p, x) == Write(p, x, {x} \ pictures) /\ UNCHANGED <<faults, unread>>

\* findBlob or readFile fails, and writeBlobs does not look at the error.
MisreadBlob(p, x) ==
    /\ x \in pictures /\ Write(p, x, {x})
    /\ Fault /\ unread' = unread \cup {x}

\* writeNodeToFile, and the entry in the catalog.
WriteDump(p) ==
    /\ p \in DOMAIN dumping /\ dumping[p].at = "copy" /\ dumping[p].todo = {}
    /\ dir' = [dir EXCEPT !.pages =
                 [q \in DOMAIN dir.pages \cup {p} |->
                     IF q = p THEN [rev |-> dumping[p].rev, had |-> dumping[p].had,
                                    pics |-> dumping[p].pics, junk |-> dumping[p].junk]
                     ELSE dir.pages[q]]]
    /\ dumping' = [q \in DOMAIN dumping \ {p} |-> dumping[q]]
    /\ UNCHANGED backup /\ Dumping

\* The roles are those that have a permission.
ListRoles == {r.role : r \in {x \in Records : x.type = "permit"}}
PermissionsIn(role) == {r \in Records : r.type = "permit" /\ r.role = role}
UsersIn(role) == {r \in Records : r.type = "assign" /\ r.role = role}

\* fetchPermissions: those of every role.
FetchedPermissions == UNION {PermissionsIn(role) : role \in ListRoles}

\* fetchAssignments: the users of the first role, for the callback of the loop
\* over the roles is never called, only that of the series around it.
FetchedAssignments == IF ListRoles = {} THEN {{}} ELSE {UsersIn(role) : role \in ListRoles}

WriteRecords ==
    /\ backup.at = "pages" /\ backup.todo = {} /\ dumping = <<>>
    /\ \E users \in FetchedAssignments :
          dir' = [dir EXCEPT !.records = SetToSeq(FetchedPermissions) \o SetToSeq(users)]
    /\ backup' = [backup EXCEPT !.at = "credentials"]
    /\ UNCHANGED dumping /\ Dumping

\* query.listCredentials: one query, whenever it comes.
ListCredentials == creds

WriteCredentials ==
    /\ backup.at = "credentials"
    /\ dir' = [dir EXCEPT !.creds = ListCredentials]
    /\ backup' = [backup EXCEPT !.at = "catalog"]
    /\ UNCHANGED dumping /\ Dumping

WriteCatalog ==
    /\ backup.at = "catalog"
    /\ dir' = [dir EXCEPT !.catalog = TRUE]
    /\ backup' = [backup EXCEPT !.at = "done"]
    /\ UNCHANGED dumping /\ Dumping

\* Any other query or file operation of rm3backup fails.  An error is passed on to
\* the end; that of writeNodeToFile calls writeBlobs again, whose second call of
\* next async answers by an exception.
BackupFails ==
    /\ backup.at \notin {"idle", "done", "failed"}
    /\ Fault /\ Exit
    /\ UNCHANGED <<dir, unread>> /\ BackingUp

---------------------------------------------------------------------------
(* rm3load -d. *)

Loading == UNCHANGED <<source, backup, dumping, dir, unread>>
Catalog == DOMAIN dir.pages

\* loadFromCatalog reads catalog.json, into whatever site there is.
StartLoad ==
    /\ load.at = "idle" /\ dir.catalog
    /\ load' = [at |-> "pages", next |-> 1, creds |-> {}]
    /\ loading' = [p \in Catalog |-> [todo |-> dir.pages[p].pics, made |-> FALSE]]
    /\ \E old \in Existing : new' = SiteWith(old)
    /\ UNCHANGED faults /\ Loading

\* loadBlobs: the blobs of a page, in any order, and whatever their files hold.
LoadBlob(p, x) ==
    /\ load.at = "pages" /\ x \in loading[p].todo
    /\ x \notin new.pics
    /\ new' = [new EXCEPT !.pics = @ \cup {x}]
    /\ loading' = [loading EXCEPT ![p].todo = @ \ {x}]
    /\ UNCHANGED <<load, faults>> /\ Loading

\* Mutant: a job for the revision of the page and no other.
OwnRevision(p) == {<<p, dir.pages[p].rev>>}

\* Revisions that jobs are launched for: those with a blob, or the page's own.
Revisions(p) == IF dir.pages[p].pics = {} THEN {<<p, dir.pages[p].rev>>}
                ELSE dir.pages[p].pics

\* Mutant: an error of update.loadEntity is logged and the load goes on.
LoadPageRegardless(p) ==
    /\ load.at = "pages" /\ loading[p].todo = {} /\ ~loading[p].made
    /\ \/ /\ p \notin {y[1] : y \in new.pages}
          /\ new' = [new EXCEPT !.pages = @ \cup {<<p, dir.pages[p].rev>>}]
          /\ UNCHANGED faults
       \/ Fault /\ UNCHANGED new
    /\ loading' = [loading EXCEPT ![p].made = TRUE]
    /\ UNCHANGED load /\ Loading

\* loadEntity with preserveEntityId, then postCreate of a photo's prototype.
LoadPage(p) ==
    /\ load.at = "pages" /\ loading[p].todo = {} /\ ~loading[p].made
    /\ p \notin {y[1] : y \in new.pages}
    /\ new' = [new EXCEPT !.pages = @ \cup {<<p, dir.pages[p].rev>>},
                          !.jobs = IF p \in Photos THEN @ \cup Revisions(p) ELSE @]
    /\ loading' = [loading EXCEPT ![p].made = TRUE]
    /\ UNCHANGED <<load, faults>> /\ Loading

PagesLoaded ==
    /\ load.at = "pages" /\ \A p \in Catalog : loading[p].made
    /\ load' = [load EXCEPT !.at = "records"]
    /\ UNCHANGED <<loading, new, faults>> /\ Loading

Record == dir.records[load.next]
MoreRecords == load.at = "records" /\ load.next <= Len(dir.records)

\* loadTemplate: the permissions, one after the other.
LoadPermit ==
    /\ MoreRecords /\ Record.type = "permit" /\ Record \notin new.records
    /\ new' = [new EXCEPT !.records = @ \cup {Record}]
    /\ load' = [load EXCEPT !.next = @ + 1]
    /\ UNCHANGED <<loading, faults>> /\ Loading

\* Mutant: an ignored record does not call next.
SkipForEver == MoreRecords /\ Record.type = "assign" /\ UNCHANGED vars

\* Users are not assigned to roles: ignoreTemplates.
SkipAssign ==
    /\ MoreRecords /\ Record.type = "assign"
    /\ load' = [load EXCEPT !.next = @ + 1]
    /\ UNCHANGED <<loading, new, faults>> /\ Loading

\* Mutant: the pages are not waited for, as in async.parallel.
StartCredentialsAtOnce ==
    /\ load.at \in {"pages", "records"}
    /\ load' = [load EXCEPT !.at = "credentials", !.creds = dir.creds]
    /\ UNCHANGED <<loading, new, faults>> /\ Loading

StartCredentials ==
    /\ load.at = "records" /\ load.next > Len(dir.records)
    /\ load' = [load EXCEPT !.at = "credentials", !.creds = dir.creds]
    /\ UNCHANGED <<loading, new, faults>> /\ Loading

\* createCredential, all at the same time.
LoadCredential(p) ==
    /\ load.at = "credentials" /\ p \in load.creds
    /\ p \in {y[1] : y \in new.pages} /\ p \notin new.creds
    /\ new' = [new EXCEPT !.creds = @ \cup {p}]
    /\ load' = [load EXCEPT !.creds = @ \ {p}]
    /\ UNCHANGED <<loading, faults>> /\ Loading

LoadEnds ==
    /\ load.at = "credentials" /\ load.creds = {}
    /\ load' = [load EXCEPT !.at = "done"]
    /\ UNCHANGED <<loading, new, faults>> /\ Loading

\* A page, a blob, a permission or a credential that is there already, or a
\* credential without its page: a key of the database is violated.
Refused ==
    \/ /\ load.at = "pages"
       /\ \E p \in Catalog :
             \/ loading[p].todo \cap new.pics # {}
             \/ loading[p].todo = {} /\ ~loading[p].made
                /\ p \in {y[1] : y \in new.pages}
    \/ MoreRecords /\ Record.type = "permit" /\ Record \in new.records
    \/ /\ load.at = "credentials"
       /\ \E p \in load.creds : p \notin {y[1] : y \in new.pages} \/ p \in new.creds

\* The process exits, with what is loaded so far in place.
LoadRefused ==
    /\ Refused
    /\ load' = [load EXCEPT !.at = "refused"]
    /\ UNCHANGED <<loading, new, faults>> /\ Loading

\* A query or a file operation of rm3load fails.
LoadFails ==
    /\ load.at \in {"pages", "records", "credentials"}
    /\ Fault
    /\ load' = [load EXCEPT !.at = "failed"]
    /\ UNCHANGED <<loading, new>> /\ Loading

---------------------------------------------------------------------------
Init ==
    /\ site = [p \in Paths |-> NoPage]
    /\ pictures = {} /\ creds = {} /\ after = {} /\ unread = {}
    /\ backup = [at |-> "idle", todo |-> {}]
    /\ dumping = <<>> /\ dir = EmptyDir
    /\ load = [at |-> "idle", next |-> 1, creds |-> {}]
    /\ loading = <<>> /\ new = SiteWith(Nothing)
    /\ faults = 0

Using == \E p \in Paths :
    Save(p) \/ Upload(p) \/ AddCredential(p) \/ Delete(p) \/ Purge(p)

Backup ==
    \/ Scan \/ WriteRecords \/ WriteCredentials \/ WriteCatalog
    \/ \E p \in Paths : ReadRow(p) \/ MissRow(p) \/ ListBlobs(p) \/ WriteDump(p)
    \/ \E p \in Paths, x \in Picture : CopyBlob(p, x)

Load ==
    \/ StartLoad \/ PagesLoaded \/ LoadPermit \/ SkipAssign
    \/ StartCredentials \/ LoadEnds \/ LoadRefused
    \/ \E p \in Catalog : LoadPage(p) \/ \E x \in Picture : LoadBlob(p, x)
    \/ \E p \in Accounts : LoadCredential(p)

Misread == \E p \in Paths, x \in Picture : MisreadBlob(p, x)

Next == Using \/ Backup \/ Load \/ Misread \/ BackupFails \/ LoadFails

Spec == Init /\ [][Next]_vars

\* Both programs run until they end; the site need not be used, nothing need fail.
FairSpec == Spec /\ WF_vars(Backup) /\ WF_vars(Load)

---------------------------------------------------------------------------
(* Properties. *)

TypeOK ==
    /\ site \in [Paths -> Page]
    /\ pictures \subseteq Picture /\ unread \subseteq Picture
    /\ creds \subseteq Accounts /\ after \subseteq Accounts
    /\ backup \in [at : {"idle", "pages", "credentials", "catalog", "done", "failed"},
                   todo : SUBSET Paths]
    /\ DOMAIN dumping \subseteq Paths /\ DOMAIN dir.pages \subseteq Paths
    /\ \A p \in DOMAIN dir.pages : dir.pages[p] \in Dump
    /\ dir.records \in Seq(Records) /\ dir.creds \subseteq Accounts
    /\ load \in [at : {"idle", "pages", "records", "credentials", "done", "refused", "failed"},
                 next : Nat, creds : SUBSET Accounts]
    /\ new.pages \subseteq Paths \X (1..MaxRev) /\ new.pics \subseteq Picture
    /\ faults \in 0..MaxFaults

\* A page is dumped with the picture of its revision, if that had one when its
\* row was read, whatever is edited until the blobs are listed (dumpEntity), and
\* the pictures of the directory are those of the site (writeBlobs), unless
\* rm3rm -E has taken the picture away or it could not be read.
DumpedWithPicture ==
    \A p \in Catalog :
        LET d == dir.pages[p]
        IN  /\ d.had => <<p, d.rev>> \in d.pics \/ <<p, d.rev>> \notin pictures
            /\ \A x \in d.junk : x \notin pictures \/ x \in unread

\* A load that ends well has made everything that the backup holds, except the
\* roles of users: pages with their revisions and pictures, the files of which
\* it does not look into, permissions and credentials (loadFromCatalog).
RestoredWhole ==
    load.at = "done" =>
        /\ {y \in new.pages : y[1] \in Catalog} = {<<p, dir.pages[p].rev>> : p \in Catalog}
        /\ new.pics = new.old.pics \cup UNION {dir.pages[p].pics : p \in Catalog}
        /\ new.records = new.old.records \cup {r \in Records : r.type = "permit"}
        /\ new.creds = new.old.creds \cup dir.creds

\* What is derived from a picture is not in the backup: every picture that has
\* been restored with its page has a job that makes it again (postCreate).
PicturesProcessed ==
    \A p \in DOMAIN loading \cap Photos :
        loading[p].made => dir.pages[p].pics \subseteq new.jobs

\* The new site held a key that the backup needs: the path of a page, a blob, a
\* permission of a role or a credential.
KeyHeld ==
    LET old == new.old
    IN  \/ old.pages \cap Catalog # {}
        \/ \E p \in Catalog : old.pics \cap dir.pages[p].pics # {}
        \/ old.records \cap Records # {}
        \/ old.creds \cap dir.creds # {}

\* The database refuses a load because the new site held a key of the backup
\* before, or because an account was made while the backup ran: no two things of
\* one backup are in each other's way, and what needs a page comes after it.
LoadFailsForCause == load.at = "refused" => after # {} \/ KeyHeld

\* A load that has begun comes to an end.
LoadComesToEnd == load.at = "pages" ~> load.at \in {"done", "refused", "failed"}

=============================================================================
