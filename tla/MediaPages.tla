----------------------------- MODULE MediaPages -----------------------------
(***************************************************************************)
(* The pictures of one media page (lib/protos/photo.js, vectorgraphic.js,  *)
(* audio.js) through its revisions: the files of lib/fileblobstore.js, the *)
(* rows of wh_blob that name them, the cache of lib/query.js findBlob in    *)
(* front of the rows, and the jobs of lib/workflow.js that make the         *)
(* derived pictures from the uploaded one.                                  *)
(*                                                                         *)
(* A revision owns no file but by rows (name, revision).  An edit with an   *)
(* upload writes the source and queues a job; an edit without one gives     *)
(* the new revision rows that name the files of the revision it was made    *)
(* from (aliases).  Every file write, SQL statement and cache write is a    *)
(* step of its own; the web processes and the job runner may die between    *)
(* any two.  Creating the revision itself (update.createEntity or           *)
(* updateEntity) is one step here: EntityUpdates has its details.           *)
(*                                                                         *)
(* A definition that a comment calls a mutant is a plausible mistake in    *)
(* the code of the definition after it, and no part of the specification.  *)
(***************************************************************************)
EXTENDS Integers, Sequences, FiniteSets

CONSTANTS
    Source,     \* infile.jpg, infile.svg, or file.mp3
    Chain,      \* the files each task of the job makes, in their order
    Batches,    \* the batchAlias calls of an edit without an upload
    Workload,   \* the kinds of edit that happen after the creation
    Cached,     \* names looked up through the cache (the private store's not)
    MaxMisses,  \* bound on the "not found" answers the cache keeps at a time
    MaxRev,     \* bound on the revisions
    MaxFaults   \* bound on failures, time-outs and crashes

Derived == UNION {{Chain[t][i] : i \in DOMAIN Chain[t]} : t \in DOMAIN Chain}
Names == {Source} \cup Derived
Edits == {"upload", "redraft", "tag", "bare"}

ASSUME BatchesCarryAll == UNION {Batches[b] : b \in DOMAIN Batches} = Names
ASSUME BatchesAreListed == Batches \in Seq(SUBSET Names) \ {<<>>}
ASSUME BatchesApart ==
    \A j, k \in DOMAIN Batches : j # k => Batches[j] \cap Batches[k] = {}
ASSUME SourceIsUploaded == Source \notin Derived
ASSUME TasksMakeFiles == Chain \in Seq(Seq(Derived) \ {<<>>})
ASSUME FilesMadeOnce ==
    \A t, u \in DOMAIN Chain : \A i \in DOMAIN Chain[t], j \in DOMAIN Chain[u] :
        Chain[t][i] = Chain[u][j] => t = u /\ i = j
ASSUME NamesAreFinite == IsFiniteSet(Names) /\ Cached \subseteq Names
ASSUME WorkloadIsKnown == Workload \subseteq Edits
ASSUME BoundsAreNat ==
    MaxRev \in Nat \ {0} /\ MaxFaults \in Nat /\ MaxMisses \in Nat

VARIABLES
    revs,       \* the revisions of the page, oldest first
    files,      \* the content of each file of the store: which upload
    blobs,      \* the rows of wh_blob
    misses,     \* "not found" entries of findBlob's cache
    saves,      \* requests that still work on the blobs of a revision
    aliasing,   \* aliases that batchAlias is making
    jobs,       \* the job of each revision
    bodies,     \* task bodies that run in the job runner
    uploads,    \* number of uploads so far, which name the contents
    faults,     \* number of faults so far
    hurt        \* history: revisions, and why their pictures may be missing

vars == <<revs, files, blobs, misses, saves, aliasing, jobs, bodies,
          uploads, faults, hurt>>
web == <<saves, aliasing>>
store == <<files, blobs>>
runner == <<jobs, bodies>>

---------------------------------------------------------------------------
(* The files of the three kinds of page: what is uploaded, what each task of *)
(* the job makes from it, what an edit without an upload aliases, in which   *)
(* batches, and what the page and the lists it stands in look for.           *)

JpegScale  == <<"file-t.jpg", "file-s.jpg", "file-m.jpg", "file-l.jpg", "file-k.jpg">>
JpegSquare == <<"file-sq.jpg", "file-st.jpg">>
PhotoChain == <<JpegScale, JpegSquare>>
PhotoSource == "infile.jpg"
PhotoBatches ==
    <<{"file-t.jpg", "file-m.jpg", "file-s.jpg", "file-k.jpg", "file-l.jpg",
       "file-sq.jpg", "file-st.jpg"}, {"infile.jpg"}>>
PhotoSrcSet == {"file-s.jpg", "file-m.jpg", "file-l.jpg", "file-k.jpg"}
PhotoLinks  == {"file-m.jpg", "file-s.jpg", "file-sq.jpg", "file-l.jpg"}

SvgOptimized == <<"file.svg">>
SvgScale  == <<"file-t.png", "file-s.png", "file-m.png", "file-l.png", "file-k.png">>
SvgNative == <<"file.png">>
SvgSquare == <<"file-sq.png", "file-st.png">>
VectorChain == <<SvgOptimized, SvgScale, SvgNative, SvgSquare>>
VectorSource == "infile.svg"
VectorBatches ==
    <<{"infile.svg", "file.png", "file-t.png", "file-m.png", "file-s.png", "file-k.png",
       "file-l.png", "file-sq.png", "file-st.png", "file.svg"}>>
VectorFigures == {"file-s.png", "file-m.png", "file-l.png", "file.svg"}
VectorIcons   == {"file.svg", "file-sq.png", "file.png"}

AudioSource  == "file.mp3"
AudioBatches == <<{"file.mp3"}>>

MadeBy(chain) == UNION {{chain[t][i] : i \in 1..Len(chain[t])} : t \in 1..Len(chain)}
AliasedBy(batches) == UNION {batches[k] : k \in 1..Len(batches)}

\* Every file is made once and aliased once, and pages look for no other.
ASSUME FilesAgree ==
    /\ \A chain \in {PhotoChain, VectorChain} :
          \A t, u \in DOMAIN chain : \A i \in DOMAIN chain[t], j \in DOMAIN chain[u] :
             chain[t][i] = chain[u][j] => t = u /\ i = j
    /\ \A batches \in {PhotoBatches, VectorBatches, AudioBatches} :
          \A j, k \in DOMAIN batches : j # k => batches[j] \cap batches[k] = {}
    /\ AliasedBy(PhotoBatches) = MadeBy(PhotoChain) \cup {PhotoSource}
    /\ AliasedBy(VectorBatches) = MadeBy(VectorChain) \cup {VectorSource}
    /\ AliasedBy(AudioBatches) = {AudioSource}
    /\ PhotoSrcSet \cup PhotoLinks \subseteq MadeBy(PhotoChain)
    /\ VectorFigures \cup VectorIcons \subseteq MadeBy(VectorChain)

---------------------------------------------------------------------------
(* Data. *)

Revs == 1..MaxRev
Absent == 0
Torn == -1       \* fs.writeFile has emptied the file and not filled it

\* base: the revision that was loaded; ready: base had all pictures then.
Revision == [base : 0..MaxRev, kind : Edits, draft : BOOLEAN, ready : BOOLEAN]

\* A row of wh_blob; file: whose file it names (`alias' when not its own).
Blob == [name : Names, rev : Revs, file : Revs]

\* A request between updateEntity and its answer.
Save == [rev : Revs, content : Nat,
         at : {"write", "torn", "row", "launch", "batch"}, batch : Nat]

\* file 0: its findBlob has not been answered.
Alias == [name : Names, rev : Revs, from : Revs, file : 0..MaxRev]

\* task and try: where the job is in its chain.
Job == [state : {"none", "queued", "running", "succeeded", "failed", "lost"},
        task : Nat, try : 0..1]

\* A running task body; out: the file it is at; source: what it has read.
Body == [rev : Revs, task : Nat, try : 0..1, out : Nat,
         at : {"read", "write", "torn", "row"}, source : Nat]

NoJob == [state |-> "none", task |-> 1, try |-> 0]
BodyOf(r, t, k) == [rev |-> r, task |-> t, try |-> k, out |-> 1, at |-> "read",
                    source |-> Absent]

RowsFor(n, r) == {b \in blobs : b.name = n /\ b.rev = r}
Whole(r) == \A n \in Names : RowsFor(n, r) # {}
Blame(r, why) == hurt' = hurt \cup {<<r, why>>}

---------------------------------------------------------------------------
(* findBlob.  A row that is found is cached for 20 minutes; no code of lib/ *)
(* deletes or changes rows, so that entry never disagrees with the table    *)
(* and is left out.  "Not found" is cached for 10 seconds, and outlives the *)
(* row's insertion; entry and answer are one step.                          *)

Misses(n, r) == n \in Cached /\ <<n, r>> \in misses
Finds(n, r) == ~Misses(n, r) /\ RowsFor(n, r) # {}

\* The lookup that came too early, and the one that is told so too late.
LookedUp(n, r) ==
    IF n \in Cached /\ RowsFor(n, r) = {} /\ Cardinality(misses) < MaxMisses
    THEN misses' = misses \cup {<<n, r>>} ELSE UNCHANGED misses
Stale(n, r) == Misses(n, r) /\ RowsFor(n, r) # {}

Expire(k) ==
    /\ k \in misses
    /\ misses' = misses \ {k}
    /\ UNCHANGED <<revs, store, web, runner, uploads, faults, hurt>>

\* A visitor's page looks its pictures up (fetchBlobBatch, buildSrcSet), or a
\* backup or an audio page the source, before the row is there.
View(n, r) ==
    /\ r \in DOMAIN revs /\ n \in Cached /\ ~Finds(n, r) /\ ~Misses(n, r)
    /\ LookedUp(n, r) /\ misses' # misses
    /\ UNCHANGED <<revs, store, web, runner, uploads, faults, hurt>>

---------------------------------------------------------------------------
(* addBlob: the file first, in two steps, then the row.                     *)

\* INSERT INTO wh_blob; its primary key refuses a second row.
CanInsert(n, r) == RowsFor(n, r) = {}
Insert(n, r, f) == blobs' = blobs \cup {[name |-> n, rev |-> r, file |-> f]}

EmptyFile(n, r) == files' = [files EXCEPT ![r][n] = Torn]

---------------------------------------------------------------------------
(* Requests. *)

\* The page is created with its first upload (createFunc).
Create ==
    /\ revs = <<>>
    /\ \E draft \in BOOLEAN :
          revs' = <<[base |-> 0, kind |-> "upload", draft |-> draft, ready |-> TRUE]>>
    /\ uploads' = 1
    /\ saves' = {[rev |-> 1, content |-> 1, at |-> "write", batch |-> 0]}
    /\ UNCHANGED <<store, misses, aliasing, runner, faults, hurt>>

Revise(base, kind, save) ==
    /\ Len(revs) < MaxRev
    /\ \E draft \in BOOLEAN :
          /\ draft => kind # "bare"
          /\ revs' = Append(revs, [base |-> base, kind |-> kind, draft |-> draft,
                                   ready |-> Whole(base)])
    /\ saves' = saves \cup save

\* An edit with a file: a new revision with an upload of its own (editFunc).
Upload(base) ==
    /\ "upload" \in Workload
    /\ Revise(base, "upload", {[rev |-> Len(revs) + 1, content |-> uploads + 1,
                                at |-> "write", batch |-> 0]})
    /\ uploads' = uploads + 1
    /\ UNCHANGED <<store, misses, aliasing, runner, faults, hurt>>

\* An edit with a file, saved over the draft that was loaded (sameRevision).
Redraft(r) ==
    /\ "redraft" \in Workload /\ revs[r].draft /\ uploads < MaxRev
    /\ ~\E s \in saves : s.rev = r
    /\ uploads' = uploads + 1
    /\ saves' = saves \cup {[rev |-> r, content |-> uploads + 1, at |-> "write",
                             batch |-> 0]}
    /\ Blame(r, "redraft")
    /\ UNCHANGED <<revs, store, misses, aliasing, runner, faults>>

AliasesOf(names, r, base) ==
    {[name |-> n, rev |-> r, from |-> base, file |-> 0] : n \in names}

\* An edit without a file, or of the tags (editFunc, tags.cgi with
\* postAlterFunc): the first batchAlias starts.
Tag(base) ==
    /\ "tag" \in Workload
    /\ Revise(base, "tag", {[rev |-> Len(revs) + 1, content |-> 0, at |-> "batch",
                             batch |-> 1]})
    /\ aliasing' = aliasing \cup AliasesOf(Batches[1], Len(revs) + 1, base)
    /\ UNCHANGED <<store, misses, runner, uploads, faults, hurt>>

\* togglenavbar.cgi and togglehidden.cgi: a revision and nothing else.
Toggle(base) ==
    /\ "bare" \in Workload
    /\ Revise(base, "bare", {})
    /\ UNCHANGED <<store, misses, aliasing, runner, uploads, faults, hurt>>

Advance(s, at) == saves' = (saves \ {s}) \cup {[s EXCEPT !.at = at]}

\* Mutant: the job is launched before the upload is stored.
LaunchFirst(s) ==
    /\ s.at = "write"
    /\ EmptyFile(Source, s.rev)
    /\ Advance(s, "torn")
    /\ jobs' = [jobs EXCEPT ![s.rev].state = "queued"]
    /\ UNCHANGED <<revs, blobs, misses, aliasing, bodies, uploads, faults, hurt>>

\* Mutant: the row is inserted before the file is written.
WriteAfterRow(s) ==
    /\ s.at = "write" /\ CanInsert(Source, s.rev)
    /\ Insert(Source, s.rev, s.rev)
    /\ Advance(s, "torn")
    /\ UNCHANGED <<revs, files, misses, aliasing, runner, uploads, faults, hurt>>

WriteSource(s) ==
    /\ s.at = "write"
    /\ EmptyFile(Source, s.rev)
    /\ Advance(s, "torn")
    /\ UNCHANGED <<revs, blobs, misses, aliasing, runner, uploads, faults, hurt>>

FillSource(s) ==
    /\ s.at = "torn"
    /\ files' = [files EXCEPT ![s.rev][Source] = s.content]
    /\ Advance(s, "row")
    /\ UNCHANGED <<revs, blobs, misses, aliasing, runner, uploads, faults, hurt>>

\* A second upload to a draft fails here: its row exists already.
InsertSource(s) ==
    /\ s.at = "row"
    /\ IF CanInsert(Source, s.rev)
       THEN Insert(Source, s.rev, s.rev) /\ Advance(s, "launch")
       ELSE saves' = saves \ {s} /\ UNCHANGED blobs
    /\ UNCHANGED <<revs, files, misses, aliasing, runner, uploads, faults, hurt>>

\* postCreate: workflow.launchWorkflow; audio pages have no job.
Launch(s) ==
    /\ s.at = "launch"
    /\ saves' = saves \ {s}
    /\ jobs' = IF Chain = <<>> THEN jobs
               ELSE [jobs EXCEPT ![s.rev].state = "queued"]
    /\ UNCHANGED <<revs, store, misses, aliasing, bodies, uploads, faults, hurt>>

\* The request that waits for this alias, if it still does.
WaitsOn(a) == {s \in saves : s.rev = a.rev /\ s.at = "batch" /\
                             a.name \in Batches[s.batch]}

\* An alias is made or has failed.  batchAlias calls back with its first error
\* or its last alias; the error is ignored: the next batch starts, or the
\* request is answered.
AliasOver(a, failed) ==
    LET rest == aliasing \ {a}
        ends(s) == failed \/ ~\E o \in rest : o.rev = s.rev /\
                                              o.name \in Batches[s.batch]
    IN  IF \E s \in WaitsOn(a) : ends(s)
        THEN LET s == CHOOSE s \in WaitsOn(a) : TRUE
                 next == s.batch + 1
             IN  /\ saves' = (saves \ {s}) \cup
                       (IF next > Len(Batches) THEN {}
                        ELSE {[s EXCEPT !.batch = next]})
                 /\ aliasing' = rest \cup
                       (IF next > Len(Batches) THEN {}
                        ELSE AliasesOf(Batches[next], s.rev, a.from))
        ELSE aliasing' = rest /\ UNCHANGED saves

\* Mutant: aliasUnchangedBlob forgets to call back when there is no such row.
FindOldSilently(a) ==
    /\ a.file = 0
    /\ LookedUp(a.name, a.from)
    /\ aliasing' = (aliasing \ {a}) \cup
          (IF Finds(a.name, a.from)
           THEN {[a EXCEPT !.file = b.file] : b \in RowsFor(a.name, a.from)} ELSE {})
    /\ UNCHANGED <<revs, store, saves, runner, uploads, faults, hurt>>

\* aliasUnchangedBlob looks the old revision's row up.
FindOld(a) ==
    /\ a.file = 0
    /\ LookedUp(a.name, a.from)
    /\ IF Finds(a.name, a.from)
       THEN /\ aliasing' = (aliasing \ {a}) \cup
                  {[a EXCEPT !.file = b.file] : b \in RowsFor(a.name, a.from)}
            /\ UNCHANGED <<saves, hurt>>
       ELSE /\ AliasOver(a, TRUE)
            /\ IF Stale(a.name, a.from) THEN Blame(a.rev, "stale")
               ELSE UNCHANGED hurt
    /\ UNCHANGED <<revs, store, runner, uploads, faults>>

\* Mutant: a batch calls back with the first of its aliases.
InsertFirstAlias(a) ==
    /\ a.file # 0
    /\ Insert(a.name, a.rev, a.file)
    /\ AliasOver(a, TRUE)
    /\ UNCHANGED <<revs, files, misses, runner, uploads, faults, hurt>>

\* ... and inserts a row that names the same file.
InsertAlias(a) ==
    /\ a.file # 0
    /\ IF CanInsert(a.name, a.rev)
       THEN Insert(a.name, a.rev, a.file) /\ AliasOver(a, FALSE)
       ELSE AliasOver(a, TRUE) /\ UNCHANGED blobs
    /\ UNCHANGED <<revs, files, misses, runner, uploads, faults, hurt>>

---------------------------------------------------------------------------
(* Jobs (lib/workflowdefs, lib/workflowtasks; the runner of package wf).    *)

IsCurrent(b) == /\ jobs[b.rev].state = "running"
                /\ jobs[b.rev].task = b.task /\ jobs[b.rev].try = b.try

\* The one slot of the runner takes a queued job, at its current task.
TakeJob(r) ==
    /\ jobs[r].state = "queued"
    /\ \A q \in Revs : jobs[q].state # "running"
    /\ jobs' = [jobs EXCEPT ![r].state = "running"]
    /\ bodies' = bodies \cup {BodyOf(r, jobs[r].task, jobs[r].try)}
    /\ UNCHANGED <<revs, store, misses, web, uploads, faults, hurt>>

Step(b, c) == bodies' = (bodies \ {b}) \cup {c}

\* Mutant: retries are not counted against a limit.
RetryForEver(b) ==
    /\ IsCurrent(b)
    /\ jobs' = [jobs EXCEPT ![b.rev].try = @ + 1]
    /\ Step(b, BodyOf(b.rev, b.task, b.try + 1))

\* A body calls back with an error: its task is tried again or the job has
\* failed (how package wf reads "retry: 1" is left open).  Nobody listens to a
\* body whose task has timed out.
TaskFails(b) ==
    LET r == b.rev
    IN  \/ ~IsCurrent(b) /\ bodies' = bodies \ {b} /\ UNCHANGED jobs
        \/ /\ IsCurrent(b) /\ b.try = 0
           /\ jobs' = [jobs EXCEPT ![r].try = 1]
           /\ Step(b, BodyOf(r, b.task, 1))
        \/ /\ IsCurrent(b)
           /\ jobs' = [jobs EXCEPT ![r].state = "failed"]
           /\ bodies' = bodies \ {b}

\* It calls back without one: the next task starts, or the job has succeeded.
TaskSucceeds(b) ==
    LET r == b.rev
    IN  IF ~IsCurrent(b) THEN bodies' = bodies \ {b} /\ UNCHANGED jobs
        ELSE IF b.task = Len(Chain)
        THEN /\ jobs' = [jobs EXCEPT ![r].state = "succeeded"]
             /\ bodies' = bodies \ {b}
        ELSE /\ jobs' = [jobs EXCEPT ![r].task = b.task + 1, ![r].try = 0]
             /\ Step(b, BodyOf(r, b.task + 1, 0))

\* Mutant: the source is looked up without its revision.
ReadNewest(b) ==
    /\ b.at = "read"
    /\ Step(b, [b EXCEPT !.at = "write",
                         !.source = files[Len(revs)][Source]])
    /\ UNCHANGED <<revs, store, misses, web, jobs, uploads, faults, hurt>>

\* getBlob of the source: findBlob, then the file.
ReadSource(b) ==
    /\ b.at = "read"
    /\ LookedUp(Source, b.rev)
    /\ IF Finds(Source, b.rev) /\ files[b.rev][Source] # Torn
       THEN /\ Step(b, [b EXCEPT !.at = "write", !.source = files[b.rev][Source]])
            /\ UNCHANGED <<jobs, hurt>>
       ELSE /\ TaskFails(b)
            /\ IF Stale(Source, b.rev) THEN Blame(b.rev, "stale") ELSE UNCHANGED hurt
    /\ UNCHANGED <<revs, store, web, uploads, faults>>

WriteDerived(b) ==
    /\ b.at = "write"
    /\ EmptyFile(Chain[b.task][b.out], b.rev)
    /\ Step(b, [b EXCEPT !.at = "torn"])
    /\ UNCHANGED <<revs, blobs, misses, web, jobs, uploads, faults, hurt>>

FillDerived(b) ==
    /\ b.at = "torn"
    /\ files' = [files EXCEPT ![b.rev][Chain[b.task][b.out]] = b.source]
    /\ Step(b, [b EXCEPT !.at = "row"])
    /\ UNCHANGED <<revs, blobs, misses, web, jobs, uploads, faults, hurt>>

\* Mutant: the loop calls its task done after the first file.
InsertDerivedOnce(b) ==
    /\ b.at = "row"
    /\ IF CanInsert(Chain[b.task][b.out], b.rev)
       THEN Insert(Chain[b.task][b.out], b.rev, b.rev) /\ TaskSucceeds(b)
       ELSE TaskFails(b) /\ UNCHANGED blobs
    /\ UNCHANGED <<revs, files, misses, web, uploads, faults, hurt>>

\* A retry fails here at the first file that the earlier try had finished.
InsertDerived(b) ==
    /\ b.at = "row"
    /\ IF ~CanInsert(Chain[b.task][b.out], b.rev)
       THEN TaskFails(b) /\ UNCHANGED blobs
       ELSE /\ Insert(Chain[b.task][b.out], b.rev, b.rev)
            /\ IF b.out < Len(Chain[b.task])
               THEN Step(b, [b EXCEPT !.at = "write", !.out = @ + 1]) /\ UNCHANGED jobs
               ELSE TaskSucceeds(b)
    /\ UNCHANGED <<revs, files, misses, web, uploads, faults, hurt>>

---------------------------------------------------------------------------
(* Faults. *)

Faulty == faults < MaxFaults /\ faults' = faults + 1

\* The disk or the database fails a request.
SaveFails(s) ==
    /\ Faulty /\ s.at # "batch"
    /\ saves' = saves \ {s}
    /\ Blame(s.rev, "fault")
    /\ UNCHANGED <<revs, store, misses, aliasing, runner, uploads>>

AliasFails(a) ==
    /\ Faulty
    /\ AliasOver(a, TRUE)
    /\ Blame(a.rev, "fault")
    /\ UNCHANGED <<revs, store, misses, runner, uploads>>

BodyFails(b) ==
    /\ Faulty
    /\ TaskFails(b)
    /\ Blame(b.rev, "fault")
    /\ UNCHANGED <<revs, store, misses, web, uploads>>

\* A task takes longer than its 30 seconds: it counts as failed, its body
\* goes on all the same.
TimeOut(b) ==
    /\ Faulty /\ IsCurrent(b)
    /\ \/ /\ b.try = 0
          /\ jobs' = [jobs EXCEPT ![b.rev].try = 1]
          /\ bodies' = bodies \cup {BodyOf(b.rev, b.task, 1)}
       \/ jobs' = [jobs EXCEPT ![b.rev].state = "failed"] /\ UNCHANGED bodies
    /\ Blame(b.rev, "fault")
    /\ UNCHANGED <<revs, store, misses, web, uploads>>

\* A web process dies with its requests.
WebCrash ==
    /\ Faulty /\ (saves # {} \/ aliasing # {})
    /\ saves' = {} /\ aliasing' = {}
    /\ hurt' = hurt \cup {<<s.rev, "fault">> : s \in saves \cup aliasing}
    /\ UNCHANGED <<revs, store, misses, runner, uploads>>

\* The runner dies.  Its job is later queued again by another one or is lost.
RunnerCrash ==
    /\ Faulty /\ bodies # {}
    /\ bodies' = {}
    /\ \E state \in {"queued", "lost"} :
          jobs' = [r \in Revs |-> IF jobs[r].state = "running"
                                  THEN [jobs[r] EXCEPT !.state = state] ELSE jobs[r]]
    /\ hurt' = hurt \cup {<<b.rev, "fault">> : b \in bodies}
    /\ UNCHANGED <<revs, store, misses, web, uploads>>

---------------------------------------------------------------------------
Init ==
    /\ revs = <<>>
    /\ files = [r \in Revs |-> [n \in Names |-> Absent]]
    /\ blobs = {} /\ misses = {}
    /\ saves = {} /\ aliasing = {}
    /\ jobs = [r \in Revs |-> NoJob] /\ bodies = {}
    /\ uploads = 0 /\ faults = 0 /\ hurt = {}

Requests ==
    \/ Create
    \/ \E r \in DOMAIN revs : Upload(r) \/ Redraft(r) \/ Tag(r) \/ Toggle(r)

SaveWork(s) == WriteSource(s) \/ FillSource(s) \/ InsertSource(s) \/ Launch(s)
AliasWork(a) == FindOld(a) \/ InsertAlias(a)
JobWork == \E b \in bodies : ReadSource(b) \/ WriteDerived(b) \/ FillDerived(b)
                             \/ InsertDerived(b)

CacheWork ==
    \/ \E k \in misses : Expire(k)
    \/ \E n \in Names, r \in DOMAIN revs : View(n, r)

Faults ==
    \/ \E s \in saves : SaveFails(s)
    \/ \E a \in aliasing : AliasFails(a)
    \/ \E b \in bodies : BodyFails(b) \/ TimeOut(b)
    \/ WebCrash \/ RunnerCrash

Next ==
    \/ Requests
    \/ \E s \in saves : SaveWork(s)
    \/ \E a \in aliasing : AliasWork(a)
    \/ \E r \in Revs : TakeJob(r)
    \/ JobWork \/ CacheWork \/ Faults

Spec == Init /\ [][Next]_vars

\* A runner polls the queue for ever, and what it or a request has started
\* goes on: callbacks of the disk and the database come.
FairSpec ==
    /\ Spec
    /\ WF_vars(\E s \in saves : SaveWork(s))
    /\ WF_vars(\E a \in aliasing : AliasWork(a))
    /\ WF_vars(JobWork) /\ WF_vars(\E r \in Revs : TakeJob(r))

---------------------------------------------------------------------------
(* Properties. *)

TypeOK ==
    /\ revs \in Seq(Revision) /\ Len(revs) <= MaxRev
    /\ files \in [Revs -> [Names -> Nat \cup {Torn}]]
    /\ blobs \subseteq Blob
    /\ misses \subseteq Cached \X Revs
    /\ saves \subseteq Save
    /\ aliasing \subseteq Alias
    /\ jobs \in [Revs -> Job]
    /\ bodies \subseteq Body
    /\ uploads \in Nat /\ faults \in 0..MaxFaults
    /\ hurt \subseteq Revs \X {"fault", "stale", "redraft"}

\* Whatever dies when: a row of wh_blob names a file that is on the disk, and
\* whole, until a retry or a second upload writes it again (addBlob writes
\* the file before the row).
RowsNameFiles ==
    \A b \in blobs :
        /\ files[b.file][b.name] # Absent
        /\ files[b.file][b.name] = Torn =>
              <<b.file, "fault">> \in hurt \/ <<b.file, "redraft">> \in hurt

\* The pictures of a revision were made from the upload that the revision
\* itself carries, however edits, aliases, jobs and their retries overlap;
\* only a second upload into one draft mixes them.
PicturesMatchUpload ==
    \A s, d \in blobs :
        s.name = Source /\ d.name \in Derived /\ s.rev = d.rev /\
        {<<s.file, "redraft">>, <<d.file, "redraft">>} \cap hurt = {}
        => /\ d.file = s.file
           /\ files[d.file][d.name] \in {files[s.file][Source], Torn}

\* A job that is called succeeded has made every picture of its revision
\* (waitForWorkflow's callers and the chains of lib/workflowdefs rely on it).
SucceededIsComplete ==
    \A r \in Revs : jobs[r].state = "succeeded" =>
        \A n \in Derived : \E b \in RowsFor(n, r) : b.file = r

\* An edit without an upload, once answered, shows the very pictures of the
\* revision it was made from, if they were all there and nothing failed
\* (batchAlias from oldRevisionId).
EditCarriesPictures ==
    \A r \in DOMAIN revs :
        /\ revs[r].kind = "tag" /\ revs[r].ready
        /\ ~\E s \in saves : s.rev = r
        /\ ~\E why \in {"fault", "stale", "redraft"} : <<r, why>> \in hurt
        => \A n \in Names : \E b \in RowsFor(n, r), o \in RowsFor(n, revs[r].base) :
                                 b.file = o.file

\* A job fails for a reason: a fault, a second upload into its draft, or a
\* "not found" of its upload that an early reader left in the cache.
JobsFailForCause ==
    \A r \in Revs : jobs[r].state = "failed" =>
        \E why \in {"fault", "stale", "redraft"} : <<r, why>> \in hurt

\* When people stop editing, every edit gets its answer (addBlob and
\* aliasUnchangedBlob call back in every case) and every job ends.
EverythingSettles ==
    <>[](saves = {} /\ \A r \in Revs : jobs[r].state \notin {"queued", "running"})

=============================================================================
