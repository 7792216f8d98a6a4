------------------------- MODULE MediaPages_proofs -------------------------
(***************************************************************************)
(* Proofs about MediaPages, for every chain of tasks, every list of        *)
(* batches and every bound: the rows of wh_blob name files that are there, *)
(* the pictures of a revision were made from its upload, a job that has     *)
(* succeeded has made them all, and one that has failed had a cause; an    *)
(* edit without an upload carries over the pictures it found.              *)
(***************************************************************************)
EXTENDS MediaPages, TLAPS

---------------------------------------------------------------------------
(* The inductive invariant. *)

Redrafted(r) == <<r, "redraft">> \in hurt
Hurt(r) == Redrafted(r) \/ <<r, "fault">> \in hurt

\* The row of a file that the revision has written itself.
Own(n, r) == [name |-> n, rev |-> r, file |-> r]

\* What the files before, or from, the i-th of task t are to revision r.
Before(t, i, u, j) == u < t \/ (u = t /\ j < i)
Made(t, i, r) ==
    \A u \in DOMAIN Chain : \A j \in DOMAIN Chain[u] :
        Before(t, i, u, j) => Own(Chain[u][j], r) \in blobs
Unnamed(n, r) == \A c \in blobs : c.file = r => c.name # n
Unmade(t, i, r) ==
    \A u \in DOMAIN Chain : \A j \in DOMAIN Chain[u] :
        ~Before(t, i, u, j) => Unnamed(Chain[u][j], r)

\* A row names a file of its own revision, which had an upload, or is an alias
\* of a row of the revision it was made from, an earlier one.
HasUpload(r) == revs[r].kind = "upload" \/ Redrafted(r)
AliasOf(n, r, f) ==
    /\ revs[r].kind = "tag"
    /\ \E o \in blobs : o.rev = revs[r].base /\ o.name = n /\ o.file = f
RowsInv ==
    /\ \A r \in DOMAIN revs : revs[r].base < r
    /\ \A c \in blobs :
          /\ c.rev \in DOMAIN revs /\ c.file \in DOMAIN revs /\ c.file <= c.rev
          /\ \/ c.file = c.rev /\ HasUpload(c.rev)
             \/ c.file < c.rev /\ AliasOf(c.name, c.rev, c.file)
KeysInv == \A c, d \in blobs : c.name = d.name /\ c.rev = d.rev => c = d

\* Two rows of one revision name files of one revision.
SameFile ==
    \A s, d \in blobs :
        s.name = Source /\ d.name \in Derived /\ s.rev = d.rev /\
        ~Redrafted(s.file) /\ ~Redrafted(d.file) => d.file = s.file

\* One request at a time works on the files of a revision, and before its job.
SaveOK(s) ==
    /\ s.rev \in DOMAIN revs
    /\ s.at = "batch" => revs[s.rev].kind = "tag" /\ s.batch \in DOMAIN Batches
    /\ s.at # "batch" =>
          /\ s.content > 0
          /\ HasUpload(s.rev)
          /\ ~Redrafted(s.rev) => jobs[s.rev] = NoJob
          /\ s.at \in {"row", "launch"} => files[s.rev][Source] = s.content
          /\ s.at = "launch" => Own(Source, s.rev) \in blobs
          /\ s.at \in {"write", "torn"} /\ ~Redrafted(s.rev) => Unnamed(Source, s.rev)
SavesInv ==
    /\ \A s, z \in saves : s.rev = z.rev => s = z
    /\ \A s \in saves : SaveOK(s)

\* An alias that is about to be inserted is of a row that is there.
AliasOK(a) ==
    /\ a.rev \in DOMAIN revs
    /\ revs[a.rev].kind = "tag" /\ a.from = revs[a.rev].base
    /\ a.file # 0 => \E o \in blobs : o.rev = a.from /\ o.name = a.name
                                      /\ o.file = a.file
AliasesInv == \A a \in aliasing : AliasOK(a)

\* The job of a revision has made all files before its task.  Unless something
\* went wrong it has one body at most, and none while it is queued.
JobOK(r) ==
    /\ jobs[r].state = "none" =>
          jobs[r] = NoJob /\ \A n \in Derived : files[r][n] = Absent /\ Unnamed(n, r)
    /\ jobs[r].state # "none" =>
          /\ r \in DOMAIN revs /\ HasUpload(r) /\ Own(Source, r) \in blobs
          /\ jobs[r].task \in DOMAIN Chain /\ Made(jobs[r].task, 1, r)
    /\ jobs[r].state = "queued" /\ ~Hurt(r) =>
          Unmade(jobs[r].task, 1, r) /\ \A b \in bodies : b.rev # r
    /\ jobs[r].state = "running" => \E b \in bodies : b.rev = r /\ IsCurrent(b)
    /\ jobs[r].state = "succeeded" => Made(Len(Chain) + 1, 1, r)
    /\ ~Hurt(r) => \A b, c \in bodies : b.rev = r /\ c.rev = r => b = c
    /\ ~Redrafted(r) =>
          \A n \in Derived : files[r][n] \in {Absent, Torn, files[r][Source]}
JobsInv == \A r \in Revs : JobOK(r)

\* A body has made all files before the one it is at.  Unless something went
\* wrong, no row names that file or a later one.
BodyOK(b) ==
    /\ jobs[b.rev].state # "none"
    /\ b.task \in DOMAIN Chain /\ b.out \in DOMAIN Chain[b.task]
    /\ Made(b.task, b.out, b.rev)
    /\ b.at = "read" => b.out = 1
    /\ b.at # "read" => b.source \notin {Absent, Torn}
    /\ b.at # "read" /\ ~Redrafted(b.rev) => b.source = files[b.rev][Source]
    /\ b.at = "row" => files[b.rev][Chain[b.task][b.out]] # Absent
    /\ ~Hurt(b.rev) =>
          /\ Unmade(b.task, b.out, b.rev)
          /\ b.at = "row" => files[b.rev][Chain[b.task][b.out]] # Torn
BodiesInv == \A b \in bodies : BodyOK(b)

IInv ==
    /\ TypeOK /\ RowsInv /\ KeysInv /\ SameFile /\ SavesInv /\ AliasesInv
    /\ JobsInv /\ BodiesInv /\ RowsNameFiles /\ JobsFailForCause

---------------------------------------------------------------------------
(* Facts about the constants. *)

LEMMA ChainFacts ==
    /\ Chain \in Seq(Seq(Derived)) /\ Len(Chain) \in Nat
    /\ DOMAIN Chain = 1..Len(Chain)
    /\ \A t \in DOMAIN Chain :
          /\ Chain[t] \in Seq(Derived) /\ Len(Chain[t]) \in Nat \ {0}
          /\ DOMAIN Chain[t] = 1..Len(Chain[t])
          /\ \A i \in DOMAIN Chain[t] : Chain[t][i] \in Derived
  <1>1. Chain \in Seq(Seq(Derived) \ {<<>>})
    BY TasksMakeFiles DEF TasksMakeFiles
  <1>2. \A t \in DOMAIN Chain : Chain[t] \in Seq(Derived) \ {<<>>}
    BY <1>1
  <1> QED  BY <1>1, <1>2

LEMMA NamesFacts == Source \in Names /\ Derived \subseteq Names /\ Source \notin Derived
  BY SourceIsUploaded DEF SourceIsUploaded, Names

\* A file that some task makes is one of its outputs.
LEMMA DerivedIsMade ==
    ASSUME NEW n \in Derived
    PROVE  \E t \in DOMAIN Chain : \E i \in DOMAIN Chain[t] : n = Chain[t][i]
  BY DEF Derived

LEMMA BatchFacts ==
    /\ Len(Batches) \in Nat \ {0} /\ DOMAIN Batches = 1..Len(Batches)
    /\ \A k \in DOMAIN Batches : Batches[k] \subseteq Names
  BY BatchesAreListed DEF BatchesAreListed

---------------------------------------------------------------------------
(* What the shared steps do. *)

\* A request goes on to its next batch, or ends, or waits.
LEMMA AliasOverEffect ==
    ASSUME TypeOK, SavesInv, NEW a \in aliasing, NEW failed, AliasOver(a, failed)
    PROVE  /\ \/ saves' = saves
              \/ \E s \in saves :
                    /\ s.at = "batch"
                    /\ \/ saves' = saves \ {s}
                       \/ /\ s.batch + 1 \in DOMAIN Batches
                          /\ saves' = (saves \ {s}) \cup {[s EXCEPT !.batch = s.batch + 1]}
           /\ \A c \in aliasing' :
                 c \in aliasing \/ (c \in Alias /\ c.rev = a.rev /\ c.from = a.from
                                    /\ c.file = 0)
  <1> DEFINE rest == aliasing \ {a}
             ends(s) == failed \/ ~\E o \in rest : o.rev = s.rev /\
                                                   o.name \in Batches[s.batch]
             w == CHOOSE s \in WaitsOn(a) : TRUE
             next == w.batch + 1
  <1>1. CASE \E s \in WaitsOn(a) : ends(s)
    <2>1. w \in WaitsOn(a)
      BY <1>1
    <2>2. w \in saves /\ w.rev = a.rev /\ w.at = "batch"
      BY <2>1 DEF WaitsOn
    <2>3. w.batch \in Nat /\ w.batch \in DOMAIN Batches
      BY <2>2 DEF TypeOK, SavesInv, SaveOK, Save
    <2>4. saves' = (saves \ {w}) \cup (IF next > Len(Batches) THEN {}
                                       ELSE {[w EXCEPT !.batch = next]})
          /\ aliasing' = rest \cup (IF next > Len(Batches) THEN {}
                                    ELSE AliasesOf(Batches[next], w.rev, a.from))
      BY <1>1 DEF AliasOver
    <2>5. CASE next > Len(Batches)
      BY <2>2, <2>4, <2>5
    <2>6. CASE ~(next > Len(Batches))
      <3>1. next \in DOMAIN Batches /\ Batches[next] \subseteq Names
        <4> HIDE DEF w
        <4> QED  BY <2>3, <2>6, BatchFacts
      <3>2. a.rev \in Revs /\ a.from \in Revs
        BY DEF TypeOK, Alias
      <3>3. \A c \in AliasesOf(Batches[next], w.rev, a.from) :
               c \in Alias /\ c.rev = a.rev /\ c.from = a.from /\ c.file = 0
        BY <2>2, <3>1, <3>2, BoundsAreNat DEF AliasesOf, Alias, BoundsAreNat
      <3> QED  BY <2>2, <2>4, <2>6, <3>1, <3>3
    <2> QED  BY <2>5, <2>6
  <1>2. CASE ~\E s \in WaitsOn(a) : ends(s)
    BY <1>2 DEF AliasOver
  <1> QED  BY <1>1, <1>2

\* A failed body goes, and its job may try again or fail.
LEMMA TaskFailsEffect ==
    ASSUME TypeOK, BodiesInv, NEW b \in bodies, TaskFails(b)
    PROVE  \/ ~IsCurrent(b) /\ bodies' = bodies \ {b} /\ jobs' = jobs
           \/ /\ IsCurrent(b) /\ BodyOf(b.rev, b.task, 1) \in Body
              /\ jobs' = [jobs EXCEPT ![b.rev].try = 1]
              /\ bodies' = (bodies \ {b}) \cup {BodyOf(b.rev, b.task, 1)}
           \/ /\ IsCurrent(b)
              /\ jobs' = [jobs EXCEPT ![b.rev].state = "failed"]
              /\ bodies' = bodies \ {b}
  BY DEF TypeOK, TaskFails, Step, BodyOf, Body, Absent

---------------------------------------------------------------------------
(* Types. *)

LEMMA InitTypes == Init => TypeOK
  BY BoundsAreNat DEF Init, TypeOK, BoundsAreNat, Absent, Torn, NoJob, Job, Revs

LEMMA ReviseTypes ==
    ASSUME TypeOK, NEW base \in DOMAIN revs, NEW kind \in Edits, NEW save,
           save \subseteq Save, Revise(base, kind, save)
    PROVE  /\ revs' \in Seq(Revision) /\ Len(revs') <= MaxRev
           /\ Len(revs') = Len(revs) + 1
           /\ \A r \in DOMAIN revs : revs'[r] = revs[r]
           /\ revs'[Len(revs) + 1].kind = kind
           /\ revs'[Len(revs) + 1].base = base
           /\ saves' \subseteq Save
  <1>1. Whole(base) \in BOOLEAN
    BY DEF Whole
  <1>2. base \in 0..MaxRev /\ Len(revs) + 1 <= MaxRev
    BY BoundsAreNat DEF TypeOK, BoundsAreNat, Revise
  <1>3. PICK draft \in BOOLEAN :
          revs' = Append(revs, [base |-> base, kind |-> kind, draft |-> draft,
                                ready |-> Whole(base)])
    BY DEF Revise
  <1>4. [base |-> base, kind |-> kind, draft |-> draft, ready |-> Whole(base)] \in Revision
    BY <1>1, <1>2 DEF Revision
  <1>5. saves' \subseteq Save
    BY DEF Revise, TypeOK
  <1> QED  BY <1>2, <1>3, <1>4, <1>5 DEF TypeOK

LEMMA RevsType ==
    ASSUME TypeOK
    PROVE  /\ DOMAIN revs = 1..Len(revs) /\ DOMAIN revs \subseteq Revs
           /\ Len(revs) \in Nat
           /\ Len(revs) < MaxRev => Len(revs) + 1 \in Revs
  BY BoundsAreNat DEF TypeOK, Revs, BoundsAreNat

LEMMA RequestTypes ==
    ASSUME TypeOK, Requests
    PROVE  TypeOK'
  <1> USE DEF TypeOK
  <1>1. CASE Create
    <2>1. 1 \in Revs /\ MaxRev \in Nat /\ 0 \in 0..MaxRev /\ 1 <= MaxRev
      BY BoundsAreNat DEF BoundsAreNat, Revs
    <2>2. revs' \in Seq(Revision) /\ Len(revs') <= MaxRev
      BY <1>1, <2>1 DEF Create, Revision, Edits
    <2>3. saves' \subseteq Save
      BY <1>1, <2>1 DEF Create, Save
    <2> QED  BY <1>1, <2>2, <2>3 DEF Create, store, runner
  <1>2. ASSUME NEW r \in DOMAIN revs, Upload(r) PROVE TypeOK'
    <2> DEFINE new == {[rev |-> Len(revs) + 1, content |-> uploads + 1, at |-> "write",
                        batch |-> 0]}
    <2>1. new \subseteq Save
      BY <1>2, RevsType DEF Save, Upload, Revise
    <2>2. Revise(r, "upload", new)
      BY <1>2 DEF Upload
    <2>3. revs' \in Seq(Revision) /\ Len(revs') <= MaxRev /\ saves' \subseteq Save
      <3> HIDE DEF new
      <3> QED  BY <2>1, <2>2, ReviseTypes DEF Edits
    <2> QED  BY <1>2, <2>3 DEF Upload, store, runner
  <1>3. ASSUME NEW r \in DOMAIN revs, Redraft(r) PROVE TypeOK'
    <2>1. [rev |-> r, content |-> uploads + 1, at |-> "write", batch |-> 0] \in Save
      BY RevsType DEF Save
    <2> QED  BY <1>3, <2>1, RevsType DEF Redraft, Blame, store, runner
  <1>4. ASSUME NEW r \in DOMAIN revs, Tag(r) PROVE TypeOK'
    <2> DEFINE new == {[rev |-> Len(revs) + 1, content |-> 0, at |-> "batch",
                        batch |-> 1]}
    <2>1. new \subseteq Save
      BY <1>4, RevsType DEF Save, Tag, Revise
    <2>2. Revise(r, "tag", new)
      BY <1>4 DEF Tag
    <2>3. revs' \in Seq(Revision) /\ Len(revs') <= MaxRev /\ saves' \subseteq Save
      <3> HIDE DEF new
      <3> QED  BY <2>1, <2>2, ReviseTypes DEF Edits
    <2>4. Len(revs) + 1 \in Revs /\ r \in Revs /\ Batches[1] \subseteq Names
          /\ MaxRev \in Nat
      BY <2>2, RevsType, BatchFacts, BoundsAreNat DEF Revise, BoundsAreNat
    <2>5. aliasing' \subseteq Alias
      BY <1>4, <2>4 DEF Tag, AliasesOf, Alias
    <2> QED  BY <1>4, <2>3, <2>5 DEF Tag, store, runner
  <1>5. ASSUME NEW r \in DOMAIN revs, Toggle(r) PROVE TypeOK'
    <2>1. Revise(r, "bare", {})
      BY <1>5 DEF Toggle
    <2>2. revs' \in Seq(Revision) /\ Len(revs') <= MaxRev /\ saves' \subseteq Save
      BY <2>1, ReviseTypes DEF Edits
    <2> QED  BY <1>5, <2>2 DEF Toggle, store, runner
  <1> QED  BY <1>1, <1>2, <1>3, <1>4, <1>5 DEF Requests

\* Updates of one record.
LEMMA JobUpdates ==
    ASSUME TypeOK, NEW r \in Revs
    PROVE  /\ [jobs EXCEPT ![r].try = 1] \in [Revs -> Job]
           /\ \A t \in Nat :
                 [jobs EXCEPT ![r].task = t, ![r].try = 0] \in [Revs -> Job]
           /\ \A state \in {"queued", "running", "succeeded", "failed", "lost"} :
                 [jobs EXCEPT ![r].state = state] \in [Revs -> Job]
  <1>1. jobs \in [Revs -> Job] /\ jobs[r] \in Job
    BY DEF TypeOK
  <1>2. [jobs[r] EXCEPT !.try = 1] \in Job
    BY <1>1 DEF Job
  <1>3. ASSUME NEW t \in Nat PROVE [jobs[r] EXCEPT !.task = t, !.try = 0] \in Job
    <2>1. [jobs[r] EXCEPT !.task = t] \in Job
      BY <1>1 DEF Job
    <2>2. \A j \in Job : [j EXCEPT !.try = 0] \in Job
      BY DEF Job
    <2>4. [[jobs[r] EXCEPT !.task = t] EXCEPT !.try = 0] \in Job
      BY <2>1, <2>2
    <2>3. [[jobs[r] EXCEPT !.task = t] EXCEPT !.try = 0]
          = [jobs[r] EXCEPT !.task = t, !.try = 0]
      BY <1>1 DEF Job
    <2> QED  BY <2>3, <2>4
  <1>4. \A state \in {"queued", "running", "succeeded", "failed", "lost"} :
           [jobs[r] EXCEPT !.state = state] \in Job
    BY <1>1 DEF Job
  <1>5. \A j \in Job : [jobs EXCEPT ![r] = j] \in [Revs -> Job]
    BY <1>1
  <1> QED  BY <1>1, <1>2, <1>3, <1>4, <1>5

LEMMA BodyUpdates ==
    ASSUME NEW b \in Body
    PROVE  /\ [b EXCEPT !.at = "torn"] \in Body
           /\ [b EXCEPT !.at = "row"] \in Body
           /\ [b EXCEPT !.at = "write", !.out = @ + 1] \in Body
           /\ \A c \in Nat : [b EXCEPT !.at = "write", !.source = c] \in Body
  <1>1. [b EXCEPT !.at = "torn"] \in Body /\ [b EXCEPT !.at = "row"] \in Body
        /\ [b EXCEPT !.at = "write"] \in Body
    BY DEF Body
  <1>2. [[b EXCEPT !.at = "write"] EXCEPT !.out = b.out + 1] \in Body
    <2>1. b.out + 1 \in Nat
      BY DEF Body
    <2>2. \A c \in Body, n \in Nat : [c EXCEPT !.out = n] \in Body
      BY DEF Body
    <2> QED  BY <1>1, <2>1, <2>2
  <1>3. [[b EXCEPT !.at = "write"] EXCEPT !.out = b.out + 1]
        = [b EXCEPT !.at = "write", !.out = @ + 1]
    BY DEF Body
  <1>4. ASSUME NEW c \in Nat PROVE [b EXCEPT !.at = "write", !.source = c] \in Body
    <2>1. [[b EXCEPT !.at = "write"] EXCEPT !.source = c] \in Body
      BY <1>1 DEF Body
    <2>2. [[b EXCEPT !.at = "write"] EXCEPT !.source = c]
          = [b EXCEPT !.at = "write", !.source = c]
      BY DEF Body
    <2> QED  BY <2>1, <2>2
  <1> QED  BY <1>1, <1>2, <1>3, <1>4

LEMMA BodyFacts ==
    ASSUME TypeOK, BodiesInv, NEW b \in bodies
    PROVE  /\ b.rev \in Revs /\ b.task \in Nat /\ b.try \in 0..1 /\ b.out \in Nat
           /\ b.source \in Nat
           /\ b.task \in 1..Len(Chain) /\ b.out \in 1..Len(Chain[b.task])
           /\ Chain[b.task][b.out] \in Derived /\ Chain[b.task][b.out] \in Names
           /\ Chain[b.task][b.out] # Source
           /\ jobs[b.rev].state # "none" /\ jobs[b.rev] \in Job
  BY ChainFacts, NamesFacts DEF TypeOK, BodiesInv, BodyOK, Body

LEMMA SaveFacts ==
    ASSUME TypeOK, NEW s \in saves
    PROVE  /\ s.rev \in Revs /\ s.content \in Nat /\ s.batch \in Nat
           /\ s.at \in {"write", "torn", "row", "launch", "batch"}
           /\ \A at \in {"write", "torn", "row", "launch", "batch"} :
                 [s EXCEPT !.at = at] \in Save
  BY DEF TypeOK, Save

LEMMA SaveWorkTypes ==
    ASSUME TypeOK, NEW s \in saves, SaveWork(s)
    PROVE  TypeOK'
  <1> USE SaveFacts, NamesFacts DEF TypeOK
  <1>1. CASE WriteSource(s)
    BY <1>1 DEF WriteSource, EmptyFile, Advance, runner
  <1>2. CASE FillSource(s)
    BY <1>2 DEF FillSource, Advance, runner
  <1>3. CASE InsertSource(s)
    <2>1. [name |-> Source, rev |-> s.rev, file |-> s.rev] \in Blob
      BY DEF Blob
    <2>2. saves' \subseteq Save
      BY <1>3 DEF InsertSource, Advance
    <2>3. blobs' \subseteq Blob
      BY <1>3, <2>1 DEF InsertSource, Insert
    <2> QED  BY <1>3, <2>2, <2>3 DEF InsertSource, runner
  <1>4. CASE Launch(s)
    <2>1. [jobs EXCEPT ![s.rev].state = "queued"] \in [Revs -> Job]
      BY JobUpdates
    <2> QED  BY <1>4, <2>1 DEF Launch, store
  <1> QED  BY <1>1, <1>2, <1>3, <1>4 DEF SaveWork

LEMMA AliasOverTypes ==
    ASSUME TypeOK, SavesInv, NEW a \in aliasing, NEW failed, AliasOver(a, failed)
    PROVE  saves' \subseteq Save /\ aliasing' \subseteq Alias
  <1>1. aliasing' \subseteq Alias
    BY AliasOverEffect DEF TypeOK
  <1>2. \A s \in saves : [s EXCEPT !.batch = s.batch + 1] \in Save
    BY DEF TypeOK, Save
  <1>3. saves' \subseteq Save
    BY <1>2, AliasOverEffect DEF TypeOK
  <1> QED  BY <1>1, <1>3

LEMMA LookedUpTypes ==
    ASSUME TypeOK, NEW n \in Names, NEW r \in Revs, LookedUp(n, r)
    PROVE  misses' \subseteq Cached \X Revs
  BY DEF TypeOK, LookedUp

LEMMA AliasFacts ==
    ASSUME TypeOK, NEW a \in aliasing
    PROVE  /\ a.name \in Names /\ a.rev \in Revs /\ a.from \in Revs
           /\ a.file \in 0..MaxRev
           /\ a.file # 0 => a.file \in Revs
           /\ \A f \in Revs : [a EXCEPT !.file = f] \in Alias
  <1>1. a \in Alias
    BY DEF TypeOK
  <1>2. Revs = 1..MaxRev /\ MaxRev \in Nat
    BY BoundsAreNat DEF Revs, BoundsAreNat
  <1>3. ASSUME NEW f \in Revs PROVE [a EXCEPT !.file = f] \in Alias
    BY <1>1, <1>2 DEF Alias
  <1> QED  BY <1>1, <1>2, <1>3 DEF Alias

LEMMA AliasWorkTypes ==
    ASSUME TypeOK, SavesInv, NEW a \in aliasing, AliasWork(a)
    PROVE  TypeOK'
  <1> USE AliasFacts DEF TypeOK
  <1>1. CASE FindOld(a)
    <2>1. misses' \subseteq Cached \X Revs
      BY <1>1, LookedUpTypes DEF FindOld
    <2>2. CASE Finds(a.name, a.from)
      <3>1. \A b \in RowsFor(a.name, a.from) : [a EXCEPT !.file = b.file] \in Alias
        BY DEF RowsFor, Blob
      <3>2. aliasing' \subseteq Alias
        BY <1>1, <2>2, <3>1 DEF FindOld
      <3> QED  BY <1>1, <2>1, <2>2, <3>2 DEF FindOld, store, runner
    <2>3. CASE ~Finds(a.name, a.from)
      <3>1. AliasOver(a, TRUE)
        BY <1>1, <2>3 DEF FindOld
      <3>2. saves' \subseteq Save /\ aliasing' \subseteq Alias
        BY <3>1, AliasOverTypes
      <3> QED  BY <1>1, <2>1, <2>3, <3>2 DEF FindOld, Blame, store, runner
    <2> QED  BY <2>2, <2>3
  <1>2. CASE InsertAlias(a)
    <2>1. PICK failed \in BOOLEAN : AliasOver(a, failed)
      BY <1>2 DEF InsertAlias
    <2>2. saves' \subseteq Save /\ aliasing' \subseteq Alias
      BY <2>1, AliasOverTypes
    <2>3. [name |-> a.name, rev |-> a.rev, file |-> a.file] \in Blob
      BY <1>2 DEF InsertAlias, Blob
    <2> QED  BY <1>2, <2>2, <2>3 DEF InsertAlias, Insert, runner
  <1> QED  BY <1>1, <1>2 DEF AliasWork

LEMMA TaskFailsTypes ==
    ASSUME TypeOK, BodiesInv, NEW b \in bodies, TaskFails(b)
    PROVE  jobs' \in [Revs -> Job] /\ bodies' \subseteq Body
  <1>1. b.rev \in Revs /\ bodies \subseteq Body /\ jobs \in [Revs -> Job]
    BY BodyFacts DEF TypeOK
  <1>2. [jobs EXCEPT ![b.rev].try = 1] \in [Revs -> Job]
        /\ [jobs EXCEPT ![b.rev].state = "failed"] \in [Revs -> Job]
    BY <1>1, JobUpdates
  <1> QED  BY <1>1, <1>2, TaskFailsEffect

LEMMA TaskSucceedsTypes ==
    ASSUME TypeOK, BodiesInv, NEW b \in bodies, TaskSucceeds(b)
    PROVE  jobs' \in [Revs -> Job] /\ bodies' \subseteq Body
  <1>1. b.rev \in Revs /\ b.task \in Nat /\ bodies \subseteq Body
        /\ jobs \in [Revs -> Job]
    BY BodyFacts DEF TypeOK
  <1>2. BodyOf(b.rev, b.task + 1, 0) \in Body
    BY <1>1 DEF BodyOf, Body, Absent
  <1>3. [jobs EXCEPT ![b.rev].task = b.task + 1, ![b.rev].try = 0] \in [Revs -> Job]
    <2> DEFINE t == b.task + 1
    <2>1. t \in Nat
      BY <1>1
    <2>2. [jobs EXCEPT ![b.rev].task = t, ![b.rev].try = 0] \in [Revs -> Job]
      <3> HIDE DEF t
      <3> QED  BY <1>1, <2>1, JobUpdates
    <2> QED  BY <2>2
  <1>4. [jobs EXCEPT ![b.rev].state = "succeeded"] \in [Revs -> Job]
    BY <1>1, JobUpdates
  <1> QED  BY <1>1, <1>2, <1>3, <1>4 DEF TaskSucceeds, Step

LEMMA JobWorkTypes ==
    ASSUME TypeOK, BodiesInv, NEW b \in bodies,
           ReadSource(b) \/ WriteDerived(b) \/ FillDerived(b) \/ InsertDerived(b)
    PROVE  TypeOK'
  <1> USE BodyFacts, NamesFacts DEF TypeOK
  <1>1. CASE ReadSource(b)
    <2>1. misses' \subseteq Cached \X Revs
      BY <1>1, LookedUpTypes DEF ReadSource
    <2>2. CASE Finds(Source, b.rev) /\ files[b.rev][Source] # Torn
      <3>1. files[b.rev][Source] \in Nat
        BY <2>2
      <3>2. [b EXCEPT !.at = "write", !.source = files[b.rev][Source]] \in Body
        BY <3>1, BodyUpdates
      <3> QED  BY <1>1, <2>1, <2>2, <3>2 DEF ReadSource, Step, store, web
    <2>3. CASE ~(Finds(Source, b.rev) /\ files[b.rev][Source] # Torn)
      BY <1>1, <2>1, <2>3, TaskFailsTypes DEF ReadSource, Blame, store, web
    <2> QED  BY <2>2, <2>3
  <1>2. CASE WriteDerived(b)
    <2>1. [b EXCEPT !.at = "torn"] \in Body
      BY BodyUpdates
    <2> QED  BY <1>2, <2>1 DEF WriteDerived, EmptyFile, Step, web
  <1>3. CASE FillDerived(b)
    <2>1. [b EXCEPT !.at = "row"] \in Body
      BY BodyUpdates
    <2> QED  BY <1>3, <2>1 DEF FillDerived, Step, web
  <1>4. CASE InsertDerived(b)
    <2>1. [name |-> Chain[b.task][b.out], rev |-> b.rev, file |-> b.rev] \in Blob
      BY DEF Blob
    <2>2. [b EXCEPT !.at = "write", !.out = @ + 1] \in Body
      BY BodyUpdates
    <2>3. jobs' \in [Revs -> Job] /\ bodies' \subseteq Body
      BY <1>4, <2>2, TaskFailsTypes, TaskSucceedsTypes DEF InsertDerived, Step
    <2> QED  BY <1>4, <2>1, <2>3 DEF InsertDerived, Insert, web
  <1> QED  BY <1>1, <1>2, <1>3, <1>4

LEMMA TakeJobTypes ==
    ASSUME TypeOK, NEW r \in Revs, TakeJob(r)
    PROVE  TypeOK'
  <1> USE DEF TypeOK
  <1>1. [jobs EXCEPT ![r].state = "running"] \in [Revs -> Job]
    BY JobUpdates
  <1>2. BodyOf(r, jobs[r].task, jobs[r].try) \in Body
    BY DEF BodyOf, Body, Absent, Job
  <1> QED  BY <1>1, <1>2 DEF TakeJob, store, web

LEMMA CacheTypes ==
    ASSUME TypeOK, CacheWork
    PROVE  TypeOK'
  <1> USE DEF TypeOK
  <1>1. ASSUME NEW k \in misses, Expire(k) PROVE TypeOK'
    BY <1>1 DEF Expire, store, web, runner
  <1>2. ASSUME NEW n \in Names, NEW r \in DOMAIN revs, View(n, r) PROVE TypeOK'
    BY <1>2, LookedUpTypes, RevsType DEF View, store, web, runner
  <1> QED  BY <1>1, <1>2 DEF CacheWork

LEMMA FaultTypes ==
    ASSUME TypeOK, SavesInv, BodiesInv, Faults
    PROVE  TypeOK'
  <1> USE BoundsAreNat DEF TypeOK, BoundsAreNat
  <1>1. ASSUME NEW s \in saves, SaveFails(s) PROVE TypeOK'
    <2>1. s.rev \in Revs
      BY SaveFacts
    <2> QED  BY <1>1, <2>1 DEF SaveFails, Faulty, Blame, store, runner
  <1>2. ASSUME NEW a \in aliasing, AliasFails(a) PROVE TypeOK'
    <2>1. a.rev \in Revs
      BY AliasFacts
    <2>2. saves' \subseteq Save /\ aliasing' \subseteq Alias
      BY <1>2, AliasOverTypes DEF AliasFails
    <2> QED  BY <1>2, <2>1, <2>2 DEF AliasFails, Faulty, Blame, store, runner
  <1>3. ASSUME NEW b \in bodies, BodyFails(b) PROVE TypeOK'
    BY <1>3, BodyFacts, TaskFailsTypes DEF BodyFails, Faulty, Blame, store, web
  <1>4. ASSUME NEW b \in bodies, TimeOut(b) PROVE TypeOK'
    <2>1. [jobs EXCEPT ![b.rev].try = 1] \in [Revs -> Job]
          /\ [jobs EXCEPT ![b.rev].state = "failed"] \in [Revs -> Job]
      BY BodyFacts, JobUpdates
    <2>2. BodyOf(b.rev, b.task, 1) \in Body
      BY BodyFacts DEF BodyOf, Body, Absent
    <2>3. jobs' \in [Revs -> Job] /\ bodies' \subseteq Body
      BY <1>4, <2>1, <2>2 DEF TimeOut
    <2> QED  BY <1>4, <2>3, BodyFacts DEF TimeOut, Faulty, Blame, store, web
  <1>5. CASE WebCrash
    <2>1. \A s \in saves \cup aliasing : s.rev \in Revs
      BY SaveFacts, AliasFacts
    <2> QED  BY <1>5, <2>1 DEF WebCrash, Faulty, store, runner
  <1>6. CASE RunnerCrash
    <2>1. PICK state \in {"queued", "lost"} :
            jobs' = [r \in Revs |-> IF jobs[r].state = "running"
                                    THEN [jobs[r] EXCEPT !.state = state] ELSE jobs[r]]
      BY <1>6 DEF RunnerCrash
    <2>2. jobs' \in [Revs -> Job]
      BY <2>1 DEF Job
    <2> QED  BY <1>6, <2>2, BodyFacts DEF RunnerCrash, Faulty, store, web
  <1> QED  BY <1>1, <1>2, <1>3, <1>4, <1>5, <1>6 DEF Faults

\* Every step keeps the types.
LEMMA StepTypes ==
    ASSUME IInv, [Next]_vars
    PROVE  TypeOK'
  <1> USE DEF IInv
  <1>1. CASE UNCHANGED vars
    BY <1>1 DEF vars, TypeOK
  <1>2. CASE Next
    BY <1>2, RequestTypes, SaveWorkTypes, AliasWorkTypes, JobWorkTypes, TakeJobTypes,
       CacheTypes, FaultTypes DEF Next, JobWork
  <1> QED  BY <1>1, <1>2

---------------------------------------------------------------------------
(* Rows. *)

\* Revisions, rows and what has happened are never taken back.
LEMMA Growth ==
    ASSUME IInv, [Next]_vars
    PROVE  /\ hurt \subseteq hurt' /\ blobs \subseteq blobs'
           /\ DOMAIN revs \subseteq DOMAIN revs'
           /\ \A r \in DOMAIN revs : revs'[r] = revs[r]
  <1>1. hurt \subseteq hurt'
    BY DEF Next, vars, Requests, Create, Upload, Redraft, Tag, Toggle, SaveWork,
       WriteSource, FillSource, InsertSource, Launch, AliasWork, FindOld, InsertAlias,
       TakeJob, JobWork, ReadSource, WriteDerived, FillDerived, InsertDerived, CacheWork,
       Expire, View, Faults, SaveFails, AliasFails, BodyFails, TimeOut, WebCrash,
       RunnerCrash, Blame
  <1>2. blobs \subseteq blobs'
    BY DEF Next, vars, Requests, Create, Upload, Redraft, Tag, Toggle, SaveWork,
       WriteSource, FillSource, InsertSource, Launch, AliasWork, FindOld, InsertAlias,
       TakeJob, JobWork, ReadSource, WriteDerived, FillDerived, InsertDerived, CacheWork,
       Expire, View, Faults, SaveFails, AliasFails, BodyFails, TimeOut, WebCrash,
       RunnerCrash, Insert, store
  <1>3. DOMAIN revs \subseteq DOMAIN revs' /\ \A r \in DOMAIN revs : revs'[r] = revs[r]
    <2>1. CASE revs' = revs
      BY <2>1
    <2>2. CASE Create
      BY <2>2 DEF Create
    <2>3. ASSUME NEW base \in DOMAIN revs, NEW kind, NEW save, Revise(base, kind, save)
          PROVE  DOMAIN revs \subseteq DOMAIN revs' /\ \A r \in DOMAIN revs : revs'[r] = revs[r]
      BY <2>3 DEF Revise, IInv, TypeOK
    <2> QED
      BY <2>1, <2>2, <2>3 DEF Next, vars, Requests, Upload, Redraft, Tag, Toggle, SaveWork,
         WriteSource, FillSource, InsertSource, Launch, AliasWork, FindOld, InsertAlias,
         TakeJob, JobWork, ReadSource, WriteDerived, FillDerived, InsertDerived, CacheWork,
         Expire, View, Faults, SaveFails, AliasFails, BodyFails, TimeOut, WebCrash,
         RunnerCrash
  <1> QED  BY <1>1, <1>2, <1>3

\* A step inserts one row at most: of a file of the revision, or an alias.
NewRow(n, r, f) ==
    /\ CanInsert(n, r) /\ Insert(n, r, f)
    /\ UNCHANGED <<revs, files, hurt>>
    /\ n \in Names /\ r \in DOMAIN revs /\ f \in DOMAIN revs /\ r \in Revs
    /\ \/ f = r /\ HasUpload(r)
       \/ f < r /\ AliasOf(n, r, f)

LEMMA SourceRow ==
    ASSUME IInv, NEW s \in saves, InsertSource(s)
    PROVE  blobs' = blobs \/ NewRow(Source, s.rev, s.rev)
  <1>1. s.rev \in DOMAIN revs /\ HasUpload(s.rev) /\ s.rev \in Revs
    BY SaveFacts DEF IInv, SavesInv, SaveOK, InsertSource
  <1> QED  BY <1>1, NamesFacts DEF InsertSource, NewRow

LEMMA AliasRow ==
    ASSUME IInv, NEW a \in aliasing, InsertAlias(a)
    PROVE  blobs' = blobs \/ NewRow(a.name, a.rev, a.file)
  <1>1. a.rev \in DOMAIN revs /\ a.name \in Names /\ a.rev \in Revs /\ a.file \in Revs
        /\ DOMAIN revs \subseteq Nat
    BY AliasFacts, RevsType DEF IInv, AliasesInv, AliasOK, InsertAlias
  <1>2. AliasOf(a.name, a.rev, a.file)
    BY DEF IInv, AliasesInv, AliasOK, AliasOf, InsertAlias
  <1>3. PICK o \in blobs : o.rev = revs[a.rev].base /\ o.file = a.file
    BY <1>2 DEF AliasOf
  <1>4. o.rev \in DOMAIN revs /\ o.file \in DOMAIN revs /\ o.file <= o.rev
        /\ o.rev < a.rev
    BY <1>1, <1>3 DEF IInv, RowsInv
  <1>5. a.file \in DOMAIN revs /\ a.file < a.rev
    BY <1>1, <1>3, <1>4
  <1> QED  BY <1>1, <1>2, <1>5 DEF InsertAlias, NewRow

LEMMA DerivedRow ==
    ASSUME IInv, NEW b \in bodies, InsertDerived(b)
    PROVE  blobs' = blobs \/ NewRow(Chain[b.task][b.out], b.rev, b.rev)
  <1>1. b.rev \in Revs /\ Chain[b.task][b.out] \in Names /\ jobs[b.rev].state # "none"
    BY BodyFacts DEF IInv
  <1>2. b.rev \in DOMAIN revs /\ HasUpload(b.rev)
    BY <1>1 DEF IInv, JobsInv, JobOK
  <1> QED  BY <1>1, <1>2 DEF InsertDerived, NewRow

LEMMA NewRows ==
    ASSUME IInv, [Next]_vars
    PROVE  blobs' = blobs \/ \E n \in Names, r \in DOMAIN revs, f \in DOMAIN revs :
                                NewRow(n, r, f)
  <1>1. ASSUME NEW s \in saves, InsertSource(s)
        PROVE  blobs' = blobs \/ \E n, r, f : NewRow(n, r, f)
    BY <1>1, SourceRow
  <1>2. ASSUME NEW a \in aliasing, InsertAlias(a)
        PROVE  blobs' = blobs \/ \E n, r, f : NewRow(n, r, f)
    BY <1>2, AliasRow
  <1>3. ASSUME NEW b \in bodies, InsertDerived(b)
        PROVE  blobs' = blobs \/ \E n, r, f : NewRow(n, r, f)
    BY <1>3, DerivedRow
  <1>4. blobs' = blobs \/ \E n, r, f : NewRow(n, r, f)
    BY <1>1, <1>2, <1>3
    DEF Next, vars, Requests, Create, Upload, Redraft, Tag, Toggle, SaveWork,
        WriteSource, FillSource, Launch, AliasWork, FindOld, TakeJob, JobWork,
        ReadSource, WriteDerived, FillDerived, CacheWork, Expire, View, Faults,
        SaveFails, AliasFails, BodyFails, TimeOut, WebCrash, RunnerCrash, store
  <1> QED  BY <1>4 DEF NewRow

\* The new revision, if there is one, was made from an earlier one.
LEMMA BasesStep ==
    ASSUME IInv, [Next]_vars
    PROVE  \A r \in DOMAIN revs' : revs'[r].base < r
  <1>1. CASE revs' = revs
    BY <1>1 DEF IInv, RowsInv
  <1>2. CASE Create
    BY <1>2 DEF Create
  <1>3. ASSUME NEW base \in DOMAIN revs, NEW kind, NEW save, Revise(base, kind, save)
        PROVE  \A r \in DOMAIN revs' : revs'[r].base < r
    <2>1. PICK draft \in BOOLEAN :
            revs' = Append(revs, [base |-> base, kind |-> kind, draft |-> draft,
                                  ready |-> Whole(base)])
      BY <1>3 DEF Revise
    <2>2. revs \in Seq(Revision) /\ base \in 1..Len(revs)
      BY DEF IInv, TypeOK
    <2>3. revs'[Len(revs) + 1].base = base /\ Len(revs') = Len(revs) + 1
          /\ DOMAIN revs' = 1..(Len(revs) + 1)
          /\ \A r \in DOMAIN revs : revs'[r] = revs[r]
      BY <2>1, <2>2
    <2> QED  BY <2>2, <2>3 DEF IInv, RowsInv
  <1> QED
    BY <1>1, <1>2, <1>3
    DEF Next, vars, Requests, Upload, Redraft, Tag, Toggle, SaveWork, WriteSource,
        FillSource, InsertSource, Launch, AliasWork, FindOld, InsertAlias, TakeJob,
        JobWork, ReadSource, WriteDerived, FillDerived, InsertDerived, CacheWork, Expire,
        View, Faults, SaveFails, AliasFails, BodyFails, TimeOut, WebCrash, RunnerCrash

LEMMA RowsStep ==
    ASSUME IInv, [Next]_vars
    PROVE  RowsInv'
  <1>1. \A r \in DOMAIN revs : HasUpload(r) => HasUpload(r)'
    BY Growth DEF HasUpload, Redrafted
  <1>2. \A n, f : \A r \in DOMAIN revs : AliasOf(n, r, f) => AliasOf(n, r, f)'
    BY Growth DEF AliasOf
  <1>3. ASSUME NEW c \in blobs
        PROVE  /\ c.rev \in DOMAIN revs' /\ c.file \in DOMAIN revs' /\ c.file <= c.rev
               /\ \/ c.file = c.rev /\ HasUpload(c.rev)'
                  \/ c.file < c.rev /\ AliasOf(c.name, c.rev, c.file)'
    BY <1>1, <1>2, Growth DEF IInv, RowsInv
  <1>4. CASE blobs' = blobs
    BY <1>3, <1>4, BasesStep DEF RowsInv
  <1>5. ASSUME NEW n \in Names, NEW r \in DOMAIN revs, NEW f \in DOMAIN revs, NewRow(n, r, f)
        PROVE  RowsInv'
    <2> DEFINE c == [name |-> n, rev |-> r, file |-> f]
    <2>1. c.name = n /\ c.rev = r /\ c.file = f /\ r \in Nat /\ f \in Nat
      BY RevsType DEF IInv, Revs
    <2>2. /\ c.rev \in DOMAIN revs' /\ c.file \in DOMAIN revs' /\ c.file <= c.rev
          /\ \/ c.file = c.rev /\ HasUpload(c.rev)'
             \/ c.file < c.rev /\ AliasOf(c.name, c.rev, c.file)'
      BY <1>1, <1>2, <1>5, <2>1, Growth DEF NewRow
    <2>3. blobs' = blobs \cup {c}
      BY <1>5 DEF NewRow, Insert
    <2> QED  BY <1>3, <2>2, <2>3, BasesStep DEF RowsInv
  <1> QED  BY <1>4, <1>5, NewRows

LEMMA KeysStep ==
    ASSUME IInv, [Next]_vars
    PROVE  KeysInv'
  <1>1. ASSUME NEW n \in Names, NEW r \in DOMAIN revs, NEW f \in DOMAIN revs, NewRow(n, r, f)
        PROVE  KeysInv'
    <2>1. \A c \in blobs : ~(c.name = n /\ c.rev = r)
      BY <1>1 DEF NewRow, CanInsert, RowsFor
    <2> QED  BY <1>1, <2>1 DEF NewRow, Insert, KeysInv, IInv
  <1> QED  BY <1>1, NewRows DEF KeysInv, IInv

\* An alias beside an alias: the rows they were made from agree already.  A
\* file of the revision's own beside an alias: an upload over a draft.
LEMMA SameFileStep ==
    ASSUME IInv, [Next]_vars
    PROVE  SameFile'
  <1>1. \A r : Redrafted(r) => Redrafted(r)'
    BY Growth DEF Redrafted
  <1>2. CASE blobs' = blobs
    BY <1>1, <1>2 DEF SameFile, IInv
  <1>3. ASSUME NEW n \in Names, NEW r \in DOMAIN revs, NEW f \in DOMAIN revs, NewRow(n, r, f)
        PROVE  SameFile'
    <2>1. \A q : Redrafted(q)' <=> Redrafted(q)
      BY <1>3 DEF NewRow, Redrafted
    <2>2. ASSUME NEW c \in blobs, c.rev = r, ~Redrafted(c.file), ~Redrafted(f),
                 (n = Source /\ c.name \in Derived) \/ (n \in Derived /\ c.name = Source)
          PROVE  c.file = f
      <3>1. (c.file = r /\ HasUpload(r)) \/ (c.file < r /\ AliasOf(c.name, r, c.file))
        BY <2>2 DEF IInv, RowsInv
      <3>2. (f = r /\ HasUpload(r)) \/ (f < r /\ AliasOf(n, r, f))
        BY <1>3 DEF NewRow
      <3>3. CASE c.file = r /\ f < r
        BY <2>2, <3>1, <3>2, <3>3, RevsType DEF HasUpload, AliasOf, IInv, Revs
      <3>4. CASE f = r /\ c.file < r
        BY <2>2, <3>1, <3>2, <3>4, RevsType DEF HasUpload, AliasOf, IInv, Revs
      <3>5. CASE c.file < r /\ f < r
        <4>1. AliasOf(c.name, r, c.file) /\ AliasOf(n, r, f)
          BY <3>1, <3>2, <3>5, RevsType DEF IInv, Revs
        <4>2. PICK o \in blobs : o.rev = revs[r].base /\ o.name = n /\ o.file = f
          BY <4>1 DEF AliasOf
        <4>3. PICK p \in blobs : p.rev = revs[r].base /\ p.name = c.name
                                 /\ p.file = c.file
          BY <4>1 DEF AliasOf
        <4> QED  BY <2>2, <4>2, <4>3 DEF SameFile, IInv
      <3> QED  BY <3>1, <3>2, <3>3, <3>4, <3>5
    <2> DEFINE e == [name |-> n, rev |-> r, file |-> f]
    <2>3. blobs' = blobs \cup {e} /\ e.name = n /\ e.rev = r /\ e.file = f
      BY <1>3 DEF NewRow, Insert
    <2> HIDE DEF e
    <2> SUFFICES ASSUME NEW s \in blobs', NEW d \in blobs',
                        s.name = Source, d.name \in Derived, s.rev = d.rev,
                        ~Redrafted(s.file), ~Redrafted(d.file)
                 PROVE  d.file = s.file
      BY <2>1 DEF SameFile
    <2>4. CASE s \in blobs /\ d \in blobs
      BY <2>4 DEF SameFile, IInv
    <2>5. CASE s = e /\ d \in blobs
      BY <2>2, <2>3, <2>5
    <2>6. CASE d = e /\ s \in blobs
      BY <2>2, <2>3, <2>6
    <2>7. CASE s = e /\ d = e
      BY <2>7
    <2> QED  BY <2>3, <2>4, <2>5, <2>6, <2>7
  <1> QED  BY <1>2, <1>3, NewRows

---------------------------------------------------------------------------
(* Requests. *)

LEMMA AliasStays ==
    ASSUME IInv, [Next]_vars, NEW a \in aliasing
    PROVE  AliasOK(a)'
  BY Growth DEF IInv, AliasesInv, AliasOK

LEMMA AliasesStep ==
    ASSUME IInv, [Next]_vars
    PROVE  AliasesInv'
  <1>1. CASE aliasing' \subseteq aliasing
    BY <1>1, AliasStays DEF AliasesInv
  <1>2. ASSUME NEW r \in DOMAIN revs, Tag(r)
        PROVE  AliasesInv'
    <2> DEFINE new == {[rev |-> Len(revs) + 1, content |-> 0, at |-> "batch", batch |-> 1]}
    <2>1. Revise(r, "tag", new)
      BY <1>2 DEF Tag
    <2>2. new \subseteq Save
      BY <2>1, RevsType DEF IInv, Save, Revise
    <2>3. /\ Len(revs') = Len(revs) + 1 /\ revs' \in Seq(Revision)
          /\ revs'[Len(revs) + 1].kind = "tag" /\ revs'[Len(revs) + 1].base = r
      <3> HIDE DEF new
      <3> QED  BY <2>1, <2>2, ReviseTypes DEF IInv, Edits
    <2>4. ASSUME NEW c \in AliasesOf(Batches[1], Len(revs) + 1, r)
          PROVE  AliasOK(c)'
      <3>1. c.rev = Len(revs) + 1 /\ c.from = r /\ c.file = 0
        BY DEF AliasesOf
      <3>2. Len(revs) + 1 \in DOMAIN revs'
        BY <2>3, RevsType DEF IInv
      <3> QED  BY <2>3, <3>1, <3>2 DEF AliasOK
    <2> QED  BY <1>2, <2>4, AliasStays DEF Tag, AliasesInv
  <1>3. ASSUME NEW a \in aliasing, NEW failed, AliasOver(a, failed), UNCHANGED revs
        PROVE  AliasesInv'
    <2>1. ASSUME NEW c \in aliasing', c.rev = a.rev, c.from = a.from, c.file = 0
          PROVE  AliasOK(c)'
      BY <1>3, <2>1 DEF IInv, AliasesInv, AliasOK
    <2> QED  BY <1>3, <2>1, AliasStays, AliasOverEffect DEF AliasesInv, IInv
  <1>4. ASSUME NEW a \in aliasing, FindOld(a)
        PROVE  AliasesInv'
    <2>1. CASE Finds(a.name, a.from)
      <3>1. aliasing' = (aliasing \ {a}) \cup
                  {[a EXCEPT !.file = b.file] : b \in RowsFor(a.name, a.from)}
            /\ UNCHANGED <<revs, blobs>>
        BY <1>4, <2>1 DEF FindOld, store
      <3>2. ASSUME NEW b \in RowsFor(a.name, a.from)
            PROVE  AliasOK([a EXCEPT !.file = b.file])'
        <4> DEFINE c == [a EXCEPT !.file = b.file]
        <4>1. c.rev = a.rev /\ c.from = a.from /\ c.name = a.name /\ c.file = b.file
          BY DEF IInv, TypeOK, Alias
        <4>2. b \in blobs /\ b.rev = a.from /\ b.name = a.name
          BY DEF RowsFor
        <4> HIDE DEF c
        <4>3. AliasOK(c)'
          BY <3>1, <4>1, <4>2 DEF AliasOK, IInv, AliasesInv
        <4> QED  BY <4>3 DEF c
      <3> QED  BY <3>1, <3>2, AliasStays DEF AliasesInv
    <2>2. CASE ~Finds(a.name, a.from)
      <3>1. AliasOver(a, TRUE) /\ UNCHANGED revs
        BY <1>4, <2>2 DEF FindOld
      <3> QED  BY <3>1, <1>3
    <2> QED  BY <2>1, <2>2
  <1>5. ASSUME NEW a \in aliasing, InsertAlias(a) \/ AliasFails(a)
        PROVE  AliasesInv'
    BY <1>3, <1>5 DEF InsertAlias, AliasFails
  <1> QED
    BY <1>1, <1>2, <1>4, <1>5
    DEF Next, vars, Requests, Create, Upload, Redraft, Toggle, SaveWork, WriteSource,
        FillSource, InsertSource, Launch, AliasWork, TakeJob, JobWork, ReadSource,
        WriteDerived, FillDerived, InsertDerived, CacheWork, Expire, View, Faults,
        SaveFails, BodyFails, TimeOut, WebCrash, RunnerCrash, web

\* Only its launch starts the job of a revision.
LEMMA JobsKept ==
    ASSUME IInv, [Next]_vars, NEW r \in Revs, jobs[r] = NoJob,
           \A s \in saves : Launch(s) => s.rev # r
    PROVE  jobs'[r] = NoJob
  <1> USE DEF IInv
  <1>1. jobs \in [Revs -> Job] /\ jobs[r].state = "none"
    BY DEF TypeOK, NoJob
  <1>2. ASSUME NEW s \in saves, Launch(s) PROVE jobs'[r] = NoJob
    BY <1>1, <1>2 DEF Launch
  <1>3. ASSUME NEW q \in Revs, TakeJob(q) PROVE jobs'[r] = NoJob
    BY <1>1, <1>3 DEF TakeJob
  <1>4. ASSUME NEW b \in bodies, TaskFails(b) PROVE jobs'[r] = NoJob
    BY <1>1, <1>4, BodyFacts, TaskFailsEffect
  <1>5. ASSUME NEW b \in bodies, ReadSource(b) \/ BodyFails(b) PROVE jobs'[r] = NoJob
    BY <1>4, <1>5 DEF ReadSource, BodyFails
  <1>6. ASSUME NEW b \in bodies, InsertDerived(b) PROVE jobs'[r] = NoJob
    <2>1. b.rev # r
      BY <1>1, BodyFacts
    <2> QED  BY <1>1, <1>4, <1>6, <2>1 DEF InsertDerived, TaskSucceeds
  <1>7. ASSUME NEW b \in bodies, TimeOut(b) PROVE jobs'[r] = NoJob
    BY <1>1, <1>7, BodyFacts DEF TimeOut
  <1>8. CASE RunnerCrash
    BY <1>1, <1>8 DEF RunnerCrash
  <1> QED
    BY <1>2, <1>3, <1>5, <1>6, <1>7, <1>8
    DEF Next, vars, Requests, Create, Upload, Redraft, Tag, Toggle, SaveWork, WriteSource,
        FillSource, InsertSource, AliasWork, FindOld, InsertAlias, JobWork, WriteDerived,
        FillDerived, CacheWork, Expire, View, Faults, SaveFails, AliasFails, WebCrash,
        runner

\* Only the request that works on it writes an upload.
LEMMA SourceKept ==
    ASSUME IInv, [Next]_vars, NEW r \in Revs,
           \A s \in saves : WriteSource(s) \/ FillSource(s) => s.rev # r
    PROVE  files'[r][Source] = files[r][Source]
  <1> USE DEF IInv
  <1>1. files \in [Revs -> [Names -> Nat \cup {Torn}]]
    BY DEF TypeOK
  <1>2. ASSUME NEW s \in saves, WriteSource(s) \/ FillSource(s)
        PROVE  files'[r][Source] = files[r][Source]
    BY <1>1, <1>2 DEF WriteSource, FillSource, EmptyFile
  <1>3. ASSUME NEW b \in bodies, WriteDerived(b) \/ FillDerived(b)
        PROVE  files'[r][Source] = files[r][Source]
    <2>1. b.rev \in Revs /\ Chain[b.task][b.out] # Source
      BY BodyFacts
    <2> QED  BY <1>1, <1>3, <2>1, NamesFacts DEF WriteDerived, FillDerived, EmptyFile
  <1> QED
    BY <1>2, <1>3
    DEF Next, vars, Requests, Create, Upload, Redraft, Tag, Toggle, SaveWork, InsertSource,
        Launch, AliasWork, FindOld, InsertAlias, TakeJob, JobWork, ReadSource,
        InsertDerived, CacheWork, Expire, View, Faults, SaveFails, AliasFails, BodyFails,
        TimeOut, WebCrash, RunnerCrash, store

\* ... and inserts the first row that names it.
LEMMA SourceUnnamedKept ==
    ASSUME IInv, [Next]_vars, NEW r \in Revs, Unnamed(Source, r),
           \A s \in saves : InsertSource(s) => s.rev # r
    PROVE  Unnamed(Source, r)'
  <1> USE DEF IInv
  <1>1. CASE blobs' = blobs
    BY <1>1 DEF Unnamed
  <1>2. ASSUME NEW s \in saves, InsertSource(s) PROVE Unnamed(Source, r)'
    BY <1>2 DEF InsertSource, Insert, Unnamed
  <1>3. ASSUME NEW a \in aliasing, InsertAlias(a) PROVE Unnamed(Source, r)'
    <2>1. AliasOf(a.name, a.rev, a.file)
      BY <1>3 DEF AliasesInv, AliasOK, AliasOf, InsertAlias
    <2>2. ~(a.name = Source /\ a.file = r)
      BY <2>1 DEF AliasOf, Unnamed
    <2> DEFINE e == [name |-> a.name, rev |-> a.rev, file |-> a.file]
    <2>3. blobs' \subseteq blobs \cup {e} /\ e.name = a.name /\ e.file = a.file
      BY <1>3 DEF InsertAlias, Insert
    <2> HIDE DEF e
    <2> QED  BY <2>2, <2>3 DEF Unnamed
  <1>4. ASSUME NEW b \in bodies, InsertDerived(b) PROVE Unnamed(Source, r)'
    <2>1. Chain[b.task][b.out] # Source
      BY BodyFacts
    <2> QED  BY <1>4, <2>1 DEF InsertDerived, Insert, Unnamed
  <1> QED
    BY <1>1, <1>2, <1>3, <1>4
    DEF Next, vars, Requests, Create, Upload, Redraft, Tag, Toggle, SaveWork, WriteSource,
        FillSource, Launch, AliasWork, FindOld, TakeJob, JobWork, ReadSource,
        WriteDerived, FillDerived, CacheWork, Expire, View, Faults, SaveFails,
        AliasFails, BodyFails, TimeOut, WebCrash, RunnerCrash, store

\* What a request relies on holds while others work.
LEMMA SaveStays ==
    ASSUME IInv, [Next]_vars, NEW s \in saves, s \in saves'
    PROVE  SaveOK(s)'
  <1> USE DEF IInv
  <1>1. \A z \in saves : SaveWork(z) => z.rev # s.rev
    <2>1. \A z \in saves : SaveWork(z) => z \notin saves'
      BY DEF SaveWork, WriteSource, FillSource, InsertSource, Launch, Advance, TypeOK, Save
    <2> QED  BY <2>1 DEF SavesInv
  <1>2. SaveOK(s) /\ s.rev \in Revs
    BY SaveFacts DEF SavesInv
  <1>3. files'[s.rev][Source] = files[s.rev][Source]
    BY <1>1, <1>2, SourceKept DEF SaveWork
  <1>4. jobs[s.rev] = NoJob => jobs'[s.rev] = NoJob
    BY <1>1, <1>2, JobsKept DEF SaveWork
  <1>5. Unnamed(Source, s.rev) => Unnamed(Source, s.rev)'
    BY <1>1, <1>2, SourceUnnamedKept DEF SaveWork
  <1>6. /\ s.rev \in DOMAIN revs' /\ revs'[s.rev] = revs[s.rev]
        /\ HasUpload(s.rev) => HasUpload(s.rev)'
        /\ Redrafted(s.rev) => Redrafted(s.rev)'
        /\ Own(Source, s.rev) \in blobs => Own(Source, s.rev) \in blobs'
    BY <1>2, Growth DEF SaveOK, HasUpload, Redrafted
  <1> QED  BY <1>2, <1>3, <1>4, <1>5, <1>6 DEF SaveOK, Own

LEMMA FreshRevision ==
    ASSUME IInv, NEW r \in Revs, r \notin DOMAIN revs
    PROVE  /\ \A s \in saves : s.rev # r
           /\ jobs[r] = NoJob
           /\ \A n : Unnamed(n, r)
  BY DEF IInv, SavesInv, SaveOK, JobsInv, JobOK, RowsInv, Unnamed

LEMMA FewerSaves ==
    ASSUME IInv, [Next]_vars, saves' \subseteq saves
    PROVE  SavesInv'
  BY SaveStays DEF SavesInv, IInv

\* A request starts or goes on, alone on its revision.
LEMMA SaveGoesOn ==
    ASSUME IInv, [Next]_vars, NEW z, SaveOK(z)',
           saves' \subseteq {s \in saves : s.rev # z.rev} \cup {z}
    PROVE  SavesInv'
  BY SaveStays DEF SavesInv, IInv

LEMMA RequestsSaves ==
    ASSUME IInv, Requests
    PROVE  SavesInv'
  <1> USE DEF IInv
  <1>1. [Next]_vars
    BY DEF Next
  <1>2. CASE Create
    <2> DEFINE z == [rev |-> 1, content |-> 1, at |-> "write", batch |-> 0]
    <2>1. 1 \in Revs /\ revs = <<>>
      BY <1>2, BoundsAreNat DEF Create, Revs, BoundsAreNat
    <2>2. jobs[1] = NoJob /\ Unnamed(Source, 1)
      BY <2>1, FreshRevision
    <2>3. SaveOK(z)'
      BY <1>2, <2>2 DEF Create, SaveOK, HasUpload, Unnamed, store, runner
    <2> QED  BY <1>1, <1>2, <2>3, SaveGoesOn DEF Create
  <1>3. ASSUME NEW r \in DOMAIN revs, NEW kind \in {"upload", "tag"},
               NEW z, z \in Save, z.rev = Len(revs) + 1, Revise(r, kind, {z}),
               UNCHANGED <<jobs, blobs>>,
               IF kind = "upload" THEN z.at = "write" /\ z.content > 0
               ELSE z.at = "batch" /\ z.batch = 1
        PROVE  SavesInv'
    <2>1. /\ Len(revs') = Len(revs) + 1 /\ revs' \in Seq(Revision)
          /\ revs'[Len(revs) + 1].kind = kind
      BY <1>3, ReviseTypes DEF Edits
    <2>2. z.rev \in Revs /\ z.rev \notin DOMAIN revs /\ z.rev \in DOMAIN revs'
      BY <1>3, <2>1, RevsType DEF Revise
    <2>3. jobs[z.rev] = NoJob /\ Unnamed(Source, z.rev) /\ \A s \in saves : s.rev # z.rev
      BY <2>2, FreshRevision
    <2>4. SaveOK(z)'
      BY <1>3, <2>1, <2>2, <2>3, BatchFacts DEF SaveOK, HasUpload, Unnamed
    <2>5. saves' \subseteq {s \in saves : s.rev # z.rev} \cup {z}
      BY <1>3, <2>3 DEF Revise
    <2> QED  BY <1>1, <2>4, <2>5, SaveGoesOn
  <1>4. ASSUME NEW r \in DOMAIN revs, Upload(r) PROVE SavesInv'
    <2>1. PICK z : z = [rev |-> Len(revs) + 1, content |-> uploads + 1, at |-> "write",
                        batch |-> 0]
      OBVIOUS
    <2>2. Revise(r, "upload", {z}) /\ UNCHANGED <<jobs, blobs>>
      BY <1>4, <2>1 DEF Upload, store, runner
    <2>3. z \in Save /\ z.rev = Len(revs) + 1 /\ z.at = "write" /\ z.content > 0
      BY <2>1, <2>2, RevsType DEF Save, Revise, TypeOK
    <2> QED  BY <1>3, <2>2, <2>3
  <1>5. ASSUME NEW r \in DOMAIN revs, Tag(r) PROVE SavesInv'
    <2>1. PICK z : z = [rev |-> Len(revs) + 1, content |-> 0, at |-> "batch", batch |-> 1]
      OBVIOUS
    <2>2. Revise(r, "tag", {z}) /\ UNCHANGED <<jobs, blobs>>
      BY <1>5, <2>1 DEF Tag, store, runner
    <2>3. z \in Save /\ z.rev = Len(revs) + 1 /\ z.at = "batch" /\ z.batch = 1
      BY <2>1, <2>2, RevsType DEF Save, Revise, TypeOK
    <2> QED  BY <1>3, <2>2, <2>3
  <1>6. ASSUME NEW r \in DOMAIN revs, Toggle(r) PROVE SavesInv'
    BY <1>1, <1>6, FewerSaves DEF Toggle, Revise
  <1>7. ASSUME NEW r \in DOMAIN revs, Redraft(r) PROVE SavesInv'
    <2>1. PICK z : z = [rev |-> r, content |-> uploads + 1, at |-> "write", batch |-> 0]
      OBVIOUS
    <2>2. r \in DOMAIN revs' /\ Redrafted(r)'
          /\ z.content > 0 /\ z.rev = r /\ z.at = "write"
      BY <1>7, <2>1 DEF Redraft, Blame, Redrafted, TypeOK
    <2>3. saves' \subseteq {s \in saves : s.rev # z.rev} \cup {z}
      BY <1>7, <2>1 DEF Redraft
    <2>4. SaveOK(z)'
      BY <2>2 DEF SaveOK, HasUpload
    <2> QED  BY <1>1, <2>3, <2>4, SaveGoesOn
  <1> QED  BY <1>2, <1>4, <1>5, <1>6, <1>7 DEF Requests

LEMMA SaveWorkSaves ==
    ASSUME IInv, NEW s \in saves, SaveWork(s)
    PROVE  SavesInv'
  <1> USE DEF IInv
  <1>1. [Next]_vars
    BY DEF Next
  <1>2. /\ s.rev \in Revs /\ SaveOK(s) /\ s \in Save
        /\ \A z \in saves : z.rev = s.rev => z = s
    BY SaveFacts DEF SavesInv, TypeOK
  <1>3. ASSUME NEW at \in {"torn", "row", "launch"}, Advance(s, at),
               SaveOK([s EXCEPT !.at = at])'
        PROVE  SavesInv'
    <2> DEFINE z == [s EXCEPT !.at = at]
    <2>1. z.rev = s.rev
      BY <1>2 DEF Save
    <2>2. saves' \subseteq {o \in saves : o.rev # z.rev} \cup {z}
      BY <1>2, <1>3, <2>1 DEF Advance
    <2> HIDE DEF z
    <2>3. SaveOK(z)'
      BY <1>3 DEF z
    <2> QED  BY <1>1, <2>2, <2>3, SaveGoesOn
  <1>4. CASE WriteSource(s)
    <2> DEFINE z == [s EXCEPT !.at = "torn"]
    <2>1. z.rev = s.rev /\ z.at = "torn" /\ z.content = s.content
      BY <1>2 DEF Save
    <2>2. UNCHANGED <<revs, blobs, jobs, hurt>>
      BY <1>4 DEF WriteSource, runner
    <2> HIDE DEF z
    <2>3. SaveOK(z)'
      BY <1>2, <1>4, <2>1, <2>2 DEF WriteSource, SaveOK, HasUpload, Redrafted, Unnamed
    <2> QED  BY <1>3, <1>4, <2>3 DEF WriteSource, z
  <1>5. CASE FillSource(s)
    <2> DEFINE z == [s EXCEPT !.at = "row"]
    <2>1. z.rev = s.rev /\ z.at = "row" /\ z.content = s.content
      BY <1>2 DEF Save
    <2>2. UNCHANGED <<revs, blobs, jobs, hurt>>
      BY <1>5 DEF FillSource, runner
    <2>3. files'[s.rev][Source] = s.content
      BY <1>2, <1>5, NamesFacts DEF FillSource, TypeOK
    <2> HIDE DEF z
    <2>4. SaveOK(z)'
      BY <1>2, <1>5, <2>1, <2>2, <2>3 DEF FillSource, SaveOK, HasUpload, Redrafted
    <2> QED  BY <1>3, <1>5, <2>4 DEF FillSource, z
  <1>6. CASE InsertSource(s)
    <2>1. CASE CanInsert(Source, s.rev)
      <3> DEFINE z == [s EXCEPT !.at = "launch"]
      <3>1. z.rev = s.rev /\ z.at = "launch" /\ z.content = s.content
        BY <1>2 DEF Save
      <3>2. /\ UNCHANGED <<revs, files, jobs, hurt>> /\ Advance(s, "launch")
            /\ Own(Source, s.rev) \in blobs' /\ s.at = "row"
        BY <1>6, <2>1 DEF InsertSource, Insert, Own, runner
      <3> HIDE DEF z
      <3>3. SaveOK(z)'
        BY <1>2, <3>1, <3>2 DEF SaveOK, HasUpload, Redrafted, Own
      <3> QED  BY <1>3, <3>2, <3>3 DEF z
    <2>2. CASE ~CanInsert(Source, s.rev)
      BY <1>1, <1>6, <2>2, FewerSaves DEF InsertSource
    <2> QED  BY <2>1, <2>2
  <1>7. CASE Launch(s)
    BY <1>1, <1>7, FewerSaves DEF Launch
  <1> QED  BY <1>4, <1>5, <1>6, <1>7 DEF SaveWork

LEMMA AliasOverSaves ==
    ASSUME IInv, [Next]_vars, NEW a \in aliasing, NEW failed, AliasOver(a, failed),
           UNCHANGED revs
    PROVE  SavesInv'
  <1> USE DEF IInv
  <1>1. ASSUME NEW s \in saves, s.at = "batch", s.batch + 1 \in DOMAIN Batches,
               saves' = (saves \ {s}) \cup {[s EXCEPT !.batch = s.batch + 1]}
        PROVE  SavesInv'
    <2> DEFINE z == [s EXCEPT !.batch = s.batch + 1]
    <2>1. z.rev = s.rev /\ z.at = "batch" /\ z.batch = s.batch + 1
      BY <1>1 DEF TypeOK, Save
    <2>2. saves' \subseteq {o \in saves : o.rev # z.rev} \cup {z}
      BY <1>1, <2>1 DEF SavesInv
    <2> HIDE DEF z
    <2>3. SaveOK(z)'
      BY <1>1, <2>1 DEF SavesInv, SaveOK
    <2> QED  BY <2>2, <2>3, SaveGoesOn
  <1>2. CASE saves' \subseteq saves
    BY <1>2, FewerSaves
  <1> QED  BY <1>1, <1>2, AliasOverEffect

LEMMA SavesStep ==
    ASSUME IInv, [Next]_vars
    PROVE  SavesInv'
  <1>1. CASE saves' \subseteq saves
    BY <1>1, FewerSaves
  <1>2. ASSUME NEW a \in aliasing, AliasWork(a) \/ AliasFails(a)
        PROVE  SavesInv'
    <2>1. saves' = saves \/ \E failed : AliasOver(a, failed)
      BY <1>2 DEF AliasWork, FindOld, InsertAlias, AliasFails
    <2>2. UNCHANGED revs
      BY <1>2 DEF AliasWork, FindOld, InsertAlias, AliasFails
    <2> QED  BY <1>1, <2>1, <2>2, AliasOverSaves
  <1> QED
    BY <1>1, <1>2, RequestsSaves, SaveWorkSaves
    DEF Next, vars, TakeJob, JobWork, ReadSource, WriteDerived, FillDerived, InsertDerived,
        CacheWork, Expire, View, Faults, SaveFails, BodyFails, TimeOut, WebCrash,
        RunnerCrash, web

---------------------------------------------------------------------------
(* Jobs and bodies.  Every step but the crash of the runner touches one       *)
(* revision at most.                                                          *)

Touches(r) ==
    ~ /\ jobs'[r] = jobs[r] /\ files'[r] = files[r]
      /\ \A b : b.rev = r => (b \in bodies' <=> b \in bodies)
      /\ \A n \in Derived : Unnamed(n, r) => Unnamed(n, r)'

\* What is said of a revision, its job and its bodies.
RevOK(r) == JobOK(r) /\ \A b \in bodies : b.rev = r => BodyOK(b)

LEMMA RevsAreOK ==
    ASSUME IInv
    PROVE  \A r \in Revs : RevOK(r)
  BY DEF IInv, JobsInv, BodiesInv, RevOK

LEMMA MadeKept ==
    ASSUME IInv, [Next]_vars
    PROVE  \A t, i, r : Made(t, i, r) => Made(t, i, r)'
  BY Growth DEF Made, Own

LEMMA HurtKept ==
    ASSUME IInv, [Next]_vars
    PROVE  \A r : (Redrafted(r) => Redrafted(r)') /\ (Hurt(r) => Hurt(r)')
  BY Growth DEF Hurt, Redrafted

LEMMA UploadKept ==
    ASSUME IInv, [Next]_vars, NEW r \in DOMAIN revs, HasUpload(r)
    PROVE  r \in DOMAIN revs' /\ HasUpload(r)'
  BY Growth DEF HasUpload, Redrafted

LEMMA UnmadeKept ==
    ASSUME IInv, NEW r, \A n \in Derived : Unnamed(n, r) => Unnamed(n, r)'
    PROVE  \A t, i : Unmade(t, i, r) => Unmade(t, i, r)'
  BY ChainFacts DEF Unmade

LEMMA UntouchedIsOK ==
    ASSUME IInv, [Next]_vars, NEW r \in Revs, ~Touches(r)
    PROVE  RevOK(r)'
  <1>1. /\ jobs'[r] = jobs[r] /\ files'[r] = files[r]
        /\ \A b : b.rev = r => (b \in bodies' <=> b \in bodies)
        /\ \A n \in Derived : Unnamed(n, r) => Unnamed(n, r)'
    BY DEF Touches
  <1>2. RevOK(r)
    BY RevsAreOK
  <1>3. JobOK(r)'
    <2>1. jobs[r].state # "none" =>
             r \in DOMAIN revs' /\ HasUpload(r)' /\ Own(Source, r) \in blobs'
      BY <1>2, Growth, UploadKept DEF RevOK, JobOK
    <2>2. (\E b \in bodies : b.rev = r /\ IsCurrent(b))
          => \E b \in bodies' : b.rev = r /\ IsCurrent(b)'
      BY <1>1 DEF IsCurrent
    <2> QED
      BY <1>1, <1>2, <2>1, <2>2, MadeKept, HurtKept, UnmadeKept DEF RevOK, JobOK, Own
  <1>4. ASSUME NEW b \in bodies', b.rev = r PROVE BodyOK(b)'
    <2>1. b \in bodies /\ BodyOK(b)
      BY <1>1, <1>2, <1>4 DEF RevOK
    <2> QED
      BY <1>1, <1>4, <2>1, MadeKept, HurtKept, UnmadeKept DEF BodyOK
  <1> QED  BY <1>3, <1>4 DEF RevOK

\* A new row says nothing new about other files.
LEMMA UnnamedKept ==
    ASSUME IInv, NEW n \in Names, NEW r \in DOMAIN revs, NEW f \in DOMAIN revs,
           NewRow(n, r, f), NEW m, NEW q, Unnamed(m, q), ~(m = n /\ q = r /\ q = f)
    PROVE  Unnamed(m, q)'
  <1> DEFINE e == [name |-> n, rev |-> r, file |-> f]
  <1>1. blobs' = blobs \cup {e} /\ e.name = n /\ e.file = f
    BY DEF NewRow, Insert
  <1>2. f # r => \E o \in blobs : o.name = n /\ o.file = f
    BY DEF NewRow, AliasOf
  <1>3. ~(m = n /\ q = f)
    BY <1>2 DEF Unnamed
  <1> HIDE DEF e
  <1> QED  BY <1>1, <1>3 DEF Unnamed

\* People, aliases, caches and the end of requests leave jobs and files alone.
LEMMA QuietSteps ==
    ASSUME IInv, [Next]_vars, UNCHANGED <<jobs, bodies, files>>,
           \A b \in bodies : ~InsertDerived(b)
    PROVE  \A r \in Revs : ~Touches(r)
  <1>1. CASE blobs' = blobs
    BY <1>1 DEF Touches, Unnamed
  <1>2. ASSUME NEW s \in saves, InsertSource(s), blobs' # blobs
        PROVE  \A r \in Revs : ~Touches(r)
    <2>1. NewRow(Source, s.rev, s.rev)
      BY <1>2, SourceRow
    <2>2. Source \in Names /\ s.rev \in DOMAIN revs
      BY <2>1 DEF NewRow
    <2>3. \A n \in Derived, r \in Revs : Unnamed(n, r) => Unnamed(n, r)'
      BY <2>1, <2>2, UnnamedKept, NamesFacts
    <2> QED  BY <2>3 DEF Touches
  <1>3. ASSUME NEW a \in aliasing, InsertAlias(a), blobs' # blobs
        PROVE  \A r \in Revs : ~Touches(r)
    <2>1. NewRow(a.name, a.rev, a.file)
      BY <1>3, AliasRow
    <2>2. a.name \in Names /\ a.rev \in DOMAIN revs /\ a.file \in DOMAIN revs
      BY <2>1 DEF NewRow
    <2>3. a.file # a.rev
      <3>1. AliasOf(a.name, a.rev, a.file)
        BY <1>3 DEF InsertAlias, IInv, AliasesInv, AliasOK, AliasOf
      <3>2. PICK o \in blobs : o.rev = revs[a.rev].base /\ o.file = a.file
        BY <3>1 DEF AliasOf
      <3>3. o.file <= o.rev /\ o.rev < a.rev /\ o.rev \in Nat /\ o.file \in Nat
            /\ a.rev \in Nat
        BY <2>2, <3>2, RevsType DEF IInv, RowsInv, Revs
      <3> QED  BY <3>2, <3>3
    <2>4. \A n \in Derived, r \in Revs : Unnamed(n, r) => Unnamed(n, r)'
      BY <2>1, <2>2, <2>3, UnnamedKept
    <2> QED  BY <2>4 DEF Touches
  <1> QED
    BY <1>1, <1>2, <1>3
    DEF Next, vars, Requests, Create, Upload, Redraft, Tag, Toggle, SaveWork, WriteSource,
        FillSource, Launch, AliasWork, FindOld, TakeJob, JobWork, ReadSource,
        WriteDerived, FillDerived, CacheWork, Expire, View, Faults, SaveFails,
        AliasFails, BodyFails, TimeOut, WebCrash, RunnerCrash, store

\* An upload is written before the job, or after a second upload.
LEMMA UploadWritten ==
    ASSUME IInv, NEW s \in saves, WriteSource(s) \/ FillSource(s), NEW r \in Revs
    PROVE  RevOK(r)'
  <1> USE DEF IInv
  <1>1. [Next]_vars
    BY DEF Next, SaveWork
  <1>2. /\ s.rev \in Revs /\ SaveOK(s) /\ s.at # "batch"
        /\ files \in [Revs -> [Names -> Nat \cup {Torn}]]
    BY SaveFacts DEF SavesInv, TypeOK, WriteSource, FillSource
  <1>3. /\ \A q \in Revs \ {s.rev} : files'[q] = files[q]
        /\ \A n \in Names \ {Source} : files'[s.rev][n] = files[s.rev][n]
        /\ UNCHANGED <<revs, blobs, jobs, bodies, hurt>>
    BY <1>2 DEF WriteSource, FillSource, EmptyFile, runner
  <1>4. CASE r # s.rev
    <2>1. ~Touches(r)
      BY <1>3, <1>4 DEF Touches, Unnamed
    <2> QED  BY <1>1, <2>1, UntouchedIsOK
  <1>5. CASE r = s.rev
    <2>1. RevOK(r) /\ (~Redrafted(r) => jobs[r] = NoJob)
      BY <1>2, <1>5, RevsAreOK DEF SaveOK
    <2>2. \A n \in Derived : n \in Names \ {Source}
      BY NamesFacts
    <2>3. JobOK(r)'
      BY <1>3, <1>5, <2>1, <2>2
      DEF RevOK, JobOK, Hurt, Redrafted, HasUpload, Own, Made, Unmade, Unnamed, IsCurrent,
          NoJob
    <2>4. ASSUME NEW b \in bodies', b.rev = r PROVE BodyOK(b)'
      <3>1. BodyOK(b) /\ b \in bodies
        BY <1>3, <2>1, <2>4 DEF RevOK
      <3>2. Redrafted(r)
        BY <2>1, <2>4, <3>1 DEF BodyOK, NoJob
      <3>3. Chain[b.task][b.out] \in Names \ {Source}
        BY <3>1, BodyFacts
      <3> QED
        BY <1>3, <1>5, <2>4, <3>1, <3>2, <3>3
        DEF BodyOK, Hurt, Redrafted, Own, Made
    <2> QED  BY <2>3, <2>4 DEF RevOK
  <1> QED  BY <1>4, <1>5

\* A launch finds no job, or its revision has had a second upload.
LEMMA JobLaunched ==
    ASSUME IInv, NEW s \in saves, Launch(s), NEW r \in Revs
    PROVE  RevOK(r)'
  <1> USE DEF IInv
  <1>1. [Next]_vars
    BY DEF Next, SaveWork
  <1>2. /\ s.rev \in Revs /\ SaveOK(s) /\ s.at = "launch" /\ jobs \in [Revs -> Job]
        /\ UNCHANGED <<revs, blobs, bodies, files, hurt>>
    BY SaveFacts DEF SavesInv, TypeOK, Launch, store
  <1>3. CASE r # s.rev \/ Chain = <<>>
    <2>1. ~Touches(r)
      BY <1>2, <1>3 DEF Touches, Unnamed, Launch
    <2> QED  BY <1>1, <2>1, UntouchedIsOK
  <1>4. CASE r = s.rev /\ Chain # <<>>
    <2>1. /\ jobs'[r].state = "queued" /\ jobs'[r].task = jobs[r].task
      BY <1>2, <1>4 DEF Launch, Job
    <2>2. /\ RevOK(r) /\ (~Redrafted(r) => jobs[r] = NoJob)
          /\ r \in DOMAIN revs /\ HasUpload(r) /\ Own(Source, r) \in blobs
      BY <1>2, <1>4, RevsAreOK DEF SaveOK
    <2>3. jobs'[r].task \in DOMAIN Chain /\ Made(jobs'[r].task, 1, r)
      <3>1. CASE jobs[r].state = "none"
        <4>1. jobs'[r].task = 1
          BY <2>1, <2>2, <3>1 DEF RevOK, JobOK, NoJob
        <4>2. 1 \in DOMAIN Chain
          BY <1>4, ChainFacts
        <4>3. Made(1, 1, r)
          BY ChainFacts DEF Made, Before
        <4> QED  BY <4>1, <4>2, <4>3
      <3>2. CASE jobs[r].state # "none"
        BY <2>1, <2>2, <3>2 DEF RevOK, JobOK
      <3> QED  BY <3>1, <3>2
    <2>4. ~Hurt(r) => Unmade(jobs'[r].task, 1, r) /\ \A b \in bodies : b.rev # r
      <3>1. ASSUME ~Hurt(r), NEW b \in bodies PROVE b.rev # r
        BY <2>2, <3>1 DEF Hurt, BodiesInv, BodyOK, NoJob
      <3>2. ASSUME ~Hurt(r) PROVE Unmade(jobs'[r].task, 1, r)
        BY <2>2, <3>2, ChainFacts DEF Hurt, RevOK, JobOK, Unmade, NoJob
      <3> QED  BY <3>1, <3>2
    <2>5. JobOK(r)'
      BY <1>2, <2>1, <2>2, <2>3, <2>4
      DEF RevOK, JobOK, Hurt, Redrafted, HasUpload, Own, Made, Unmade, Unnamed
    <2>6. ASSUME NEW b \in bodies', b.rev = r PROVE BodyOK(b)'
      BY <1>2, <2>1, <2>2, <2>6
      DEF RevOK, BodyOK, Hurt, Redrafted, Own, Made, Unmade, Unnamed
    <2> QED  BY <2>5, <2>6 DEF RevOK
  <1> QED  BY <1>3, <1>4

\* A queued job has no body yet, unless its revision was hurt.
LEMMA JobTaken ==
    ASSUME IInv, NEW q \in Revs, TakeJob(q), NEW r \in Revs
    PROVE  RevOK(r)'
  <1> USE DEF IInv
  <1> DEFINE z == BodyOf(q, jobs[q].task, jobs[q].try)
  <1>1. [Next]_vars
    BY DEF Next
  <1>2. /\ UNCHANGED <<revs, blobs, files, hurt>> /\ jobs \in [Revs -> Job]
        /\ jobs' = [jobs EXCEPT ![q].state = "running"]
        /\ jobs[q].state = "queued"
    BY DEF TypeOK, TakeJob, store
  <1>3. PICK b \in {z} : TRUE
    OBVIOUS
  <1>4. /\ bodies' = bodies \cup {b}
        /\ b.rev = q /\ b.task = jobs[q].task /\ b.try = jobs[q].try /\ b.out = 1
        /\ b.at = "read"
    BY <1>3 DEF BodyOf, TakeJob
  <1>5. CASE r # q
    <2>1. ~Touches(r)
      BY <1>2, <1>4, <1>5 DEF Touches, Unnamed
    <2> QED  BY <1>1, <2>1, UntouchedIsOK
  <1>6. CASE r = q
    <2>1. RevOK(r)
      BY RevsAreOK
    <2>2. jobs'[r].state = "running" /\ jobs'[r].task = jobs[r].task
          /\ jobs'[r].try = jobs[r].try
      BY <1>2, <1>6 DEF Job
    <2>3. IsCurrent(b)'
      BY <1>4, <1>6, <2>2 DEF IsCurrent
    <2>4. JobOK(r)'
      BY <1>2, <1>4, <1>6, <2>1, <2>2, <2>3
      DEF RevOK, JobOK, Hurt, Redrafted, HasUpload, Own, Made
    <2>5. BodyOK(b)'
      <3>1. 1 \in DOMAIN Chain[b.task] /\ b.task \in DOMAIN Chain
        BY <1>2, <1>4, <1>6, <2>1, ChainFacts DEF RevOK, JobOK
      <3> QED
        BY <1>2, <1>4, <1>6, <2>1, <2>2, <3>1
        DEF RevOK, JobOK, BodyOK, Hurt, Redrafted, Own, Made, Unmade, Unnamed
    <2>6. ASSUME NEW c \in bodies, c.rev = r PROVE BodyOK(c)'
      BY <1>2, <2>1, <2>2, <2>6
      DEF RevOK, BodyOK, Hurt, Redrafted, Own, Made, Unmade, Unnamed
    <2> QED  BY <1>4, <2>4, <2>5, <2>6 DEF RevOK
  <1> QED  BY <1>5, <1>6

\* What a body's step may do to the files and rows it works on.
Writes(b, n, q) == q = b.rev /\ n = Chain[b.task][b.out]
BodyWrites(b) ==
    /\ UNCHANGED revs
    /\ \A q \in Revs \ {b.rev} : files'[q] = files[q]
    /\ \A n \in Names :
          \/ files'[b.rev][n] = files[b.rev][n]
          \/ /\ Writes(b, n, b.rev) /\ files'[b.rev][n] # Absent
             /\ ~Redrafted(b.rev) => files'[b.rev][n] \in {Torn, files[b.rev][Source]}
    /\ \A n \in Derived, q \in Revs :
          Unnamed(n, q) /\ ~Writes(b, n, q) => Unnamed(n, q)'

\* Facts that the lemmas about bodies share.
LEMMA BodyContext ==
    ASSUME IInv, NEW b \in bodies
    PROVE  /\ RevOK(b.rev) /\ BodyOK(b)
           /\ b.rev \in DOMAIN revs /\ HasUpload(b.rev) /\ Own(Source, b.rev) \in blobs
           /\ ~Hurt(b.rev) => \A d \in bodies : d.rev = b.rev => d = b
           /\ ~(jobs[b.rev].state = "queued" /\ ~Hurt(b.rev))
  <1>1. b.rev \in Revs /\ jobs[b.rev].state # "none"
    BY BodyFacts DEF IInv
  <1> QED  BY <1>1, RevsAreOK DEF RevOK, JobOK

\* A body that the step does not move has its files still; it was not alone.
LEMMA OtherBody ==
    ASSUME IInv, [Next]_vars, NEW b \in bodies, BodyWrites(b),
           NEW d \in bodies, d # b, jobs'[d.rev].state # "none",
           d.rev = b.rev
    PROVE  BodyOK(d)'
  <1>1. BodyOK(d) /\ Hurt(d.rev)
    BY BodyContext
  <1>2. Hurt(d.rev)'
    BY <1>1, HurtKept
  <1>3. Made(d.task, d.out, d.rev)'
    BY <1>1, MadeKept DEF BodyOK
  <1>4. files'[d.rev][Source] = files[d.rev][Source]
    BY BodyFacts, NamesFacts DEF IInv, BodyWrites, Writes
  <1>5. d.at = "row" => files'[d.rev][Chain[d.task][d.out]] # Absent
    BY <1>1, BodyFacts DEF IInv, BodyWrites, BodyOK
  <1>6. Redrafted(d.rev) => Redrafted(d.rev)'
    BY HurtKept
  <1> QED  BY <1>1, <1>2, <1>3, <1>4, <1>5, <1>6 DEF BodyOK

\* Revisions that the body is not of.
LEMMA ElsewhereOK ==
    ASSUME IInv, [Next]_vars, NEW b \in bodies, BodyWrites(b),
           \A q \in Revs \ {b.rev} : jobs'[q] = jobs[q],
           \A d : d.rev # b.rev => (d \in bodies' <=> d \in bodies),
           NEW r \in Revs, r # b.rev
    PROVE  RevOK(r)'
  <1>1. ~Touches(r)
    BY DEF Touches, BodyWrites, Writes
  <1> QED  BY <1>1, UntouchedIsOK

\* The files of the body's revision, and its rows, stay good.
LEMMA JobFilesKept ==
    ASSUME IInv, [Next]_vars, NEW b \in bodies, BodyWrites(b)
    PROVE  LET r == b.rev
           IN  /\ r \in DOMAIN revs' /\ HasUpload(r)' /\ Own(Source, r) \in blobs'
               /\ ~Redrafted(r)' =>
                     \A n \in Derived : files'[r][n] \in {Absent, Torn, files'[r][Source]}
  <1>1. RevOK(b.rev) /\ b.rev \in DOMAIN revs /\ HasUpload(b.rev)
        /\ Own(Source, b.rev) \in blobs
    BY BodyContext
  <1>2. files'[b.rev][Source] = files[b.rev][Source]
    BY BodyFacts, NamesFacts DEF IInv, BodyWrites, Writes
  <1>3. ASSUME ~Redrafted(b.rev)', NEW n \in Derived
        PROVE  files'[b.rev][n] \in {Absent, Torn, files'[b.rev][Source]}
    <2>1. ~Redrafted(b.rev)
      BY <1>3, HurtKept
    <2>2. n \in Names
      BY NamesFacts
    <2> QED  BY <1>1, <1>2, <2>1, <2>2 DEF BodyWrites, RevOK, JobOK
  <1> QED  BY <1>1, <1>3, Growth, UploadKept

LEMMA BodyGoesOn ==
    ASSUME IInv, [Next]_vars, NEW b \in bodies, BodyWrites(b), UNCHANGED jobs,
           NEW c, bodies' = (bodies \ {b}) \cup {c}, BodyOK(c)',
           c.rev = b.rev, c.task = b.task, c.try = b.try,
           NEW r \in Revs
    PROVE  RevOK(r)'
  <1>1. CASE r # b.rev
    <2>1. \A d : d.rev # b.rev => (d \in bodies' <=> d \in bodies)
      OBVIOUS
    <2> QED  BY <1>1, <2>1, ElsewhereOK
  <1>2. CASE r = b.rev
    <2>1. RevOK(r) /\ jobs[r].state # "none"
          /\ (~Hurt(r) => \A d \in bodies : d.rev = r => d = b)
          /\ ~(jobs[r].state = "queued" /\ ~Hurt(r))
      BY <1>2, BodyContext DEF BodyOK
    <2>2. Hurt(r) => Hurt(r)'
      BY HurtKept
    <2>3. \A d \in bodies' : d.rev = r => BodyOK(d)'
      BY <1>2, <2>1, OtherBody
    <2>4. jobs[r].state = "running" => \E d \in bodies' : d.rev = r /\ IsCurrent(d)'
      BY <1>2, <2>1 DEF RevOK, JobOK, IsCurrent
    <2>5. \A t, i : Made(t, i, r) => Made(t, i, r)'
      BY MadeKept
    <2>6. JobOK(r)'
      BY <1>2, <2>1, <2>2, <2>4, <2>5, JobFilesKept DEF RevOK, JobOK, Own
    <2> QED  BY <2>3, <2>6 DEF RevOK
  <1> QED  BY <1>1, <1>2

\* The job ends, or leaves its task to a new body.
LEMMA BodyEnds ==
    ASSUME IInv, [Next]_vars, NEW b \in bodies, BodyWrites(b),
           NEW new, bodies' = (bodies \ {b}) \cup new,
           \A c \in new : c.rev = b.rev /\ BodyOK(c)',
           \A c, d \in new : c = d,
           \A q \in Revs \ {b.rev} : jobs'[q] = jobs[q],
           jobs'[b.rev].state \in {"running", "succeeded", "failed", "lost", "queued"},
           jobs'[b.rev].state = "queued" => Hurt(b.rev)',
           jobs'[b.rev].state = "running" =>
              \E d \in bodies' : d.rev = b.rev /\ IsCurrent(d)',
           jobs'[b.rev].state = "succeeded" => Made(Len(Chain) + 1, 1, b.rev)',
           jobs'[b.rev].task \in DOMAIN Chain, Made(jobs[b.rev].task, 1, b.rev)',
           NEW r \in Revs
    PROVE  RevOK(r)'
  <1>1. CASE r # b.rev
    <2>1. \A d : d.rev # b.rev => (d \in bodies' <=> d \in bodies)
      OBVIOUS
    <2> QED  BY <1>1, <2>1, ElsewhereOK
  <1>2. CASE r = b.rev
    <2>1. ~Hurt(r)' => \A d \in bodies : d.rev = r => d = b
      BY <1>2, BodyContext, HurtKept
    <2>2. jobs'[r].state # "none"
      BY <1>2
    <2>3. \A d \in bodies' : d.rev = r => BodyOK(d)'
      BY <1>2, <2>2, OtherBody
    <2>4. ~Hurt(r)' => \A c, d \in bodies' : c.rev = r /\ d.rev = r => c = d
      BY <1>2, <2>1
    <2>5. ~(jobs'[r].state = "queued" /\ ~Hurt(r)')
      BY <1>2
    <2>6. JobOK(r)'
      BY <1>2, <2>2, <2>4, <2>5, JobFilesKept DEF JobOK, Own
    <2> QED  BY <2>3, <2>6 DEF RevOK
  <1> QED  BY <1>1, <1>2

LEMMA BodyVanishes ==
    ASSUME IInv, [Next]_vars, NEW b \in bodies, BodyWrites(b), bodies' = bodies \ {b},
           \A q \in Revs \ {b.rev} : jobs'[q] = jobs[q],
           jobs'[b.rev].state \in {"running", "succeeded", "failed", "lost", "queued"},
           jobs'[b.rev].state = "queued" => Hurt(b.rev)',
           jobs'[b.rev].state = "running" =>
              \E d \in bodies' : d.rev = b.rev /\ IsCurrent(d)',
           jobs'[b.rev].state = "succeeded" => Made(Len(Chain) + 1, 1, b.rev)',
           jobs'[b.rev].task \in DOMAIN Chain, Made(jobs[b.rev].task, 1, b.rev)',
           NEW r \in Revs
    PROVE  RevOK(r)'
  <1>1. PICK new : new = {}
    OBVIOUS
  <1>2. bodies' = (bodies \ {b}) \cup new
    BY <1>1
  <1>3. (\A c \in new : c.rev = b.rev /\ BodyOK(c)') /\ \A c, d \in new : c = d
    BY <1>1
  <1> HIDE <1>1
  <1> QED  BY <1>2, <1>3, BodyEnds

\* A task that starts, or starts again, has its first file before it.
LEMMA NewBodyOK ==
    ASSUME NEW r, NEW t \in DOMAIN Chain, NEW k, jobs'[r].state # "none",
           Made(t, 1, r)', ~Hurt(r)' => Unmade(t, 1, r)'
    PROVE  /\ BodyOK(BodyOf(r, t, k))' /\ BodyOf(r, t, k).rev = r
           /\ BodyOf(r, t, k).task = t /\ BodyOf(r, t, k).try = k
  BY ChainFacts DEF BodyOK, BodyOf

LEMMA EarlierMade ==
    ASSUME IInv, NEW b \in bodies
    PROVE  Made(b.task, 1, b.rev)
  BY BodyContext, BodyFacts, ChainFacts DEF IInv, BodyOK, Made, Before

LEMMA NothingWritten ==
    ASSUME NEW b \in bodies, UNCHANGED <<revs, files, blobs>>
    PROVE  BodyWrites(b)
  BY DEF BodyWrites, Unnamed

LEMMA TaskFailsOK ==
    ASSUME IInv, [Next]_vars, NEW b \in bodies, TaskFails(b),
           UNCHANGED <<revs, files, blobs>>,
           ~Hurt(b.rev)' => Unmade(b.task, 1, b.rev),
           NEW r \in Revs
    PROVE  RevOK(r)'
  <1> USE DEF IInv
  <1>1. /\ BodyWrites(b) /\ BodyOK(b) /\ RevOK(b.rev) /\ Made(b.task, 1, b.rev)'
        /\ b.rev \in Revs /\ b.task \in DOMAIN Chain /\ jobs \in [Revs -> Job]
        /\ jobs[b.rev].state # "none" /\ jobs[b.rev] \in Job
    BY NothingWritten, BodyContext, EarlierMade, MadeKept, BodyFacts
    DEF BodyOK, TypeOK
  <1>2. PICK t \in DOMAIN Chain : t = jobs[b.rev].task /\ Made(t, 1, b.rev)'
    BY <1>1, MadeKept DEF RevOK, JobOK
  <1>3. CASE ~IsCurrent(b) /\ bodies' = bodies \ {b} /\ jobs' = jobs
    <2>1. jobs[b.rev].state = "running" =>
             \E d \in bodies' : d.rev = b.rev /\ IsCurrent(d)'
      BY <1>1, <1>3 DEF RevOK, JobOK, IsCurrent
    <2>2. jobs[b.rev].state = "succeeded" => Made(Len(Chain) + 1, 1, b.rev)'
      BY <1>1, MadeKept DEF RevOK, JobOK
    <2>3. jobs[b.rev].state = "queued" => Hurt(b.rev)'
      BY BodyContext, HurtKept
    <2>4. bodies' = bodies \ {b} /\ \A q \in Revs \ {b.rev} : jobs'[q] = jobs[q]
      BY <1>3
    <2>5. jobs'[b.rev].state \in {"running", "succeeded", "failed", "lost", "queued"}
      BY <1>1, <1>3 DEF Job
    <2>6. Made(jobs[b.rev].task, 1, b.rev)' /\ jobs'[b.rev].task \in DOMAIN Chain
      BY <1>2, <1>3
    <2> QED  BY <1>1, <1>3, <2>1, <2>2, <2>3, <2>4, <2>5, <2>6, BodyVanishes
  <1>4. CASE /\ IsCurrent(b)
             /\ jobs' = [jobs EXCEPT ![b.rev].try = 1]
             /\ bodies' = (bodies \ {b}) \cup {BodyOf(b.rev, b.task, 1)}
    <2>1. PICK c \in {BodyOf(b.rev, b.task, 1)} : TRUE
      OBVIOUS
    <2>2. /\ jobs'[b.rev].state = "running" /\ jobs'[b.rev].task = b.task
          /\ jobs'[b.rev].try = 1 /\ \A q \in Revs \ {b.rev} : jobs'[q] = jobs[q]
      BY <1>1, <1>4 DEF IsCurrent, Job
    <2>3. ~Hurt(b.rev)' => Unmade(b.task, 1, b.rev)'
      BY DEF Unmade, Unnamed
    <2>4. BodyOK(c)' /\ c.rev = b.rev /\ c.task = b.task /\ c.try = 1
      BY <1>1, <2>1, <2>2, <2>3, NewBodyOK
    <2>5. bodies' = (bodies \ {b}) \cup {c}
      BY <1>4, <2>1
    <2>6. \E d \in bodies' : d.rev = b.rev /\ IsCurrent(d)'
      BY <2>2, <2>4, <2>5 DEF IsCurrent
    <2>7. Made(jobs[b.rev].task, 1, b.rev)' /\ jobs'[b.rev].task \in DOMAIN Chain
      BY <1>1, <2>2
    <2> DEFINE new == {c}
    <2>8. /\ bodies' = (bodies \ {b}) \cup new /\ \A e \in new : e.rev = b.rev /\ BodyOK(e)'
          /\ \A d, e \in new : d = e
      BY <2>4, <2>5
    <2> HIDE DEF new
    <2> QED  BY <1>1, <2>2, <2>6, <2>7, <2>8, BodyEnds
  <1>5. CASE /\ IsCurrent(b)
             /\ jobs' = [jobs EXCEPT ![b.rev].state = "failed"]
             /\ bodies' = bodies \ {b}
    <2>1. /\ jobs'[b.rev].state = "failed" /\ jobs'[b.rev].task = jobs[b.rev].task
          /\ \A q \in Revs \ {b.rev} : jobs'[q] = jobs[q]
      BY <1>1, <1>5 DEF Job
    <2>2. bodies' = bodies \ {b}
      BY <1>5
    <2>3. Made(jobs[b.rev].task, 1, b.rev)' /\ jobs'[b.rev].task \in DOMAIN Chain
      BY <1>2, <2>1
    <2> QED  BY <1>1, <2>1, <2>2, <2>3, BodyVanishes
  <1> QED  BY <1>3, <1>4, <1>5, TaskFailsEffect

\* A body of a revision that nothing hurt finds no row in its way.
LEMMA NoRowInTheWay ==
    ASSUME IInv, NEW b \in bodies, ~Hurt(b.rev)
    PROVE  CanInsert(Chain[b.task][b.out], b.rev)
  <1>1. Unnamed(Chain[b.task][b.out], b.rev)
    <2>1. BodyOK(b) /\ Unmade(b.task, b.out, b.rev)
      BY BodyContext DEF BodyOK
    <2>2. b.task \in DOMAIN Chain /\ b.out \in DOMAIN Chain[b.task]
      BY <2>1 DEF BodyOK
    <2>3. ~Before(b.task, b.out, b.task, b.out)
      BY <2>2, ChainFacts DEF Before
    <2> QED  BY <2>1, <2>2, <2>3 DEF Unmade
  <1>2. revs[b.rev].kind = "upload"
    BY BodyContext DEF HasUpload, Hurt
  <1>3. ASSUME NEW c \in blobs, c.name = Chain[b.task][b.out], c.rev = b.rev PROVE FALSE
    <2>1. c.file # b.rev
      BY <1>1, <1>3 DEF Unnamed
    <2> QED  BY <1>2, <1>3, <2>1 DEF IInv, RowsInv, AliasOf
  <1> QED  BY <1>3 DEF CanInsert, RowsFor

LEMMA SourceRead ==
    ASSUME IInv, NEW b \in bodies, ReadSource(b), NEW r \in Revs
    PROVE  RevOK(r)'
  <1> USE DEF IInv
  <1>1. [Next]_vars
    BY DEF Next, JobWork
  <1>2. /\ b.at = "read" /\ b.out = 1 /\ BodyOK(b) /\ b \in Body /\ b.rev \in Revs
        /\ BodyWrites(b) /\ UNCHANGED <<revs, files, blobs>>
    BY BodyContext, BodyFacts, NothingWritten DEF ReadSource, BodyOK, store, TypeOK
  <1>3. CASE Finds(Source, b.rev) /\ files[b.rev][Source] # Torn
    <2>1. PICK c : c = [b EXCEPT !.at = "write", !.source = files[b.rev][Source]]
      OBVIOUS
    <2>2. /\ c.rev = b.rev /\ c.task = b.task /\ c.try = b.try /\ c.out = b.out
          /\ c.at = "write" /\ c.source = files[b.rev][Source]
      BY <1>2, <2>1 DEF Body
    <2>3. UNCHANGED <<jobs, hurt>> /\ bodies' = (bodies \ {b}) \cup {c}
      BY <1>2, <1>3, <2>1 DEF ReadSource, Step
    <2>4. files[b.rev][Source] # Absent
      BY BodyContext DEF RowsNameFiles, Own
    <2>5. BodyOK(c)'
      BY <1>2, <1>3, <2>2, <2>3, <2>4
      DEF BodyOK, Hurt, Redrafted, Made, Own, Unmade, Unnamed
    <2> QED  BY <1>1, <1>2, <2>2, <2>3, <2>5, BodyGoesOn
  <1>4. CASE ~(Finds(Source, b.rev) /\ files[b.rev][Source] # Torn)
    <2>1. TaskFails(b)
      BY <1>4 DEF ReadSource
    <2>2. ~Hurt(b.rev)' => Unmade(b.task, 1, b.rev)
      BY <1>1, <1>2, HurtKept DEF BodyOK
    <2> QED  BY <1>1, <1>2, <2>1, <2>2, TaskFailsOK
  <1> QED  BY <1>3, <1>4

LEMMA DerivedWritten ==
    ASSUME IInv, NEW b \in bodies, WriteDerived(b) \/ FillDerived(b), NEW r \in Revs
    PROVE  RevOK(r)'
  <1> USE DEF IInv
  <1>1. [Next]_vars
    BY DEF Next, JobWork
  <1> DEFINE n == Chain[b.task][b.out]
  <1>2. /\ BodyOK(b) /\ b \in Body /\ b.rev \in Revs /\ n \in Names /\ n # Source
        /\ b.at # "read" /\ files \in [Revs -> [Names -> Nat \cup {Torn}]]
        /\ UNCHANGED <<revs, blobs, jobs, hurt>>
    BY BodyContext, BodyFacts DEF WriteDerived, FillDerived, TypeOK
  <1>3. PICK v \in {Torn, b.source} : files' = [files EXCEPT ![b.rev][n] = v]
                                      /\ (FillDerived(b) => v = b.source)
    BY DEF WriteDerived, FillDerived, EmptyFile
  <1>4. v # Absent /\ (~Redrafted(b.rev) => v \in {Torn, files[b.rev][Source]})
    BY <1>2, <1>3 DEF BodyOK, Absent, Torn
  <1>5. /\ files'[b.rev][n] = v
        /\ \A m \in Names \ {n} : files'[b.rev][m] = files[b.rev][m]
        /\ \A q \in Revs \ {b.rev} : files'[q] = files[q]
    BY <1>2, <1>3
  <1>6. BodyWrites(b)
    BY <1>2, <1>4, <1>5 DEF BodyWrites, Writes, Unnamed
  <1>7. PICK c : c = IF FillDerived(b) THEN [b EXCEPT !.at = "row"]
                     ELSE [b EXCEPT !.at = "torn"]
    OBVIOUS
  <1>8. /\ c.rev = b.rev /\ c.task = b.task /\ c.try = b.try /\ c.out = b.out
        /\ c.source = b.source /\ c.at = (IF FillDerived(b) THEN "row" ELSE "torn")
    BY <1>2, <1>7 DEF Body
  <1>9. bodies' = (bodies \ {b}) \cup {c}
    BY <1>7 DEF WriteDerived, FillDerived, Step
  <1>10. files'[b.rev][Source] = files[b.rev][Source]
    BY <1>2, <1>5, NamesFacts
  <1>11. c.at = "row" => files'[b.rev][n] \notin {Absent, Torn}
    BY <1>2, <1>3, <1>5, <1>8 DEF BodyOK
  <1>12. BodyOK(c)'
    BY <1>2, <1>8, <1>10, <1>11
    DEF BodyOK, Hurt, Redrafted, Made, Own, Unmade, Unnamed
  <1> QED  BY <1>1, <1>2, <1>6, <1>8, <1>9, <1>12, BodyGoesOn

\* What the insertion of a body's file means for what is made.
LEMMA RowInserted ==
    ASSUME IInv, NEW b \in bodies, InsertDerived(b), CanInsert(Chain[b.task][b.out], b.rev)
    PROVE  /\ BodyWrites(b) /\ Made(b.task, b.out + 1, b.rev)'
           /\ ~Hurt(b.rev) => Unmade(b.task, b.out + 1, b.rev)'
  <1> USE DEF IInv
  <1> DEFINE n == Chain[b.task][b.out]
  <1>1. /\ BodyOK(b) /\ b.rev \in Revs /\ b.rev \in DOMAIN revs /\ n \in Names
        /\ b.task \in Nat /\ b.out \in Nat /\ b.task \in DOMAIN Chain
        /\ b.out \in DOMAIN Chain[b.task]
        /\ DOMAIN Chain \subseteq Nat /\ \A u \in DOMAIN Chain : DOMAIN Chain[u] \subseteq Nat
    BY BodyContext, BodyFacts, ChainFacts DEF BodyOK
  <1>2. /\ blobs' = blobs \cup {Own(n, b.rev)} /\ UNCHANGED <<revs, files, hurt>>
        /\ Own(n, b.rev).name = n /\ Own(n, b.rev).file = b.rev
    BY DEF InsertDerived, Insert, Own
  <1>3. \A m, q : Unnamed(m, q) /\ ~(m = n /\ q = b.rev) => Unnamed(m, q)'
    BY <1>2 DEF Unnamed
  <1>4. BodyWrites(b)
    BY <1>2, <1>3 DEF BodyWrites, Writes
  <1>5. ASSUME NEW u \in DOMAIN Chain, NEW j \in DOMAIN Chain[u],
               Before(b.task, b.out + 1, u, j)
        PROVE  Own(Chain[u][j], b.rev) \in blobs'
    <2>1. Before(b.task, b.out, u, j) \/ (u = b.task /\ j = b.out)
      BY <1>1, <1>5 DEF Before
    <2> QED  BY <1>1, <1>2, <2>1 DEF BodyOK, Made
  <1>6. ASSUME NEW u \in DOMAIN Chain, NEW j \in DOMAIN Chain[u],
               ~Before(b.task, b.out + 1, u, j), ~Hurt(b.rev)
        PROVE  Unnamed(Chain[u][j], b.rev)'
    <2>1. ~Before(b.task, b.out, u, j) /\ ~(u = b.task /\ j = b.out)
      BY <1>1, <1>6 DEF Before
    <2>2. Chain[u][j] # n
      BY <1>1, <2>1, FilesMadeOnce DEF FilesMadeOnce
    <2>3. Unnamed(Chain[u][j], b.rev)
      BY <1>1, <1>6, <2>1 DEF BodyOK, Unmade
    <2> QED  BY <1>3, <2>2, <2>3
  <1> QED  BY <1>4, <1>5, <1>6 DEF Made, Unmade, Own

LEMMA TaskSucceedsOK ==
    ASSUME IInv, [Next]_vars, NEW b \in bodies, TaskSucceeds(b),
           b.out = Len(Chain[b.task]), BodyWrites(b), UNCHANGED hurt,
           Made(b.task, b.out + 1, b.rev)',
           ~Hurt(b.rev) => Unmade(b.task, b.out + 1, b.rev)',
           NEW r \in Revs
    PROVE  RevOK(r)'
  <1> USE DEF IInv
  <1>1. /\ BodyOK(b) /\ RevOK(b.rev) /\ Made(b.task, 1, b.rev)'
        /\ b.rev \in Revs /\ b.task \in DOMAIN Chain /\ jobs \in [Revs -> Job]
        /\ jobs[b.rev].state # "none" /\ jobs[b.rev] \in Job /\ b.task \in Nat
    BY BodyContext, EarlierMade, MadeKept, BodyFacts DEF BodyOK, TypeOK
  <1>2. PICK t \in DOMAIN Chain : t = jobs[b.rev].task /\ Made(t, 1, b.rev)'
    BY <1>1, MadeKept DEF RevOK, JobOK
  <1>3. \A u \in DOMAIN Chain : \A j \in DOMAIN Chain[u] :
           Before(b.task + 1, 1, u, j) <=> Before(b.task, b.out + 1, u, j)
    BY <1>1, ChainFacts DEF Before
  <1>4. Made(b.task + 1, 1, b.rev)' /\ (~Hurt(b.rev) => Unmade(b.task + 1, 1, b.rev)')
    BY <1>3 DEF Made, Unmade
  <1>5. CASE ~IsCurrent(b)
    <2>1. bodies' = bodies \ {b} /\ jobs' = jobs
      BY <1>5 DEF TaskSucceeds
    <2>2. jobs[b.rev].state = "running" =>
             \E d \in bodies' : d.rev = b.rev /\ IsCurrent(d)'
      BY <1>1, <1>5, <2>1 DEF RevOK, JobOK, IsCurrent
    <2>3. jobs[b.rev].state = "succeeded" => Made(Len(Chain) + 1, 1, b.rev)'
      BY <1>1, MadeKept DEF RevOK, JobOK
    <2>4. jobs[b.rev].state = "queued" => Hurt(b.rev)'
      BY BodyContext, HurtKept
    <2>5. jobs'[b.rev].state \in {"running", "succeeded", "failed", "lost", "queued"}
      BY <1>1, <2>1 DEF Job
    <2>6. Made(jobs[b.rev].task, 1, b.rev)' /\ jobs'[b.rev].task \in DOMAIN Chain
          /\ \A q \in Revs \ {b.rev} : jobs'[q] = jobs[q]
      BY <1>2, <2>1
    <2> QED  BY <1>1, <2>1, <2>2, <2>3, <2>4, <2>5, <2>6, BodyVanishes
  <1>6. CASE IsCurrent(b) /\ b.task = Len(Chain)
    <2>1. /\ bodies' = bodies \ {b}
          /\ jobs' = [jobs EXCEPT ![b.rev].state = "succeeded"]
      BY <1>6 DEF TaskSucceeds
    <2>2. /\ jobs'[b.rev].state = "succeeded" /\ jobs'[b.rev].task = jobs[b.rev].task
          /\ \A q \in Revs \ {b.rev} : jobs'[q] = jobs[q]
      BY <1>1, <2>1 DEF Job
    <2>3. Made(jobs[b.rev].task, 1, b.rev)' /\ jobs'[b.rev].task \in DOMAIN Chain
      BY <1>2, <2>2
    <2>4. Made(Len(Chain) + 1, 1, b.rev)'
      BY <1>4, <1>6
    <2> QED  BY <1>1, <2>1, <2>2, <2>3, <2>4, BodyVanishes
  <1>7. CASE IsCurrent(b) /\ b.task # Len(Chain)
    <2>1. PICK u \in DOMAIN Chain : u = b.task + 1
      BY <1>1, <1>7, ChainFacts
    <2>2. PICK c \in {BodyOf(b.rev, u, 0)} : TRUE
      OBVIOUS
    <2>3. /\ bodies' = (bodies \ {b}) \cup {c}
          /\ jobs' = [jobs EXCEPT ![b.rev].task = u, ![b.rev].try = 0]
      BY <1>7, <2>1, <2>2 DEF TaskSucceeds, Step
    <2>4. /\ jobs'[b.rev].state = "running" /\ jobs'[b.rev].task = u
          /\ jobs'[b.rev].try = 0 /\ \A q \in Revs \ {b.rev} : jobs'[q] = jobs[q]
      BY <1>1, <1>7, <2>3 DEF IsCurrent, Job
    <2>5. Made(u, 1, b.rev)' /\ (~Hurt(b.rev)' => Unmade(u, 1, b.rev)')
      BY <1>4, <2>1 DEF Hurt, Redrafted
    <2>6. BodyOK(c)' /\ c.rev = b.rev /\ c.task = u /\ c.try = 0
      BY <2>2, <2>4, <2>5, NewBodyOK
    <2>7. \E d \in bodies' : d.rev = b.rev /\ IsCurrent(d)'
      BY <2>3, <2>4, <2>6 DEF IsCurrent
    <2>8. Made(jobs[b.rev].task, 1, b.rev)' /\ jobs'[b.rev].task \in DOMAIN Chain
      BY <2>4, <2>5
    <2> DEFINE new == {c}
    <2>9. /\ bodies' = (bodies \ {b}) \cup new /\ \A e \in new : e.rev = b.rev /\ BodyOK(e)'
          /\ \A d, e \in new : d = e
      BY <2>3, <2>6
    <2> HIDE DEF new
    <2> QED  BY <1>1, <2>4, <2>7, <2>8, <2>9, BodyEnds
  <1> QED  BY <1>5, <1>6, <1>7

LEMMA DerivedInserted ==
    ASSUME IInv, NEW b \in bodies, InsertDerived(b), NEW r \in Revs
    PROVE  RevOK(r)'
  <1> USE DEF IInv
  <1>1. [Next]_vars
    BY DEF Next, JobWork
  <1>2. /\ BodyOK(b) /\ b \in Body /\ b.rev \in Revs /\ b.at = "row" /\ b.out \in Nat
        /\ UNCHANGED <<revs, files, hurt>> /\ b.task \in DOMAIN Chain
        /\ b.out \in 1..Len(Chain[b.task]) /\ Len(Chain[b.task]) \in Nat
        /\ DOMAIN Chain[b.task] = 1..Len(Chain[b.task])
    BY BodyContext, BodyFacts, ChainFacts DEF InsertDerived, BodyOK, TypeOK
  <1>3. CASE ~CanInsert(Chain[b.task][b.out], b.rev)
    <2>1. TaskFails(b) /\ UNCHANGED blobs
      BY <1>3 DEF InsertDerived
    <2>2. Hurt(b.rev)'
      BY <1>1, <1>3, NoRowInTheWay, HurtKept
    <2> QED  BY <1>1, <1>2, <2>1, <2>2, TaskFailsOK
  <1>4. CASE CanInsert(Chain[b.task][b.out], b.rev) /\ b.out < Len(Chain[b.task])
    <2>1. PICK c : c = [b EXCEPT !.at = "write", !.out = @ + 1]
      OBVIOUS
    <2>2. /\ c.rev = b.rev /\ c.task = b.task /\ c.try = b.try /\ c.out = b.out + 1
          /\ c.at = "write" /\ c.source = b.source
      BY <1>2, <2>1 DEF Body
    <2>3. UNCHANGED jobs /\ bodies' = (bodies \ {b}) \cup {c}
      BY <1>4, <2>1 DEF InsertDerived, Step
    <2>4. /\ BodyWrites(b) /\ Made(b.task, b.out + 1, b.rev)'
          /\ ~Hurt(b.rev)' => Unmade(b.task, b.out + 1, b.rev)'
      BY <1>1, <1>4, RowInserted, HurtKept
    <2>5. b.out + 1 \in DOMAIN Chain[b.task]
      BY <1>2, <1>4
    <2>6. Redrafted(b.rev)' <=> Redrafted(b.rev)
      BY <1>2 DEF Redrafted
    <2>7. BodyOK(c)'
      BY <1>2, <2>2, <2>3, <2>4, <2>5, <2>6 DEF BodyOK
    <2> QED  BY <1>1, <2>2, <2>3, <2>4, <2>7, BodyGoesOn
  <1>5. CASE CanInsert(Chain[b.task][b.out], b.rev) /\ ~(b.out < Len(Chain[b.task]))
    <2>1. TaskSucceeds(b)
      BY <1>5 DEF InsertDerived
    <2>2. b.out = Len(Chain[b.task])
      BY <1>2, <1>5
    <2> QED  BY <1>1, <1>2, <1>5, <2>1, <2>2, RowInserted, TaskSucceedsOK
  <1> QED  BY <1>3, <1>4, <1>5

\* A task that timed out starts again beside its first body, or the job fails.
LEMMA TimedOut ==
    ASSUME IInv, NEW b \in bodies, TimeOut(b), NEW r \in Revs
    PROVE  RevOK(r)'
  <1> USE DEF IInv
  <1>1. [Next]_vars
    BY DEF Next, Faults
  <1>2. /\ BodyWrites(b) /\ RevOK(b.rev) /\ Made(b.task, 1, b.rev)'
        /\ b.rev \in Revs /\ b.task \in DOMAIN Chain /\ jobs \in [Revs -> Job]
        /\ jobs[b.rev].state = "running" /\ jobs[b.rev] \in Job
        /\ jobs[b.rev].task = b.task
        /\ UNCHANGED <<revs, files, blobs>> /\ Hurt(b.rev)'
    <2>1. UNCHANGED <<revs, files, blobs>> /\ Hurt(b.rev)' /\ IsCurrent(b)
      BY DEF TimeOut, store, Blame, Hurt
    <2>2. /\ RevOK(b.rev) /\ Made(b.task, 1, b.rev)' /\ b.rev \in Revs
          /\ b.task \in DOMAIN Chain /\ jobs \in [Revs -> Job] /\ jobs[b.rev] \in Job
      BY <1>1, BodyContext, EarlierMade, MadeKept, BodyFacts DEF BodyOK, TypeOK
    <2> QED  BY <2>1, <2>2, NothingWritten DEF IsCurrent
  <1>3. ASSUME NEW d \in bodies, d.rev = b.rev, jobs'[b.rev].state # "none"
        PROVE  BodyOK(d)'
    <2>1. BodyOK(d)
      BY <1>2, <1>3 DEF RevOK
    <2> QED  BY <1>1, <1>2, <1>3, <2>1, MadeKept, HurtKept DEF BodyOK
  <1>4. CASE /\ jobs' = [jobs EXCEPT ![b.rev].try = 1]
             /\ bodies' = bodies \cup {BodyOf(b.rev, b.task, 1)}
    <2>1. PICK c \in {BodyOf(b.rev, b.task, 1)} : TRUE
      OBVIOUS
    <2>2. /\ jobs'[b.rev].state = "running" /\ jobs'[b.rev].task = b.task
          /\ jobs'[b.rev].try = 1 /\ \A q \in Revs \ {b.rev} : jobs'[q] = jobs[q]
      BY <1>2, <1>4 DEF Job
    <2>3. BodyOK(c)' /\ c.rev = b.rev /\ c.task = b.task /\ c.try = 1
      BY <1>2, <2>1, <2>2, NewBodyOK
    <2>4. bodies' = bodies \cup {c}
      BY <1>4, <2>1
    <2>5. CASE r # b.rev
      <3>1. \A d : d.rev # b.rev => (d \in bodies' <=> d \in bodies)
        BY <2>3, <2>4
      <3> QED  BY <1>1, <1>2, <2>2, <2>5, <3>1, ElsewhereOK
    <2>6. CASE r = b.rev
      <3>1. \A d \in bodies' : d.rev = r => BodyOK(d)'
        BY <1>3, <2>2, <2>3, <2>4, <2>6
      <3>2. IsCurrent(c)'
        BY <2>2, <2>3 DEF IsCurrent
      <3>3. JobOK(r)'
        BY <1>1, <1>2, <2>2, <2>3, <2>4, <2>6, <3>2, JobFilesKept DEF JobOK, Own
      <3> QED  BY <3>1, <3>3 DEF RevOK
    <2> QED  BY <2>5, <2>6
  <1>5. CASE jobs' = [jobs EXCEPT ![b.rev].state = "failed"] /\ UNCHANGED bodies
    <2>1. /\ jobs'[b.rev].state = "failed" /\ jobs'[b.rev].task = b.task
          /\ \A q \in Revs \ {b.rev} : jobs'[q] = jobs[q]
      BY <1>2, <1>5 DEF Job
    <2>2. CASE r # b.rev
      BY <1>1, <1>2, <1>5, <2>1, <2>2, ElsewhereOK
    <2>3. CASE r = b.rev
      <3>1. \A d \in bodies' : d.rev = r => BodyOK(d)'
        BY <1>3, <1>5, <2>1, <2>3
      <3>2. JobOK(r)'
        BY <1>1, <1>2, <1>5, <2>1, <2>3, JobFilesKept DEF JobOK, Own
      <3> QED  BY <3>1, <3>2 DEF RevOK
    <2> QED  BY <2>2, <2>3
  <1> QED  BY <1>4, <1>5 DEF TimeOut

\* A crash of the runner takes all bodies, and hurts what they worked on.
LEMMA RunnerDied ==
    ASSUME IInv, RunnerCrash, NEW r \in Revs
    PROVE  RevOK(r)'
  <1> USE DEF IInv
  <1>1. [Next]_vars
    BY DEF Next, Faults
  <1>2. /\ RevOK(r) /\ jobs \in [Revs -> Job] /\ jobs[r] \in Job
        /\ UNCHANGED <<revs, files, blobs>> /\ bodies' = {}
    BY RevsAreOK DEF TypeOK, RunnerCrash, store
  <1>3. jobs[r].state = "running" => Hurt(r)'
    BY <1>2 DEF RevOK, JobOK, RunnerCrash, Hurt
  <1>4. \/ jobs'[r] = jobs[r] /\ jobs[r].state # "running"
        \/ /\ jobs[r].state = "running" /\ jobs'[r].state \in {"queued", "lost"}
           /\ jobs'[r].task = jobs[r].task
    BY <1>2 DEF RunnerCrash, Job
  <1>5. /\ r \in DOMAIN revs /\ HasUpload(r) => r \in DOMAIN revs' /\ HasUpload(r)'
        /\ Own(Source, r) \in blobs => Own(Source, r) \in blobs'
        /\ \A t, i : Made(t, i, r) => Made(t, i, r)'
        /\ \A t, i : Unmade(t, i, r) => Unmade(t, i, r)'
        /\ \A n : Unnamed(n, r) => Unnamed(n, r)'
        /\ (Redrafted(r) => Redrafted(r)') /\ (Hurt(r) => Hurt(r)')
    BY <1>1, <1>2, UploadKept, MadeKept, HurtKept DEF Unmade, Unnamed
  <1>6. JobOK(r)'
    BY <1>2, <1>3, <1>4, <1>5 DEF RevOK, JobOK, Own
  <1> QED  BY <1>2, <1>6 DEF RevOK

LEMMA RunnerStep ==
    ASSUME IInv, [Next]_vars
    PROVE  JobsInv' /\ BodiesInv'
  <1>1. SUFFICES ASSUME NEW r \in Revs PROVE RevOK(r)'
    <2>1. \A b \in bodies' : b.rev \in Revs
      BY StepTypes DEF TypeOK, Body
    <2> QED  BY <2>1 DEF RevOK, JobsInv, BodiesInv
  <1>2. CASE UNCHANGED <<jobs, bodies, files>> /\ \A b \in bodies : ~InsertDerived(b)
    BY <1>2, QuietSteps, UntouchedIsOK
  <1>3. ASSUME NEW b \in bodies, BodyFails(b) PROVE RevOK(r)'
    <2>1. TaskFails(b) /\ UNCHANGED <<revs, files, blobs>> /\ Hurt(b.rev)'
      BY <1>3 DEF BodyFails, Blame, Hurt, store
    <2> QED  BY <2>1, TaskFailsOK
  <1> QED
    BY <1>2, <1>3, UploadWritten, JobLaunched, JobTaken, SourceRead, DerivedWritten,
       DerivedInserted, TimedOut, RunnerDied
    DEF Next, vars, Requests, Create, Upload, Redraft, Tag, Toggle, SaveWork, InsertSource,
        AliasWork, FindOld, InsertAlias, JobWork, CacheWork, Expire, View, Faults,
        SaveFails, AliasFails, WebCrash, store, runner

---------------------------------------------------------------------------
(* Files behind rows, and failures behind failed jobs. *)

FileOK(n, f) == files[f][n] # Absent /\ (files[f][n] = Torn => Hurt(f))

LEMMA FilesAreOK == RowsNameFiles <=> \A c \in blobs : FileOK(c.name, c.file)
  BY DEF RowsNameFiles, FileOK, Hurt, Redrafted

\* A row stays good while nobody writes its file.
LEMMA FileStays ==
    ASSUME IInv, [Next]_vars, NEW n, NEW f, FileOK(n, f), files'[f][n] = files[f][n]
    PROVE  FileOK(n, f)'
  BY HurtKept DEF FileOK

LEMMA FileWritten ==
    ASSUME IInv, [Next]_vars, NEW r \in Revs, NEW n \in Names, NEW v,
           files' = [files EXCEPT ![r][n] = v], UNCHANGED blobs,
           ~Unnamed(n, r) => v # Absent /\ (v = Torn => Hurt(r)')
    PROVE  RowsNameFiles'
  <1> SUFFICES ASSUME NEW c \in blobs PROVE FileOK(c.name, c.file)'
    BY FilesAreOK DEF RowsNameFiles, FileOK, Hurt, Redrafted
  <1>1. files \in [Revs -> [Names -> Nat \cup {Torn}]] /\ c.file \in Revs /\ c.name \in Names
    BY DEF IInv, TypeOK, Blob
  <1>2. CASE c.file = r /\ c.name = n
    BY <1>1, <1>2 DEF FileOK, Unnamed
  <1>3. CASE ~(c.file = r /\ c.name = n)
    <2>1. files'[c.file][c.name] = files[c.file][c.name]
      BY <1>1, <1>3
    <2> QED  BY <2>1, FilesAreOK, FileStays DEF IInv
  <1> QED  BY <1>2, <1>3

LEMMA RowWritten ==
    ASSUME IInv, [Next]_vars, NEW n, NEW r, NEW f, NewRow(n, r, f), FileOK(n, f)
    PROVE  RowsNameFiles'
  <1> SUFFICES ASSUME NEW c \in blobs' PROVE FileOK(c.name, c.file)'
    BY FilesAreOK DEF RowsNameFiles, FileOK, Hurt, Redrafted
  <1>1. FileOK(c.name, c.file)
    BY FilesAreOK DEF NewRow, Insert, IInv
  <1> QED  BY <1>1, FileStays DEF NewRow

LEMMA RowsNameFilesStep ==
    ASSUME IInv, [Next]_vars
    PROVE  RowsNameFiles'
  <1> USE DEF IInv
  <1>1. CASE UNCHANGED <<files, blobs>>
    BY <1>1, HurtKept DEF RowsNameFiles, Hurt, Redrafted
  <1>2. ASSUME NEW s \in saves, WriteSource(s) PROVE RowsNameFiles'
    <2>1. SaveOK(s) /\ s.rev \in Revs /\ s.at = "write"
      BY <1>2, SaveFacts DEF SavesInv, WriteSource
    <2>2. ~Unnamed(Source, s.rev) => Hurt(s.rev)'
      BY <2>1, HurtKept DEF SaveOK, Hurt
    <2>3. files' = [files EXCEPT ![s.rev][Source] = Torn] /\ UNCHANGED blobs
          /\ Torn # Absent
      BY <1>2 DEF WriteSource, EmptyFile, Torn, Absent
    <2> QED  BY <2>1, <2>2, <2>3, FileWritten, NamesFacts
  <1>3. ASSUME NEW s \in saves, FillSource(s) PROVE RowsNameFiles'
    <2>1. SaveOK(s) /\ s.rev \in Revs /\ s.at = "torn"
      BY <1>3, SaveFacts DEF SavesInv, FillSource
    <2>2. s.content \notin {Absent, Torn}
      BY <2>1, SaveFacts DEF SaveOK, Absent, Torn
    <2>3. files' = [files EXCEPT ![s.rev][Source] = s.content] /\ UNCHANGED blobs
      BY <1>3 DEF FillSource
    <2> QED  BY <2>1, <2>2, <2>3, FileWritten, NamesFacts
  <1>4. ASSUME NEW b \in bodies, WriteDerived(b) PROVE RowsNameFiles'
    <2> DEFINE n == Chain[b.task][b.out]
    <2>1. BodyOK(b) /\ b.rev \in Revs /\ n \in Names /\ b.task \in DOMAIN Chain
          /\ b.out \in DOMAIN Chain[b.task]
      BY BodyContext, BodyFacts DEF BodyOK
    <2>2. ~Before(b.task, b.out, b.task, b.out)
      BY <2>1, ChainFacts DEF Before
    <2>3. ~Unnamed(n, b.rev) => Hurt(b.rev)'
      BY <2>1, <2>2, HurtKept DEF BodyOK, Unmade
    <2>4. files' = [files EXCEPT ![b.rev][n] = Torn] /\ UNCHANGED blobs /\ Torn # Absent
      BY <1>4 DEF WriteDerived, EmptyFile, Torn, Absent
    <2> QED  BY <2>1, <2>3, <2>4, FileWritten
  <1>5. ASSUME NEW b \in bodies, FillDerived(b) PROVE RowsNameFiles'
    <2>1. BodyOK(b) /\ b.rev \in Revs /\ Chain[b.task][b.out] \in Names /\ b.at = "torn"
      BY <1>5, BodyContext, BodyFacts DEF FillDerived
    <2>2. b.source \notin {Absent, Torn}
      BY <2>1 DEF BodyOK
    <2>3. files' = [files EXCEPT ![b.rev][Chain[b.task][b.out]] = b.source]
          /\ UNCHANGED blobs
      BY <1>5 DEF FillDerived
    <2> QED  BY <2>1, <2>2, <2>3, FileWritten
  <1>6. ASSUME NEW s \in saves, InsertSource(s), blobs' # blobs PROVE RowsNameFiles'
    <2>1. SaveOK(s) /\ s.at = "row" /\ s.content \in Nat
      BY <1>6, SaveFacts DEF SavesInv, InsertSource
    <2>2. FileOK(Source, s.rev)
      BY <2>1 DEF SaveOK, FileOK, Absent, Torn
    <2> QED  BY <1>6, <2>2, SourceRow, RowWritten
  <1>7. ASSUME NEW a \in aliasing, InsertAlias(a), blobs' # blobs PROVE RowsNameFiles'
    <2>1. PICK o \in blobs : o.name = a.name /\ o.file = a.file
      BY <1>7 DEF AliasesInv, AliasOK, InsertAlias
    <2>2. FileOK(a.name, a.file)
      BY <2>1, FilesAreOK
    <2> QED  BY <1>7, <2>2, AliasRow, RowWritten
  <1>8. ASSUME NEW b \in bodies, InsertDerived(b), blobs' # blobs PROVE RowsNameFiles'
    <2>1. BodyOK(b) /\ b.at = "row"
      BY <1>8, BodyContext DEF InsertDerived
    <2>2. FileOK(Chain[b.task][b.out], b.rev)
      BY <2>1 DEF BodyOK, FileOK
    <2> QED  BY <1>8, <2>2, DerivedRow, RowWritten
  <1>9. CASE UNCHANGED files /\ blobs' # blobs
    BY <1>6, <1>7, <1>8, <1>9
    DEF Next, vars, Requests, Create, Upload, Redraft, Tag, Toggle, SaveWork, WriteSource,
        FillSource, Launch, AliasWork, FindOld, TakeJob, JobWork, ReadSource,
        WriteDerived, FillDerived, CacheWork, Expire, View, Faults, SaveFails,
        AliasFails, BodyFails, TimeOut, WebCrash, RunnerCrash, store
  <1>10. CASE files' # files
    BY <1>2, <1>3, <1>4, <1>5, <1>10
    DEF Next, vars, Requests, Create, Upload, Redraft, Tag, Toggle, SaveWork, InsertSource,
        Launch, AliasWork, FindOld, InsertAlias, TakeJob, JobWork, ReadSource,
        InsertDerived, CacheWork, Expire, View, Faults, SaveFails, AliasFails, BodyFails,
        TimeOut, WebCrash, RunnerCrash, store
  <1> QED  BY <1>1, <1>9, <1>10

Cause(r) == \E why \in {"fault", "stale", "redraft"} : <<r, why>> \in hurt

LEMMA FailedWithCause ==
    ASSUME IInv, [Next]_vars,
           \A r \in Revs : jobs'[r].state = "failed" => jobs[r].state = "failed" \/ Cause(r)'
    PROVE  JobsFailForCause'
  <1>1. \A r : Cause(r) => Cause(r)'
    BY Growth DEF Cause
  <1>2. \A r \in Revs : jobs'[r].state = "failed" => Cause(r)'
    BY <1>1 DEF IInv, JobsFailForCause, Cause
  <1> QED  BY <1>2 DEF JobsFailForCause, Cause

LEMMA JobsFailStep ==
    ASSUME IInv, [Next]_vars
    PROVE  JobsFailForCause'
  <1> USE DEF IInv
  <1>1. jobs \in [Revs -> Job]
    BY DEF TypeOK
  <1>2. ASSUME NEW b \in bodies, TaskFails(b), Cause(b.rev)'
        PROVE  JobsFailForCause'
    <2>1. b.rev \in Revs
      BY BodyFacts
    <2>2. \A r \in Revs \ {b.rev} : jobs'[r] = jobs[r]
      BY <1>1, <1>2, <2>1, TaskFailsEffect
    <2> QED  BY <1>2, <2>2, FailedWithCause
  <1>3. ASSUME NEW b \in bodies, ReadSource(b) PROVE JobsFailForCause'
    <2>1. Own(Source, b.rev) \in blobs
      BY BodyContext
    <2>2. Own(Source, b.rev) \in RowsFor(Source, b.rev) /\ FileOK(Source, b.rev)
      BY <2>1, FilesAreOK DEF RowsFor, Own
    <2>3. CASE Finds(Source, b.rev) /\ files[b.rev][Source] # Torn
      BY <1>3, <2>3, FailedWithCause DEF ReadSource
    <2>4. CASE files[b.rev][Source] = Torn
      <3>1. Cause(b.rev)' /\ TaskFails(b)
        BY <1>3, <2>2, <2>4, HurtKept DEF ReadSource, FileOK, Cause, Hurt, Redrafted
      <3> QED  BY <1>2, <3>1
    <2>5. CASE ~Finds(Source, b.rev)
      <3>1. Stale(Source, b.rev)
        BY <2>2, <2>5 DEF Finds, Stale
      <3>2. Cause(b.rev)' /\ TaskFails(b)
        BY <1>3, <2>5, <3>1 DEF ReadSource, Blame, Cause
      <3> QED  BY <1>2, <3>2
    <2> QED  BY <2>3, <2>4, <2>5
  <1>4. ASSUME NEW b \in bodies, InsertDerived(b) PROVE JobsFailForCause'
    <2>1. CASE CanInsert(Chain[b.task][b.out], b.rev)
      <3>1. \A r \in Revs : jobs'[r].state = "failed" => jobs[r].state = "failed"
        BY <1>1, <1>4, <2>1, BodyFacts DEF InsertDerived, TaskSucceeds, Job
      <3> QED  BY <3>1, FailedWithCause
    <2>2. CASE ~CanInsert(Chain[b.task][b.out], b.rev)
      <3>1. Cause(b.rev)' /\ TaskFails(b)
        BY <1>4, <2>2, NoRowInTheWay, HurtKept
        DEF InsertDerived, Cause, Hurt, Redrafted
      <3> QED  BY <1>2, <3>1
    <2> QED  BY <2>1, <2>2
  <1>5. ASSUME NEW b \in bodies, BodyFails(b) PROVE JobsFailForCause'
    BY <1>2, <1>5 DEF BodyFails, Blame, Cause
  <1>6. ASSUME NEW b \in bodies, TimeOut(b) PROVE JobsFailForCause'
    <2>1. Cause(b.rev)' /\ \A r \in Revs \ {b.rev} : jobs'[r] = jobs[r]
      BY <1>1, <1>6, BodyFacts DEF TimeOut, Blame, Cause
    <2> QED  BY <2>1, FailedWithCause
  <1>7. CASE \A r \in Revs : jobs'[r].state = "failed" => jobs[r].state = "failed"
    BY <1>7, FailedWithCause
  <1>8. ASSUME NEW q \in Revs, TakeJob(q) PROVE JobsFailForCause'
    BY <1>1, <1>7, <1>8 DEF TakeJob
  <1>9. ASSUME NEW s \in saves, Launch(s) PROVE JobsFailForCause'
    BY <1>1, <1>7, <1>9 DEF Launch
  <1>10. CASE RunnerCrash
    BY <1>1, <1>7, <1>10 DEF RunnerCrash
  <1> QED
    BY <1>3, <1>4, <1>5, <1>6, <1>7, <1>8, <1>9, <1>10
    DEF Next, vars, Requests, Create, Upload, Redraft, Tag, Toggle, SaveWork, WriteSource,
        FillSource, InsertSource, AliasWork, FindOld, InsertAlias, JobWork, WriteDerived,
        FillDerived, CacheWork, Expire, View, Faults, SaveFails, AliasFails, WebCrash,
        runner

---------------------------------------------------------------------------
(* The theorems. *)

LEMMA InitIInv == Init => IInv
  <1> SUFFICES ASSUME Init PROVE IInv
    OBVIOUS
  <1>1. RowsInv /\ KeysInv /\ SameFile /\ SavesInv /\ AliasesInv /\ BodiesInv
    BY DEF Init, RowsInv, KeysInv, SameFile, SavesInv, AliasesInv, BodiesInv
  <1>2. JobsInv
    BY NamesFacts DEF Init, JobsInv, JobOK, NoJob, Unnamed
  <1>3. RowsNameFiles /\ JobsFailForCause
    BY DEF Init, RowsNameFiles, JobsFailForCause, NoJob
  <1> QED  BY <1>1, <1>2, <1>3, InitTypes DEF IInv

LEMMA StepIInv == IInv /\ [Next]_vars => IInv'
  BY StepTypes, RowsStep, KeysStep, SameFileStep, SavesStep, AliasesStep, RunnerStep,
     RowsNameFilesStep, JobsFailStep DEF IInv

LEMMA Invariance == Spec => []IInv
  BY InitIInv, StepIInv, PTL DEF Spec

\* Every variable keeps its type (what the tables, the disk and the queue hold).
THEOREM MediaTypes == Spec => []TypeOK
  <1>1. IInv => TypeOK
    BY DEF IInv
  <1> QED  BY <1>1, Invariance, PTL

\* Whatever dies when, a row of wh_blob names a file that is on the disk, whole
\* unless a fault or a second upload had it written again (addBlob).
THEOREM RowsHaveFiles == Spec => []RowsNameFiles
  <1>1. IInv => RowsNameFiles
    BY DEF IInv
  <1> QED  BY <1>1, Invariance, PTL

\* The pictures of a revision are of the upload that its own rows name, through
\* every overlap of edits, aliases, jobs and retries (batchAlias, addBlob, the
\* tasks of lib/workflowtasks).
THEOREM PicturesAreOfUpload == Spec => []PicturesMatchUpload
  <1>1. ASSUME IInv PROVE PicturesMatchUpload
    <2> SUFFICES ASSUME NEW s \in blobs, NEW d \in blobs,
                        s.name = Source, d.name \in Derived, s.rev = d.rev,
                        ~Redrafted(s.file), ~Redrafted(d.file)
                 PROVE  /\ d.file = s.file
                        /\ files[d.file][d.name] \in {files[s.file][Source], Torn}
      BY DEF PicturesMatchUpload, Redrafted
    <2>1. d.file = s.file
      BY <1>1 DEF IInv, SameFile
    <2>2. d.file \in Revs
      BY <1>1 DEF IInv, TypeOK, Blob
    <2>3. files[d.file][d.name] \in {Absent, Torn, files[d.file][Source]}
      BY <1>1, <2>2 DEF IInv, JobsInv, JobOK
    <2>4. files[d.file][d.name] # Absent
      BY <1>1 DEF IInv, RowsNameFiles
    <2> QED  BY <2>1, <2>3, <2>4
  <1> QED  BY <1>1, Invariance, PTL

\* A job that has succeeded has made every picture of its revision (the chains
\* of lib/workflowdefs).
THEOREM SuccessIsComplete == Spec => []SucceededIsComplete
  <1>1. ASSUME IInv PROVE SucceededIsComplete
    <2> SUFFICES ASSUME NEW r \in Revs, jobs[r].state = "succeeded", NEW n \in Derived
                 PROVE  \E b \in RowsFor(n, r) : b.file = r
      BY DEF SucceededIsComplete
    <2>1. Made(Len(Chain) + 1, 1, r)
      BY <1>1 DEF IInv, JobsInv, JobOK
    <2>2. PICK t \in DOMAIN Chain : \E i \in DOMAIN Chain[t] : n = Chain[t][i]
      BY DerivedIsMade
    <2>3. PICK i \in DOMAIN Chain[t] : n = Chain[t][i]
      BY <2>2
    <2>4. Before(Len(Chain) + 1, 1, t, i)
      BY ChainFacts DEF Before
    <2>5. Own(n, r) \in blobs
      BY <2>1, <2>3, <2>4 DEF Made
    <2> QED  BY <2>5 DEF Own, RowsFor
  <1> QED  BY <1>1, Invariance, PTL

\* A job that has failed had a fault, a second upload into its draft, or a stale
\* "not found" in findBlob's cache behind it.
THEOREM FailuresHaveCauses == Spec => []JobsFailForCause
  <1>1. IInv => JobsFailForCause
    BY DEF IInv
  <1> QED  BY <1>1, Invariance, PTL
---------------------------------------------------------------------------
(* Edits without an upload. *)

\* The revision was made without an upload, from one that had all its pictures,
\* and nothing has gone wrong with it.
Kept(r) ==
    /\ revs[r].kind = "tag" /\ revs[r].ready
    /\ \A why \in {"fault", "stale", "redraft"} : <<r, why>> \notin hurt

\* The picture is there, and is the one of the revision before.
Carried(n, r) ==
    \E b \in RowsFor(n, r), o \in RowsFor(n, revs[r].base) : b.file = o.file
Pending(n, r) == \E a \in aliasing : a.name = n /\ a.rev = r

\* While the request is at its k-th batch: the batches before are done, those
\* after it not begun, and every alias that is being made is one of the batch
\* and finds its place free.
BatchOK(k, r) ==
    /\ \A j \in DOMAIN Batches : \A n \in Batches[j] :
          /\ j < k => Carried(n, r)
          /\ j = k => Pending(n, r) \/ Carried(n, r)
          /\ j > k => RowsFor(n, r) = {}
    /\ \A a \in aliasing : a.rev = r =>
          /\ a.name \in Batches[k] /\ RowsFor(a.name, r) = {}
          /\ \A c \in aliasing : c.rev = r /\ c.name = a.name => c = a
CarryOK(r) ==
    /\ Whole(revs[r].base)
    /\ \A s \in saves : s.rev = r => BatchOK(s.batch, r)
    /\ (\A s \in saves : s.rev # r) =>
          (\A n \in Names : Carried(n, r)) /\ (\A a \in aliasing : a.rev # r)
Carries == \A r \in DOMAIN revs : Kept(r) => CarryOK(r)

LEMMA CarriedKept ==
    ASSUME IInv, [Next]_vars, NEW r \in DOMAIN revs
    PROVE  /\ \A n : Carried(n, r) => Carried(n, r)'
           /\ Whole(revs[r].base) => Whole(revs[r].base)'
           /\ Kept(r)' => Kept(r)
  <1>1. revs'[r] = revs[r] /\ blobs \subseteq blobs' /\ hurt \subseteq hurt'
    BY Growth
  <1>2. \A n, q : RowsFor(n, q) \subseteq RowsFor(n, q)'
    BY <1>1 DEF RowsFor
  <1>3. \A n : Carried(n, r) => Carried(n, r)'
    BY <1>1, <1>2 DEF Carried
  <1>4. Whole(revs[r].base) => Whole(revs[r].base)'
    BY <1>1, <1>2 DEF Whole
  <1>5. Kept(r)' => Kept(r)
    BY <1>1 DEF Kept
  <1> QED  BY <1>3, <1>4, <1>5

\* A revision whose request, aliases and rows are let alone keeps its pictures.
LEMMA CarryStays ==
    ASSUME IInv, [Next]_vars, NEW r \in DOMAIN revs, CarryOK(r),
           \A s : s.rev = r => (s \in saves' <=> s \in saves),
           \A a : a.rev = r => (a \in aliasing' <=> a \in aliasing),
           \A n : RowsFor(n, r)' = RowsFor(n, r)
    PROVE  CarryOK(r)'
  <1>1. revs'[r] = revs[r]
    BY Growth
  <1>2. ASSUME NEW k, BatchOK(k, r) PROVE BatchOK(k, r)'
    <2>1. \A n : Pending(n, r) => Pending(n, r)'
      BY DEF Pending
    <2> QED  BY <1>2, <2>1, CarriedKept DEF BatchOK
  <1> QED  BY <1>1, <1>2, CarriedKept DEF CarryOK

\* The end of an alias concerns no revision but its own.
LEMMA AliasOverElsewhere ==
    ASSUME IInv, NEW a \in aliasing, NEW failed, AliasOver(a, failed)
    PROVE  /\ \A s : s.rev # a.rev => (s \in saves' <=> s \in saves)
           /\ \A c : c.rev # a.rev => (c \in aliasing' <=> c \in aliasing)
  <1> DEFINE rest == aliasing \ {a}
             ends(s) == failed \/ ~\E o \in rest : o.rev = s.rev /\
                                                   o.name \in Batches[s.batch]
             w == CHOOSE s \in WaitsOn(a) : TRUE
             next == w.batch + 1
  <1>1. CASE \E s \in WaitsOn(a) : ends(s)
    <2>1. w \in saves /\ w.rev = a.rev /\ [w EXCEPT !.batch = next].rev = a.rev
      <3>1. w \in WaitsOn(a)
        BY <1>1
      <3>2. w \in saves /\ w.rev = a.rev
        BY <3>1 DEF WaitsOn
      <3>3. w \in Save
        BY <3>2 DEF IInv, TypeOK
      <3> HIDE DEF w
      <3> QED  BY <3>2, <3>3 DEF Save
    <2>2. \A c \in AliasesOf(Batches[next], w.rev, a.from) : c.rev = a.rev
      BY <2>1 DEF AliasesOf
    <2>3. saves' = (saves \ {w}) \cup (IF next > Len(Batches) THEN {}
                                       ELSE {[w EXCEPT !.batch = next]})
          /\ aliasing' = rest \cup (IF next > Len(Batches) THEN {}
                                    ELSE AliasesOf(Batches[next], w.rev, a.from))
      BY <1>1 DEF AliasOver
    <2> HIDE DEF w
    <2> QED  BY <2>1, <2>2, <2>3
  <1>2. CASE ~\E s \in WaitsOn(a) : ends(s)
    BY <1>2 DEF AliasOver
  <1> QED  BY <1>1, <1>2

\* An edit without an upload that nothing has hurt writes no files.
LEMMA KeptWritesNothing ==
    ASSUME IInv, NEW r \in DOMAIN revs, Kept(r)
    PROVE  /\ ~HasUpload(r)
           /\ \A s \in saves : s.rev = r => s.at = "batch"
           /\ \A b \in bodies : b.rev # r
  <1>1. ~HasUpload(r)
    BY DEF Kept, HasUpload, Redrafted
  <1>2. \A s \in saves : s.rev = r => s.at = "batch"
    BY <1>1 DEF IInv, SavesInv, SaveOK
  <1>3. \A b \in bodies : b.rev # r
    BY <1>1, BodyContext
  <1> QED  BY <1>1, <1>2, <1>3

\* A row of one name and revision leaves the places of all others as they were.
LEMMA OtherRows ==
    ASSUME NEW n, NEW r, NEW f, Insert(n, r, f)
    PROVE  \A m, q : m # n \/ q # r => RowsFor(m, q)' = RowsFor(m, q)
  BY DEF Insert, RowsFor

LEMMA BatchesAreDisjoint ==
    ASSUME NEW j \in DOMAIN Batches, NEW k \in DOMAIN Batches, NEW n,
           n \in Batches[j], n \in Batches[k]
    PROVE  j = k
  BY BatchesApart DEF BatchesApart

LEMMA EveryNameBatched ==
    ASSUME NEW n \in Names
    PROVE  \E k \in DOMAIN Batches : n \in Batches[k]
  BY BatchesCarryAll DEF BatchesCarryAll

\* What is known of the request that an alias of such a revision works for.
LEMMA RequestOfAlias ==
    ASSUME IInv, NEW a \in aliasing, NEW r \in DOMAIN revs, Kept(r), CarryOK(r), a.rev = r
    PROVE  \E s \in saves :
              /\ s.rev = r /\ s.at = "batch" /\ BatchOK(s.batch, r)
              /\ \A z \in saves : z.rev = r => z = s
              /\ s.batch \in DOMAIN Batches
              /\ a.name \in Batches[s.batch] /\ RowsFor(a.name, r) = {}
              /\ WaitsOn(a) = {s}
  <1>1. PICK s \in saves : s.rev = r
    BY DEF CarryOK
  <1>2. s.at = "batch" /\ BatchOK(s.batch, r) /\ \A z \in saves : z.rev = r => z = s
    BY <1>1, KeptWritesNothing DEF CarryOK, IInv, SavesInv
  <1>3. s.batch \in DOMAIN Batches
    BY <1>2 DEF IInv, SavesInv, SaveOK
  <1>4. a.name \in Batches[s.batch] /\ RowsFor(a.name, r) = {}
    BY <1>2 DEF BatchOK
  <1>5. WaitsOn(a) = {s}
    BY <1>1, <1>2, <1>4 DEF WaitsOn
  <1> QED  BY <1>1, <1>2, <1>3, <1>4, <1>5

\* The last alias of a batch starts the next batch, or ends the request with every
\* picture in its place.
LEMMA BatchDone ==
    ASSUME IInv, [Next]_vars, UNCHANGED revs,
           NEW a \in aliasing, NEW r \in DOMAIN revs, Kept(r), CarryOK(r), a.rev = r,
           NEW s \in saves, s.rev = r, BatchOK(s.batch, r), s.batch \in DOMAIN Batches,
           \A z \in saves : z.rev = r => z = s,
           a.name \in Batches[s.batch],
           \A o \in aliasing : o.rev = r => o = a,
           Carried(a.name, r)', \A n : n # a.name => RowsFor(n, r)' = RowsFor(n, r),
           saves' = (saves \ {s}) \cup (IF s.batch + 1 > Len(Batches) THEN {}
                                        ELSE {[s EXCEPT !.batch = s.batch + 1]}),
           aliasing' = (aliasing \ {a}) \cup
                          (IF s.batch + 1 > Len(Batches) THEN {}
                           ELSE AliasesOf(Batches[s.batch + 1], r, a.from))
    PROVE  CarryOK(r)'
  <1> DEFINE k == s.batch
             z == [s EXCEPT !.batch = k + 1]
             new == AliasesOf(Batches[k + 1], r, a.from)
  <1>1. k \in 1..Len(Batches) /\ Len(Batches) \in Nat
    BY BatchFacts
  <1>2. revs'[r] = revs[r] /\ Whole(revs[r].base)'
    BY CarriedKept DEF CarryOK
  <1>3. \A j \in DOMAIN Batches : \A n \in Batches[j] :
           /\ j <= k => Carried(n, r)'
           /\ j > k => n # a.name /\ RowsFor(n, r)' = {}
    <2> TAKE j \in DOMAIN Batches
    <2> TAKE n \in Batches[j]
    <2>1. CASE j < k
      BY <1>1, <2>1, BatchFacts, CarriedKept DEF BatchOK
    <2>2. CASE j = k
      BY <1>1, <2>2, CarriedKept DEF BatchOK, Pending
    <2>3. CASE j > k
      <3>1. n # a.name
        BY <1>1, <2>3, BatchesAreDisjoint
      <3> QED  BY <1>1, <2>3, <3>1, BatchFacts DEF BatchOK
    <2> QED  BY <1>1, <2>1, <2>2, <2>3, BatchFacts
  <1>4. CASE k + 1 > Len(Batches)
    <2>1. \A c \in aliasing' : c.rev # r
      BY <1>4
    <2>2. \A c \in saves' : c.rev # r
      BY <1>4
    <2>3. \A n \in Names : Carried(n, r)'
      <3> TAKE n \in Names
      <3>1. PICK j \in DOMAIN Batches : n \in Batches[j]
        BY EveryNameBatched
      <3>2. j \in Nat /\ j <= Len(Batches)
        BY BatchFacts
      <3>3. j <= k
        BY <1>1, <1>4, <3>2
      <3> QED  BY <1>3, <3>1, <3>3
    <2> QED  BY <1>2, <2>1, <2>2, <2>3 DEF CarryOK
  <1>5. CASE ~(k + 1 > Len(Batches))
    <2>1. k + 1 \in DOMAIN Batches /\ k + 1 > k
      BY <1>1, <1>5, BatchFacts
    <2>2. z.rev = r /\ z.batch = k + 1
      <3>1. s \in Save
        BY DEF IInv, TypeOK
      <3> QED  BY <3>1 DEF Save
    <2>3. \A c \in saves' : c.rev = r => c = z
      BY <1>5
    <2>4. z \in saves'
      BY <1>5
    <2>5. \A c \in aliasing' : c.rev = r => c \in new
      BY <1>5
    <2>6. \A c \in new : c.name \in Batches[k + 1]
                          /\ c = [name |-> c.name, rev |-> r, from |-> a.from, file |-> 0]
      BY DEF AliasesOf
    <2>7. \A n \in Batches[k + 1] : Pending(n, r)'
      <3> TAKE n \in Batches[k + 1]
      <3> DEFINE c == [name |-> n, rev |-> r, from |-> a.from, file |-> 0]
      <3>1. c \in aliasing' /\ c.name = n /\ c.rev = r
        BY <1>5 DEF AliasesOf
      <3> QED  BY <3>1 DEF Pending
    <2>8. BatchOK(k + 1, r)'
      <3>1. ASSUME NEW j \in DOMAIN Batches, NEW n \in Batches[j]
            PROVE  /\ j < k + 1 => Carried(n, r)'
                   /\ j = k + 1 => Pending(n, r)'
                   /\ j > k + 1 => RowsFor(n, r)' = {}
        <4>1. j \in Nat
          BY BatchFacts
        <4> QED  BY <1>1, <1>3, <2>7, <4>1
      <3>2. ASSUME NEW c \in aliasing', c.rev = r
            PROVE  /\ c.name \in Batches[k + 1] /\ RowsFor(c.name, r)' = {}
                   /\ \A d \in aliasing' : d.rev = r /\ d.name = c.name => d = c
        <4>1. c \in new /\ \A d \in aliasing' : d.rev = r => d \in new
          BY <2>5, <3>2
        <4>2. c.name \in Batches[k + 1] /\ RowsFor(c.name, r)' = {}
          BY <1>3, <2>1, <2>6, <4>1
        <4>3. \A d \in aliasing' : d.rev = r /\ d.name = c.name => d = c
          <5> HIDE DEF new
          <5> QED  BY <2>6, <4>1
        <4> QED  BY <4>2, <4>3
      <3> HIDE DEF k
      <3> QED  BY <3>1, <3>2 DEF BatchOK
    <2>9. \A c \in saves' : c.rev = r => BatchOK(c.batch, r)'
      <3> HIDE DEF k, z
      <3> QED  BY <2>2, <2>3, <2>8
    <2> HIDE DEF k, z
    <2> QED  BY <1>2, <2>2, <2>4, <2>9 DEF CarryOK
  <1> QED  BY <1>4, <1>5

\* While other aliases of the batch are being made, the request waits.
LEMMA BatchWaits ==
    ASSUME IInv, [Next]_vars, UNCHANGED <<revs, saves>>,
           NEW a \in aliasing, NEW r \in DOMAIN revs, Kept(r), CarryOK(r), a.rev = r,
           NEW s \in saves, s.rev = r, BatchOK(s.batch, r), s.batch \in DOMAIN Batches,
           \A z \in saves : z.rev = r => z = s,
           a.name \in Batches[s.batch],
           Carried(a.name, r)', \A n : n # a.name => RowsFor(n, r)' = RowsFor(n, r),
           aliasing' = aliasing \ {a}
    PROVE  CarryOK(r)'
  <1> DEFINE k == s.batch
  <1>1. k \in Nat
    BY BatchFacts
  <1>2. revs'[r] = revs[r] /\ Whole(revs[r].base)'
    BY CarriedKept DEF CarryOK
  <1>3. ASSUME NEW j \in DOMAIN Batches, NEW n \in Batches[j]
        PROVE  /\ j < k => Carried(n, r)'
               /\ j = k => Pending(n, r)' \/ Carried(n, r)'
               /\ j > k => RowsFor(n, r)' = {}
    <2>1. CASE j < k
      BY <1>1, <2>1, BatchFacts, CarriedKept DEF BatchOK
    <2>2. CASE j = k
      <3>1. Pending(n, r) \/ Carried(n, r)
        BY <2>2 DEF BatchOK
      <3>2. CASE Carried(n, r) \/ n = a.name
        BY <2>2, <3>2, CarriedKept, BatchFacts
      <3>3. CASE Pending(n, r) /\ n # a.name
        BY <2>2, <3>3, BatchFacts DEF Pending
      <3> QED  BY <2>2, <3>1, <3>2, <3>3
    <2>3. CASE j > k
      <3>1. n # a.name
        BY <1>1, <2>3, BatchFacts, BatchesAreDisjoint
      <3> QED  BY <1>1, <2>3, <3>1, BatchFacts DEF BatchOK
    <2> QED  BY <1>1, <2>1, <2>2, <2>3, BatchFacts
  <1>4. ASSUME NEW c \in aliasing', c.rev = r
        PROVE  /\ c.name \in Batches[k] /\ RowsFor(c.name, r)' = {}
               /\ \A d \in aliasing' : d.rev = r /\ d.name = c.name => d = c
    <2>1. c.name \in Batches[k] /\ RowsFor(c.name, r) = {}
      BY <1>4 DEF BatchOK
    <2>2. \A d \in aliasing : d.rev = r /\ d.name = c.name => d = c
      BY <1>4 DEF BatchOK
    <2>3. c.name # a.name
      BY <1>4, <2>2
    <2> QED  BY <2>1, <2>2, <2>3
  <1>5. BatchOK(k, r)'
    <2> HIDE DEF k
    <2> QED  BY <1>3, <1>4 DEF BatchOK
  <1> QED  BY <1>2, <1>5 DEF CarryOK

\* An alias that has been made carries its picture over.
LEMMA AliasMade ==
    ASSUME IInv, [Next]_vars, NEW a \in aliasing, InsertAlias(a),
           NEW r \in DOMAIN revs, Kept(r), CarryOK(r), a.rev = r
    PROVE  CarryOK(r)'
  <1> DEFINE rest == aliasing \ {a}
             ends(s) == FALSE \/ ~\E o \in rest : o.rev = s.rev /\
                                                  o.name \in Batches[s.batch]
             w == CHOOSE s \in WaitsOn(a) : TRUE
  <1>1. PICK s \in saves :
           /\ s.rev = r /\ s.at = "batch" /\ BatchOK(s.batch, r)
           /\ \A z \in saves : z.rev = r => z = s
           /\ s.batch \in DOMAIN Batches
           /\ a.name \in Batches[s.batch] /\ RowsFor(a.name, r) = {}
           /\ WaitsOn(a) = {s}
    BY RequestOfAlias
  <1>2. Insert(a.name, r, a.file) /\ AliasOver(a, FALSE) /\ UNCHANGED revs
    BY <1>1 DEF InsertAlias, CanInsert
  <1>3. Carried(a.name, r)'
    <2>1. PICK o \in blobs : o.rev = revs[r].base /\ o.name = a.name /\ o.file = a.file
      BY DEF IInv, AliasesInv, AliasOK, InsertAlias
    <2> DEFINE b == [name |-> a.name, rev |-> r, file |-> a.file]
    <2>2. b \in RowsFor(a.name, r)' /\ b.file = a.file
      BY <1>2 DEF Insert, RowsFor
    <2>3. o \in RowsFor(a.name, revs[r].base)'
      BY <1>2, <2>1 DEF Insert, RowsFor
    <2> QED  BY <1>2, <2>1, <2>2, <2>3 DEF Carried
  <1>4. \A n : n # a.name => RowsFor(n, r)' = RowsFor(n, r)
    BY <1>2, OtherRows
  <1>5. w = s
    BY <1>1
  <1>6. CASE ends(s)
    <2>1. \A o \in aliasing : o.rev = r => o = a
      BY <1>1, <1>6 DEF BatchOK
    <2>2. /\ saves' = (saves \ {s}) \cup (IF s.batch + 1 > Len(Batches) THEN {}
                                          ELSE {[s EXCEPT !.batch = s.batch + 1]})
          /\ aliasing' = (aliasing \ {a}) \cup
                            (IF s.batch + 1 > Len(Batches) THEN {}
                             ELSE AliasesOf(Batches[s.batch + 1], r, a.from))
      BY <1>1, <1>2, <1>5, <1>6 DEF AliasOver
    <2> QED  BY <1>1, <1>2, <1>3, <1>4, <2>1, <2>2, BatchDone
  <1>7. CASE ~ends(s)
    <2>1. saves' = saves /\ aliasing' = aliasing \ {a}
      BY <1>1, <1>2, <1>7 DEF AliasOver
    <2> QED  BY <1>1, <1>2, <1>3, <1>4, <2>1, BatchWaits
  <1> QED  BY <1>6, <1>7

\* An alias that knows the file it is to name still waits for its insertion.
LEMMA AliasFound ==
    ASSUME IInv, [Next]_vars, UNCHANGED <<revs, saves, blobs>>,
           NEW a \in aliasing, NEW r \in DOMAIN revs, CarryOK(r), a.rev = r,
           NEW c, c.name = a.name, c.rev = r,
           aliasing' = (aliasing \ {a}) \cup {c}
    PROVE  CarryOK(r)'
  <1>1. \A n, q : RowsFor(n, q)' = RowsFor(n, q)
    BY DEF RowsFor
  <1>2. ASSUME NEW k, BatchOK(k, r) PROVE BatchOK(k, r)'
    <2>1. \A n : Pending(n, r) => Pending(n, r)'
      <3> TAKE n
      <3>1. CASE n = a.name
        BY <3>1 DEF Pending
      <3>2. CASE n # a.name
        BY <3>2 DEF Pending
      <3> QED  BY <3>1, <3>2
    <2>2. ASSUME NEW d \in aliasing', d.rev = r
          PROVE  /\ d.name \in Batches[k] /\ RowsFor(d.name, r)' = {}
                 /\ \A e \in aliasing' : e.rev = r /\ e.name = d.name => e = d
      <3>1. \A e \in aliasing : e.rev = r =>
               /\ e.name \in Batches[k] /\ RowsFor(e.name, r) = {}
               /\ e.name = a.name => e = a
        BY <1>2 DEF BatchOK
      <3>2. \A e \in aliasing' : e.rev = r /\ e.name = a.name => e = c
        BY <3>1
      <3>3. CASE d.name = a.name
        BY <1>1, <2>2, <3>1, <3>2, <3>3
      <3>4. CASE d.name # a.name
        BY <1>1, <1>2, <2>2, <3>1, <3>4 DEF BatchOK
      <3> QED  BY <3>3, <3>4
    <2>3. ASSUME NEW j \in DOMAIN Batches, NEW n \in Batches[j]
          PROVE  /\ j < k => Carried(n, r)'
                 /\ j = k => Pending(n, r)' \/ Carried(n, r)'
                 /\ j > k => RowsFor(n, r)' = {}
      BY <1>1, <1>2, <2>1, CarriedKept DEF BatchOK
    <2> QED  BY <2>2, <2>3 DEF BatchOK
  <1>3. \E s \in saves : s.rev = r
    BY DEF CarryOK
  <1>4. revs'[r] = revs[r] /\ Whole(revs[r].base)'
    BY CarriedKept DEF CarryOK
  <1> QED  BY <1>2, <1>3, <1>4 DEF CarryOK

\* The alias finds the file, unless the cache holds an old "not found".
LEMMA OldFound ==
    ASSUME IInv, [Next]_vars, NEW a \in aliasing, FindOld(a),
           NEW r \in DOMAIN revs, Kept(r)', CarryOK(r), a.rev = r
    PROVE  CarryOK(r)'
  <1>1. a.from = revs[r].base /\ a.name \in Names
    BY AliasFacts DEF IInv, AliasesInv, AliasOK
  <1>2. RowsFor(a.name, a.from) # {}
    BY <1>1 DEF CarryOK, Whole
  <1>3. CASE ~Finds(a.name, a.from)
    <2>1. Stale(a.name, a.from)
      BY <1>2, <1>3 DEF Finds, Stale
    <2>2. <<r, "stale">> \in hurt'
      BY <1>3, <2>1 DEF FindOld, Blame
    <2> QED  BY <2>2 DEF Kept
  <1>4. CASE Finds(a.name, a.from)
    <2>1. PICK b \in RowsFor(a.name, a.from) : TRUE
      BY <1>2
    <2>2. RowsFor(a.name, a.from) = {b}
      BY <2>1 DEF IInv, KeysInv, RowsFor
    <2> DEFINE c == [a EXCEPT !.file = b.file]
    <2>3. aliasing' = (aliasing \ {a}) \cup {c}
      BY <1>4, <2>2 DEF FindOld
    <2>4. c.name = a.name /\ c.rev = r
      BY DEF IInv, TypeOK, Alias
    <2>5. UNCHANGED <<revs, saves, blobs>>
      BY <1>4 DEF FindOld, store
    <2> HIDE DEF c
    <2> QED  BY <2>3, <2>4, <2>5, AliasFound
  <1> QED  BY <1>3, <1>4

\* A new revision without an upload starts with its first batch.
LEMMA TagCarries ==
    ASSUME IInv, [Next]_vars, NEW base \in DOMAIN revs, Tag(base),
           NEW r, r = Len(revs) + 1, Kept(r)'
    PROVE  CarryOK(r)'
  <1> DEFINE s == [rev |-> r, content |-> 0, at |-> "batch", batch |-> 1]
             new == AliasesOf(Batches[1], r, base)
  <1>1. Revise(base, "tag", {s}) /\ UNCHANGED <<files, blobs, misses, hurt>>
        /\ aliasing' = aliasing \cup new
    BY DEF Tag, store
  <1>2. revs'[r].base = base /\ revs'[r].ready = Whole(base)
    <2>1. PICK draft \in BOOLEAN :
            revs' = Append(revs, [base |-> base, kind |-> "tag", draft |-> draft,
                                  ready |-> Whole(base)])
      BY <1>1 DEF Revise
    <2> QED  BY <2>1 DEF IInv, TypeOK
  <1>3. Whole(base)'
    BY <1>1, <1>2 DEF Kept, Whole, RowsFor
  <1>4. r \in Revs /\ r \notin DOMAIN revs
    BY <1>1, RevsType DEF IInv, Revise
  <1>5. \A n : RowsFor(n, r)' = {}
    BY <1>1, <1>4 DEF RowsFor, IInv, RowsInv
  <1>6. (\A c \in aliasing : c.rev # r) /\ (\A z \in saves : z.rev # r)
    BY <1>4 DEF IInv, AliasesInv, AliasOK, SavesInv, SaveOK
  <1>7. saves' = saves \cup {s}
    BY <1>1 DEF Revise
  <1>8. BatchOK(1, r)'
    <2>1. \A c \in aliasing' : c.rev = r => c \in new
      BY <1>1, <1>6
    <2>2. \A c \in new : c.name \in Batches[1]
                         /\ c = [name |-> c.name, rev |-> r, from |-> base, file |-> 0]
      BY DEF AliasesOf
    <2>3. \A n \in Batches[1] : Pending(n, r)'
      <3> TAKE n \in Batches[1]
      <3> DEFINE c == [name |-> n, rev |-> r, from |-> base, file |-> 0]
      <3>1. c \in aliasing' /\ c.name = n /\ c.rev = r
        BY <1>1 DEF AliasesOf
      <3> QED  BY <3>1 DEF Pending
    <2>4. ASSUME NEW j \in DOMAIN Batches, NEW n \in Batches[j]
          PROVE  /\ j < 1 => Carried(n, r)'
                 /\ j = 1 => Pending(n, r)'
                 /\ j > 1 => RowsFor(n, r)' = {}
      BY <1>5, <2>3, BatchFacts
    <2>5. ASSUME NEW c \in aliasing', c.rev = r
          PROVE  /\ c.name \in Batches[1] /\ RowsFor(c.name, r)' = {}
                 /\ \A d \in aliasing' : d.rev = r /\ d.name = c.name => d = c
      <3> HIDE DEF new
      <3> QED  BY <1>5, <2>1, <2>2, <2>5
    <2> QED  BY <2>4, <2>5 DEF BatchOK
  <1>9. \A z \in saves' : z.rev = r => z = s
    BY <1>6, <1>7
  <1>10. s \in saves' /\ s.rev = r /\ s.batch = 1
    BY <1>7
  <1> HIDE DEF s
  <1> QED  BY <1>2, <1>3, <1>8, <1>9, <1>10 DEF CarryOK

\* One step of a revision that is there already.
LEMMA OldRevisionCarries ==
    ASSUME IInv, [Next]_vars, NEW r \in DOMAIN revs, Kept(r)', CarryOK(r)
    PROVE  CarryOK(r)'
  <1>1. Kept(r)
    BY CarriedKept
  <1>2. ~HasUpload(r) /\ (\A s \in saves : s.rev = r => s.at = "batch")
        /\ (\A b \in bodies : b.rev # r)
    BY <1>1, KeptWritesNothing
  <1> DEFINE Quiet ==
        /\ \A s : s.rev = r => (s \in saves' <=> s \in saves)
        /\ \A a : a.rev = r => (a \in aliasing' <=> a \in aliasing)
        /\ \A n : RowsFor(n, r)' = RowsFor(n, r)
  <1>3. CASE Quiet
    BY <1>3, CarryStays
  <1>4. blobs' = blobs => \A n : RowsFor(n, r)' = RowsFor(n, r)
    BY DEF RowsFor
  <1>5. CASE UNCHANGED <<saves, aliasing, blobs>>
    BY <1>3, <1>4, <1>5
  <1>6. \A q : <<q, "fault">> \in hurt' => q # r
    BY DEF Kept
  <1>7. CASE Requests
    <2>1. CASE Create
      BY <2>1, RevsType DEF Create, IInv
    <2>2. r # Len(revs) + 1
      BY RevsType DEF IInv
    <2>3. ASSUME NEW q \in DOMAIN revs, Upload(q) PROVE CarryOK(r)'
      BY <1>3, <1>4, <2>2, <2>3 DEF Upload, Revise, store
    <2>4. ASSUME NEW q \in DOMAIN revs, Redraft(q) PROVE CarryOK(r)'
      <3>1. q # r
        BY <2>4 DEF Redraft, Blame, Kept
      <3> QED  BY <1>3, <1>4, <2>4, <3>1 DEF Redraft, store
    <2>5. ASSUME NEW q \in DOMAIN revs, Tag(q) PROVE CarryOK(r)'
      <3> DEFINE new == AliasesOf(Batches[1], Len(revs) + 1, q)
      <3>1. \A a \in new : a.rev # r
        BY <2>2 DEF AliasesOf
      <3>2. aliasing' = aliasing \cup new
        BY <2>5 DEF Tag
      <3>3. \A a : a.rev = r => (a \in aliasing' <=> a \in aliasing)
        <4> HIDE DEF new
        <4> QED  BY <3>1, <3>2
      <3> QED  BY <1>3, <1>4, <2>2, <2>5, <3>3 DEF Tag, Revise, store
    <2>6. ASSUME NEW q \in DOMAIN revs, Toggle(q) PROVE CarryOK(r)'
      BY <1>3, <1>4, <2>6 DEF Toggle, Revise, store
    <2> QED  BY <1>7, <2>1, <2>3, <2>4, <2>5, <2>6 DEF Requests
  <1>8. ASSUME NEW s \in saves, s.at # "batch",
               saves' \in {saves \ {s}} \cup
                             {(saves \ {s}) \cup {[s EXCEPT !.at = at]} :
                                 at \in {"torn", "row", "launch"}},
               UNCHANGED aliasing, \A n : RowsFor(n, r)' = RowsFor(n, r)
        PROVE  CarryOK(r)'
    <2>1. s.rev # r
      BY <1>2, <1>8
    <2>2. s \in Save
      BY DEF IInv, TypeOK
    <2>3. \A at : [s EXCEPT !.at = at].rev # r
      BY <2>1, <2>2 DEF Save
    <2> QED  BY <1>3, <1>8, <2>1, <2>3
  <1>9. ASSUME NEW s \in saves, SaveWork(s) PROVE CarryOK(r)'
    <2>1. CASE WriteSource(s)
      BY <1>4, <1>8, <2>1 DEF WriteSource, Advance
    <2>2. CASE FillSource(s)
      BY <1>4, <1>8, <2>2 DEF FillSource, Advance
    <2>3. CASE InsertSource(s)
      <3>1. s.rev # r
        BY <1>2, <2>3 DEF InsertSource
      <3>2. \A n : RowsFor(n, r)' = RowsFor(n, r)
        BY <1>4, <2>3, <3>1, OtherRows DEF InsertSource
      <3> QED  BY <1>8, <2>3, <3>2 DEF InsertSource, Advance
    <2>4. CASE Launch(s)
      BY <1>4, <1>8, <2>4 DEF Launch, store
    <2> QED  BY <1>9, <2>1, <2>2, <2>3, <2>4 DEF SaveWork
  <1>10. ASSUME NEW a \in aliasing, NEW failed, AliasOver(a, failed), a.rev # r,
                \A n : RowsFor(n, r)' = RowsFor(n, r)
         PROVE  CarryOK(r)'
    BY <1>3, <1>10, AliasOverElsewhere
  <1>11. ASSUME NEW a \in aliasing, FindOld(a) PROVE CarryOK(r)'
    <2>1. CASE a.rev = r
      BY <1>1, <1>11, <2>1, OldFound
    <2>2. CASE a.rev # r /\ ~Finds(a.name, a.from)
      BY <1>4, <1>10, <1>11, <2>2 DEF FindOld, store
    <2>3. CASE a.rev # r /\ Finds(a.name, a.from)
      <3> DEFINE new == {[a EXCEPT !.file = b.file] : b \in RowsFor(a.name, a.from)}
      <3>1. \A c \in new : c.rev # r
        BY <2>3 DEF IInv, TypeOK, Alias
      <3>2. aliasing' = (aliasing \ {a}) \cup new /\ saves' = saves /\ blobs' = blobs
        BY <1>11, <2>3 DEF FindOld, store
      <3>3. \A c : c.rev = r => (c \in aliasing' <=> c \in aliasing)
        <4> HIDE DEF new
        <4> QED  BY <2>3, <3>1, <3>2
      <3> QED  BY <1>3, <1>4, <3>2, <3>3
    <2> QED  BY <2>1, <2>2, <2>3
  <1>12. ASSUME NEW a \in aliasing, InsertAlias(a) PROVE CarryOK(r)'
    <2>1. CASE a.rev = r
      BY <1>1, <1>12, <2>1, AliasMade
    <2>2. CASE a.rev # r
      <3>1. \A n : RowsFor(n, r)' = RowsFor(n, r)
        BY <1>4, <1>12, <2>2, OtherRows DEF InsertAlias
      <3> QED  BY <1>10, <1>12, <2>2, <3>1 DEF InsertAlias
    <2> QED  BY <2>1, <2>2
  <1>13. CASE JobWork
    <2>1. PICK b \in bodies : ReadSource(b) \/ WriteDerived(b) \/ FillDerived(b)
                              \/ InsertDerived(b)
      BY <1>13 DEF JobWork
    <2>2. b.rev # r
      BY <1>2
    <2>3. CASE InsertDerived(b)
      <3>1. \A n : RowsFor(n, r)' = RowsFor(n, r)
        BY <1>4, <2>2, <2>3, OtherRows DEF InsertDerived
      <3> QED  BY <1>3, <2>3, <3>1 DEF InsertDerived, web
    <2>4. CASE ~InsertDerived(b)
      BY <1>5, <2>1, <2>4 DEF ReadSource, WriteDerived, FillDerived, web, store
    <2> QED  BY <2>3, <2>4
  <1>14. CASE Faults
    <2>1. ASSUME NEW s \in saves, SaveFails(s) PROVE CarryOK(r)'
      BY <1>4, <1>8, <2>1 DEF SaveFails, store
    <2>2. ASSUME NEW a \in aliasing, AliasFails(a) PROVE CarryOK(r)'
      <3>1. a.rev # r
        BY <1>6, <2>2 DEF AliasFails, Blame
      <3> QED  BY <1>4, <1>10, <2>2, <3>1 DEF AliasFails, store
    <2>3. ASSUME NEW b \in bodies, BodyFails(b) \/ TimeOut(b) PROVE CarryOK(r)'
      BY <1>5, <2>3 DEF BodyFails, TimeOut, store, web
    <2>4. CASE WebCrash
      <3>1. \A s \in saves \cup aliasing : <<s.rev, "fault">> \in hurt'
        BY <2>4 DEF WebCrash
      <3>2. \A s \in saves \cup aliasing : s.rev # r
        BY <1>6, <3>1
      <3> QED  BY <1>3, <1>4, <2>4, <3>2 DEF WebCrash, store
    <2>5. CASE RunnerCrash
      BY <1>5, <2>5 DEF RunnerCrash, store, web
    <2> QED  BY <1>14, <2>1, <2>2, <2>3, <2>4, <2>5 DEF Faults
  <1>15. ASSUME NEW q \in Revs, TakeJob(q) PROVE CarryOK(r)'
    BY <1>5, <1>15 DEF TakeJob, store, web
  <1>16. CASE CacheWork
    BY <1>5, <1>16 DEF CacheWork, Expire, View, store, web
  <1>17. CASE UNCHANGED vars
    BY <1>5, <1>17 DEF vars
  <1> QED
    BY <1>7, <1>9, <1>11, <1>12, <1>13, <1>14, <1>15, <1>16, <1>17 DEF Next, AliasWork

LEMMA CarriesStep ==
    ASSUME IInv, [Next]_vars, Carries
    PROVE  Carries'
  <1> SUFFICES ASSUME NEW r \in DOMAIN revs', Kept(r)' PROVE CarryOK(r)'
    BY DEF Carries
  <1>1. CASE r \in DOMAIN revs
    BY <1>1, CarriedKept, OldRevisionCarries DEF Carries
  <1>2. CASE r \notin DOMAIN revs
    <2>1. CASE Create
      BY <2>1 DEF Create, Kept
    <2>2. ASSUME NEW q \in DOMAIN revs, Upload(q) \/ Toggle(q) PROVE CarryOK(r)'
      <3>1. PICK kind \in {"upload", "bare"}, draft \in BOOLEAN :
              revs' = Append(revs, [base |-> q, kind |-> kind, draft |-> draft,
                                    ready |-> Whole(q)])
        BY <2>2 DEF Upload, Toggle, Revise
      <3>2. r = Len(revs) + 1
        BY <1>2, <3>1 DEF IInv, TypeOK
      <3>3. revs'[r].kind = kind
        BY <3>1, <3>2 DEF IInv, TypeOK
      <3> QED  BY <3>3 DEF Kept
    <2>3. ASSUME NEW q \in DOMAIN revs, Tag(q) PROVE CarryOK(r)'
      <3>1. PICK draft \in BOOLEAN :
              revs' = Append(revs, [base |-> q, kind |-> "tag", draft |-> draft,
                                    ready |-> Whole(q)])
        BY <2>3 DEF Tag, Revise
      <3>2. r = Len(revs) + 1
        BY <1>2, <3>1 DEF IInv, TypeOK
      <3> QED  BY <2>3, <3>2, TagCarries
    <2>4. CASE UNCHANGED revs
      BY <1>2, <2>4
    <2> QED
      BY <2>1, <2>2, <2>3, <2>4
      DEF Next, vars, Requests, Redraft, SaveWork, WriteSource, FillSource, InsertSource,
          Launch, AliasWork, FindOld, InsertAlias, TakeJob, JobWork, ReadSource,
          WriteDerived, FillDerived, InsertDerived, CacheWork, Expire, View, Faults,
          SaveFails, AliasFails, BodyFails, TimeOut, WebCrash, RunnerCrash
  <1> QED  BY <1>1, <1>2

\* An edit without an upload that has been answered shows the very pictures of the
\* revision it was made from, if they were all there and nothing failed (batchAlias
\* from oldRevisionId: every batch calls back after the last of its aliases).
THEOREM PicturesAreCarried == Spec => []EditCarriesPictures
  <1>1. Init => Carries
    BY DEF Init, Carries
  <1>2. IInv /\ Carries /\ [Next]_vars => Carries'
    BY CarriesStep
  <1>3. IInv /\ Carries => EditCarriesPictures
    BY DEF Carries, CarryOK, Carried, Kept, EditCarriesPictures
  <1> QED  BY <1>1, <1>2, <1>3, Invariance, PTL DEF Spec

=============================================================================
