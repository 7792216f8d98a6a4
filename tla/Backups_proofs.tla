--------------------------- MODULE Backups_proofs ---------------------------
(***************************************************************************)
(* Proofs that a backup holds the pictures of its pages, that a load that   *)
(* ends well restores it, and that a load is refused for a cause, for any   *)
(* number of pages and any use of the site meanwhile.                       *)
(*                                                                         *)
(* The invariant has three parts, each about one program and what it reads: *)
(* the site (SiteOK), the backup and its directory (BackupOK), and the load *)
(* (LoadOK).  The directory does not change any more when the load reads    *)
(* it, so a step of one program disturbs the part of another only where     *)
(* the site changes under the backup (Kept, Listed, Covered).               *)
(***************************************************************************)
EXTENDS Backups, FiniteSetTheorems, TLAPS

---------------------------------------------------------------------------
(* The invariant. *)

\* What has a row has a revision, and who has a credential has a row.
SiteOK ==
    /\ site \in [Paths -> Page]
    /\ pictures \subseteq Picture /\ creds \subseteq Accounts /\ after \subseteq Accounts
    /\ unread \subseteq Picture
    /\ \A p \in Paths : site[p].row # None => site[p].rev \in 1..MaxRev
    /\ \A x \in pictures : x[2] <= site[x[1]].rev
    /\ \A p \in creds : site[p].row # None

Job == [at : {"blobs", "copy"}, rev : 1..MaxRev, had : BOOLEAN, pics : SUBSET Picture,
        todo : SUBSET Picture, junk : SUBSET Picture]
Dumps == UNION {[S -> Dump] : S \in SUBSET Paths}

\* A revision that had its picture has it until the page is saved or goes away.
Kept(p, d) ==
    /\ d.rev <= site[p].rev
    /\ d.had /\ Live(p) /\ d.rev = site[p].rev => <<p, d.rev>> \in pictures

\* A picture that was there is gone only if its revision is, and so for good.
Lasting(x) ==
    /\ x[2] <= site[x[1]].rev
    /\ Live(x[1]) /\ x[2] = site[x[1]].rev => x \in pictures

Lost(x) == x \notin pictures \/ x \in unread

Listed(p, d) ==
    /\ \A x \in d.pics : x[1] = p /\ Lasting(x)
    /\ d.had => <<p, d.rev>> \in d.pics \/ <<p, d.rev>> \notin pictures
    /\ d.junk \subseteq d.pics /\ \A x \in d.junk : Lost(x)

\* The directory has the permissions, each of them once.
RecordsSaved ==
    /\ \A r \in Records : r.type = "permit" => \E i \in 1..Len(dir.records) : dir.records[i] = r
    /\ \A i, j \in 1..Len(dir.records) :
          i # j /\ dir.records[i] = dir.records[j] => dir.records[i].type # "permit"

\* Who has a credential is to be dumped, or made after the scan.
Covered ==
    /\ backup.at \in {"pages", "credentials"} /\ after = {} =>
          creds \subseteq backup.todo \cup DOMAIN dumping \cup Catalog
    /\ backup.at \in {"catalog", "done"} /\ after = {} => dir.creds \subseteq Catalog

BackupTypes ==
    /\ backup \in [at : {"idle", "pages", "credentials", "catalog", "done", "failed"},
                   todo : SUBSET Paths]
    /\ DOMAIN dumping \subseteq Paths /\ \A p \in DOMAIN dumping : dumping[p] \in Job
    /\ dir \in [pages : Dumps, records : Seq(Records), creds : SUBSET Accounts,
                catalog : BOOLEAN]

BackupOK ==
    /\ BackupTypes
    /\ backup.at # "pages" => DOMAIN dumping = {}
    /\ backup.at \in {"credentials", "catalog", "done"} => backup.todo = {} /\ RecordsSaved
    /\ dir.catalog => backup.at = "done"
    /\ \A p \in DOMAIN dumping :
          /\ Kept(p, dumping[p]) /\ dumping[p].todo \subseteq dumping[p].pics
          /\ dumping[p].at = "copy" => Listed(p, dumping[p])
          /\ dumping[p].at = "blobs" => dumping[p].todo = {} /\ dumping[p].junk = {}
    /\ \A p \in Catalog : Kept(p, dir.pages[p]) /\ Listed(p, dir.pages[p])
    /\ Covered

Todo == [todo : SUBSET Picture, made : BOOLEAN]
Cause == after # {} \/ KeyHeld

LoadTypes ==
    /\ load \in [at : {"idle", "pages", "records", "credentials", "done", "refused", "failed"},
                 next : Nat \ {0}, creds : SUBSET Accounts]
    /\ new \in [pages : SUBSET (Paths \X (1..MaxRev)), old : Tables,
                pics : SUBSET Picture, jobs : SUBSET Picture,
                records : SUBSET (Records \cup NewPermits), creds : SUBSET Accounts]
    /\ \A p \in DOMAIN loading : loading[p] \in Todo
    /\ faults \in 0..MaxFaults

\* Pages of the catalog are made once their pictures are there, with jobs.
PagesOK ==
    /\ DOMAIN loading = Catalog /\ new.old.pages \X {1} \subseteq new.pages
    /\ \A p \in Catalog :
          /\ loading[p].todo \subseteq dir.pages[p].pics
          /\ loading[p].made => loading[p].todo = {} /\ p \notin new.old.pages
          /\ loading[p].made => <<p, dir.pages[p].rev>> \in new.pages
          /\ loading[p].made /\ p \in Photos => dir.pages[p].pics \subseteq new.jobs
    /\ \A x : x \in new.pics <=>
          x \in new.old.pics \/ \E p \in Catalog : x \in dir.pages[p].pics /\ x \notin loading[p].todo
    /\ \A y \in new.pages : \/ y[1] \in new.old.pages
                            \/ y[1] \in Catalog /\ loading[y[1]].made /\ y[2] = dir.pages[y[1]].rev
    /\ load.at \in {"records", "credentials", "done"} => \A p \in Catalog : loading[p].made

\* The permissions of the site are its old ones and those read so far.
RecordsOK ==
    /\ \A r \in new.records :
          \/ r \in new.old.records
          \/ r.type = "permit" /\ \E i \in 1..Len(dir.records) : i < load.next /\ dir.records[i] = r
    /\ new.old.records \subseteq new.records
    /\ load.at = "records" => load.next <= Len(dir.records) + 1
    /\ load.at \in {"records", "credentials", "done"} =>
          \A i \in 1..Len(dir.records) :
              i < load.next /\ dir.records[i].type = "permit" => dir.records[i] \in new.records
    /\ load.at \in {"credentials", "done"} => load.next > Len(dir.records)

CredsOK ==
    /\ load.at \in {"pages", "records"} => new.creds = new.old.creds
    /\ load.at = "pages" => load.next = 1
    /\ load.at \in {"credentials", "done"} =>
          load.creds \subseteq dir.creds /\ new.creds = new.old.creds \cup (dir.creds \ load.creds)
    /\ load.at = "done" => load.creds = {}

LoadOK ==
    /\ LoadTypes
    /\ load.at = "idle" => DOMAIN loading = {}
    /\ load.at # "idle" => dir.catalog /\ PagesOK /\ RecordsOK /\ CredsOK
    /\ load.at = "refused" => Cause

Inv == SiteOK /\ BackupOK /\ LoadOK

---------------------------------------------------------------------------
(* Operators. *)

LEMMA SequenceOf ==
    ASSUME NEW S, IsFiniteSet(S)
    PROVE  /\ SetToSeq(S) \in Seq(S)
           /\ \A x \in S : \E i \in 1..Len(SetToSeq(S)) : SetToSeq(S)[i] = x
           /\ \A i, j \in 1..Len(SetToSeq(S)) : SetToSeq(S)[i] = SetToSeq(S)[j] => i = j
<1> DEFINE n == Cardinality(S)
           f == SetToSeq(S)
<1>1. n \in Nat /\ ExistsBijection(1..n, S)
  BY FS_CardinalityType
<1>2. \E g \in [1..n -> S] : IsInjective(g)
  BY <1>1 DEF ExistsBijection, Bijection, Injection
<1>3. f \in [1..n -> S] /\ IsInjective(f)
  BY <1>2 DEF SetToSeq
<1>4. f \in Injection(1..n, S)
  BY <1>3 DEF Injection
<1>5. Cardinality(1..n) = n
  BY <1>1, FS_Interval
<1> HIDE DEF f
<1>6. f \in Surjection(1..n, S)
  BY <1>4, <1>5, FS_Injection
<1>7. f \in Seq(S) /\ Len(f) = n
  BY <1>1, <1>3
<1>8. \A x \in S : \E i \in 1..n : f[i] = x
  BY <1>6 DEF Surjection
<1>9. \A i, j \in 1..n : f[i] = f[j] => i = j
  BY <1>3 DEF IsInjective
<1> QED  BY <1>7, <1>8, <1>9 DEF f

LEMMA DumpsAre ==
    ASSUME NEW f
    PROVE  /\ f \in Dumps => DOMAIN f \subseteq Paths /\ \A p \in DOMAIN f : f[p] \in Dump
           /\ \A S \in SUBSET Paths : f \in [S -> Dump] => f \in Dumps
BY DEF Dumps

---------------------------------------------------------------------------
(* The beginning. *)

LEMMA InvInit == Init => Inv
<1> SUFFICES ASSUME Init PROVE Inv
  OBVIOUS
<1> USE DEF Init
<1>1. DOMAIN <<>> = {}
  OBVIOUS
<1>2. SiteOK
  <2>1. NoPage \in Page
    BY BoundsAreNat DEF NoPage, Page
  <2> QED  BY <2>1 DEF SiteOK, NoPage
<1>3. BackupTypes
  <2>1. <<>> \in Dumps
    <3>1. <<>> \in [{} -> Dump]
      OBVIOUS
    <3> QED  BY <3>1, DumpsAre
  <2>2. dir \in [pages : Dumps, records : Seq(Records), creds : SUBSET Accounts, catalog : BOOLEAN]
    <3>1. <<>> \in Seq(Records)
      OBVIOUS
    <3> QED  BY <2>1, <3>1 DEF EmptyDir
  <2> QED  BY <2>2, <1>1 DEF BackupTypes
<1>4. BackupOK
  BY <1>1, <1>3 DEF BackupOK, EmptyDir, Catalog, Covered
<1>5. LoadOK
  <2>1. new = [pages |-> {} \X {1}, pics |-> {}, jobs |-> {}, records |-> {},
               creds |-> {}, old |-> Nothing] /\ Nothing \in Tables
    BY DEF SiteWith, Nothing, Tables
  <2>2. LoadTypes
    BY <1>1, <2>1, BoundsAreNat DEF LoadTypes
  <2> QED  BY <1>1, <2>2 DEF LoadOK
<1> QED  BY <1>2, <1>4, <1>5 DEF Inv

---------------------------------------------------------------------------
(* The old site, in use. *)

\* Nobody takes back a fault, or an account's being late.
LEMMA LoadStays ==
    ASSUME LoadOK, UNCHANGED <<load, loading, new>>,
           faults' \in 0..MaxFaults, after \subseteq after',
           dir.catalog => dir' = dir
    PROVE  LoadOK'
<1>1. LoadTypes' /\ (load'.at = "idle" => DOMAIN loading' = {})
  BY DEF LoadOK, LoadTypes
<1>2. ASSUME load.at # "idle"
      PROVE  dir'.catalog /\ PagesOK' /\ RecordsOK' /\ CredsOK' /\ (load'.at = "refused" => Cause')
  <2>1. dir' = dir /\ dir.catalog
    BY <1>2 DEF LoadOK
  <2>2. PagesOK' /\ RecordsOK' /\ CredsOK'
    BY <1>2, <2>1 DEF LoadOK, PagesOK, RecordsOK, CredsOK, Catalog
  <2>3. Cause => Cause'
    BY <2>1 DEF Cause, KeyHeld, Catalog
  <2> QED  BY <1>2, <2>1, <2>2, <2>3 DEF LoadOK
<1> QED  BY <1>1, <1>2 DEF LoadOK


\* What use of the site may do under the feet of a backup.
SiteMoves ==
    /\ UNCHANGED <<backup, dumping, dir, unread>> /\ after \subseteq after'
    /\ \A p \in Paths :
          /\ site'[p].rev >= site[p].rev
          /\ site'[p].row = "live" /\ site'[p].rev = site[p].rev =>
                Live(p) /\ \A n \in 1..MaxRev : <<p, n>> \in pictures => <<p, n>> \in pictures'
          /\ \A n \in 1..MaxRev : <<p, n>> \in pictures' /\ <<p, n>> \notin pictures =>
                Live(p) /\ n = site[p].rev
    /\ creds' \subseteq creds \/ after' # {} \/ backup.at = "idle"

LEMMA BackupStays ==
    ASSUME SiteOK, BackupOK, SiteOK', SiteMoves
    PROVE  BackupOK'
<1> USE DEF SiteMoves
<1>1. BackupTypes' /\ Catalog' = Catalog /\ Catalog \subseteq Paths
      /\ \A p \in Catalog : dir.pages[p] \in Dump
  BY DumpsAre DEF BackupOK, BackupTypes, Catalog
<1>2. ASSUME NEW p \in Paths, NEW d, d.rev \in 1..MaxRev, d.pics \subseteq Picture, Kept(p, d)
      PROVE  Kept(p, d)' /\ (Listed(p, d) => Listed(p, d)')
  <2>1. site[p].rev \in Nat /\ site'[p].rev \in Nat
    BY DEF SiteOK, Page
  <2>2. Kept(p, d)'
    BY <1>2, <2>1 DEF Kept, Live
  <2>3. ASSUME NEW x \in d.pics, x[1] = p, Lasting(x)
        PROVE  Lasting(x)' /\ (x \notin pictures => x \notin pictures')
    <3>1. PICK n \in 1..MaxRev : x = <<p, n>>
      BY <1>2, <2>3 DEF Picture
    <3>2. n \in Nat /\ n <= site[p].rev /\ (Live(p) /\ n = site[p].rev => x \in pictures)
      BY <3>1, <2>3, BoundsAreNat DEF Lasting
    <3>3. Lasting(x)'
      <4>1. n <= site'[p].rev
        BY <2>1, <3>2
      <4>2. ASSUME site'[p].row = "live", n = site'[p].rev PROVE x \in pictures'
        <5>1. site'[p].rev = site[p].rev
          BY <2>1, <3>2, <4>2
        <5> QED  BY <5>1, <3>1, <3>2, <4>2
      <4> QED  BY <3>1, <4>1, <4>2 DEF Lasting, Live
    <3> QED  BY <3>1, <3>2, <3>3
  <2>4. Listed(p, d) => Listed(p, d)'
    BY <1>2, <2>1, <2>3 DEF Kept, Listed, Lost, SiteMoves
  <2> QED  BY <2>2, <2>4
<1>3. ASSUME NEW p \in DOMAIN dumping
      PROVE  /\ Kept(p, dumping[p])' /\ dumping[p].todo \subseteq dumping[p].pics
             /\ dumping[p].at = "copy" => Listed(p, dumping[p])'
             /\ dumping[p].at = "blobs" => dumping[p].todo = {} /\ dumping[p].junk = {}
  <2>1. p \in Paths /\ dumping[p].rev \in 1..MaxRev /\ dumping[p].pics \subseteq Picture
    BY DEF BackupOK, BackupTypes, Job
  <2> DEFINE d == dumping[p]
  <2>2. /\ d' = d /\ Kept(p, d) /\ d.todo \subseteq d.pics
        /\ d.at = "copy" => Listed(p, d)
        /\ d.at = "blobs" => d.todo = {} /\ d.junk = {}
    BY DEF BackupOK
  <2> QED  BY <2>1, <2>2, <1>2 DEF Kept, Listed, Lost, Lasting, Live
<1>4. ASSUME NEW p \in Catalog
      PROVE  Kept(p, dir.pages[p])' /\ Listed(p, dir.pages[p])'
  <2>1. p \in Paths /\ dir.pages[p].rev \in 1..MaxRev /\ dir.pages[p].pics \subseteq Picture
    BY <1>1 DEF Dump
  <2>2. Kept(p, dir.pages[p]) /\ Listed(p, dir.pages[p])
    BY DEF BackupOK
  <2> QED  BY <2>1, <2>2, <1>2 DEF Kept, Listed, Lost, Lasting, Live
<1>5. Covered'
  BY <1>1 DEF BackupOK, Covered
<1>6. RecordsSaved => RecordsSaved'
  BY DEF RecordsSaved
<1> QED  BY <1>1, <1>3, <1>4, <1>5, <1>6 DEF BackupOK


LEMMA UsingKeepsInv ==
    ASSUME Inv, Using
    PROVE  Inv'
<1>1. /\ site \in [Paths -> Page] /\ pictures \subseteq Picture /\ creds \subseteq Accounts
      /\ after \subseteq Accounts /\ Accounts \subseteq Paths /\ MaxRev \in Nat
      /\ \A q \in Paths : site[q] \in Page /\ site[q].rev \in Nat
      /\ \A q \in Paths : site[q].row # None => site[q].rev \in 1..MaxRev
      /\ \A q \in creds : site[q].row # None
      /\ unread \subseteq Picture
      /\ \A x \in pictures : x[1] \in Paths /\ x[2] \in Nat /\ x[2] <= site[x[1]].rev
  BY BoundsAreNat DEF Inv, SiteOK, Paths, Page, Picture
<1>2. Use /\ UNCHANGED <<backup, dumping, dir, unread>>
  BY DEF Using, Save, Upload, AddCredential, Delete, Purge, Use
<1>3. \A q \in Paths, n \in 1..MaxRev : <<q, n>> \in Picture
  BY DEF Picture
<1>4. SiteOK' /\ SiteMoves
  <2>1. PICK p \in Paths : Save(p) \/ Upload(p) \/ AddCredential(p) \/ Delete(p) \/ Purge(p)
    BY DEF Using
  <2>2. CASE Save(p)
    <3> DEFINE y == [rev |-> site[p].rev + 1, row |-> "live"]
    <3>1. /\ site[p].rev < MaxRev /\ site' = [site EXCEPT ![p] = y]
          /\ creds' = IF site[p].row = "stub" THEN creds \ {p} ELSE creds
          /\ UNCHANGED <<pictures, after>>
      BY <2>2 DEF Save
    <3>2. y \in Page /\ y.rev \in 1..MaxRev
      BY <1>1, <3>1 DEF Page
    <3>3. /\ site' \in [Paths -> Page] /\ site'[p] = y
          /\ \A q \in Paths : q # p => site'[q] = site[q]
      BY <1>1, <3>1, <3>2
    <3>4. SiteOK'
      BY <1>1, <1>2, <3>1, <3>2, <3>3 DEF SiteOK, None
    <3>5. SiteMoves
      BY <1>1, <1>2, <3>1, <3>3 DEF SiteMoves, Live
    <3> QED  BY <3>4, <3>5
  <2>3. CASE Upload(p)
    <3> DEFINE x == <<p, site[p].rev>>
    <3>1. /\ Live(p) /\ pictures' = pictures \cup {x}
          /\ UNCHANGED <<site, creds, after>>
      BY <2>3 DEF Upload
    <3>2. x \in Picture
      BY <1>1, <1>3, <3>1 DEF Live, None
    <3>3. SiteOK'
      BY <1>1, <1>2, <3>1, <3>2 DEF SiteOK
    <3>4. SiteMoves
      BY <1>1, <1>2, <3>1 DEF SiteMoves, Live
    <3> QED  BY <3>3, <3>4
  <2>4. CASE AddCredential(p)
    <3>1. /\ p \in Accounts /\ Live(p) /\ creds' = creds \cup {p}
          /\ after' = IF backup.at = "idle" THEN after ELSE after \cup {p}
          /\ UNCHANGED <<site, pictures>>
      BY <2>4 DEF AddCredential
    <3>2. SiteOK'
      BY <1>1, <1>2, <3>1 DEF SiteOK, Live, None
    <3>3. SiteMoves
      BY <1>1, <1>2, <3>1 DEF SiteMoves, Live
    <3> QED  BY <3>2, <3>3
  <2>5. CASE Delete(p)
    <3> DEFINE y == [site[p] EXCEPT !.row = "stub"]
    <3>1. /\ Live(p) /\ site' = [site EXCEPT ![p] = y]
          /\ UNCHANGED <<pictures, creds, after>>
      BY <2>5 DEF Delete
    <3>2. y \in Page /\ y.rev = site[p].rev /\ y.row = "stub"
      BY <1>1 DEF Page
    <3> HIDE DEF y
    <3>3. /\ site' \in [Paths -> Page] /\ site'[p] = y
          /\ \A q \in Paths : q # p => site'[q] = site[q]
      BY <1>1, <3>1, <3>2
    <3>4. SiteOK'
      BY <1>1, <1>2, <3>1, <3>2, <3>3 DEF SiteOK, Live, None
    <3>5. SiteMoves
      BY <1>1, <1>2, <3>1, <3>2, <3>3 DEF SiteMoves, Live
    <3> QED  BY <3>4, <3>5
  <2>6. CASE Purge(p)
    <3> DEFINE y == [site[p] EXCEPT !.row = None]
    <3>1. /\ site' = [site EXCEPT ![p] = y]
          /\ pictures' = {x \in pictures : x[1] # p} /\ creds' = creds \ {p}
          /\ UNCHANGED after
      BY <2>6 DEF Purge
    <3>2. y \in Page /\ y.rev = site[p].rev /\ y.row = None
      BY <1>1 DEF Page
    <3> HIDE DEF y
    <3>3. /\ site' \in [Paths -> Page] /\ site'[p] = y
          /\ \A q \in Paths : q # p => site'[q] = site[q]
      BY <1>1, <3>1, <3>2
    <3>4. SiteOK'
      BY <1>1, <1>2, <3>1, <3>2, <3>3 DEF SiteOK
    <3>5. SiteMoves
      BY <1>1, <1>2, <3>1, <3>2, <3>3 DEF SiteMoves, Live, None
    <3> QED  BY <3>4, <3>5
  <2> QED  BY <2>1, <2>2, <2>3, <2>4, <2>5, <2>6
<1>5. BackupOK'
  BY <1>4, BackupStays DEF Inv
<1>6. LoadOK'
  BY <1>2, <1>4, LoadStays DEF Inv, Use, SiteMoves, LoadOK, LoadTypes
<1> QED  BY <1>4, <1>5, <1>6 DEF Inv


---------------------------------------------------------------------------
(* rm3backup. *)

LEMMA BackupFrame ==
    ASSUME Inv, BackingUp, backup.at # "done", Fault \/ UNCHANGED faults,
           unread' \subseteq Picture, BackupOK'
    PROVE  Inv'
<1>1. UNCHANGED <<site, pictures, creds, after, load, loading, new>>
  BY DEF BackingUp, source
<1>2. SiteOK'
  BY <1>1 DEF Inv, SiteOK
<1>3. faults' \in 0..MaxFaults
  BY BoundsAreNat DEF Fault, Inv, LoadOK, LoadTypes
<1>4. ~dir.catalog
  BY DEF Inv, BackupOK
<1>5. LoadOK'
  BY <1>1, <1>3, <1>4, LoadStays DEF Inv
<1> QED  BY <1>2, <1>5 DEF Inv

\* What is known of the pages of the directory stays known as long as neither
\* it nor the site changes.
LEMMA DirStays ==
    ASSUME BackupOK, UNCHANGED <<site, pictures, dir>>, unread \subseteq unread'
    PROVE  /\ Catalog' = Catalog
           /\ \A p \in Catalog : Kept(p, dir.pages[p])' /\ Listed(p, dir.pages[p])'
           /\ RecordsSaved => RecordsSaved'
BY DEF BackupOK, Catalog, Kept, Listed, Lost, Lasting, Live, RecordsSaved

\* The backup exits: nothing more is known of it.
LEMMA ExitKeepsInv ==
    ASSUME Inv, Exit, backup.at # "done", UNCHANGED <<dir, unread>>, BackingUp,
           Fault \/ UNCHANGED faults
    PROVE  Inv'
<1>1. UNCHANGED <<site, pictures, creds, after>>
  BY DEF BackingUp, source
<1>2. /\ backup' = [backup EXCEPT !.at = "failed"] /\ dumping' = <<>> /\ DOMAIN dumping' = {}
      /\ BackupTypes
  BY DEF Exit, Inv, BackupOK
<1>3. backup'.at = "failed" /\ BackupTypes'
  BY <1>2 DEF BackupTypes
<1>4. BackupOK'
  BY <1>1, <1>2, <1>3, DirStays DEF Inv, BackupOK, Covered
<1> QED  BY <1>4, BackupFrame DEF Inv, SiteOK

LEMMA ScanKeepsInv ==
    ASSUME Inv, Scan
    PROVE  Inv'
<1> DEFINE all == {p \in Paths : site[p].row # None}
<1>1. /\ backup.at = "idle" /\ backup' = [at |-> "pages", todo |-> all]
      /\ UNCHANGED <<dumping, dir, faults, unread, site, pictures, creds, after>> /\ BackingUp
  BY DEF Scan, Dumping, BackingUp, source
<1>2. BackupTypes'
  BY <1>1 DEF Inv, BackupOK, BackupTypes
<1>3. creds \subseteq all
  BY DEF Inv, SiteOK, Paths
<1>4. DOMAIN dumping = {}
  BY <1>1 DEF Inv, BackupOK
<1>5. Covered'
  BY <1>1, <1>3 DEF Covered
<1>6. BackupOK'
  BY <1>1, <1>2, <1>4, <1>5, DirStays DEF Inv, BackupOK
<1> QED  BY <1>1, <1>6, BackupFrame DEF Inv, SiteOK

\* A page is taken up or taken further.
LEMMA AdvanceKeepsInv ==
    ASSUME Inv, NEW p \in Paths, NEW d \in Job, Advance(p, d), backup.at = "pages",
           UNCHANGED dir, BackingUp, Fault \/ UNCHANGED faults,
           unread \subseteq unread', unread' \subseteq Picture,
           backup' = [backup EXCEPT !.todo = backup.todo \ {p}] \/ UNCHANGED backup,
           Kept(p, d), d.todo \subseteq d.pics, d.at = "blobs" => d.todo = {} /\ d.junk = {},
           d.at = "copy" =>
               /\ \A x \in d.pics : x[1] = p /\ Lasting(x)
               /\ d.had => <<p, d.rev>> \in d.pics \/ <<p, d.rev>> \notin pictures
               /\ d.junk \subseteq d.pics /\ \A x \in d.junk : x \notin pictures \/ x \in unread'
    PROVE  Inv'
<1>1. UNCHANGED <<site, pictures, creds, after>>
  BY DEF BackingUp, source
<1>2. /\ DOMAIN dumping' = DOMAIN dumping \cup {p} /\ dumping'[p] = d
      /\ \A q \in DOMAIN dumping : q # p => dumping'[q] = dumping[q]
  BY DEF Advance
<1>3. /\ BackupTypes /\ backup'.at = "pages" /\ backup'.todo \in SUBSET Paths
      /\ backup.todo \subseteq backup'.todo \cup {p}
      /\ BackupTypes'
  <2>1. BackupTypes
    BY DEF Inv, BackupOK
  <2>2. /\ backup' \in [at : {"idle", "pages", "credentials", "catalog", "done", "failed"},
                        todo : SUBSET Paths]
        /\ backup'.at = "pages" /\ backup'.todo \in SUBSET Paths
        /\ backup.todo \subseteq backup'.todo \cup {p}
    BY <2>1 DEF BackupTypes
  <2>3. BackupTypes'
    BY <2>1, <2>2, <1>2 DEF BackupTypes
  <2> QED  BY <2>1, <2>2, <2>3
<1>4. ASSUME NEW q \in DOMAIN dumping'
      PROVE  /\ Kept(q, dumping[q])' /\ dumping'[q].todo \subseteq dumping'[q].pics
             /\ dumping'[q].at = "copy" => Listed(q, dumping[q])'
             /\ dumping'[q].at = "blobs" => dumping'[q].todo = {} /\ dumping'[q].junk = {}
  <2>1. CASE q = p
    BY <2>1, <1>1, <1>2 DEF Kept, Listed, Lost, Lasting, Live
  <2>2. CASE q # p
    <3>1. q \in DOMAIN dumping /\ dumping'[q] = dumping[q]
      BY <2>2, <1>2
    <3>2. /\ Kept(q, dumping[q]) /\ dumping[q].todo \subseteq dumping[q].pics
          /\ dumping[q].at = "copy" => Listed(q, dumping[q])
          /\ dumping[q].at = "blobs" => dumping[q].todo = {} /\ dumping[q].junk = {}
      BY <3>1 DEF Inv, BackupOK
    <3> QED  BY <3>1, <3>2, <1>1 DEF Kept, Listed, Lost, Lasting, Live
  <2> QED  BY <2>1, <2>2
<1>5. Covered'
  BY <1>1, <1>2, <1>3, DirStays DEF Inv, BackupOK, Covered
<1>6. ~dir.catalog
  BY DEF Inv, BackupOK
<1>7. BackupOK'
  BY <1>1, <1>3, <1>4, <1>5, <1>6, DirStays DEF Inv, BackupOK
<1> QED  BY <1>7, BackupFrame

\* Nothing is noted as unread, in most steps.
LEMMA UnreadStays ==
    ASSUME Inv, Dumping
    PROVE  /\ UNCHANGED <<faults, unread, site, pictures, creds, after>> /\ BackingUp
           /\ unread \subseteq unread' /\ unread' \subseteq Picture
BY DEF Inv, SiteOK, Dumping, BackingUp, source

LEMMA ReadRowKeepsInv ==
    ASSUME Inv, NEW p \in Paths, ReadRow(p)
    PROVE  Inv'
<1> DEFINE d == RowRead(p)
<1>1. /\ backup.at = "pages" /\ Live(p) /\ Advance(p, d)
      /\ backup' = [backup EXCEPT !.todo = backup.todo \ {p}]
      /\ UNCHANGED dir /\ Dumping
  BY DEF ReadRow
<1>2. site[p].rev \in 1..MaxRev /\ site[p].rev \in Nat
  BY <1>1 DEF Inv, SiteOK, Live, None, Page
<1>3. d \in Job /\ d.at = "blobs" /\ d.todo = {} /\ d.junk = {}
  BY <1>2 DEF Job, RowRead
<1>4. d.rev = site[p].rev /\ (d.had => <<p, site[p].rev>> \in pictures)
  BY DEF RowRead
<1> HIDE DEF d
<1>5. Kept(p, d)
  BY <1>2, <1>4 DEF Kept
<1> QED  BY <1>1, <1>3, <1>5, UnreadStays, AdvanceKeepsInv

LEMMA ListBlobsKeepsInv ==
    ASSUME Inv, NEW p \in Paths, ListBlobs(p)
    PROVE  Inv'
<1> DEFINE z == [dumping[p] EXCEPT !.at = "copy"]
           y == [z EXCEPT !.pics = SourceBlobs(p)]
           d == [y EXCEPT !.todo = SourceBlobs(p)]
<1>1. /\ p \in DOMAIN dumping /\ Advance(p, d)
      /\ UNCHANGED <<backup, dir>> /\ Dumping
  BY DEF ListBlobs
<1>2. dumping[p] \in Job /\ Kept(p, dumping[p]) /\ backup.at = "pages"
  BY <1>1 DEF Inv, BackupOK, BackupTypes
<1>3. SourceBlobs(p) \subseteq Picture
  BY DEF SourceBlobs, Inv, SiteOK
<1>4. /\ z \in Job /\ z.at = "copy" /\ z.rev = dumping[p].rev /\ z.had = dumping[p].had
      /\ z.junk = dumping[p].junk
  BY <1>2 DEF Job
<1> HIDE DEF z
<1>5. /\ y \in Job /\ y.at = "copy" /\ y.rev = dumping[p].rev /\ y.had = dumping[p].had
      /\ y.pics = SourceBlobs(p) /\ y.junk = dumping[p].junk
  BY <1>3, <1>4 DEF Job
<1> HIDE DEF y
<1>6. /\ d \in Job /\ d.at = "copy" /\ d.rev = dumping[p].rev /\ d.had = dumping[p].had
      /\ d.pics = SourceBlobs(p) /\ d.todo = SourceBlobs(p) /\ d.junk = dumping[p].junk
  BY <1>3, <1>5 DEF Job
<1> HIDE DEF d
<1>7. Kept(p, d)
  BY <1>2, <1>6 DEF Kept
<1>8. /\ \A x \in d.pics : x[1] = p /\ Lasting(x)
      /\ d.had => <<p, d.rev>> \in d.pics \/ <<p, d.rev>> \notin pictures
      /\ d.junk = {}
  <2>1. ASSUME NEW x \in SourceBlobs(p) PROVE x[1] = p /\ Lasting(x)
    <3>1. x \in pictures /\ x[1] = p /\ x[2] <= site[x[1]].rev
      BY DEF SourceBlobs, Inv, SiteOK
    <3> QED  BY <3>1 DEF Lasting
  <2>2. dumping[p].junk = {}
    BY <1>1 DEF Inv, BackupOK, ListBlobs
  <2> QED  BY <1>6, <2>1, <2>2 DEF SourceBlobs
<1> QED  BY <1>1, <1>2, <1>6, <1>7, <1>8, UnreadStays, AdvanceKeepsInv

\* A picture is written, or what is not a picture, and then it is lost on the
\* site too or noted.
LEMMA WriteKeepsInv ==
    ASSUME Inv, NEW p \in Paths, NEW x \in Picture, NEW junk \in SUBSET {x}, Write(p, x, junk),
           Fault \/ UNCHANGED faults, unread \subseteq unread', unread' \subseteq Picture,
           junk = {} \/ x \notin pictures \/ x \in unread'
    PROVE  Inv'
<1> DEFINE z == [dumping[p] EXCEPT !.todo = dumping[p].todo \ {x}]
           d == [z EXCEPT !.junk = dumping[p].junk \cup junk]
<1>1. /\ p \in DOMAIN dumping /\ x \in dumping[p].todo /\ Advance(p, d)
      /\ UNCHANGED <<backup, dir>> /\ BackingUp
  BY DEF Write
<1>2. /\ dumping[p] \in Job /\ Kept(p, dumping[p]) /\ backup.at = "pages"
      /\ dumping[p].todo \subseteq dumping[p].pics
      /\ dumping[p].at = "copy" => Listed(p, dumping[p])
      /\ dumping[p].at = "blobs" => dumping[p].todo = {}
  BY <1>1 DEF Inv, BackupOK, BackupTypes
<1>3. /\ z \in Job /\ z.at = dumping[p].at /\ z.rev = dumping[p].rev /\ z.had = dumping[p].had
      /\ z.pics = dumping[p].pics /\ z.todo = dumping[p].todo \ {x} /\ z.junk = dumping[p].junk
  BY <1>2 DEF Job
<1> HIDE DEF z
<1>4. /\ d \in Job /\ d.at = dumping[p].at /\ d.rev = dumping[p].rev /\ d.had = dumping[p].had
      /\ d.pics = dumping[p].pics /\ d.todo = dumping[p].todo \ {x}
      /\ d.junk = dumping[p].junk \cup junk
  BY <1>3 DEF Job
<1> HIDE DEF d
<1>5. d.at = "copy"
  BY <1>1, <1>2, <1>4 DEF Job
<1>6. Kept(p, d)
  BY <1>2, <1>4 DEF Kept
<1>7. /\ \A y \in d.pics : y[1] = p /\ Lasting(y)
      /\ d.had => <<p, d.rev>> \in d.pics \/ <<p, d.rev>> \notin pictures
      /\ d.junk \subseteq d.pics /\ \A y \in d.junk : y \notin pictures \/ y \in unread'
  BY <1>1, <1>2, <1>4, <1>5 DEF Listed, Lost
<1>8. d.todo \subseteq d.pics
  BY <1>2, <1>4
<1> QED  BY <1>1, <1>2, <1>4, <1>5, <1>6, <1>7, <1>8, AdvanceKeepsInv

LEMMA CopyKeepsInv ==
    ASSUME Inv, NEW p \in Paths, NEW x \in Picture, CopyBlob(p, x) \/ MisreadBlob(p, x)
    PROVE  Inv'
<1>1. unread \subseteq Picture
  BY DEF Inv, SiteOK
<1>2. CASE CopyBlob(p, x)
  <2>1. Write(p, x, {x} \ pictures) /\ UNCHANGED <<faults, unread>>
    BY <1>2 DEF CopyBlob
  <2>2. {x} \ pictures = {} \/ x \notin pictures
    OBVIOUS
  <2> QED  BY <1>1, <2>1, <2>2, WriteKeepsInv
<1>3. CASE MisreadBlob(p, x)
  BY <1>1, <1>3, WriteKeepsInv DEF MisreadBlob
<1> QED  BY <1>2, <1>3

LEMMA WriteDumpKeepsInv ==
    ASSUME Inv, NEW p \in Paths, WriteDump(p)
    PROVE  Inv'
<1> DEFINE d == dumping[p]
           e == [rev |-> d.rev, had |-> d.had, pics |-> d.pics, junk |-> d.junk]
           f == [q \in DOMAIN dir.pages \cup {p} |-> IF q = p THEN e ELSE dir.pages[q]]
<1>1. /\ p \in DOMAIN dumping /\ d.at = "copy"
      /\ dir' = [dir EXCEPT !.pages = f]
      /\ dumping' = [q \in DOMAIN dumping \ {p} |-> dumping[q]]
      /\ UNCHANGED <<backup, faults, unread, site, pictures, creds, after>> /\ BackingUp
  BY DEF WriteDump, Dumping, BackingUp, source
<1>2. BackupTypes /\ d \in Job /\ Kept(p, d) /\ Listed(p, d) /\ backup.at = "pages"
  BY <1>1 DEF Inv, BackupOK, BackupTypes
<1>3. e \in Dump /\ e.rev = d.rev /\ e.had = d.had /\ e.pics = d.pics /\ e.junk = d.junk
  BY <1>2 DEF Job, Dump
<1> HIDE DEF e
<1>4. dir.pages \in Dumps /\ DOMAIN dir.pages \subseteq Paths /\ \A q \in DOMAIN dir.pages : dir.pages[q] \in Dump
  BY <1>2, DumpsAre DEF BackupTypes
<1>5. f \in Dumps
  <2>1. f \in [DOMAIN dir.pages \cup {p} -> Dump]
    BY <1>3, <1>4
  <2>2. DOMAIN dir.pages \cup {p} \in SUBSET Paths
    BY <1>4
  <2> HIDE DEF f
  <2> QED  BY <2>1, <2>2, DumpsAre
<1>6. /\ DOMAIN f = Catalog \cup {p} /\ f[p] = e
      /\ \A q \in Catalog : q # p => f[q] = dir.pages[q]
  BY DEF Catalog
<1> HIDE DEF f
<1>7. /\ dir' \in [pages : Dumps, records : Seq(Records), creds : SUBSET Accounts,
                   catalog : BOOLEAN]
      /\ dir'.pages = f /\ dir'.catalog = dir.catalog
  BY <1>1, <1>2, <1>5 DEF BackupTypes
<1>8. /\ DOMAIN dumping' = DOMAIN dumping \ {p}
      /\ \A q \in DOMAIN dumping' : dumping'[q] = dumping[q]
  BY <1>1
<1>9. BackupTypes'
  BY <1>1, <1>2, <1>7, <1>8 DEF BackupTypes
<1>10. Catalog' = Catalog \cup {p}
  BY <1>6, <1>7 DEF Catalog
<1>11. ASSUME NEW q \in Catalog'
       PROVE  Kept(q, dir.pages[q])' /\ Listed(q, dir.pages[q])'
  <2>1. CASE q = p
    BY <2>1, <1>1, <1>2, <1>3, <1>6, <1>7 DEF Kept, Listed, Lost, Lasting, Live
  <2>2. CASE q # p
    <3>1. q \in Catalog /\ dir'.pages[q] = dir.pages[q]
      BY <2>2, <1>6, <1>7, <1>10
    <3>2. Kept(q, dir.pages[q]) /\ Listed(q, dir.pages[q])
      BY <3>1 DEF Inv, BackupOK
    <3> QED  BY <3>1, <3>2, <1>1 DEF Kept, Listed, Lost, Lasting, Live
  <2> QED  BY <2>1, <2>2
<1>12. ASSUME NEW q \in DOMAIN dumping'
       PROVE  /\ Kept(q, dumping[q])' /\ dumping'[q].todo \subseteq dumping'[q].pics
              /\ dumping'[q].at = "copy" => Listed(q, dumping[q])'
              /\ dumping'[q].at = "blobs" => dumping'[q].todo = {} /\ dumping'[q].junk = {}
  <2>1. q \in DOMAIN dumping /\ dumping'[q] = dumping[q]
    BY <1>8
  <2>2. /\ Kept(q, dumping[q]) /\ dumping[q].todo \subseteq dumping[q].pics
        /\ dumping[q].at = "copy" => Listed(q, dumping[q])
        /\ dumping[q].at = "blobs" => dumping[q].todo = {} /\ dumping[q].junk = {}
    BY <2>1 DEF Inv, BackupOK
  <2> QED  BY <2>1, <2>2, <1>1 DEF Kept, Listed, Lost, Lasting, Live
<1>13. Covered'
  BY <1>1, <1>2, <1>8, <1>10 DEF Inv, BackupOK, Covered
<1>14. BackupOK'
  BY <1>1, <1>2, <1>7, <1>9, <1>11, <1>12, <1>13 DEF Inv, BackupOK
<1> QED  BY <1>1, <1>2, <1>14, BackupFrame DEF Inv, SiteOK

\* The files that are written after the pages.
LEMMA FileKeepsInv ==
    ASSUME Inv, Dumping, UNCHANGED dumping,
           backup.at \notin {"idle", "done", "failed"}, backup.todo = {}, DOMAIN dumping = {},
           NEW at \in {"credentials", "catalog", "done"},
           backup' = [backup EXCEPT !.at = at],
           dir' \in [pages : Dumps, records : Seq(Records), creds : SUBSET Accounts,
                     catalog : BOOLEAN],
           dir'.pages = dir.pages, RecordsSaved', Covered', dir'.catalog => at = "done"
    PROVE  Inv'
<1>1. UNCHANGED <<faults, unread, site, pictures, creds, after>> /\ BackingUp
  BY UnreadStays
<1>2. BackupTypes
  BY DEF Inv, BackupOK
<1>3. backup'.at = at /\ backup'.todo = {} /\ BackupTypes'
  BY <1>2 DEF BackupTypes
<1>4. ASSUME NEW p \in Catalog'
      PROVE  Kept(p, dir.pages[p])' /\ Listed(p, dir.pages[p])'
  BY <1>1 DEF Inv, BackupOK, Catalog, Kept, Listed, Lost, Lasting, Live
<1>5. BackupOK'
  BY <1>3, <1>4 DEF BackupOK
<1> QED  BY <1>1, <1>5, BackupFrame DEF Inv, SiteOK

\* The permissions of the roles that have some are all permissions.
LEMMA AllPermissions ==
    /\ FetchedPermissions = {r \in Records : r.type = "permit"}
    /\ \A users \in FetchedAssignments : users \subseteq Records
<1>1. \A users \in FetchedAssignments : users \subseteq Records
  BY DEF FetchedAssignments, UsersIn
<1>2. FetchedPermissions \subseteq {r \in Records : r.type = "permit"}
  BY DEF FetchedPermissions, PermissionsIn
<1>3. ASSUME NEW r \in Records, r.type = "permit" PROVE r \in FetchedPermissions
  <2>1. r.role \in ListRoles /\ r \in PermissionsIn(r.role)
    BY <1>3 DEF ListRoles, PermissionsIn
  <2> QED  BY <2>1 DEF FetchedPermissions
<1> QED  BY <1>1, <1>2, <1>3

LEMMA WriteRecordsKeepsInv ==
    ASSUME Inv, WriteRecords
    PROVE  Inv'
<1>1. PICK users \in FetchedAssignments :
          dir' = [dir EXCEPT !.records = SetToSeq(FetchedPermissions) \o SetToSeq(users)]
  BY DEF WriteRecords
<1>2. /\ backup.at = "pages" /\ backup.todo = {} /\ dumping = <<>> /\ DOMAIN dumping = {}
      /\ backup' = [backup EXCEPT !.at = "credentials"]
      /\ UNCHANGED <<dumping, creds, after>> /\ Dumping
  BY DEF WriteRecords, Dumping, BackingUp, source
<1> DEFINE s == SetToSeq(FetchedPermissions)
           t == SetToSeq(users)
<1>3. /\ s \in Seq(FetchedPermissions) /\ t \in Seq(users)
      /\ \A r \in FetchedPermissions : \E i \in 1..Len(s) : s[i] = r
      /\ \A i, j \in 1..Len(s) : s[i] = s[j] => i = j
  <2>1. FetchedPermissions \in SUBSET Records /\ users \in SUBSET Records
    BY AllPermissions
  <2>2. IsFiniteSet(FetchedPermissions) /\ IsFiniteSet(users)
    BY <2>1, RecordsAreFinite, FS_Subset
  <2> QED  BY <2>2, SequenceOf
<1> HIDE DEF s, t
<1>4. s \in Seq(Records) /\ t \in Seq(Records)
  BY <1>3, AllPermissions
<1>5. /\ s \o t \in Seq(Records)
      /\ \A i \in 1..Len(s) : i \in 1..Len(s \o t) /\ (s \o t)[i] = s[i]
  BY <1>4
<1>6. BackupTypes
  BY DEF Inv, BackupOK
<1>7. dir' = [dir EXCEPT !.records = s \o t]
  BY <1>1 DEF s, t
<1>8. /\ dir' \in [pages : Dumps, records : Seq(Records), creds : SUBSET Accounts,
                   catalog : BOOLEAN]
      /\ dir'.pages = dir.pages /\ dir'.records = s \o t /\ dir'.catalog = dir.catalog
  BY <1>5, <1>6, <1>7 DEF BackupTypes
<1>9. RecordsSaved'
  <2>1. ASSUME NEW i \in 1..Len(s \o t), i \notin 1..Len(s)
        PROVE  (s \o t)[i].type # "permit"
    <3>1. PICK k \in 1..Len(t) : (s \o t)[i] = t[k]
      BY <1>4, <2>1
    <3>2. t[k] \in users /\ \A r \in users : r.type = "assign"
      BY <1>3, <3>1 DEF FetchedAssignments, UsersIn
    <3> QED  BY <3>1, <3>2
  <2>2. \A i, j \in 1..Len(s \o t) :
            i # j /\ (s \o t)[i] = (s \o t)[j] => (s \o t)[i].type # "permit"
    BY <1>3, <1>5, <2>1
  <2>3. \A r \in Records : r.type = "permit" => \E i \in 1..Len(s \o t) : (s \o t)[i] = r
    BY <1>3, <1>5, AllPermissions
  <2> QED  BY <1>8, <2>2, <2>3 DEF RecordsSaved
<1>10. backup'.at = "credentials" /\ backup'.todo = backup.todo /\ ~dir.catalog
  BY <1>2, <1>6 DEF BackupTypes, Inv, BackupOK
<1>11. Covered'
  BY <1>2, <1>8, <1>10 DEF Inv, BackupOK, Covered, Catalog
<1> QED  BY <1>2, <1>8, <1>9, <1>10, <1>11, FileKeepsInv

LEMMA WriteCredentialsKeepsInv ==
    ASSUME Inv, WriteCredentials
    PROVE  Inv'
<1>1. /\ backup.at = "credentials" /\ dir' = [dir EXCEPT !.creds = creds]
      /\ backup' = [backup EXCEPT !.at = "catalog"]
      /\ UNCHANGED <<dumping, creds, after>> /\ Dumping
  BY DEF WriteCredentials, ListCredentials, Dumping, BackingUp, source
<1>2. /\ BackupTypes /\ creds \subseteq Accounts /\ DOMAIN dumping = {} /\ backup.todo = {}
      /\ RecordsSaved /\ ~dir.catalog
  BY <1>1 DEF Inv, BackupOK, SiteOK
<1>3. /\ dir' \in [pages : Dumps, records : Seq(Records), creds : SUBSET Accounts,
                   catalog : BOOLEAN]
      /\ dir'.pages = dir.pages /\ dir'.records = dir.records /\ dir'.catalog = dir.catalog
      /\ dir'.creds = creds
  BY <1>1, <1>2 DEF BackupTypes
<1>4. backup'.at = "catalog"
  BY <1>1, <1>2 DEF BackupTypes
<1>5. RecordsSaved' /\ Covered'
  BY <1>1, <1>2, <1>3, <1>4 DEF Inv, BackupOK, Covered, Catalog, RecordsSaved
<1> QED  BY <1>1, <1>2, <1>3, <1>5, FileKeepsInv

LEMMA WriteCatalogKeepsInv ==
    ASSUME Inv, WriteCatalog
    PROVE  Inv'
<1>1. /\ backup.at = "catalog" /\ dir' = [dir EXCEPT !.catalog = TRUE]
      /\ backup' = [backup EXCEPT !.at = "done"]
      /\ UNCHANGED <<dumping, creds, after>> /\ Dumping
  BY DEF WriteCatalog, Dumping, BackingUp, source
<1>2. /\ BackupTypes /\ DOMAIN dumping = {} /\ backup.todo = {} /\ RecordsSaved
  BY <1>1 DEF Inv, BackupOK
<1>3. /\ dir' \in [pages : Dumps, records : Seq(Records), creds : SUBSET Accounts,
                   catalog : BOOLEAN]
      /\ dir'.pages = dir.pages /\ dir'.records = dir.records /\ dir'.creds = dir.creds
  BY <1>1, <1>2 DEF BackupTypes
<1>4. backup'.at = "done"
  BY <1>1, <1>2 DEF BackupTypes
<1>5. RecordsSaved' /\ Covered'
  BY <1>1, <1>2, <1>3, <1>4 DEF Inv, BackupOK, Covered, Catalog, RecordsSaved
<1> QED  BY <1>1, <1>2, <1>3, <1>5, FileKeepsInv

LEMMA BackupKeepsInv ==
    ASSUME Inv, Backup \/ Misread \/ BackupFails
    PROVE  Inv'
<1>1. CASE BackupFails
  BY <1>1, ExitKeepsInv DEF BackupFails
<1>2. ASSUME NEW p \in Paths, MissRow(p) PROVE Inv'
  <2>1. Exit /\ backup.at = "pages" /\ UNCHANGED <<dir, unread, faults>> /\ BackingUp
    BY <1>2 DEF MissRow, Dumping
  <2> QED  BY <2>1, ExitKeepsInv
<1>3. ASSUME NEW p \in Paths, ReadRow(p) \/ ListBlobs(p) \/ WriteDump(p) PROVE Inv'
  BY <1>3, ReadRowKeepsInv, ListBlobsKeepsInv, WriteDumpKeepsInv
<1>4. ASSUME NEW p \in Paths, NEW x \in Picture, CopyBlob(p, x) \/ MisreadBlob(p, x) PROVE Inv'
  BY <1>4, CopyKeepsInv
<1> QED  BY <1>1, <1>2, <1>3, <1>4, ScanKeepsInv, WriteRecordsKeepsInv, WriteCredentialsKeepsInv,
            WriteCatalogKeepsInv DEF Backup, Misread


---------------------------------------------------------------------------
(* rm3load -d. *)

LEMMA LoadFrame ==
    ASSUME Inv, Loading, LoadOK'
    PROVE  Inv'
<1>1. UNCHANGED <<site, pictures, creds, after, backup, dumping, dir, unread>>
  BY DEF Loading, source
<1>2. SiteOK'
  BY <1>1 DEF Inv, SiteOK
<1>3. BackupOK'
  BY <1>1, DirStays DEF Inv, BackupOK, BackupTypes, Covered, Kept, Listed, Lost, Lasting, Live
<1> QED  BY <1>2, <1>3 DEF Inv

\* What the steps of a load may rely on.
LEMMA Loads ==
    ASSUME Inv, Loading
    PROVE  /\ LoadTypes /\ BackupTypes /\ Catalog' = Catalog /\ Catalog \subseteq Paths
           /\ UNCHANGED <<dir, after>>
           /\ dir.records \in Seq(Records) /\ dir.creds \subseteq Accounts
           /\ \A p \in Catalog : /\ dir.pages[p] \in Dump
                                 /\ \A x \in dir.pages[p].pics : x[1] = p
           /\ load.at # "idle" => dir.catalog /\ PagesOK /\ RecordsOK /\ CredsOK
           /\ after = {} /\ load.at # "idle" => dir.creds \subseteq Catalog
           /\ load.at # "idle" => RecordsSaved
<1>1. UNCHANGED <<dir, after>> /\ BackupTypes /\ LoadTypes
  BY DEF Loading, source, Inv, BackupOK, LoadOK
<1>2. Catalog \subseteq Paths /\ \A p \in Catalog : dir.pages[p] \in Dump
  BY <1>1, DumpsAre DEF BackupTypes, Catalog
<1>3. dir.records \in Seq(Records) /\ dir.creds \subseteq Accounts
  BY <1>1 DEF BackupTypes
<1>4. \A p \in Catalog : \A x \in dir.pages[p].pics : x[1] = p
  BY DEF Inv, BackupOK, Listed
<1>5. load.at # "idle" => backup.at = "done" /\ dir.catalog /\ PagesOK /\ RecordsOK /\ CredsOK
  BY DEF Inv, LoadOK, BackupOK
<1>6. /\ after = {} /\ load.at # "idle" => dir.creds \subseteq Catalog
      /\ load.at # "idle" => RecordsSaved
  BY <1>5 DEF Inv, BackupOK, Covered
<1> QED  BY <1>1, <1>2, <1>3, <1>4, <1>5, <1>6 DEF Catalog

LEMMA StartLoadKeepsInv ==
    ASSUME Inv, StartLoad
    PROVE  Inv'
<1>1. PICK old \in Existing : new' = SiteWith(old)
  BY DEF StartLoad
<1>2. /\ load.at = "idle" /\ dir.catalog /\ Loading
      /\ load' = [at |-> "pages", next |-> 1, creds |-> {}]
      /\ loading' = [p \in Catalog |-> [todo |-> dir.pages[p].pics, made |-> FALSE]]
      /\ UNCHANGED faults
  BY DEF StartLoad
<1>3. /\ LoadTypes /\ Catalog' = Catalog /\ dir' = dir /\ after' = after
      /\ \A p \in Catalog : dir.pages[p] \in Dump
      /\ dir.records \in Seq(Records)
  BY <1>2, Loads DEF Inv, LoadOK
<1>4. /\ DOMAIN loading' = Catalog
      /\ \A p \in Catalog : loading'[p].todo = dir.pages[p].pics /\ ~loading'[p].made /\ loading'[p] \in Todo
  BY <1>2, <1>3 DEF Dump, Todo
<1>5. /\ old \in Tables /\ new'.old = old /\ new'.pages = old.pages \X {1} /\ new'.pics = old.pics
      /\ new'.records = old.records /\ new'.creds = old.creds
      /\ new' \in [pages : SUBSET (Paths \X (1..MaxRev)), old : Tables,
                   pics : SUBSET Picture, jobs : SUBSET Picture,
                   records : SUBSET (Records \cup NewPermits), creds : SUBSET Accounts]
  <2>1. old \in Tables
    BY ExistingAreTables
  <2>2. old.pages \X {1} \subseteq Paths \X (1..MaxRev)
    BY <2>1, BoundsAreNat DEF Tables
  <2> QED  BY <1>1, <2>1, <2>2 DEF SiteWith, Tables
<1>6. LoadTypes'
  BY <1>2, <1>3, <1>4, <1>5 DEF LoadTypes
<1>7. PagesOK'
  <2>1. \A y \in new'.pages : y[1] \in old.pages
    BY <1>5
  <2> QED  BY <1>2, <1>3, <1>4, <1>5, <2>1 DEF PagesOK
<1>8. RecordsOK' /\ CredsOK'
  <2>1. \A i \in 1..Len(dir.records) : ~(i < 1)
    BY <1>3
  <2> QED  BY <1>2, <1>3, <1>5, <2>1 DEF RecordsOK, CredsOK
<1>9. LoadOK'
  BY <1>2, <1>3, <1>6, <1>7, <1>8 DEF LoadOK
<1> QED  BY <1>2, <1>9, LoadFrame

LEMMA LoadBlobKeepsInv ==
    ASSUME Inv, NEW p \in Catalog, NEW x \in Picture, LoadBlob(p, x)
    PROVE  Inv'
<1> DEFINE y == [loading[p] EXCEPT !.todo = loading[p].todo \ {x}]
<1>1. /\ load.at = "pages" /\ x \in loading[p].todo
      /\ new' = [new EXCEPT !.pics = new.pics \cup {x}]
      /\ loading' = [loading EXCEPT ![p] = y]
      /\ UNCHANGED <<load, faults>> /\ Loading
  BY DEF LoadBlob
<1>2. /\ LoadTypes /\ Catalog' = Catalog /\ dir' = dir /\ dir.catalog
      /\ PagesOK /\ RecordsOK /\ CredsOK
      /\ \A q \in Catalog : \A z \in dir.pages[q].pics : z[1] = q
  BY <1>1, Loads
<1>3. loading[p] \in Todo /\ DOMAIN loading = Catalog
  BY <1>2 DEF LoadTypes, PagesOK
<1>4. y \in Todo /\ y.todo = loading[p].todo \ {x} /\ y.made = loading[p].made
  BY <1>3 DEF Todo
<1> HIDE DEF y
<1>5. /\ DOMAIN loading' = Catalog /\ loading'[p] = y
      /\ \A q \in Catalog : q # p => loading'[q] = loading[q]
  BY <1>1, <1>3
<1>6. /\ new' \in [pages : SUBSET (Paths \X (1..MaxRev)), old : Tables,
                   pics : SUBSET Picture, jobs : SUBSET Picture,
                   records : SUBSET (Records \cup NewPermits), creds : SUBSET Accounts]
      /\ new'.pages = new.pages /\ new'.old = new.old /\ new'.jobs = new.jobs
      /\ new'.records = new.records /\ new'.creds = new.creds /\ new'.pics = new.pics \cup {x}
  BY <1>1, <1>2 DEF LoadTypes
<1>7. LoadTypes'
  BY <1>1, <1>2, <1>3, <1>4, <1>5, <1>6 DEF LoadTypes
<1>8. PagesOK'
  <2>1. ASSUME NEW q \in Catalog
        PROVE  /\ loading'[q].todo \subseteq dir.pages[q].pics
               /\ loading'[q].made <=> loading[q].made
               /\ loading'[q].made => loading'[q].todo = {}
    BY <1>1, <1>2, <1>4, <1>5 DEF PagesOK
  <2>2. ASSUME NEW z
        PROVE  z \in new'.pics <=> z \in new.old.pics \/ \E q \in Catalog : z \in dir.pages[q].pics /\ z \notin loading'[q].todo
    <3>1. CASE z = x
      BY <3>1, <1>1, <1>2, <1>4, <1>5, <1>6 DEF PagesOK
    <3>2. CASE z # x
      <4>1. \A q \in Catalog : z \in loading'[q].todo <=> z \in loading[q].todo
        BY <3>2, <1>4, <1>5
      <4> QED  BY <3>2, <4>1, <1>2, <1>6 DEF PagesOK
    <3> QED  BY <3>1, <3>2
  <2> QED  BY <2>1, <2>2, <1>1, <1>2, <1>5, <1>6 DEF PagesOK
<1>9. RecordsOK' /\ CredsOK'
  BY <1>1, <1>2, <1>6 DEF RecordsOK, CredsOK
<1>10. LoadOK'
  BY <1>1, <1>2, <1>7, <1>8, <1>9 DEF LoadOK
<1> QED  BY <1>1, <1>10, LoadFrame

LEMMA LoadPageKeepsInv ==
    ASSUME Inv, NEW p \in Catalog, LoadPage(p)
    PROVE  Inv'
<1> DEFINE y == [loading[p] EXCEPT !.made = TRUE]
           it == <<p, dir.pages[p].rev>>
           jobs == IF p \in Photos THEN new.jobs \cup Revisions(p) ELSE new.jobs
           n == [new EXCEPT !.pages = new.pages \cup {it}]
           m == [n EXCEPT !.jobs = jobs]
<1>1. /\ load.at = "pages" /\ loading[p].todo = {} /\ ~loading[p].made
      /\ p \notin {z[1] : z \in new.pages}
      /\ new' = [new EXCEPT !.pages = new.pages \cup {it}, !.jobs = jobs]
      /\ loading' = [loading EXCEPT ![p] = y]
      /\ UNCHANGED <<load, faults>> /\ Loading
  BY DEF LoadPage
<1>2. /\ LoadTypes /\ Catalog' = Catalog /\ dir' = dir /\ dir.catalog /\ p \in Paths
      /\ PagesOK /\ RecordsOK /\ CredsOK
      /\ dir.pages[p] \in Dump
  BY <1>1, Loads
<1>3. loading[p] \in Todo /\ DOMAIN loading = Catalog
  BY <1>2 DEF LoadTypes, PagesOK
<1>4. y \in Todo /\ y.todo = {} /\ y.made
  BY <1>1, <1>3 DEF Todo
<1> HIDE DEF y
<1>5. /\ DOMAIN loading' = Catalog /\ loading'[p] = y
      /\ \A q \in Catalog : q # p => loading'[q] = loading[q]
  BY <1>1, <1>3
<1>6. it \in Paths \X (1..MaxRev) /\ it \in Picture /\ it[1] = p /\ it[2] = dir.pages[p].rev
  BY <1>2 DEF Dump, Picture
<1>7. jobs \subseteq Picture /\ new.jobs \subseteq jobs /\ (p \in Photos => dir.pages[p].pics \subseteq jobs)
  BY <1>2, <1>6 DEF Revisions, LoadTypes, Dump
<1> HIDE DEF it, jobs
<1>8. /\ new' \in [pages : SUBSET (Paths \X (1..MaxRev)), old : Tables,
                   pics : SUBSET Picture, jobs : SUBSET Picture,
                   records : SUBSET (Records \cup NewPermits), creds : SUBSET Accounts]
      /\ new'.pages = new.pages \cup {it} /\ new'.old = new.old /\ new'.jobs = jobs
      /\ new'.records = new.records /\ new'.creds = new.creds /\ new'.pics = new.pics
  <2>1. /\ n \in [pages : SUBSET (Paths \X (1..MaxRev)), old : Tables,
                  pics : SUBSET Picture, jobs : SUBSET Picture,
                  records : SUBSET (Records \cup NewPermits), creds : SUBSET Accounts]
        /\ n.pages = new.pages \cup {it} /\ n.old = new.old
        /\ n.records = new.records /\ n.creds = new.creds /\ n.pics = new.pics
    BY <1>2, <1>6 DEF LoadTypes
  <2>2. new' = m
    BY <1>1
  <2> HIDE DEF n
  <2> QED  BY <2>1, <2>2, <1>7
<1>9. LoadTypes'
  BY <1>1, <1>2, <1>3, <1>4, <1>5, <1>8 DEF LoadTypes
<1>10. PagesOK'
  <2>1. \A q \in Catalog : loading'[q].todo = loading[q].todo
    BY <1>1, <1>4, <1>5
  <2>2. p \notin new.old.pages
    <3>1. ASSUME p \in new.old.pages PROVE <<p, 1>> \in new.pages
      BY <3>1, <1>2 DEF PagesOK
    <3>2. <<p, 1>> \in new.pages => p \in {z[1] : z \in new.pages}
      OBVIOUS
    <3> QED  BY <1>1, <3>1, <3>2
  <2>3. ASSUME NEW q \in Catalog, loading'[q].made
        PROVE  /\ loading'[q].todo = {} /\ q \notin new.old.pages
               /\ <<q, dir.pages[q].rev>> \in new'.pages
               /\ q \in Photos => dir.pages[q].pics \subseteq jobs
    <3>1. CASE q = p
      BY <3>1, <2>2, <1>4, <1>5, <1>7, <1>8 DEF it
    <3>2. CASE q # p
      BY <3>2, <2>3, <1>2, <1>5, <1>7, <1>8 DEF PagesOK
    <3> QED  BY <3>1, <3>2
  <2>4. ASSUME NEW z \in new'.pages
        PROVE  \/ z[1] \in new.old.pages
               \/ z[1] \in Catalog /\ loading'[z[1]].made /\ z[2] = dir.pages[z[1]].rev
    <3>1. CASE z = it
      BY <3>1, <1>4, <1>5, <1>6
    <3>2. CASE z \in new.pages
      BY <3>2, <1>2, <1>4, <1>5 DEF PagesOK
    <3> QED  BY <3>1, <3>2, <1>8
  <2> QED  BY <2>1, <2>3, <2>4, <1>1, <1>2, <1>5, <1>8 DEF PagesOK
<1>11. RecordsOK' /\ CredsOK'
  BY <1>1, <1>2, <1>8 DEF RecordsOK, CredsOK
<1>12. LoadOK'
  BY <1>1, <1>2, <1>9, <1>10, <1>11 DEF LoadOK
<1> QED  BY <1>1, <1>12, LoadFrame


\* After the pages, a load only adds records and credentials.
LEMMA LaterKeepsInv ==
    ASSUME Inv, Loading, load.at # "idle", UNCHANGED loading, faults' \in 0..MaxFaults,
           load' \in [at : {"records", "credentials", "done", "refused", "failed"},
                      next : Nat \ {0}, creds : SUBSET Accounts],
           new' \in [pages : SUBSET (Paths \X (1..MaxRev)), old : Tables,
                     pics : SUBSET Picture, jobs : SUBSET Picture,
                     records : SUBSET (Records \cup NewPermits), creds : SUBSET Accounts],
           new'.pages = new.pages, new'.old = new.old, new'.pics = new.pics,
           new'.jobs = new.jobs,
           load'.at \notin {"refused", "failed"} => \A p \in Catalog : loading[p].made,
           RecordsOK', CredsOK', load'.at = "refused" => Cause'
    PROVE  Inv'
<1>1. /\ LoadTypes /\ Catalog' = Catalog /\ dir' = dir /\ dir.catalog /\ PagesOK
  BY Loads
<1>2. LoadTypes'
  BY <1>1 DEF LoadTypes
<1>3. PagesOK'
  BY <1>1 DEF PagesOK
<1>4. LoadOK'
  BY <1>1, <1>2, <1>3 DEF LoadOK
<1> QED  BY <1>4, LoadFrame

LEMMA PagesLoadedKeepsInv ==
    ASSUME Inv, PagesLoaded
    PROVE  Inv'
<1>1. /\ load.at = "pages" /\ \A p \in Catalog : loading[p].made
      /\ load' = [load EXCEPT !.at = "records"]
      /\ UNCHANGED <<loading, new, faults>> /\ Loading
  BY DEF PagesLoaded
<1>2. /\ LoadTypes /\ dir' = dir /\ RecordsOK /\ CredsOK /\ dir.records \in Seq(Records)
  BY <1>1, Loads
<1>3. /\ load' \in [at : {"records", "credentials", "done", "refused", "failed"},
                    next : Nat \ {0}, creds : SUBSET Accounts]
      /\ load'.at = "records" /\ load'.next = 1
  BY <1>1, <1>2 DEF LoadTypes, CredsOK
<1>4. RecordsOK'
  BY <1>1, <1>2, <1>3 DEF RecordsOK
<1>5. CredsOK'
  BY <1>1, <1>2, <1>3 DEF CredsOK
<1> QED  BY <1>1, <1>2, <1>3, <1>4, <1>5, LaterKeepsInv DEF LoadTypes

LEMMA LoadRecordKeepsInv ==
    ASSUME Inv, LoadPermit \/ SkipAssign
    PROVE  Inv'
<1>1. /\ load.at = "records" /\ load.next <= Len(dir.records)
      /\ load' = [load EXCEPT !.next = load.next + 1]
      /\ UNCHANGED <<loading, faults>> /\ Loading
  BY DEF LoadPermit, SkipAssign, MoreRecords
<1>2. /\ LoadTypes /\ dir' = dir /\ PagesOK /\ RecordsOK /\ CredsOK
      /\ dir.records \in Seq(Records)
  BY <1>1, Loads
<1>3. /\ load' \in [at : {"records", "credentials", "done", "refused", "failed"},
                    next : Nat \ {0}, creds : SUBSET Accounts]
      /\ load'.at = "records" /\ load'.next = load.next + 1 /\ load.next \in Nat \ {0}
  BY <1>1, <1>2 DEF LoadTypes
<1>4. Record \in Records /\ Record = dir.records[load.next]
  BY <1>1, <1>2, <1>3 DEF Record
<1>5. /\ new' \in [pages : SUBSET (Paths \X (1..MaxRev)), old : Tables,
                   pics : SUBSET Picture, jobs : SUBSET Picture,
                   records : SUBSET (Records \cup NewPermits), creds : SUBSET Accounts]
      /\ new'.pages = new.pages /\ new'.old = new.old /\ new'.pics = new.pics
      /\ new'.jobs = new.jobs /\ new'.creds = new.creds
      /\ new.records \subseteq new'.records
      /\ Record.type = "permit" => Record \in new'.records
      /\ \A r \in new'.records : r \in new.records \/ (r = Record /\ r.type = "permit")
  <2>1. CASE LoadPermit
    <3>1. Record.type = "permit" /\ new' = [new EXCEPT !.records = new.records \cup {Record}]
      BY <2>1 DEF LoadPermit
    <3> QED  BY <3>1, <1>2, <1>4 DEF LoadTypes
  <2>2. CASE SkipAssign
    <3>1. Record.type # "permit" /\ new' = new
      BY <2>2 DEF SkipAssign
    <3> QED  BY <3>1, <1>2 DEF LoadTypes
  <2> QED  BY <2>1, <2>2
<1>6. RecordsOK'
  <2>1. Len(dir.records) \in Nat
    BY <1>2
  <2>2. ASSUME NEW i \in 1..Len(dir.records), i < load.next + 1, dir.records[i].type = "permit"
        PROVE  dir.records[i] \in new'.records
    <3>1. CASE i = load.next
      BY <3>1, <2>2, <1>4, <1>5
    <3>2. CASE i # load.next
      <4>1. i < load.next
        BY <3>2, <2>1, <2>2, <1>3
      <4>2. dir.records[i] \in new.records
        BY <4>1, <2>2, <1>1, <1>2 DEF RecordsOK
      <4> QED  BY <4>2, <1>5
    <3> QED  BY <3>1, <3>2
  <2>3. load.next + 1 <= Len(dir.records) + 1
    BY <2>1, <1>1, <1>3
  <2>4. ASSUME NEW r \in new'.records
        PROVE  \/ r \in new.old.records
               \/ r.type = "permit" /\ \E i \in 1..Len(dir.records) : i < load.next + 1 /\ dir.records[i] = r
    <3>1. CASE r \in new.records
      BY <3>1, <1>2, <1>3, <2>1 DEF RecordsOK
    <3>2. CASE r = Record /\ r.type = "permit"
      BY <3>2, <1>1, <1>3, <1>4, <2>1
    <3> QED  BY <3>1, <3>2, <1>5
  <2>5. new.old.records \subseteq new'.records
    BY <1>2, <1>5 DEF RecordsOK
  <2> QED  BY <2>2, <2>3, <2>4, <2>5, <1>2, <1>3, <1>5 DEF RecordsOK
<1>7. CredsOK'
  BY <1>1, <1>2, <1>3, <1>5 DEF CredsOK
<1>8. \A p \in Catalog : loading[p].made
  BY <1>1, <1>2 DEF PagesOK
<1> QED  BY <1>1, <1>2, <1>3, <1>5, <1>6, <1>7, <1>8, LaterKeepsInv DEF LoadTypes

LEMMA StartCredentialsKeepsInv ==
    ASSUME Inv, StartCredentials
    PROVE  Inv'
<1> DEFINE z == [load EXCEPT !.at = "credentials"]
           y == [z EXCEPT !.creds = dir.creds]
<1>1. /\ load.at = "records" /\ load.next > Len(dir.records)
      /\ load' = y
      /\ UNCHANGED <<loading, new, faults>> /\ Loading
  BY DEF StartCredentials
<1>2. /\ LoadTypes /\ dir' = dir /\ PagesOK /\ RecordsOK /\ CredsOK
      /\ dir.creds \subseteq Accounts
  BY <1>1, Loads
<1>3. /\ load' \in [at : {"records", "credentials", "done", "refused", "failed"},
                    next : Nat \ {0}, creds : SUBSET Accounts]
      /\ load'.at = "credentials" /\ load'.next = load.next /\ load'.creds = dir.creds
  <2>1. /\ z \in [at : {"records", "credentials", "done", "refused", "failed"},
                  next : Nat \ {0}, creds : SUBSET Accounts]
        /\ z.at = "credentials" /\ z.next = load.next
    BY <1>2 DEF LoadTypes
  <2> HIDE DEF z
  <2> QED  BY <2>1, <1>1, <1>2
<1>4. RecordsOK'
  BY <1>1, <1>2, <1>3 DEF RecordsOK
<1>5. CredsOK'
  BY <1>1, <1>2, <1>3 DEF CredsOK
<1>6. \A p \in Catalog : loading[p].made
  BY <1>1, <1>2 DEF PagesOK
<1> QED  BY <1>1, <1>2, <1>3, <1>4, <1>5, <1>6, LaterKeepsInv DEF LoadTypes

LEMMA LoadCredentialKeepsInv ==
    ASSUME Inv, NEW p \in Accounts, LoadCredential(p)
    PROVE  Inv'
<1>1. /\ load.at = "credentials" /\ p \in load.creds
      /\ new' = [new EXCEPT !.creds = new.creds \cup {p}]
      /\ load' = [load EXCEPT !.creds = load.creds \ {p}]
      /\ UNCHANGED <<loading, faults>> /\ Loading
  BY DEF LoadCredential
<1>2. LoadTypes /\ dir' = dir /\ PagesOK /\ RecordsOK /\ CredsOK
  BY <1>1, Loads
<1>3. /\ load' \in [at : {"records", "credentials", "done", "refused", "failed"},
                    next : Nat \ {0}, creds : SUBSET Accounts]
      /\ load'.at = "credentials" /\ load'.next = load.next /\ load'.creds = load.creds \ {p}
  BY <1>1, <1>2 DEF LoadTypes
<1>4. /\ new' \in [pages : SUBSET (Paths \X (1..MaxRev)), old : Tables,
                   pics : SUBSET Picture, jobs : SUBSET Picture,
                   records : SUBSET (Records \cup NewPermits), creds : SUBSET Accounts]
      /\ new'.pages = new.pages /\ new'.old = new.old /\ new'.pics = new.pics
      /\ new'.jobs = new.jobs /\ new'.records = new.records /\ new'.creds = new.creds \cup {p}
  BY <1>1, <1>2 DEF LoadTypes
<1>5. RecordsOK'
  BY <1>1, <1>2, <1>3, <1>4 DEF RecordsOK
<1>6. CredsOK'
  BY <1>1, <1>2, <1>3, <1>4 DEF CredsOK
<1>7. \A q \in Catalog : loading[q].made
  BY <1>1, <1>2 DEF PagesOK
<1> QED  BY <1>1, <1>2, <1>3, <1>4, <1>5, <1>6, <1>7, LaterKeepsInv DEF LoadTypes

\* The load ends, one way or the other.
LEMMA EndKeepsInv ==
    ASSUME Inv, Loading, UNCHANGED <<loading, new>>, Fault \/ UNCHANGED faults,
           load.at \in {"pages", "records", "credentials"}, NEW at \in {"done", "refused", "failed"},
           load' = [load EXCEPT !.at = at],
           at = "done" => load.at = "credentials" /\ load.creds = {},
           at = "refused" => Cause'
    PROVE  Inv'
<1>1. LoadTypes /\ dir' = dir /\ PagesOK /\ RecordsOK /\ CredsOK
  BY Loads
<1>2. /\ load' \in [at : {"records", "credentials", "done", "refused", "failed"},
                    next : Nat \ {0}, creds : SUBSET Accounts]
      /\ load'.at = at /\ load'.next = load.next /\ load'.creds = load.creds
  BY <1>1 DEF LoadTypes
<1>3. faults' \in 0..MaxFaults
  BY <1>1, BoundsAreNat DEF Fault, LoadTypes
<1>4. RecordsOK' /\ CredsOK'
  BY <1>1, <1>2 DEF RecordsOK, CredsOK
<1>5. at = "done" => \A p \in Catalog : loading[p].made
  BY <1>1 DEF PagesOK
<1> QED  BY <1>1, <1>2, <1>3, <1>4, <1>5, LaterKeepsInv DEF LoadTypes

\* A key of the database is violated only by what was there before the load,
\* or by an account whose page is not in the backup.
LEMMA RefusedForCause ==
    ASSUME Inv, Loading, Refused
    PROVE  Cause
<1>1. /\ load.at # "idle" /\ PagesOK /\ RecordsOK /\ CredsOK /\ LoadTypes
      /\ \A p \in Catalog : \A x \in dir.pages[p].pics : x[1] = p
      /\ after = {} => dir.creds \subseteq Catalog
      /\ dir.records \in Seq(Records) /\ RecordsSaved
  BY Loads DEF Refused, MoreRecords
<1>2. ASSUME NEW p \in Catalog, loading[p].todo \cap new.pics # {}
      PROVE  Cause
  <2>1. PICK x \in loading[p].todo : x \in new.pics
    BY <1>2
  <2>2. x \in dir.pages[p].pics
    BY <1>1, <2>1 DEF PagesOK
  <2>3. ASSUME NEW q \in Catalog, x \in dir.pages[q].pics, x \notin loading[q].todo
        PROVE  FALSE
    BY <1>1, <2>1, <2>2, <2>3
  <2>4. x \in new.old.pics
    BY <1>1, <2>1, <2>3 DEF PagesOK
  <2> QED  BY <2>2, <2>4 DEF Cause, KeyHeld
<1>3. ASSUME NEW p \in Catalog, ~loading[p].made, p \in {y[1] : y \in new.pages}
      PROVE  Cause
  <2>1. PICK y \in new.pages : y[1] = p
    BY <1>3
  <2>2. p \in new.old.pages
    BY <1>1, <1>3, <2>1 DEF PagesOK
  <2> QED  BY <2>2 DEF Cause, KeyHeld
<1>4. ASSUME MoreRecords, Record.type = "permit", Record \in new.records
      PROVE  Cause
  <2>1. load.next \in 1..Len(dir.records) /\ Record = dir.records[load.next] /\ Record \in Records
    BY <1>1, <1>4 DEF MoreRecords, Record, LoadTypes
  <2>2. ASSUME NEW i \in 1..Len(dir.records), i < load.next, dir.records[i] = Record PROVE FALSE
    <3>1. i # load.next
      BY <1>1, <2>1, <2>2
    <3> QED  BY <1>1, <1>4, <2>1, <2>2, <3>1 DEF RecordsSaved
  <2>3. Record \in new.old.records
    BY <1>1, <1>4, <2>2 DEF RecordsOK
  <2> QED  BY <2>1, <2>3 DEF Cause, KeyHeld
<1>5. ASSUME load.at = "credentials", NEW p \in load.creds, p \notin {y[1] : y \in new.pages}
      PROVE  Cause
  <2>1. p \in dir.creds
    BY <1>1, <1>5 DEF CredsOK
  <2>2. ASSUME p \in Catalog PROVE FALSE
    <3>1. <<p, dir.pages[p].rev>> \in new.pages
      BY <1>1, <1>5, <2>2 DEF PagesOK
    <3>2. <<p, dir.pages[p].rev>>[1] = p
      OBVIOUS
    <3> QED  BY <1>5, <3>1, <3>2
  <2> QED  BY <1>1, <2>1, <2>2 DEF Cause
<1>6. ASSUME load.at = "credentials", NEW p \in load.creds, p \in new.creds
      PROVE  Cause
  <2>1. p \in dir.creds /\ p \in new.old.creds
    BY <1>1, <1>6 DEF CredsOK
  <2> QED  BY <2>1 DEF Cause, KeyHeld
<1> QED  BY <1>2, <1>3, <1>4, <1>5, <1>6 DEF Refused

LEMMA LoadEndsKeepsInv ==
    ASSUME Inv, LoadEnds \/ LoadRefused \/ LoadFails
    PROVE  Inv'
<1>1. CASE LoadEnds
  BY <1>1, EndKeepsInv DEF LoadEnds
<1>2. CASE LoadRefused
  <2>1. /\ Refused /\ load.at \in {"pages", "records", "credentials"} /\ Loading
        /\ load' = [load EXCEPT !.at = "refused"] /\ UNCHANGED <<loading, new, faults>>
    BY <1>2 DEF LoadRefused, Refused, MoreRecords
  <2>2. Cause'
    BY <2>1, RefusedForCause, Loads DEF Cause, KeyHeld
  <2> QED  BY <2>1, <2>2, EndKeepsInv
<1>3. CASE LoadFails
  <2>1. /\ load.at \in {"pages", "records", "credentials"} /\ Fault /\ Loading
        /\ load' = [load EXCEPT !.at = "failed"] /\ UNCHANGED <<loading, new>>
    BY <1>3 DEF LoadFails
  <2> QED  BY <2>1, EndKeepsInv
<1> QED  BY <1>1, <1>2, <1>3


---------------------------------------------------------------------------
(* Theorems. *)

LEMMA InvStep ==
    ASSUME Inv, [Next]_vars
    PROVE  Inv'
<1>1. CASE UNCHANGED vars
  <2>1. BackingUp /\ Loading /\ UNCHANGED <<load, loading, new, faults, dir, after>>
    BY <1>1 DEF vars, BackingUp, Loading, source
  <2>2. faults' \in 0..MaxFaults
    BY <2>1, BoundsAreNat DEF Inv, LoadOK, LoadTypes
  <2>3. LoadOK'
    BY <2>1, <2>2, LoadStays DEF Inv
  <2> QED  BY <2>1, <2>3, LoadFrame
<1>2. CASE Using
  BY <1>2, UsingKeepsInv
<1>3. CASE Backup \/ Misread \/ BackupFails
  BY <1>3, BackupKeepsInv
<1>4. CASE Load \/ LoadFails
  <2>1. ASSUME NEW p \in Catalog, LoadPage(p) \/ \E x \in Picture : LoadBlob(p, x)
        PROVE  Inv'
    BY <2>1, LoadPageKeepsInv, LoadBlobKeepsInv
  <2>2. ASSUME NEW p \in Accounts, LoadCredential(p) PROVE Inv'
    BY <2>2, LoadCredentialKeepsInv
  <2> QED  BY <1>4, <2>1, <2>2, StartLoadKeepsInv, PagesLoadedKeepsInv, LoadRecordKeepsInv,
              StartCredentialsKeepsInv, LoadEndsKeepsInv DEF Load
<1> QED  BY <1>1, <1>2, <1>3, <1>4 DEF Next

LEMMA InvHolds == Spec => []Inv
<1>1. Init => Inv
  BY InvInit
<1>2. Inv /\ [Next]_vars => Inv'
  BY InvStep
<1> QED  BY <1>1, <1>2, PTL DEF Spec

\* Every variable keeps its type.
THEOREM BackupsTyped == Spec => []TypeOK
<1>1. Inv => TypeOK
  <2> SUFFICES ASSUME Inv PROVE TypeOK
    OBVIOUS
  <2>1. SiteOK /\ BackupTypes /\ LoadTypes
    BY DEF Inv, BackupOK, LoadOK
  <2>2. DOMAIN dir.pages \subseteq Paths /\ \A p \in DOMAIN dir.pages : dir.pages[p] \in Dump
    BY <2>1, DumpsAre DEF BackupTypes
  <2> QED  BY <2>1, <2>2 DEF TypeOK, SiteOK, BackupTypes, LoadTypes
<1> QED  BY <1>1, InvHolds, PTL

\* A page that had its picture when its row was read is dumped with it,
\* whatever the site does meanwhile (dumpEntity), and every picture of the
\* directory is the site's (writeBlobs), unless it is purged or unreadable.
THEOREM BackupsHavePictures == Spec => []DumpedWithPicture
<1>1. Inv => DumpedWithPicture
  BY DEF Inv, BackupOK, Listed, Lost, DumpedWithPicture
<1> QED  BY <1>1, InvHolds, PTL

\* Every picture restored with its page has a job (postCreate).
THEOREM RestoredAreProcessed == Spec => []PicturesProcessed
<1>1. Inv => PicturesProcessed
  <2> SUFFICES ASSUME Inv, NEW p \in DOMAIN loading, p \in Photos, loading[p].made
               PROVE  dir.pages[p].pics \subseteq new.jobs
    BY DEF PicturesProcessed
  <2>1. load.at # "idle"
    BY DEF Inv, LoadOK
  <2>2. PagesOK
    BY <2>1 DEF Inv, LoadOK
  <2> QED  BY <2>2 DEF PagesOK
<1> QED  BY <1>1, InvHolds, PTL

\* A load that ends well has restored the backup, but for the users of roles
\* (loadFromCatalog).
THEOREM LoadsAreWhole == Spec => []RestoredWhole
<1>1. Inv => RestoredWhole
  <2> SUFFICES ASSUME Inv, load.at = "done" PROVE RestoredWhole
    BY DEF RestoredWhole
  <2>1. /\ PagesOK /\ RecordsOK /\ CredsOK /\ LoadTypes /\ BackupTypes
        /\ RecordsSaved /\ \A p \in Catalog : loading[p].made
    BY DEF Inv, LoadOK, BackupOK, PagesOK
  <2>2. {y \in new.pages : y[1] \in Catalog} = {<<p, dir.pages[p].rev>> : p \in Catalog}
    <3>1. ASSUME NEW y \in new.pages, y[1] \in Catalog
          PROVE  y = <<y[1], dir.pages[y[1]].rev>>
      <4>1. y \in Paths \X (1..MaxRev)
        BY <2>1 DEF LoadTypes
      <4>2. y[1] \notin new.old.pages
        BY <2>1, <3>1 DEF PagesOK
      <4>3. y[2] = dir.pages[y[1]].rev
        BY <2>1, <4>2 DEF PagesOK
      <4> QED  BY <4>1, <4>3
    <3>2. \A p \in Catalog : <<p, dir.pages[p].rev>> \in new.pages /\ <<p, dir.pages[p].rev>>[1] = p
      BY <2>1 DEF PagesOK
    <3> QED  BY <3>1, <3>2
  <2>3. new.pics = new.old.pics \cup UNION {dir.pages[p].pics : p \in Catalog}
    <3>1. \A x : x \in new.pics <=> x \in new.old.pics \/ \E p \in Catalog : x \in dir.pages[p].pics
      BY <2>1 DEF PagesOK
    <3> QED  BY <3>1
  <2>4. new.records = new.old.records \cup {r \in Records : r.type = "permit"}
    <3>1. ASSUME NEW r \in new.records, r \notin new.old.records
          PROVE  r \in Records /\ r.type = "permit"
      <4>1. r.type = "permit" /\ \E i \in 1..Len(dir.records) : dir.records[i] = r
        BY <2>1, <3>1 DEF RecordsOK
      <4> QED  BY <2>1, <4>1 DEF BackupTypes
    <3>2. ASSUME NEW r \in Records, r.type = "permit" PROVE r \in new.records
      <4>1. PICK i \in 1..Len(dir.records) : dir.records[i] = r
        BY <2>1, <3>2 DEF RecordsSaved
      <4>2. i < load.next
        <5>1. Len(dir.records) \in Nat /\ load.next \in Nat /\ load.next > Len(dir.records)
          BY <2>1 DEF RecordsOK, LoadTypes, BackupTypes
        <5> QED  BY <5>1
      <4> QED  BY <2>1, <3>2, <4>1, <4>2 DEF RecordsOK
    <3>3. new.old.records \subseteq new.records
      BY <2>1 DEF RecordsOK
    <3> QED  BY <3>1, <3>2, <3>3
  <2>5. new.creds = new.old.creds \cup dir.creds
    BY <2>1 DEF CredsOK
  <2> QED  BY <2>2, <2>3, <2>4, <2>5 DEF RestoredWhole
<1> QED  BY <1>1, InvHolds, PTL

\* A load is refused by what the site held before, or for an account made during
\* the backup, and for nothing else (the keys of the tables it fills).
THEOREM LoadsFailForCause == Spec => []LoadFailsForCause
<1>1. Inv => LoadFailsForCause
  BY DEF Inv, LoadOK, Cause, LoadFailsForCause
<1> QED  BY <1>1, InvHolds, PTL

=============================================================================
