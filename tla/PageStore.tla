----------------------------- MODULE PageStore -----------------------------
(***************************************************************************)
(* What the update operations of rm3 promise to whoever reads the site: a  *)
(* store of pages and stubs by path that changes in one step at a time,    *)
(* each of which is the whole effect of one operation.  There are no       *)
(* transactions, statements, locks or clients here; EntityUpdates has them *)
(* and implements this specification.                                      *)
(*                                                                         *)
(* pages is a set of records; only their fields path, stub, entityId,      *)
(* revisionId, data and movedTo are looked at.                             *)
(***************************************************************************)
CONSTANTS
    Paths,      \* ltree paths
    Nowhere     \* "this stub redirects nowhere"

VARIABLE pages

At(p) == {x \in pages : x.path = p}

\* One path has one page, one page one path, and no revision is shown twice.
Apart ==
    \A x, y \in pages :
        x # y => /\ x.path # y.path
                 /\ x.entityId # y.entityId
                 /\ x.revisionId # y.revisionId

\* What was at the path is replaced by one record.
Replace(p, y) == y.path = p /\ pages' = (pages \ At(p)) \cup {y}

\* A page is created, also over a stub, or a revision of it published.
Publish(p) == \E y \in pages' : ~y.stub /\ Replace(p, y)

\* A page is deleted.
Retire(p) ==
    /\ At(p) # {}
    /\ \E y \in pages' : y.stub /\ y.movedTo = Nowhere /\ Replace(p, y)

\* A page is moved: it is at q as it was at p, and a stub at p leads there.
Relocate(p, q) ==
    /\ p # q /\ At(q) = {}
    /\ \E x \in At(p), y, z \in pages' :
         /\ y.path = q /\ y.stub = x.stub /\ y.entityId = x.entityId /\ y.data = x.data
         /\ z.path = p /\ z.stub /\ z.movedTo = q
         /\ pages' = (pages \ At(p)) \cup {y, z}

\* A move comes after a purge of what it was to move, and leaves its stub.
LeaveStub(p, q) ==
    /\ At(p) = {}
    /\ \E z \in pages' : z.stub /\ z.movedTo = q /\ Replace(p, z)

\* A page is purged.
Forget(p) == pages' = pages \ At(p)

Init == Apart /\ \A x \in pages : ~x.stub

Step == \E p \in Paths :
    \/ Publish(p) \/ Retire(p) \/ Forget(p)
    \/ \E q \in Paths : Relocate(p, q) \/ LeaveStub(p, q)

Next == Step /\ Apart'

Spec == Init /\ [][Next]_pages

=============================================================================
