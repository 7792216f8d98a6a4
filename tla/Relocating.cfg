CONSTANTS
  c1 = c1
  c2 = c2
  c3 = c3
  p1 = p1
  p2 = p2
  t1 = t1
  NoPath = NoPath
  Clients = {c1, c2}
  Paths = {p1, p2}
  Tags = {t1}
  Seeded = {p1}
  MaxId = 4
  Workload = {"create", "edit", "comment", "publish", "approve",
              "delete", "move"}
SPECIFICATION Spec
SYMMETRY Symmetry
INVARIANTS TypeOK OneHome WritesApart RevisionRecorded IndexExact NoRedirectLoop
PROPERTIES DraftsAreInvisible PagesChangeAtOnce
