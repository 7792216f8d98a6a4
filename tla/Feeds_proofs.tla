---------------------------- MODULE Feeds_proofs ----------------------------
(***************************************************************************)
(* Proofs about Feeds, for every set of entries, page size, list of facets  *)
(* and bound on the clock and the writes.                                   *)
(*                                                                         *)
(* InOrder makes a sequence of a finite set and its order; from it comes    *)
(* what the answer of a query holds (AnswerIs, AnswerIsOrdered).  Inv are   *)
(* the types and how far a page has come: it holds by itself and gives      *)
(* TypeOK and RenderedWhole.  On lists where an entry has one row           *)
(* (OneRowEach), Reading says that a page goes on after its token, and      *)
(* gives ReadInOrder; Following where what has stayed is, and gives         *)
(* EachShownOnce; Untouched what the counts are while nobody writes, and    *)
(* gives CountsAddUp.                                                       *)
(***************************************************************************)
EXTENDS Feeds, TLAPS, FiniteSetTheorems, SequenceTheorems

---------------------------------------------------------------------------
(* The elements of a finite set in their order. *)

\* before[x] are the elements before x in a total order of a finite set.
Ordered(S, before) ==
    /\ IsFiniteSet(S) /\ before \in [S -> SUBSET S]
    /\ \A x \in S : x \notin before[x]
    /\ \A x, y \in S : x = y \/ x \in before[y] \/ y \in before[x]
    /\ \A x, y, z \in S : x \in before[y] /\ y \in before[z] => x \in before[z]

\* Every place from 0 on is some element's: no two have the same.
LEMMA PlacesAreTaken ==
    ASSUME NEW S, NEW before, Ordered(S, before)
    PROVE  /\ Cardinality(S) \in Nat
           /\ \A x \in S : Cardinality(before[x]) \in 0..(Cardinality(S) - 1)
           /\ \A x, y \in S :
                 x \in before[y] <=> Cardinality(before[x]) < Cardinality(before[y])
           /\ \A x, y \in S : Cardinality(before[x]) = Cardinality(before[y]) => x = y
           /\ \A i \in 0..(Cardinality(S) - 1) :
                 \E x \in S : Cardinality(before[x]) = i
  <1> DEFINE n == Cardinality(S)
             place(x) == Cardinality(before[x])
  <1>1. n \in Nat /\ IsFiniteSet(S)
    BY FS_CardinalityType DEF Ordered
  <1>2. ASSUME NEW x \in S
        PROVE  IsFiniteSet(before[x]) /\ place(x) \in Nat /\ place(x) < n
    <2>1. before[x] \in SUBSET S /\ before[x] # S
      BY DEF Ordered
    <2>2. IsFiniteSet(before[x]) /\ place(x) <= n /\ place(x) # n
      BY <1>1, <2>1, FS_Subset
    <2>3. place(x) \in Nat
      BY <2>2, FS_CardinalityType
    <2> QED  BY <1>1, <2>2, <2>3
  <1>3. ASSUME NEW x \in S, NEW y \in S, x \in before[y]
        PROVE  place(x) < place(y)
    <2>1. before[x] \in SUBSET before[y]
      BY <1>3 DEF Ordered
    <2>2. x \notin before[x]
      BY DEF Ordered
    <2>3. before[x] # before[y]
      BY <1>3, <2>2
    <2>4. place(x) <= place(y) /\ place(x) # place(y)
      BY <1>2, <2>1, <2>3, FS_Subset
    <2> QED  BY <1>2, <2>4
  <1>4. ASSUME NEW x \in S, NEW y \in S, place(x) < place(y)
        PROVE  x \in before[y]
    <2>1. x # y
      BY <1>2, <1>4
    <2>2. y \notin before[x]
      BY <1>2, <1>3, <1>4
    <2> QED  BY <2>1, <2>2 DEF Ordered
  <1>5. ASSUME NEW x \in S, NEW y \in S, place(x) = place(y)
        PROVE  x = y
    <2>1. x \notin before[y] /\ y \notin before[x]
      BY <1>2, <1>3, <1>5
    <2> QED  BY <2>1 DEF Ordered
  <1>6. \A i \in 0..(n - 1) : \E x \in S : place(x) = i
    <2> DEFINE f == [x \in S |-> place(x)]
               T == 0..(n - 1)
    <2>1. f \in [S -> T]
      BY <1>1, <1>2
    <2>2. f \in Injection(S, T)
      BY <1>5, <2>1 DEF Injection, IsInjective
    <2>3. IsFiniteSet(T) /\ Cardinality(T) = n
      BY <1>1, FS_Interval
    <2>4. f \in Surjection(S, T)
      <3> HIDE DEF f, T
      <3> QED  BY <2>2, <2>3, FS_Injection
    <2>5. \A i \in T : \E x \in S : f[x] = i
      <3> HIDE DEF f, T
      <3> QED  BY <2>4 DEF Surjection
    <2> QED  BY <2>5
  <1>7. \A x \in S : place(x) \in 0..(n - 1)
    BY <1>1, <1>2
  <1> QED  BY <1>1, <1>3, <1>4, <1>5, <1>6, <1>7

\* What InOrder makes of it: every element once, in the order.
LEMMA InOrderIs ==
    ASSUME NEW S, NEW before, Ordered(S, before)
    PROVE  LET s == InOrder(before)
               n == Cardinality(S)
           IN  /\ n \in Nat /\ s \in [1..n -> S] /\ s \in Seq(S)
               /\ Len(s) = n /\ DOMAIN s = 1..n
               /\ \A x \in S : \E i \in 1..n : s[i] = x
               /\ \A i, j \in 1..n : i < j <=> s[i] \in before[s[j]]
  <1> DEFINE s == InOrder(before)
             n == Cardinality(S)
             place(x) == Cardinality(before[x])
  <1>1. DOMAIN before = S
    BY DEF Ordered
  <1>2. n \in Nat
    BY PlacesAreTaken
  <1>3. s = [i \in 1..n |-> CHOOSE x \in S : place(x) = i - 1]
    BY <1>1 DEF InOrder
  <1>4. ASSUME NEW i \in 1..n PROVE s[i] \in S /\ place(s[i]) = i - 1
    <2>1. i - 1 \in 0..(n - 1)
      BY <1>2
    <2>2. \E x \in S : place(x) = i - 1
      BY <2>1, PlacesAreTaken
    <2>3. s[i] = CHOOSE x \in S : place(x) = i - 1
      BY <1>3
    <2> HIDE DEF s
    <2> QED  BY <2>2, <2>3
  <1>5. s \in [1..n -> S]
    <2>1. DOMAIN s = 1..n /\ s = [i \in 1..n |-> s[i]]
      BY <1>3
    <2> HIDE DEF s
    <2> QED  BY <1>4, <2>1
  <1> HIDE DEF s, n
  <1>6. s \in Seq(S) /\ Len(s) = n /\ DOMAIN s = 1..n
    BY <1>2, <1>5, SeqDef
  <1>7. \A x \in S : \E i \in 1..n : s[i] = x
    <2> TAKE x \in S
    <2>1. place(x) \in 0..(n - 1)
      BY PlacesAreTaken DEF n
    <2>2. place(x) + 1 \in 1..n /\ place(x) \in Nat
      BY <1>2, <2>1
    <2>3. s[place(x) + 1] \in S /\ place(s[place(x) + 1]) = place(x)
      BY <1>4, <2>2
    <2>4. s[place(x) + 1] = x
      BY <2>3, PlacesAreTaken
    <2> QED  BY <2>2, <2>4
  <1>8. ASSUME NEW i \in 1..n, NEW j \in 1..n
        PROVE  i < j <=> s[i] \in before[s[j]]
    <2>1. /\ s[i] \in S /\ place(s[i]) = i - 1
          /\ s[j] \in S /\ place(s[j]) = j - 1
      BY <1>4
    <2>2. s[i] \in before[s[j]] <=> place(s[i]) < place(s[j])
      BY <2>1, PlacesAreTaken
    <2> QED  BY <1>2, <2>1, <2>2
  <1> QED  BY <1>2, <1>5, <1>6, <1>7, <1>8 DEF s, n

---------------------------------------------------------------------------
(* The answer of a query. *)

Orders == {"changed", "created", "path", "activity"}
Place == [key : Nat, id : Entries]
Token == [key : Nat, id : Nat]
Filter == [month : {0} \cup Months, tag : BOOLEAN]
PageLink == [filter : Filter, token : Token]

LEMMA PositionIs ==
    ASSUME NEW sort \in Orders, NEW table \in [Entries -> Row], NEW e \in Entries
    PROVE  /\ Position(sort, table, e) \in Place /\ Position(sort, table, e) \in Token
           /\ Position(sort, table, e).id = e
           /\ Position(sort, table, e) # NoToken
  <1>1. e \in Nat /\ e # 0
    BY EntriesAreIds DEF EntriesAreIds
  <1>2. table[e].created \in Nat /\ table[e].modified \in Nat /\ PathRank[e] \in Nat
    BY PathsDiffer, BoundsAreNats DEF PathsDiffer, Row, BoundsAreNats
  <1>3. CASE sort = "activity"
    BY <1>1, <1>2, <1>3 DEF Position, LogPosition, Place, Token, NoToken
  <1>4. CASE sort # "activity"
    <2>1. \E k \in Nat : Position(sort, table, e) = [key |-> k, id |-> e]
      <3>1. CASE sort = "changed"
        BY <1>2, <3>1 DEF Position, EntityPosition
      <3>2. CASE sort = "created"
        BY <1>2, <3>2 DEF Position, EntityPosition
      <3>3. CASE sort = "path"
        BY <1>2, <3>3 DEF Position, EntityPosition
      <3> QED  BY <1>4, <3>1, <3>2, <3>3 DEF Orders
    <2> QED  BY <1>1, <2>1 DEF Place, Token, NoToken
  <1> QED  BY <1>3, <1>4

\* Rows have a total order, and the seek is that order.
LEMMA PrecedesIs ==
    ASSUME NEW sort
    PROVE  /\ \A a \in Token : ~Precedes(sort, a, a)
           /\ \A a, b \in Token : a = b \/ Precedes(sort, a, b) \/ Precedes(sort, b, a)
           /\ \A a, b, c \in Token :
                 Precedes(sort, a, b) /\ Precedes(sort, b, c) => Precedes(sort, a, c)
           /\ \A a, b \in Token : AfterToken(sort, a, b) <=> Precedes(sort, a, b)
  <1>1. \A a \in Token : ~Precedes(sort, a, a)
    BY DEF Precedes, Token
  <1>2. \A a, b \in Token : a = b \/ Precedes(sort, a, b) \/ Precedes(sort, b, a)
    BY DEF Precedes, Token
  <1>3. ASSUME NEW a \in Token, NEW b \in Token, NEW c \in Token,
               Precedes(sort, a, b), Precedes(sort, b, c)
        PROVE  Precedes(sort, a, c)
    BY <1>3 DEF Precedes, Token
  <1>4. \A a, b \in Token : AfterToken(sort, a, b) <=> Precedes(sort, a, b)
    BY DEF Precedes, AfterToken, Token
  <1> QED  BY <1>1, <1>2, <1>3, <1>4

\* The rows of a query before LIMIT: an entry comes once for each permission that
\* lets the reader view it.
RowsFound(sort, link, table) ==
    UNION {{e} \X (1..Copies(link.filter, e)) : e \in Found(sort, link, table)}
ComesBefore(by, table, q, r) ==
    \/ Precedes(by, Position(by, table, q[1]), Position(by, table, r[1]))
    \/ q[1] = r[1] /\ q[2] < r[2]
Earlier(sort, link, table) ==
    [r \in RowsFound(sort, link, table) |->
        {q \in RowsFound(sort, link, table) :
            ComesBefore(Ordering(sort, link.filter), table, q, r)}]

LEMMA CopiesAreFinite ==
    ASSUME NEW found \in SUBSET Entries, NEW n \in [Entries -> Nat]
    PROVE  IsFiniteSet(UNION {{e} \X (1..n[e]) : e \in found})
  <1> DEFINE f == [e \in found |-> {e} \X (1..n[e])]
             parts == {{e} \X (1..n[e]) : e \in found}
  <1>1. IsFiniteSet(found)
    BY EntriesAreIds, FS_Subset DEF EntriesAreIds
  <1>2. f \in Surjection(found, parts)
    BY DEF Surjection
  <1>3. IsFiniteSet(parts)
    <2> HIDE DEF f, parts
    <2> QED  BY <1>1, <1>2, FS_Surjection
  <1>4. \A e \in found : IsFiniteSet({e} \X (1..n[e]))
    <2> TAKE e \in found
    <2>1. n[e] \in Int /\ 1 \in Int
      OBVIOUS
    <2>2. IsFiniteSet(1..n[e])
      BY <2>1, FS_Interval
    <2>3. IsFiniteSet({e})
      BY FS_Singleton
    <2> QED  BY <2>2, <2>3, FS_Product
  <1>5. \A T \in parts : IsFiniteSet(T)
    BY <1>4
  <1> HIDE DEF parts
  <1>6. IsFiniteSet(UNION parts)
    BY <1>3, <1>5, FS_UNION
  <1> QED  BY <1>6 DEF parts

LEMMA RowsFoundAre ==
    ASSUME NEW sort \in Orders, NEW table \in [Entries -> Row], NEW link \in PageLink
    PROVE  /\ IsFiniteSet(RowsFound(sort, link, table))
           /\ \A r \in RowsFound(sort, link, table) :
                 /\ r = <<r[1], r[2]>> /\ r[1] \in Found(sort, link, table)
                 /\ r[1] \in Entries /\ r[2] \in 1..Copies(link.filter, r[1])
                 /\ r[2] \in Nat
           /\ \A e \in Found(sort, link, table) : <<e, 1>> \in RowsFound(sort, link, table)
  <1> DEFINE found == Found(sort, link, table)
             n(e) == Copies(link.filter, e)
             parts == {{e} \X (1..n(e)) : e \in found}
  <1>1. found \subseteq Entries
    BY DEF Found
  <1>2. \A e \in Entries : n(e) \in Nat /\ n(e) >= 1
    BY MatchesOnce DEF MatchesOnce, Copies
  <1>3. IsFiniteSet(UNION parts)
    <2> DEFINE m == [e \in Entries |-> n(e)]
    <2>1. m \in [Entries -> Nat]
      BY <1>2
    <2>2. IsFiniteSet(UNION {{e} \X (1..m[e]) : e \in found})
      <3> HIDE DEF m, found
      <3> QED  BY <1>1, <2>1, CopiesAreFinite
    <2>3. {{e} \X (1..m[e]) : e \in found} = parts
      BY <1>1
    <2> QED  BY <2>2, <2>3
  <1>4. RowsFound(sort, link, table) = UNION parts
    BY DEF RowsFound
  <1>5. ASSUME NEW r \in UNION parts
        PROVE  /\ r = <<r[1], r[2]>> /\ r[1] \in found /\ r[2] \in 1..n(r[1]) /\ r[2] \in Nat
    <2>1. PICK e \in found : r \in {e} \X (1..n(e))
      OBVIOUS
    <2>2. PICK c \in 1..n(e) : r = <<e, c>>
      BY <2>1
    <2>3. c \in Nat
      BY <1>1, <1>2
    <2> QED  BY <2>2, <2>3
  <1>6. \A e \in found : <<e, 1>> \in UNION parts
    <2> TAKE e \in found
    <2>1. 1 \in 1..n(e)
      BY <1>1, <1>2
    <2>2. <<e, 1>> \in {e} \X (1..n(e))
      BY <2>1
    <2> QED  BY <2>2
  <1> HIDE DEF parts, n, found
  <1> QED  BY <1>1, <1>3, <1>4, <1>5, <1>6 DEF n, found

LEMMA RowsAreOrdered ==
    ASSUME NEW sort \in Orders, NEW table \in [Entries -> Row], NEW link \in PageLink
    PROVE  Ordered(RowsFound(sort, link, table), Earlier(sort, link, table))
  <1> DEFINE S == RowsFound(sort, link, table)
             by == Ordering(sort, link.filter)
             at(r) == Position(by, table, r[1])
             before == Earlier(sort, link, table)
  <1>1. by \in Orders
    BY DEF Ordering, Orders
  <1>2. \A r \in S : r = <<r[1], r[2]>> /\ r[1] \in Entries /\ r[2] \in Nat
    BY RowsFoundAre
  <1>3. \A r \in S : at(r) \in Token /\ at(r).id = r[1]
    <2> HIDE DEF by, S
    <2> QED  BY <1>1, <1>2, PositionIs
  <1>4. \A q, r \in S : q \in before[r] <=> ComesBefore(by, table, q, r)
    BY DEF Earlier
  <1>5. before \in [S -> SUBSET S] /\ IsFiniteSet(S)
    BY RowsFoundAre DEF Earlier
  <1>6. \A q, r \in S :
           ComesBefore(by, table, q, r) <=>
              Precedes(by, at(q), at(r)) \/ (q[1] = r[1] /\ q[2] < r[2])
    BY DEF ComesBefore
  <1> HIDE DEF S, by, before, at
  <1>7. ASSUME NEW x \in S PROVE x \notin before[x]
    BY <1>2, <1>3, <1>4, <1>6, PrecedesIs
  <1>8. ASSUME NEW x \in S, NEW y \in S, x # y
        PROVE  x \in before[y] \/ y \in before[x]
    <2>1. CASE x[1] = y[1]
      <3>1. x[2] # y[2] /\ x[2] \in Nat /\ y[2] \in Nat
        BY <1>2, <1>8, <2>1
      <3>2. x[2] < y[2] \/ y[2] < x[2]
        BY <3>1
      <3> QED  BY <1>4, <1>6, <2>1, <3>2
    <2>2. CASE x[1] # y[1]
      BY <1>3, <1>4, <1>6, <2>2, PrecedesIs
    <2> QED  BY <2>1, <2>2
  <1>9. ASSUME NEW x \in S, NEW y \in S, NEW z \in S, x \in before[y], y \in before[z]
        PROVE  x \in before[z]
    <2>1. /\ Precedes(by, at(x), at(y)) \/ (x[1] = y[1] /\ x[2] < y[2])
          /\ Precedes(by, at(y), at(z)) \/ (y[1] = z[1] /\ y[2] < z[2])
      BY <1>4, <1>6, <1>9
    <2>2. \A q, r \in S : q[1] = r[1] => at(q) = at(r)
      BY DEF at
    <2>3. CASE x[1] = y[1] /\ y[1] = z[1]
      <3>1. x[2] < y[2] /\ y[2] < z[2]
        BY <1>3, <2>1, <2>2, <2>3, PrecedesIs
      <3>2. x[2] < z[2]
        BY <1>2, <3>1
      <3> QED  BY <1>4, <1>6, <2>3, <3>2
    <2>4. CASE ~(x[1] = y[1] /\ y[1] = z[1])
      <3>1. Precedes(by, at(x), at(z))
        <4>1. at(x) \in Token /\ at(y) \in Token /\ at(z) \in Token
          BY <1>3
        <4> QED  BY <2>1, <2>2, <2>4, <4>1, PrecedesIs
      <3> QED  BY <1>4, <1>6, <3>1
    <2> QED  BY <2>3, <2>4
  <1>10. Ordered(S, before)
    BY <1>5, <1>7, <1>8, <1>9 DEF Ordered
  <1> QED  BY <1>10 DEF S, before

\* What the answer holds: places of entries that the query finds, no more of them
\* than the page's articles and one.
LEMMA AnswerIs ==
    ASSUME NEW sort \in Orders, NEW table \in [Entries -> Row], NEW link \in PageLink
    PROVE  LET a == Answer(sort, link, table)
           IN  /\ a \in Seq(Place) /\ Len(a) \in 0..(Limit + 1) /\ DOMAIN a = 1..Len(a)
               /\ \A i \in 1..Len(a) : /\ a[i].id \in Found(sort, link, table)
                                       /\ a[i] = Position(sort, table, a[i].id)
  <1> DEFINE S == RowsFound(sort, link, table)
             ordered == InOrder(Earlier(sort, link, table))
             n == IF Len(ordered) < PageLimit THEN Len(ordered) ELSE PageLimit
             a == Answer(sort, link, table)
  <1>1. Limit \in Nat
    BY LimitIsPositive DEF LimitIsPositive
  <1>2. a = [i \in 1..n |-> Position(sort, table, ordered[i][1])]
    BY DEF Answer, Earlier, RowsFound, ComesBefore
  <1>3. Len(ordered) \in Nat /\ \A i \in 1..Len(ordered) : ordered[i] \in S
    <2>1. Ordered(S, Earlier(sort, link, table))
      BY RowsAreOrdered
    <2> HIDE DEF S
    <2> QED  BY <2>1, InOrderIs
  <1>4. n \in Nat /\ n <= Limit + 1 /\ n <= Len(ordered)
    BY <1>1, <1>3 DEF PageLimit
  <1>5. \A i \in 1..n : ordered[i] \in S
    BY <1>3, <1>4
  <1>6. \A r \in S : r[1] \in Entries /\ r[1] \in Found(sort, link, table)
    BY RowsFoundAre
  <1> HIDE DEF S, ordered, n, a
  <1>7. ASSUME NEW i \in 1..n
        PROVE  /\ a[i] \in Place /\ a[i].id \in Found(sort, link, table)
               /\ a[i] = Position(sort, table, a[i].id)
    <2>1. a[i] = Position(sort, table, ordered[i][1])
      BY <1>2
    <2> QED  BY <1>5, <1>6, <2>1, PositionIs
  <1>8. a \in [1..n -> Place]
    BY <1>2, <1>7
  <1>9. a \in Seq(Place) /\ Len(a) = n /\ DOMAIN a = 1..n
    BY <1>4, <1>8, SeqDef
  <1> QED  BY <1>1, <1>4, <1>7, <1>9 DEF a

\* An entry has one row when at most one permission lets the reader view it.
OneRowEach == \A e \in Entries : Matches[e] = 1

\* Rows of one entry are at the same place.
Follows(sort, a, b) == Precedes(sort, a, b) \/ (a = b /\ ~OneRowEach)

\* Without a tag the answer is in the order of the list, and an entry that is found but
\* not in it comes after all of a full page.
LEMMA AnswerIsOrdered ==
    ASSUME NEW sort \in Orders, NEW table \in [Entries -> Row], NEW link \in PageLink,
           ~link.filter.tag
    PROVE  LET a == Answer(sort, link, table)
           IN  /\ \A i, j \in 1..Len(a) : i < j => Follows(sort, a[i], a[j])
               /\ \A e \in Found(sort, link, table) :
                     \/ \E i \in 1..Len(a) : a[i] = Position(sort, table, e)
                     \/ /\ Len(a) = Limit + 1
                        /\ \A i \in 1..Len(a) : Precedes(sort, a[i], Position(sort, table, e))
  <1> DEFINE S == RowsFound(sort, link, table)
             before == Earlier(sort, link, table)
             ordered == InOrder(before)
             n == IF Len(ordered) < PageLimit THEN Len(ordered) ELSE PageLimit
             a == Answer(sort, link, table)
  <1>1. Limit \in Nat
    BY LimitIsPositive DEF LimitIsPositive
  <1>2. a = [i \in 1..n |-> Position(sort, table, ordered[i][1])]
    BY DEF Answer, Earlier, RowsFound, ComesBefore
  <1>3. /\ Len(ordered) \in Nat /\ \A i \in 1..Len(ordered) : ordered[i] \in S
        /\ \A x \in S : \E i \in 1..Len(ordered) : ordered[i] = x
        /\ \A i, j \in 1..Len(ordered) : i < j <=> ordered[i] \in before[ordered[j]]
    <2>1. Ordered(S, before)
      BY RowsAreOrdered
    <2> HIDE DEF S, before
    <2> DEFINE size == Cardinality(S)
    <2>2. /\ size \in Nat /\ ordered \in [1..size -> S] /\ Len(ordered) = size
          /\ \A x \in S : \E i \in 1..size : ordered[i] = x
          /\ \A i, j \in 1..size : i < j <=> ordered[i] \in before[ordered[j]]
      BY <2>1, InOrderIs
    <2> HIDE DEF size, ordered
    <2> QED  BY <2>2
  <1>4. n \in Nat /\ n <= Len(ordered) /\ (n = Len(ordered) \/ n = Limit + 1)
    BY <1>1, <1>3 DEF PageLimit
  <1>5. Ordering(sort, link.filter) = sort
    BY DEF Ordering
  <1>6. \A r \in S : r[1] \in Entries /\ r[2] \in Nat /\ r[2] >= 1 /\ (OneRowEach => r[2] = 1)
    <2>1. \A r \in S : r[1] \in Entries /\ r[2] \in 1..Copies(link.filter, r[1]) /\ r[2] \in Nat
      BY RowsFoundAre
    <2>2. OneRowEach => \A e \in Entries : Copies(link.filter, e) = 1
      BY DEF Copies, OneRowEach
    <2>3. \A e \in Entries : Copies(link.filter, e) \in Nat
      BY MatchesOnce DEF MatchesOnce, Copies
    <2> HIDE DEF S
    <2>4. OneRowEach => \A e \in Entries : \A c \in 1..Copies(link.filter, e) : c = 1
      BY <2>2
    <2>5. \A e \in Entries : \A c \in 1..Copies(link.filter, e) : c >= 1
      BY <2>3
    <2> QED  BY <2>1, <2>4, <2>5
  <1>7. \A q, r \in S : q \in before[r] =>
           \/ Precedes(sort, Position(sort, table, q[1]), Position(sort, table, r[1]))
           \/ q[1] = r[1] /\ q[2] < r[2]
    <2>1. \A q, r \in S : q \in before[r] => ComesBefore(sort, table, q, r)
      BY <1>5 DEF Earlier
    <2> HIDE DEF S, before
    <2> QED  BY <2>1 DEF ComesBefore
  <1>8. \A e \in Found(sort, link, table) : <<e, 1>> \in S
    BY RowsFoundAre
  <1>9. Len(a) = n
    <2>1. Len(a) \in Nat /\ DOMAIN a = 1..Len(a)
      BY AnswerIs
    <2>2. DOMAIN a = 1..n
      BY <1>2
    <2> DEFINE m == Len(a)
    <2>3. m \in Nat /\ 1..m = 1..n
      BY <2>1, <2>2
    <2> HIDE DEF a, n, m
    <2>4. (n > 0 => n \in 1..n) /\ (m > 0 => m \in 1..m)
      BY <1>4, <2>3
    <2>5. (n > 0 => n <= m) /\ (m > 0 => m <= n)
      BY <1>4, <2>3, <2>4
    <2>6. m = n
      BY <1>4, <2>3, <2>5
    <2> QED  BY <2>6 DEF m
  <1> HIDE DEF S, before, ordered, n, a
  <1>10. ASSUME NEW i \in 1..Len(ordered), NEW j \in 1..Len(ordered), i < j
         PROVE  /\ Follows(sort, Position(sort, table, ordered[i][1]),
                                 Position(sort, table, ordered[j][1]))
                /\ ordered[j][2] = 1 =>
                      Precedes(sort, Position(sort, table, ordered[i][1]),
                                     Position(sort, table, ordered[j][1]))
    <2>1. /\ ordered[i] \in S /\ ordered[j] \in S
          /\ \/ Precedes(sort, Position(sort, table, ordered[i][1]),
                              Position(sort, table, ordered[j][1]))
             \/ ordered[i][1] = ordered[j][1] /\ ordered[i][2] < ordered[j][2]
      BY <1>3, <1>7, <1>10
    <2>2. ordered[i][2] < ordered[j][2] => ordered[j][2] # 1 /\ ~OneRowEach
      BY <1>6, <2>1
    <2> QED  BY <2>1, <2>2 DEF Follows
  <1>11. \A i, j \in 1..n : i < j => Follows(sort, a[i], a[j])
    BY <1>2, <1>3, <1>4, <1>10
  <1>12. ASSUME NEW e \in Found(sort, link, table)
         PROVE  \/ \E i \in 1..n : a[i] = Position(sort, table, e)
                \/ /\ n = Limit + 1
                   /\ \A i \in 1..n : Precedes(sort, a[i], Position(sort, table, e))
    <2>1. PICK k \in 1..Len(ordered) : ordered[k] = <<e, 1>>
      BY <1>3, <1>8
    <2>2. ordered[k][1] = e /\ ordered[k][2] = 1
      BY <2>1
    <2>3. CASE k <= n
      <3>1. k \in 1..n
        BY <1>3, <1>4, <2>3
      <3>2. a[k] = Position(sort, table, e)
        BY <1>2, <2>2, <3>1
      <3> QED  BY <3>1, <3>2
    <2>4. CASE ~(k <= n)
      <3>1. n = Limit + 1
        BY <1>3, <1>4, <2>4
      <3>2. ASSUME NEW i \in 1..n PROVE Precedes(sort, a[i], Position(sort, table, e))
        <4>1. i \in 1..Len(ordered) /\ i < k
          BY <1>3, <1>4, <2>4
        <4>2. a[i] = Position(sort, table, ordered[i][1])
          BY <1>2
        <4> QED  BY <1>10, <2>2, <4>1, <4>2
      <3> QED  BY <3>1, <3>2
    <2> QED  BY <2>3, <2>4
  <1> QED  BY <1>9, <1>11, <1>12 DEF a

---------------------------------------------------------------------------
(* The page being made. *)

Page == [answered : BOOLEAN, todo : SUBSET Nat, emitted : Seq(Place), rows : Seq(Place),
         last : Nat, broken : BOOLEAN, waiting : Nat, counted : SUBSET STRING,
         named : SUBSET STRING, replies : Nat, counts : [Months -> Nat], failed : BOOLEAN]

\* How far a page has come.  The levels below the one that waits have their counts;
\* the list has ended when the first level waits; articles are decorated until then,
\* and after it only if a decoration failed; the page is answered when the last level
\* ends, and once by an error.
Made(levels, p) ==
    /\ p.todo \subseteq 1..Len(p.rows) /\ Len(p.rows) <= Limit + 1
    /\ Len(p.emitted) + Cardinality(p.todo) = Len(p.rows)
    /\ p.todo # {} => p.answered /\ (p.waiting = 0 \/ p.broken)
    /\ p.last <= Len(p.emitted)
    /\ ~p.answered => p.rows = <<>> /\ p.waiting = 0
    /\ p.waiting <= Len(levels) + 1
    /\ \A k \in 1..Len(levels) : k < p.waiting => levels[k] \in p.counted
    /\ p.counted \subseteq {levels[k] : k \in 1..Len(levels)}
    /\ p.replies <= (IF p.waiting = Len(levels) + 1 THEN 1 ELSE 0)
                    + (IF p.failed THEN 1 ELSE 0)

LEMMA LevelsAre ==
    /\ Levels \in Seq(STRING) /\ Len(Levels) \in Nat
    /\ \A k \in 1..Len(Levels) : Levels[k] \in STRING
  <1>1. <<>> \in Seq(STRING)
    OBVIOUS
  <1>2. Levels \in Seq(STRING)
    BY <1>1, FacetsAreListed DEF FacetsAreListed, Levels
  <1>3. \A s \in Seq(STRING) : Len(s) \in Nat /\ \A k \in 1..Len(s) : s[k] \in STRING
    OBVIOUS
  <1> QED  BY <1>2, <1>3

\* The first number of a set of them.
LEMMA FirstIsTaken ==
    ASSUME NEW S, NEW before, Ordered(S, before), S # {}
    PROVE  \E x \in S : before[x] = {}
  <1>1. IsFiniteSet(S) /\ before \in [S -> SUBSET S]
    BY DEF Ordered
  <1>2. \A i \in 0..(Cardinality(S) - 1) : \E x \in S : Cardinality(before[x]) = i
    BY PlacesAreTaken
  <1>3. Cardinality(S) \in Nat /\ Cardinality(S) # 0
    BY <1>1, FS_CardinalityType, FS_EmptySet
  <1>4. 0 \in 0..(Cardinality(S) - 1)
    BY <1>3
  <1>5. PICK x \in S : Cardinality(before[x]) = 0
    BY <1>2, <1>4
  <1>6. IsFiniteSet(before[x])
    <2>1. before[x] \in SUBSET S
      BY <1>1
    <2> QED  BY <1>1, <2>1, FS_Subset
  <1> QED  BY <1>5, <1>6, FS_EmptySet

LEMMA FirstIsIn ==
    ASSUME NEW n \in Nat, NEW open \in SUBSET (1..n), open # {}
    PROVE  \E k \in open : \A j \in open : k <= j
  <1>1. PICK before : before = [x \in open |-> {y \in open : y < x}]
    OBVIOUS
  <1>2. IsFiniteSet(open)
    <2>1. IsFiniteSet(1..n)
      BY FS_Interval
    <2> QED  BY <2>1, FS_Subset
  <1>3. Ordered(open, before)
    BY <1>1, <1>2 DEF Ordered
  <1>4. PICK k \in open : before[k] = {}
    BY <1>3, FirstIsTaken
  <1>5. \A j \in open : ~(j < k)
    BY <1>1, <1>4
  <1> QED  BY <1>5

\* mergeFacet's cascade stops at the next level whose counts are not in.
LEMMA EndsIs ==
    ASSUME NEW p \in Page, p.waiting \in 1..(Len(Levels) + 1)
    PROVE  \E next \in 1..(Len(Levels) + 1), named \in SUBSET STRING :
              /\ p.waiting <= next
              /\ \A k \in 1..Len(Levels) : p.waiting <= k /\ k < next => Levels[k] \in p.counted
              /\ Ends(p) = [p EXCEPT !.waiting = next, !.named = named,
                                     !.replies = IF next > Len(Levels) THEN p.replies + 1
                                                 ELSE p.replies]
  <1> DEFINE n == Len(Levels)
             open == {k \in 1..n : k >= p.waiting /\ Levels[k] \notin p.counted}
             first == CHOOSE k \in open : \A j \in open : k <= j
             next == IF open = {} THEN n + 1 ELSE first
             named == p.named \cup {Levels[k] : k \in {j \in 1..n : p.waiting <= j /\ j < next}}
  <1>1. n \in Nat /\ p.waiting \in Nat /\ p.waiting # 0
    BY LevelsAre DEF Page
  <1>2. open # {} => first \in open /\ \A j \in open : first <= j
    <2> SUFFICES ASSUME open # {} PROVE first \in open /\ \A j \in open : first <= j
      OBVIOUS
    <2>1. open \in SUBSET (1..n)
      OBVIOUS
    <2> HIDE DEF open, n
    <2>2. \E k \in open : \A j \in open : k <= j
      BY <1>1, <2>1, FirstIsIn
    <2> QED  BY <2>2
  <1> HIDE DEF first
  <1>3. next \in 1..(n + 1) /\ p.waiting <= next
    <2>1. CASE open = {}
      BY <1>1, <2>1
    <2>2. CASE open # {}
      <3>1. first \in 1..n /\ first >= p.waiting
        BY <1>2, <2>2
      <3> QED  BY <1>1, <2>2, <3>1
    <2> QED  BY <2>1, <2>2
  <1>4. \A k \in 1..n : p.waiting <= k /\ k < next => Levels[k] \in p.counted
    <2> TAKE k \in 1..n
    <2> HAVE p.waiting <= k /\ k < next
    <2>1. CASE open = {}
      BY <1>1, <2>1
    <2>2. CASE open # {}
      <3>1. k \notin open
        BY <1>1, <1>2, <2>2
      <3> QED  BY <1>1, <3>1
    <2> QED  BY <2>1, <2>2
  <1>5. named \in SUBSET STRING
    BY LevelsAre DEF Page
  <1>6. Ends(p) = [p EXCEPT !.waiting = next, !.named = named,
                            !.replies = IF next > n THEN p.replies + 1 ELSE p.replies]
    BY <1>1 DEF Ends, first, Page
  <1> HIDE DEF next, named, n
  <1> QED  BY <1>3, <1>4, <1>5, <1>6 DEF n

\* An ending keeps the page in order and only changes what waits.
SameArticles(p, q) ==
    /\ q.answered = p.answered /\ q.failed = p.failed /\ q.todo = p.todo
    /\ q.emitted = p.emitted /\ q.rows = p.rows /\ q.broken = p.broken
    /\ q.counted = p.counted /\ q.counts = p.counts

LEMMA EndsKeeps ==
    ASSUME NEW p \in Page, p.waiting \in 1..(Len(Levels) + 1),
           p.replies <= (IF p.failed THEN 1 ELSE 0),
           p.todo # {} => p.broken, p.answered,
           p.todo \subseteq 1..Len(p.rows), Len(p.rows) <= Limit + 1,
           Len(p.emitted) + Cardinality(p.todo) = Len(p.rows), p.last <= Len(p.emitted),
           \A k \in 1..Len(Levels) : k < p.waiting => Levels[k] \in p.counted,
           p.counted \subseteq {Levels[k] : k \in 1..Len(Levels)}
    PROVE  /\ Ends(p) \in Page /\ Made(Levels, Ends(p)) /\ SameArticles(p, Ends(p))
           /\ Ends(p).last = p.last /\ Ends(p).waiting # 0
  <1>1. PICK next \in 1..(Len(Levels) + 1), named \in SUBSET STRING :
              /\ p.waiting <= next
              /\ \A k \in 1..Len(Levels) : p.waiting <= k /\ k < next => Levels[k] \in p.counted
              /\ Ends(p) = [p EXCEPT !.waiting = next, !.named = named,
                                     !.replies = IF next > Len(Levels) THEN p.replies + 1
                                                 ELSE p.replies]
    BY EndsIs
  <1> DEFINE q == Ends(p)
  <1>2. Len(Levels) \in Nat /\ next \in Nat /\ next # 0 /\ p.waiting \in Nat /\ p.replies \in Nat
    BY LevelsAre DEF Page
  <1>3. /\ q.waiting = next /\ q.answered = p.answered /\ q.failed = p.failed
        /\ q.todo = p.todo /\ q.emitted = p.emitted /\ q.rows = p.rows
        /\ q.counted = p.counted /\ q.counts = p.counts
        /\ q.broken = p.broken /\ q.last = p.last
        /\ q.replies = IF next > Len(Levels) THEN p.replies + 1 ELSE p.replies
    BY <1>1 DEF Page
  <1>4. q \in Page
    <2>1. p.replies + 1 \in Nat /\ q.replies \in Nat
      BY <1>2, <1>3
    <2>2. q = [p EXCEPT !.waiting = next, !.named = named, !.replies = q.replies]
      BY <1>1, <1>3
    <2> HIDE DEF q
    <2> QED  BY <1>2, <2>1, <2>2 DEF Page
  <1> HIDE DEF q
  <1>5. \A k \in 1..Len(Levels) : k < q.waiting => Levels[k] \in q.counted
    <2> TAKE k \in 1..Len(Levels)
    <2> HAVE k < q.waiting
    <2>1. CASE k < p.waiting
      BY <1>3, <2>1
    <2>2. CASE ~(k < p.waiting)
      BY <1>1, <1>2, <1>3, <2>2
    <2> QED  BY <2>1, <2>2
  <1>6. /\ Len(q.emitted) + Cardinality(q.todo) = Len(q.rows) /\ q.last <= Len(q.emitted)
        /\ q.todo \subseteq 1..Len(q.rows) /\ Len(q.rows) <= Limit + 1
        /\ q.todo # {} => q.answered /\ q.broken
    BY <1>3
  <1>7. q.replies <= (IF q.waiting = Len(Levels) + 1 THEN 1 ELSE 0)
                     + (IF q.failed THEN 1 ELSE 0)
    BY <1>2, <1>3
  <1>8. Made(Levels, q)
    BY <1>2, <1>3, <1>5, <1>6, <1>7 DEF Made
  <1> QED  BY <1>2, <1>3, <1>4, <1>8 DEF q, SameArticles

LEMMA ListEndsKeeps ==
    ASSUME NEW p \in Page, p.answered, Made(Levels, p)
    PROVE  /\ ListEnds(p) \in Page /\ Made(Levels, ListEnds(p))
           /\ SameArticles(p, ListEnds(p))
           /\ p.waiting = 0 /\ ListEnds(p).waiting # 0 => ListEnds(p).last = Len(p.emitted)
  <1>1. CASE p.waiting = 0 /\ (p.todo = {} \/ p.broken)
    <2> DEFINE q == [p EXCEPT !.waiting = 1, !.last = Len(p.emitted)]
    <2>1. Len(p.emitted) \in Nat /\ Len(p.rows) \in Nat
      BY DEF Page
    <2>2. q \in Page
      BY <2>1 DEF Page
    <2>3. /\ q.waiting = 1 /\ SameArticles(p, q) /\ q.replies = p.replies
          /\ q.last = Len(p.emitted)
      BY DEF Page, SameArticles
    <2>4. ListEnds(p) = Ends(q)
      BY <1>1 DEF ListEnds
    <2> HIDE DEF q
    <2>5. Len(Levels) \in Nat /\ p.replies \in Nat
      BY LevelsAre DEF Page
    <2>6. p.replies <= (IF p.failed THEN 1 ELSE 0)
      BY <1>1, <2>5 DEF Made
    <2>7. p.counted \subseteq {Levels[k] : k \in 1..Len(Levels)}
      BY DEF Made
    <2>8. \A k \in 1..Len(Levels) : k < 1 => Levels[k] \in q.counted
      BY <2>5
    <2>9. /\ Ends(q) \in Page /\ Made(Levels, Ends(q)) /\ SameArticles(q, Ends(q))
          /\ Ends(q).last = q.last
      <3>1. q.waiting \in 1..(Len(Levels) + 1)
        BY <2>3, <2>5
      <3>2. /\ q.replies <= (IF q.failed THEN 1 ELSE 0)
            /\ q.todo # {} => q.broken
            /\ q.answered /\ q.todo \subseteq 1..Len(q.rows) /\ Len(q.rows) <= Limit + 1
            /\ Len(q.emitted) + Cardinality(q.todo) = Len(q.rows)
            /\ q.last <= Len(q.emitted)
        BY <1>1, <2>1, <2>3, <2>6 DEF SameArticles, Made
      <3>3. /\ \A k \in 1..Len(Levels) : k < q.waiting => Levels[k] \in q.counted
            /\ q.counted \subseteq {Levels[k] : k \in 1..Len(Levels)}
        BY <2>3, <2>7, <2>8 DEF SameArticles
      <3> QED  BY <2>2, <3>1, <3>2, <3>3, EndsKeeps
    <2> QED  BY <2>3, <2>4, <2>9 DEF SameArticles
  <1>2. CASE ~(p.waiting = 0 /\ (p.todo = {} \/ p.broken))
    <2>1. ListEnds(p) = p
      BY <1>2 DEF ListEnds
    <2> QED  BY <2>1 DEF SameArticles
  <1> QED  BY <1>1, <1>2

\* The articles that look nothing up are out at once, in the order of the rows, and
\* the others are still to come.
LEMMA FeedIs ==
    ASSUME NEW answer \in Seq(Place)
    PROVE  LET f == IndexFeed(answer)
           IN  /\ f.emitted \in Seq(Place) /\ f.todo \subseteq 1..Len(answer)
               /\ Len(f.emitted) + Cardinality(f.todo) = Len(answer)
  <1> DEFINE n == Len(answer)
             quick == {i \in DOMAIN answer : answer[i].id \notin Slow}
             before == [i \in quick |-> {j \in quick : j < i}]
             ordered == InOrder(before)
             out == [k \in DOMAIN ordered |-> answer[ordered[k]]]
             left == DOMAIN answer \ quick
  <1>1. n \in Nat /\ DOMAIN answer = 1..n /\ \A i \in 1..n : answer[i] \in Place
    OBVIOUS
  <1>2. quick \subseteq 1..n /\ \A i \in quick : i \in Nat
    BY <1>1
  <1>3. IsFiniteSet(1..n) /\ Cardinality(1..n) = n
    <2> HIDE DEF n
    <2>1. n \in Int /\ 1 \in Int /\ n - 1 + 1 = n /\ (1 > n => n = 0)
      BY <1>1
    <2> QED  BY <2>1, FS_Interval
  <1>4. /\ IsFiniteSet(quick) /\ IsFiniteSet(left)
        /\ Cardinality(left) = n - Cardinality(quick)
    <2> HIDE DEF n
    <2>1. IsFiniteSet(quick) /\ left = (1..n) \ quick /\ quick = (1..n) \cap quick
      BY <1>1, <1>2, <1>3, FS_Subset
    <2> HIDE DEF quick
    <2>2. /\ IsFiniteSet((1..n) \ quick)
          /\ Cardinality((1..n) \ quick) = Cardinality(1..n) - Cardinality((1..n) \cap quick)
      BY <1>3, FS_Difference
    <2> QED  BY <1>3, <2>1, <2>2
  <1>5. Ordered(quick, before)
    <2> HIDE DEF n
    <2>1. before \in [quick -> SUBSET quick]
      OBVIOUS
    <2> QED  BY <1>2, <1>4, <2>1 DEF Ordered
  <1>6. IndexFeed(answer) = [emitted |-> out, todo |-> left]
    BY DEF IndexFeed
  <1> HIDE DEF before, n, quick
  <1>7. /\ Len(ordered) = Cardinality(quick) /\ Cardinality(quick) \in Nat
        /\ DOMAIN ordered = 1..Cardinality(quick)
        /\ \A k \in 1..Cardinality(quick) : ordered[k] \in quick
    BY <1>5, InOrderIs
  <1> HIDE DEF ordered
  <1>8. out \in [1..Cardinality(quick) -> Place]
    BY <1>1, <1>2, <1>7
  <1>9. out \in Seq(Place) /\ Len(out) = Cardinality(quick)
    <2> HIDE DEF out
    <2> QED  BY <1>7, <1>8, SeqDef
  <1>10. left \subseteq 1..n
    BY <1>1
  <1> HIDE DEF left, out
  <1> QED  BY <1>1, <1>4, <1>6, <1>7, <1>9, <1>10 DEF n

LEMMA CountsAreNumbers ==
    ASSUME NEW sort, NEW filter, NEW table
    PROVE  MonthCounts(sort, filter, table) \in [Months -> Nat]
  <1> DEFINE of(m) == {x \in Entries : Selected(sort, filter, table, x)
                                       /\ MonthOf(sort, table, x) = m}
  <1>1. ASSUME NEW m \in Months
        PROVE  Cardinality(UNION {{e} \X (1..Matches[e]) : e \in of(m)}) \in Nat
    <2>1. of(m) \in SUBSET Entries
      OBVIOUS
    <2>2. Matches \in [Entries -> Nat]
      BY MatchesOnce DEF MatchesOnce
    <2> HIDE DEF of
    <2>3. IsFiniteSet(UNION {{e} \X (1..Matches[e]) : e \in of(m)})
      BY <2>1, <2>2, CopiesAreFinite
    <2> QED  BY <2>3, FS_CardinalityType
  <1>2. MonthCounts(sort, filter, table) =
           [m \in Months |-> Cardinality(UNION {{e} \X (1..Matches[e]) : e \in of(m)})]
    BY DEF MonthCounts
  <1> HIDE DEF of
  <1> QED  BY <1>1, <1>2

LEMMA ShownIs ==
    ASSUME NEW p \in Page
    PROVE  /\ Shown(p) \in Seq(Place) /\ Len(Shown(p)) \in Nat /\ Len(p.emitted) \in Nat
           /\ Len(Shown(p)) = IF Len(p.emitted) < Limit THEN Len(p.emitted) ELSE Limit
           /\ \A i \in 1..Len(Shown(p)) : Shown(p)[i] = p.emitted[i]
           /\ \A i \in 1..Len(Shown(p)) : Shown(p)[i] \in Place
  <1> DEFINE n == IF Len(p.emitted) < Limit THEN Len(p.emitted) ELSE Limit
  <1>1. Limit \in Nat /\ p.emitted \in Seq(Place) /\ Len(p.emitted) \in Nat
    BY LimitIsPositive DEF LimitIsPositive, Page
  <1>2. n \in Nat /\ n <= Len(p.emitted)
    BY <1>1
  <1>3. Shown(p) = SubSeq(p.emitted, 1, n)
    BY DEF Shown
  <1> HIDE DEF n
  <1>4. /\ Shown(p) \in Seq(Place) /\ Len(Shown(p)) = n
        /\ \A i \in 1..n : Shown(p)[i] = p.emitted[i] /\ p.emitted[i] \in Place
    BY <1>1, <1>2, <1>3
  <1> QED  BY <1>1, <1>2, <1>4 DEF n

---------------------------------------------------------------------------
(* The types, and the page while it is made. *)

Walk == [sort : Sorts, filter : Filter, over : BOOLEAN, shuffled : BOOLEAN,
         writes : 0..MaxWrites]

Typed ==
    /\ rows \in [Entries -> Row] /\ now \in 1..MaxTime
    /\ walk \in Walk /\ url \in PageLink
    /\ seen \in Seq(Place) /\ steady \subseteq Entries
    /\ page \in Page

Inv == Typed /\ Made(Levels, page)

LEMMA WalkIs ==
    ASSUME walk \in Walk
    PROVE  walk.sort \in Orders /\ walk.sort \in Sorts /\ walk.filter \in Filter
           /\ walk.over \in BOOLEAN /\ walk.shuffled \in BOOLEAN /\ walk.writes \in 0..MaxWrites
  BY SortsAreKnown DEF SortsAreKnown, Walk, Orders

LEMMA FreshIs == FreshPage \in Page /\ \A levels \in Seq(STRING) : Made(levels, FreshPage)
  <1>1. FreshPage \in Page
    <2>1. <<>> \in Seq(Place)
      OBVIOUS
    <2> QED  BY <2>1 DEF FreshPage, Page
  <1>2. ASSUME NEW levels \in Seq(STRING) PROVE Made(levels, FreshPage)
    <2>1. Cardinality({}) = 0
      BY FS_EmptySet
    <2>2. Len(levels) \in Nat /\ Limit \in Nat
      BY LimitIsPositive DEF LimitIsPositive
    <2> QED  BY <2>1, <2>2 DEF FreshPage, Made
  <1> QED  BY <1>1, <1>2

\* What an action of the page's queries makes of it.
LEMMA RunQueryKeeps ==
    ASSUME Inv, RunQuery
    PROVE  /\ page' \in Page /\ Made(Levels, page')
           /\ page'.answered /\ ~page'.failed /\ page'.counted = page.counted
           /\ page'.counts = page.counts
           /\ page'.rows = Answer(walk.sort, url, rows)
           /\ page'.emitted = IF walk.sort = "activity" THEN page'.rows
                              ELSE IndexFeed(page'.rows).emitted
           /\ page'.waiting # 0 => page'.last = Len(page'.emitted)
  <1> DEFINE answer == Answer(walk.sort, url, rows)
             feed == IF walk.sort = "activity" THEN ActivityFeed(answer) ELSE IndexFeed(answer)
             p == [page EXCEPT !.answered = TRUE, !.rows = answer, !.todo = feed.todo,
                               !.emitted = feed.emitted]
  <1>1. /\ page \in Page /\ Made(Levels, page) /\ ~page.answered /\ ~page.failed
        /\ page' = ListEnds(p)
    BY DEF RunQuery, Inv, Typed
  <1>2. answer \in Seq(Place) /\ Len(answer) \in 0..(Limit + 1)
    <2>1. walk.sort \in Orders /\ rows \in [Entries -> Row] /\ url \in PageLink
      BY WalkIs DEF Inv, Typed
    <2> QED  BY <2>1, AnswerIs
  <1> HIDE DEF answer
  <1>3. /\ feed.emitted \in Seq(Place) /\ feed.todo \subseteq 1..Len(answer)
        /\ Len(feed.emitted) + Cardinality(feed.todo) = Len(answer)
        /\ feed.emitted = IF walk.sort = "activity" THEN answer ELSE IndexFeed(answer).emitted
    <2>1. CASE walk.sort = "activity"
      <3>1. Cardinality({}) = 0
        BY FS_EmptySet
      <3> QED  BY <1>2, <2>1, <3>1 DEF ActivityFeed
    <2>2. CASE walk.sort # "activity"
      BY <1>2, <2>2, FeedIs
    <2> QED  BY <2>1, <2>2
  <1> HIDE DEF feed
  <1>4. feed.todo \in SUBSET Nat
    BY <1>2, <1>3
  <1>5. p \in Page
    BY <1>1, <1>2, <1>3, <1>4 DEF Page
  <1>6. /\ p.answered /\ p.failed = page.failed /\ p.waiting = page.waiting
        /\ p.rows = answer /\ p.todo = feed.todo /\ p.emitted = feed.emitted
        /\ p.counted = page.counted /\ p.replies = page.replies /\ p.counts = page.counts
        /\ p.last = page.last
    BY <1>1 DEF Page
  <1>7. page.waiting = 0 /\ page.last = 0 /\ Len(p.emitted) \in Nat
    <2>1. page.rows = <<>> /\ page.waiting = 0
      BY <1>1 DEF Made
    <2>2. /\ Len(page.rows) = 0 /\ page.todo \subseteq 1..0 /\ page.last \in Nat
          /\ Len(page.emitted) \in Nat /\ page.last <= Len(page.emitted)
          /\ Len(page.emitted) + Cardinality(page.todo) = 0
      BY <1>1, <2>1 DEF Made, Page
    <2>3. page.todo = {} /\ Cardinality({}) = 0
      BY <2>2, FS_EmptySet
    <2> QED  BY <1>5, <2>1, <2>2, <2>3 DEF Page
  <1>8. Limit \in Nat /\ Len(answer) \in Nat
    BY <1>2, LimitIsPositive DEF LimitIsPositive
  <1> HIDE DEF p
  <1>9. Made(Levels, p)
    BY <1>1, <1>2, <1>3, <1>6, <1>7, <1>8 DEF Made
  <1>10. /\ ListEnds(p) \in Page /\ Made(Levels, ListEnds(p)) /\ SameArticles(p, ListEnds(p))
         /\ ListEnds(p).waiting # 0 => ListEnds(p).last = Len(p.emitted)
    BY <1>5, <1>6, <1>7, <1>9, ListEndsKeeps
  <1> QED  BY <1>1, <1>3, <1>6, <1>10 DEF SameArticles, answer

LEMMA FailQueryKeeps ==
    ASSUME Inv, FailQuery
    PROVE  /\ page' \in Page /\ Made(Levels, page') /\ page'.failed /\ page'.answered
           /\ page'.emitted = page.emitted /\ page'.rows = page.rows
  <1> DEFINE p == [page EXCEPT !.failed = TRUE, !.answered = TRUE, !.replies = 1]
  <1>1. /\ page \in Page /\ Made(Levels, page) /\ ~page.answered /\ ~page.failed
        /\ page' = ListEnds(p)
    BY DEF FailQuery, Inv, Typed
  <1>2. p \in Page
    BY <1>1 DEF Page
  <1>3. /\ p.answered /\ p.failed /\ p.waiting = page.waiting /\ p.rows = page.rows
        /\ p.todo = page.todo /\ p.emitted = page.emitted /\ p.counted = page.counted
        /\ p.replies = 1 /\ p.last = page.last /\ p.broken = page.broken
    BY <1>1 DEF Page
  <1>4. page.waiting = 0 /\ Len(Levels) \in Nat
    BY <1>1, LevelsAre DEF Made
  <1> HIDE DEF p
  <1>5. Made(Levels, p)
    BY <1>1, <1>3, <1>4 DEF Made
  <1>6. ListEnds(p) \in Page /\ Made(Levels, ListEnds(p)) /\ SameArticles(p, ListEnds(p))
    BY <1>2, <1>3, <1>4, <1>5, ListEndsKeeps
  <1> QED  BY <1>1, <1>3, <1>6 DEF SameArticles

LEMMA DecorateKeeps ==
    ASSUME Inv, NEW i \in 1..(Limit + 1), Decorate(i)
    PROVE  /\ page' \in Page /\ Made(Levels, page')
           /\ page'.answered = page.answered /\ page'.failed = page.failed
           /\ page'.rows = page.rows /\ page'.counted = page.counted
           /\ page'.counts = page.counts
  <1>a. PICK broken \in {page.broken, TRUE} :
           page' = ListEnds([page EXCEPT !.todo = @ \ {i}, !.broken = broken,
                                         !.emitted = Append(@, page.rows[i])])
    BY DEF Decorate
  <1> DEFINE p == [page EXCEPT !.todo = @ \ {i}, !.broken = broken,
                               !.emitted = Append(@, page.rows[i])]
  <1>1. /\ page \in Page /\ Made(Levels, page) /\ i \in page.todo /\ page' = ListEnds(p)
    BY <1>a DEF Decorate, Inv, Typed
  <1>b. broken \in BOOLEAN /\ (page.broken => broken)
    BY <1>1 DEF Page
  <1>2. page.answered /\ (page.waiting = 0 \/ page.broken) /\ i \in 1..Len(page.rows)
    BY <1>1 DEF Made
  <1>3. page.rows \in Seq(Place) /\ page.emitted \in Seq(Place) /\ page.todo \in SUBSET Nat
    BY <1>1 DEF Page
  <1>4. page.rows[i] \in Place
    BY <1>2, <1>3
  <1>5. /\ Append(page.emitted, page.rows[i]) \in Seq(Place)
        /\ Len(Append(page.emitted, page.rows[i])) = Len(page.emitted) + 1
    BY <1>3, <1>4
  <1>6. p \in Page
    BY <1>1, <1>3, <1>5, <1>b DEF Page
  <1>7. /\ p.answered = page.answered /\ p.failed = page.failed /\ p.waiting = page.waiting
        /\ p.rows = page.rows /\ p.todo = page.todo \ {i} /\ p.broken = broken
        /\ p.emitted = Append(page.emitted, page.rows[i]) /\ p.last = page.last
        /\ p.counted = page.counted /\ p.replies = page.replies /\ p.counts = page.counts
    BY <1>1 DEF Page
  <1>8. Cardinality(page.todo \ {i}) = Cardinality(page.todo) - 1 /\ Cardinality(page.todo) \in Nat
    <2>1. IsFiniteSet(page.todo)
      <3>1. Len(page.rows) \in Int /\ 1 \in Int
        BY <1>3
      <3>2. IsFiniteSet(1..Len(page.rows))
        BY <3>1, FS_Interval
      <3> QED  BY <1>1, <3>2, FS_Subset DEF Made
    <2> QED  BY <1>1, <2>1, FS_RemoveElement, FS_CardinalityType
  <1> HIDE DEF p
  <1>9. Len(p.emitted) + Cardinality(p.todo) = Len(p.rows) /\ p.last <= Len(p.emitted)
    <2>1. Len(page.emitted) \in Nat /\ Len(page.rows) \in Nat
      BY <1>3
    <2>2. Len(page.emitted) + Cardinality(page.todo) = Len(page.rows)
      BY <1>1 DEF Made
    <2>3. Len(p.emitted) = Len(page.emitted) + 1
      BY <1>5, <1>7
    <2>4. Cardinality(p.todo) = Cardinality(page.todo) - 1 /\ Len(p.rows) = Len(page.rows)
      BY <1>7, <1>8
    <2>5. page.last \in Nat /\ page.last <= Len(page.emitted) /\ p.last = page.last
      BY <1>1, <1>7 DEF Made, Page
    <2> QED  BY <1>8, <2>1, <2>2, <2>3, <2>4, <2>5
  <1>10. Made(Levels, p)
    BY <1>1, <1>2, <1>7, <1>9, <1>b DEF Made
  <1>11. ListEnds(p) \in Page /\ Made(Levels, ListEnds(p)) /\ SameArticles(p, ListEnds(p))
    BY <1>2, <1>6, <1>7, <1>10, ListEndsKeeps
  <1> QED  BY <1>1, <1>7, <1>11 DEF SameArticles

LEMMA CountFacetKeeps ==
    ASSUME Inv, NEW k \in 1..Len(Levels), CountFacet(k)
    PROVE  /\ page' \in Page /\ Made(Levels, page')
           /\ page'.answered = page.answered /\ page'.failed = page.failed
           /\ page'.rows = page.rows /\ page'.emitted = page.emitted
           /\ page'.last = page.last /\ (page'.waiting # 0 => page.waiting # 0)
           /\ page'.counted = page.counted \cup {Levels[k]}
           /\ page'.counts = IF Levels[k] = "months"
                             THEN MonthCounts(walk.sort, url.filter, rows) ELSE page.counts
  <1> DEFINE counts == IF Levels[k] = "months"
                       THEN MonthCounts(walk.sort, url.filter, rows) ELSE page.counts
             p == [page EXCEPT !.counted = @ \cup {Levels[k]}, !.counts = counts]
             q == [p EXCEPT !.waiting = k + 1]
  <1>1. /\ page \in Page /\ Made(Levels, page)
        /\ page' = IF page.waiting = k THEN Ends(q) ELSE p
    <2>1. p = [page EXCEPT !.counted = @ \cup {Levels[k]},
                           !.counts = IF Levels[k] = "months"
                                      THEN MonthCounts(walk.sort, url.filter, rows)
                                      ELSE @]
      BY DEF Inv, Typed, Page
    <2> QED  BY <2>1 DEF CountFacet, Inv, Typed
  <1>2. counts \in [Months -> Nat] /\ Levels[k] \in STRING
    BY <1>1, CountsAreNumbers, LevelsAre DEF Page
  <1> HIDE DEF counts
  <1>3. p \in Page
    BY <1>1, <1>2 DEF Page
  <1>4. /\ p.answered = page.answered /\ p.failed = page.failed /\ p.waiting = page.waiting
        /\ p.rows = page.rows /\ p.todo = page.todo /\ p.emitted = page.emitted
        /\ p.counted = page.counted \cup {Levels[k]} /\ p.replies = page.replies
        /\ p.counts = counts /\ p.last = page.last /\ p.broken = page.broken
    BY <1>1 DEF Page
  <1>5. Len(Levels) \in Nat /\ page.waiting \in Nat /\ page.replies \in Nat
    BY <1>1, LevelsAre DEF Page
  <1>6. CASE page.waiting # k
    <2> HIDE DEF p
    <2>1. Made(Levels, p)
      BY <1>1, <1>4 DEF Made
    <2> QED  BY <1>1, <1>3, <1>4, <1>6, <2>1 DEF counts
  <1>7. CASE page.waiting = k
    <2> HIDE DEF p
    <2>1. /\ q \in Page /\ q.waiting = k + 1 /\ SameArticles(p, q) /\ q.replies = p.replies
          /\ q.last = p.last
      <3>1. k + 1 \in Nat
        BY <1>5
      <3> QED  BY <1>3, <3>1 DEF Page, SameArticles
    <2> HIDE DEF q
    <2>2. /\ page.todo # {} => page.broken
          /\ page.answered /\ page.replies <= (IF page.failed THEN 1 ELSE 0)
      BY <1>1, <1>5, <1>7 DEF Made
    <2>3. /\ page.todo \subseteq 1..Len(page.rows) /\ Len(page.rows) <= Limit + 1
          /\ Len(page.emitted) + Cardinality(page.todo) = Len(page.rows)
          /\ page.last <= Len(page.emitted)
      BY <1>1 DEF Made
    <2>4. ASSUME NEW j \in 1..Len(Levels), j < q.waiting PROVE Levels[j] \in q.counted
      <3>1. j < k \/ j = k
        BY <1>5, <2>1, <2>4
      <3>2. q.counted = page.counted \cup {Levels[k]}
        BY <1>4, <2>1 DEF SameArticles
      <3>3. j < k => Levels[j] \in page.counted
        BY <1>1, <1>7 DEF Made
      <3> QED  BY <3>1, <3>2, <3>3
    <2>5. q.counted \subseteq {Levels[j] : j \in 1..Len(Levels)}
      BY <1>1, <1>4, <2>1 DEF SameArticles, Made
    <2>6. /\ Ends(q) \in Page /\ Made(Levels, Ends(q)) /\ SameArticles(q, Ends(q))
          /\ Ends(q).last = q.last
      <3>1. q.waiting \in 1..(Len(Levels) + 1)
        BY <1>5, <2>1
      <3>2. /\ q.replies <= (IF q.failed THEN 1 ELSE 0)
            /\ q.todo # {} => q.broken
            /\ q.answered /\ q.todo \subseteq 1..Len(q.rows) /\ Len(q.rows) <= Limit + 1
            /\ Len(q.emitted) + Cardinality(q.todo) = Len(q.rows)
            /\ q.last <= Len(q.emitted)
        BY <1>4, <2>1, <2>2, <2>3 DEF SameArticles
      <3> QED  BY <2>1, <2>4, <2>5, <3>1, <3>2, EndsKeeps
    <2>7. page.waiting # 0
      BY <1>5, <1>7
    <2> QED  BY <1>1, <1>4, <1>7, <2>1, <2>6, <2>7 DEF SameArticles, counts
  <1> QED  BY <1>6, <1>7

LEMMA FailFacetKeeps ==
    ASSUME Inv, NEW k \in 1..Len(Levels), FailFacet(k)
    PROVE  /\ page' \in Page /\ Made(Levels, page') /\ page'.failed /\ page'.answered
           /\ page'.emitted = page'.rows
  <1> DEFINE all == {Levels[j] : j \in 1..Len(Levels)}
  <1>1. page' = [FreshPage EXCEPT !.failed = TRUE, !.answered = TRUE, !.counted = all]
    BY DEF FailFacet
  <1>2. all \in SUBSET STRING /\ Len(Levels) \in Nat
    BY LevelsAre
  <1> HIDE DEF all
  <1>3. FreshPage \in Page
    BY FreshIs
  <1>4. page' \in Page
    BY <1>1, <1>2, <1>3 DEF Page
  <1>5. /\ page'.failed /\ page'.answered /\ page'.counted = all /\ page'.todo = {}
        /\ page'.rows = <<>> /\ page'.emitted = <<>> /\ page'.waiting = 0 /\ page'.replies = 0
        /\ page'.last = 0
    BY <1>1 DEF FreshPage
  <1>6. Made(Levels, page')
    <2>1. Cardinality({}) = 0 /\ Limit \in Nat
      BY FS_EmptySet, LimitIsPositive DEF LimitIsPositive
    <2> QED  BY <1>2, <1>5, <2>1 DEF Made, all
  <1> QED  BY <1>4, <1>5, <1>6

\* The other actions leave the page alone, and nobody changes what is read.
WalkStays == walk'.sort = walk.sort /\ walk'.filter = walk.filter

LEMMA WriteKeeps ==
    ASSUME Typed, NEW e \in Entries, NEW row \in Row, Write(e, row)
    PROVE  /\ rows' \in [Entries -> Row] /\ rows' = [rows EXCEPT ![e] = row]
           /\ walk' \in Walk /\ WalkStays
           /\ walk'.over = walk.over /\ walk'.shuffled = walk.shuffled
           /\ walk'.writes = walk.writes + 1 /\ walk'.writes # 0
           /\ steady' = Unmoved(rows, rows') /\ steady' \subseteq steady
           /\ now' = now /\ url' = url /\ page' = page /\ seen' = seen
  <1>1. rows' \in [Entries -> Row] /\ rows' = [rows EXCEPT ![e] = row]
    BY DEF Write, Typed
  <1>2. walk \in Walk /\ walk.writes \in 0..MaxWrites /\ MaxWrites \in Nat
    BY WalkIs, BoundsAreNats DEF Typed, BoundsAreNats
  <1>3. walk' = [walk EXCEPT !.writes = walk.writes + 1] /\ walk.writes < MaxWrites
    BY <1>2 DEF Write, Walk
  <1>4. walk.writes + 1 \in 0..MaxWrites /\ walk.writes + 1 # 0
    BY <1>2, <1>3
  <1>5. walk' \in Walk /\ WalkStays /\ walk'.over = walk.over
        /\ walk'.shuffled = walk.shuffled /\ walk'.writes = walk.writes + 1
    BY <1>2, <1>3, <1>4 DEF Walk, WalkStays
  <1>6. steady' = Unmoved(rows, rows') /\ steady' \subseteq steady
    BY DEF Write, Unmoved
  <1>7. now' = now /\ url' = url /\ page' = page /\ seen' = seen
    BY DEF Write
  <1> QED  BY <1>1, <1>4, <1>5, <1>6, <1>7

\* What others do is a write of a row of theirs, or time that passes.
LEMMA OthersAre ==
    ASSUME Typed, Others
    PROVE  \/ /\ now' \in 1..MaxTime
              /\ UNCHANGED <<rows, walk, url, page, seen, steady>>
           \/ \E e \in Entries, row \in Row : Write(e, row)
  <1>1. CASE Tick
    <2>1. now' \in 1..MaxTime
      BY <1>1, BoundsAreNats DEF Tick, Typed, BoundsAreNats
    <2> QED  BY <1>1, <2>1 DEF Tick
  <1>2. ASSUME NEW e \in Entries, AddEntry(e) \/ EditEntry(e) \/ RemoveEntry(e)
        PROVE  \E row \in Row : Write(e, row)
    <2>1. rows[e] \in Row /\ now \in 1..MaxTime
      BY DEF Typed
    <2>2. CASE AddEntry(e)
      <3> DEFINE row == [listed |-> TRUE, created |-> now, modified |-> now,
                         tagged |-> rows[e].tagged]
      <3>1. row \in Row /\ Write(e, row)
        BY <2>1, <2>2 DEF AddEntry, Row
      <3> QED  BY <3>1
    <2>3. CASE EditEntry(e)
      <3> DEFINE row == [rows[e] EXCEPT !.modified = now]
      <3>1. row \in Row /\ Write(e, row)
        BY <2>1, <2>3 DEF EditEntry, Row
      <3> QED  BY <3>1
    <2>4. CASE RemoveEntry(e)
      <3> DEFINE row == [rows[e] EXCEPT !.listed = FALSE]
      <3>1. row \in Row /\ Write(e, row)
        BY <2>1, <2>4 DEF RemoveEntry, Row
      <3> QED  BY <3>1
    <2> QED  BY <1>2, <2>2, <2>3, <2>4
  <1> QED  BY <1>1, <1>2 DEF Others

\* The articles of the page came in order, and all before the list ended.
WholeInOrder == page.emitted = page.rows /\ page.last = Len(page.rows)

LEMMA FollowLinkIs ==
    ASSUME Inv, FollowLink
    PROVE  /\ ~page.failed /\ page.replies # 0 /\ More(page)
           /\ walk' \in Walk /\ WalkStays /\ walk'.over = walk.over
           /\ walk'.writes = walk.writes
           /\ (walk'.shuffled <=> walk.shuffled \/ ~WholeInOrder)
           /\ Len(Shown(page)) = Limit /\ Shown(page)[Limit] \in Place
           /\ Shown(page)[Limit] = page.emitted[Limit]
           /\ seen' = seen \o Shown(page) /\ seen' \in Seq(Place)
           /\ url' = Link(url.filter, Shown(page)[Limit]) /\ url' \in PageLink
           /\ page' = FreshPage /\ UNCHANGED <<rows, now, steady>>
  <1>1. /\ page \in Page /\ walk \in Walk /\ url \in PageLink /\ seen \in Seq(Place)
    BY DEF Inv, Typed
  <1>2. /\ page.replies \in Nat /\ ~page.failed /\ page.replies # 0 /\ More(page)
        /\ walk' = [walk EXCEPT !.shuffled = Shuffled]
        /\ seen' = seen \o Shown(page) /\ url' = Link(url.filter, Shown(page)[Limit])
        /\ page' = FreshPage /\ UNCHANGED <<rows, now, steady>>
    BY <1>1 DEF FollowLink, Rendered, Page
  <1>3. Shuffled \in BOOLEAN
    BY DEF Shuffled
  <1>4. walk' \in Walk /\ WalkStays /\ walk'.over = walk.over /\ walk'.writes = walk.writes
        /\ walk'.shuffled = Shuffled
    BY <1>1, <1>2, <1>3 DEF Walk, WalkStays
  <1>5. Limit \in Nat /\ Limit # 0
    BY LimitIsPositive DEF LimitIsPositive
  <1>a. page.last \in Nat /\ page.last <= Len(page.emitted)
    BY DEF Inv, Typed, Made, Page
  <1>6. /\ Len(page.emitted) \in Nat /\ Shown(page) \in Seq(Place)
        /\ Len(Shown(page)) = Limit
        /\ \A i \in 1..Len(Shown(page)) : Shown(page)[i] = page.emitted[i]
        /\ \A i \in 1..Len(Shown(page)) : Shown(page)[i] \in Place
    BY <1>1, <1>2, <1>5, <1>a, ShownIs DEF More
  <1>7. Limit \in 1..Len(Shown(page))
    BY <1>5, <1>6
  <1>8. Shown(page)[Limit] = page.emitted[Limit] /\ Shown(page)[Limit] \in Place
    BY <1>6, <1>7
  <1>9. seen' \in Seq(Place)
    BY <1>1, <1>2, <1>6
  <1>10. url' \in PageLink
    <2>1. url.filter.month \in {0} \cup Months
      BY <1>1 DEF PageLink, Filter
    <2>2. Shown(page)[Limit] \in Token
      BY <1>8, EntriesAreIds DEF EntriesAreIds, Place, Token
    <2> QED  BY <1>2, <2>1, <2>2 DEF Link, PageLink, Filter
  <1> QED  BY <1>2, <1>4, <1>6, <1>8, <1>9, <1>10 DEF Shuffled, WholeInOrder

LEMMA FinishReadingIs ==
    ASSUME Inv, FinishReading
    PROVE  /\ ~page.failed /\ page.replies # 0 /\ ~More(page) /\ ~walk.over
           /\ walk' \in Walk /\ WalkStays /\ walk'.over /\ walk'.writes = walk.writes
           /\ (walk'.shuffled <=> walk.shuffled \/ ~WholeInOrder)
           /\ seen' = seen \o Shown(page) /\ seen' \in Seq(Place)
           /\ UNCHANGED <<rows, now, url, page, steady>>
  <1>1. page \in Page /\ walk \in Walk /\ seen \in Seq(Place)
    BY DEF Inv, Typed
  <1>2. /\ page.replies \in Nat /\ ~page.failed /\ page.replies # 0 /\ ~More(page) /\ ~walk.over
        /\ walk' = [walk EXCEPT !.over = TRUE, !.shuffled = Shuffled]
        /\ seen' = seen \o Shown(page) /\ UNCHANGED <<rows, now, url, page, steady>>
    BY <1>1 DEF FinishReading, Rendered, Page
  <1>3. Shuffled \in BOOLEAN
    BY DEF Shuffled
  <1>4. walk' \in Walk /\ WalkStays /\ walk'.over /\ walk'.writes = walk.writes
        /\ walk'.shuffled = Shuffled
    BY <1>1, <1>2, <1>3 DEF Walk, WalkStays
  <1>5. seen' \in Seq(Place)
    BY <1>1, <1>2, ShownIs
  <1> QED  BY <1>2, <1>4, <1>5 DEF Shuffled, WholeInOrder

LEMMA InitTyped == Init => Inv
  <1> SUFFICES ASSUME Init PROVE Inv
    OBVIOUS
  <1>1. now = 2 /\ now \in 1..MaxTime
    BY BoundsAreNats DEF Init, BoundsAreNats
  <1>2. rows \in [Entries -> Row]
    BY DEF Init
  <1>3. PICK sort \in Sorts, name \in Filters, month \in Months :
           walk = [sort |-> sort, filter |-> FilterOf(name, month), over |-> FALSE,
                   shuffled |-> FALSE, writes |-> 0]
    BY DEF Init
  <1>4. FilterOf(name, month) \in Filter
    BY DEF FilterOf, Filter
  <1>5. walk \in Walk /\ walk.filter \in Filter
    <2>1. 0 \in 0..MaxWrites
      BY BoundsAreNats DEF BoundsAreNats
    <2> QED  BY <1>3, <1>4, <2>1 DEF Walk
  <1>6. url \in PageLink
    <2>1. url = [filter |-> walk.filter, token |-> NoToken]
      BY DEF Init
    <2> QED  BY <1>5, <2>1 DEF PageLink, Token, NoToken
  <1>7. seen \in Seq(Place) /\ steady \subseteq Entries
    BY DEF Init
  <1>8. page \in Page /\ Made(Levels, page)
    BY FreshIs, LevelsAre DEF Init
  <1> QED  BY <1>1, <1>2, <1>5, <1>6, <1>7, <1>8 DEF Inv, Typed

LEMMA LevelsStay ==
    ASSUME walk'.sort = walk.sort PROVE Levels' = Levels
  BY DEF Levels

LEMMA NextTyped == Inv /\ [Next]_vars => Inv' /\ WalkStays
  <1> SUFFICES ASSUME Inv, [Next]_vars PROVE Inv' /\ WalkStays
    OBVIOUS
  <1>1. ASSUME page' \in Page, Made(Levels, page'),
               UNCHANGED <<rows, now, walk, url, seen, steady>>
        PROVE  Inv' /\ WalkStays
    <2>1. Levels' = Levels /\ WalkStays
      BY <1>1, LevelsStay DEF WalkStays
    <2>2. Typed'
      BY <1>1 DEF Inv, Typed
    <2> QED  BY <1>1, <2>1, <2>2 DEF Inv
  <1>2. ASSUME walk' \in Walk, WalkStays, page' \in Page, Made(Levels, page'),
               rows' \in [Entries -> Row], now' \in 1..MaxTime, url' \in PageLink,
               seen' \in Seq(Place), steady' \subseteq Entries
        PROVE  Inv'
    <2>1. Levels' = Levels
      BY <1>2, LevelsStay DEF WalkStays
    <2> QED  BY <1>2, <2>1 DEF Inv, Typed
  <1>3. CASE RunQuery
    BY <1>1, <1>3, RunQueryKeeps DEF RunQuery
  <1>4. CASE FailQuery
    BY <1>1, <1>4, FailQueryKeeps DEF FailQuery
  <1>5. ASSUME NEW i \in 1..(Limit + 1), Decorate(i) PROVE Inv' /\ WalkStays
    BY <1>1, <1>5, DecorateKeeps DEF Decorate
  <1>6. ASSUME NEW k \in 1..Len(Levels), CountFacet(k) PROVE Inv' /\ WalkStays
    BY <1>1, <1>6, CountFacetKeeps DEF CountFacet
  <1>7. ASSUME NEW k \in 1..Len(Levels), FailFacet(k) PROVE Inv' /\ WalkStays
    BY <1>1, <1>7, FailFacetKeeps DEF FailFacet
  <1>8. CASE FollowLink
    <2>1. page' \in Page /\ Made(Levels, page')
      BY <1>8, FollowLinkIs, FreshIs, LevelsAre
    <2> QED  BY <1>2, <1>8, <2>1, FollowLinkIs DEF Inv, Typed
  <1>9. CASE FinishReading
    BY <1>2, <1>9, FinishReadingIs DEF Inv, Typed
  <1>10. CASE Others
    <2>1. CASE now' \in 1..MaxTime /\ UNCHANGED <<rows, walk, url, page, seen, steady>>
      BY <1>2, <2>1 DEF Inv, Typed, WalkStays
    <2>2. ASSUME NEW e \in Entries, NEW row \in Row, Write(e, row)
          PROVE  Inv' /\ WalkStays
      <3>1. /\ rows' \in [Entries -> Row] /\ walk' \in Walk /\ WalkStays
            /\ steady' \subseteq steady /\ now' = now /\ url' = url /\ page' = page
            /\ seen' = seen
        BY <2>2, WriteKeeps DEF Inv
      <3> QED  BY <1>2, <3>1 DEF Inv, Typed
    <2> QED  BY <1>10, <2>1, <2>2, OthersAre DEF Inv
  <1>11. CASE UNCHANGED vars
    BY <1>1, <1>11 DEF vars, Inv, Typed
  <1> QED  BY <1>3, <1>4, <1>5, <1>6, <1>7, <1>8, <1>9, <1>10, <1>11 DEF Next

LEMMA InvHolds == Spec => []Inv
  <1>1. Inv /\ [Next]_vars => Inv'
    BY NextTyped
  <1> QED  BY <1>1, InitTyped, PTL DEF Spec

\* Whatever the entries, permissions, facets and bounds: every variable has its type,
\* a level of mergeFacet never ends past the outermost, and a page is answered at
\* most twice.
THEOREM FeedTypes == Spec => []TypeOK
  <1>1. Inv => TypeOK
    <2> SUFFICES ASSUME Inv PROVE TypeOK
      OBVIOUS
    <2>1. page \in Page /\ Made(Levels, page) /\ Len(Levels) \in Nat
      BY LevelsAre DEF Inv, Typed
    <2>2. page.waiting \in Nat /\ page.replies \in Nat
      BY <2>1 DEF Page
    <2>3. page.waiting \in 0..(Len(Levels) + 1) /\ page.replies \in 0..2
      BY <2>1, <2>2 DEF Made
    <2>4. page.last \in 0..PageLimit
      <3>1. /\ page.last \in Nat /\ Len(page.emitted) \in Nat /\ Len(page.rows) \in Nat
            /\ IsFiniteSet(page.todo) /\ Limit \in Nat
        <4>1. /\ page.last \in Nat /\ Len(page.emitted) \in Nat /\ Len(page.rows) \in Int
              /\ Len(page.rows) \in Nat /\ 1 \in Int /\ Limit \in Nat
          BY <2>1, LimitIsPositive DEF Page, LimitIsPositive
        <4>2. IsFiniteSet(1..Len(page.rows))
          BY <4>1, FS_Interval
        <4> QED  BY <2>1, <4>1, <4>2, FS_Subset DEF Made
      <3>2. Cardinality(page.todo) \in Nat
        BY <3>1, FS_CardinalityType
      <3> QED  BY <2>1, <3>1, <3>2 DEF Made, PageLimit
    <2> QED  BY <2>3, <2>4 DEF Inv, Typed, TypeOK, Walk, PageLink, Filter, Token, Place
  <1> QED  BY <1>1, InvHolds, PTL

\* A page that has been answered without an error has everything, but for articles
\* still being decorated after a decoration has failed.
LEMMA AnsweredIs ==
    ASSUME Inv, ~page.failed, page.replies # 0
    PROVE  /\ page.replies = 1 /\ page.answered /\ page.waiting # 0
           /\ (page.todo = {} /\ Len(page.emitted) = Len(page.rows)) \/ page.broken
           /\ \A k \in 1..Len(Levels) : Levels[k] \in page.counted
           /\ page.counted = {Levels[k] : k \in 1..Len(Levels)}
           /\ Len(page.rows) \in Nat /\ Len(page.rows) <= Limit + 1
  <1>1. page \in Page /\ Made(Levels, page) /\ Len(Levels) \in Nat
    BY LevelsAre DEF Inv, Typed
  <1>2. page.waiting \in Nat /\ page.replies \in Nat
    BY <1>1 DEF Page
  <1>3. page.waiting = Len(Levels) + 1 /\ page.replies = 1
    BY <1>1, <1>2 DEF Made
  <1>4. page.answered /\ (page.todo = {} \/ page.broken) /\ page.waiting # 0
    BY <1>1, <1>3 DEF Made
  <1>5. \A k \in 1..Len(Levels) : Levels[k] \in page.counted
    BY <1>1, <1>3 DEF Made
  <1>6. page.counted = {Levels[k] : k \in 1..Len(Levels)}
    BY <1>1, <1>5 DEF Made
  <1>7. (page.todo = {} => Len(page.emitted) = Len(page.rows)) /\ Len(page.rows) \in Nat
    <2>1. page.todo = {} => Cardinality(page.todo) = 0
      BY FS_EmptySet
    <2>2. Len(page.emitted) \in Nat /\ Len(page.rows) \in Nat
      BY <1>1 DEF Page
    <2> QED  BY <1>1, <2>1, <2>2 DEF Made
  <1> QED  BY <1>1, <1>3, <1>4, <1>5, <1>6, <1>7 DEF Made

\* Whatever they are, a page whose queries succeed is answered once, and then with
\* every facet's counts in (mergeFacet's emitters, each of which waits for its counts
\* and for the emitter below), and every article on it or a decoration that failed
\* (async.each, which then ends the list at once).
THEOREM PagesAreWhole == Spec => []RenderedWhole
  <1>1. Inv => RenderedWhole
    <2> SUFFICES ASSUME Inv, ~page.failed
                 PROVE  /\ page.replies <= 1
                        /\ page.replies = 1 =>
                              /\ page.answered
                              /\ page.counted = {Levels[k] : k \in 1..Len(Levels)}
                              /\ \/ page.todo = {} /\ Len(page.emitted) = Len(page.rows)
                                 \/ page.broken
      BY DEF RenderedWhole
    <2>1. CASE page.replies = 0
      BY <2>1
    <2>2. CASE page.replies # 0
      BY <2>2, AnsweredIs
    <2> QED  BY <2>1, <2>2
  <1> QED  BY <1>1, InvHolds, PTL

---------------------------------------------------------------------------
(* Reading on.  A tag reorders the list under its token: what follows is    *)
(* about lists that are not entered by one.                                 *)

NoTags == "tag" \notin Filters

Sorted(sort, s) == \A i, j \in 1..Len(s) : i < j => Follows(sort, s[i], s[j])
After(sort, token, a) == token # NoToken => AfterToken(sort, token, a)

\* Has the list's answer come, without an error?
Listed(p) == p.answered /\ ~p.failed

\* The token is the last article shown; the page goes on from there, in order.
Reading ==
    /\ walk.over => ~page.failed /\ page.replies # 0 /\ ~More(page)
    /\ url.filter = walk.filter /\ ~walk.filter.tag
    /\ ~walk.over => IF seen = <<>> THEN url.token = NoToken
                     ELSE url.token = seen[Len(seen)]
    /\ ~walk.shuffled => Sorted(walk.sort, seen)
    /\ Listed(page) => /\ Sorted(walk.sort, page.rows)
                       /\ \A i \in 1..Len(page.rows) :
                             After(walk.sort, url.token, page.rows[i])

\* Where an entry is in the list now.
At(e) == Position(walk.sort, rows, e)
Shows(s, e) == \E i \in 1..Len(s) : s[i] = At(e)
\* What s has of the entries that have stayed is where they are.
InPlace(s) == \A i \in 1..Len(s) : s[i].id \in steady => s[i] = At(s[i].id)

\* An entry that has stayed is still ahead of the token, or was shown; if it is ahead
\* of the token it is on the page, or comes after a full one.
Following ==
    /\ \A e \in steady : Selected(walk.sort, walk.filter, rows, e)
    /\ ~walk.shuffled =>
          /\ InPlace(seen)
          /\ \A e \in steady : \/ Shows(seen, e)
                               \/ ~walk.over /\ After(walk.sort, url.token, At(e))
    /\ Listed(page) =>
          /\ InPlace(page.rows)
          /\ \A e \in steady : After(walk.sort, url.token, At(e)) =>
                \/ Shows(page.rows, e)
                \/ /\ Len(page.rows) = Limit + 1
                   /\ Precedes(walk.sort, page.rows[Limit + 1], At(e))

\* While nobody has written, all of the list has stayed, nothing else is shown, and
\* the month counts that are in are those of the list as it is.
Untouched ==
    walk.writes = 0 =>
        /\ \A e \in Entries : Selected(walk.sort, walk.filter, rows, e) => e \in steady
        /\ ~walk.shuffled => \A i \in 1..Len(seen) : seen[i].id \in steady
        /\ Listed(page) => \A i \in 1..Len(page.rows) : page.rows[i].id \in steady
        /\ ~page.failed /\ "months" \in page.counted =>
              page.counts = MonthCounts(walk.sort, walk.filter, rows)

LEMMA PlacesAreTokens == Place \subseteq Token
  BY EntriesAreIds DEF EntriesAreIds, Place, Token

\* Nothing happens after the last page.
LEMMA OverStops ==
    ASSUME Inv, Reading, Next
    PROVE  ~walk.over
  <1> SUFFICES ASSUME walk.over PROVE FALSE
    OBVIOUS
  <1>1. ~page.failed /\ page.replies # 0 /\ ~More(page)
    BY DEF Reading
  <1>2. /\ page.answered /\ Rendered
        /\ \A k \in 1..Len(Levels) : Levels[k] \in page.counted
    BY <1>1, AnsweredIs DEF Rendered
  <1>3. ~RunQuery /\ ~FailQuery
    BY <1>2 DEF RunQuery, FailQuery
  <1>4. \A i \in 1..(Limit + 1) : ~Decorate(i)
    BY <1>2 DEF Decorate
  <1>5. \A k \in 1..Len(Levels) : ~CountFacet(k) /\ ~FailFacet(k)
    BY <1>2 DEF CountFacet, FailFacet
  <1>6. ~FollowLink /\ ~FinishReading
    BY <1>1 DEF FollowLink, FinishReading
  <1> QED  BY <1>3, <1>4, <1>5, <1>6 DEF Next

\* Reading on in order.
LEMMA SortedOn ==
    ASSUME NEW sort, NEW s \in Seq(Place), NEW t \in Seq(Place),
           Sorted(sort, s), Sorted(sort, t),
           s # <<>> => \A i \in 1..Len(t) : Precedes(sort, s[Len(s)], t[i])
    PROVE  Sorted(sort, s \o t)
  <1>1. Len(s) \in Nat /\ Len(t) \in Nat /\ Len(s \o t) = Len(s) + Len(t)
    OBVIOUS
  <1>2. /\ \A i \in 1..Len(s) : s[i] \in Token
        /\ \A i \in 1..Len(t) : t[i] \in Token
    BY PlacesAreTokens
  <1>3. \A i \in 1..Len(s \o t) :
           (s \o t)[i] = IF i <= Len(s) THEN s[i] ELSE t[i - Len(s)]
    OBVIOUS
  <1> DEFINE n == Len(s)
             at(i) == (s \o t)[i]
  <1>4. ASSUME NEW i \in 1..Len(s \o t), NEW j \in 1..Len(s \o t), i < j
        PROVE  Follows(sort, (s \o t)[i], (s \o t)[j])
    <2>1. CASE j <= n
      <3>1. i \in 1..n /\ j \in 1..n /\ at(i) = s[i] /\ at(j) = s[j]
        BY <1>1, <1>3, <1>4, <2>1
      <3> QED  BY <1>4, <3>1 DEF Sorted
    <2>2. CASE i > n
      <3>1. /\ i - n \in 1..Len(t) /\ j - n \in 1..Len(t) /\ i - n < j - n
            /\ at(i) = t[i - n] /\ at(j) = t[j - n]
        BY <1>1, <1>3, <1>4, <2>2
      <3> QED  BY <3>1 DEF Sorted
    <2>3. CASE i <= n /\ j > n
      <3>1. /\ i \in 1..n /\ j - n \in 1..Len(t) /\ n \in 1..n
            /\ at(i) = s[i] /\ at(j) = t[j - n] /\ s # <<>>
        BY <1>1, <1>3, <1>4, <2>3
      <3>2. i = n \/ Follows(sort, s[i], s[n])
        BY <1>1, <3>1 DEF Sorted
      <3>3. Precedes(sort, s[n], t[j - n])
        BY <3>1
      <3>4. s[i] \in Token /\ s[n] \in Token /\ t[j - n] \in Token
        BY <1>2, <3>1
      <3> QED  BY <3>1, <3>2, <3>3, <3>4, PrecedesIs DEF Follows
    <2> QED  BY <1>1, <1>4, <2>1, <2>2, <2>3
  <1> QED  BY <1>4 DEF Sorted

\* On a page in order, the articles shown are in order and go on after the token.
LEMMA ShownGoesOn ==
    ASSUME Inv, Reading, Listed(page), ~walk.over, ~walk.shuffled,
           WholeInOrder
    PROVE  Sorted(walk.sort, seen \o Shown(page))
  <1>1. seen \in Seq(Place) /\ page \in Page /\ url.token \in Token
    BY DEF Inv, Typed, PageLink
  <1>2. /\ Shown(page) \in Seq(Place) /\ Len(Shown(page)) \in Nat
        /\ Len(Shown(page)) <= Len(page.rows) /\ Len(page.rows) \in Nat
        /\ \A i \in 1..Len(Shown(page)) : Shown(page)[i] = page.rows[i]
        /\ \A i \in 1..Len(Shown(page)) : Shown(page)[i] \in Place
    <2>1. Limit \in Nat
      BY LimitIsPositive DEF LimitIsPositive
    <2> QED  BY <1>1, <2>1, ShownIs DEF WholeInOrder
  <1>3. Sorted(walk.sort, seen) /\ Sorted(walk.sort, page.rows)
    BY DEF Reading
  <1>4. Sorted(walk.sort, Shown(page))
    BY <1>2, <1>3 DEF Sorted
  <1>5. ASSUME seen # <<>>, NEW i \in 1..Len(Shown(page))
        PROVE  Precedes(walk.sort, seen[Len(seen)], Shown(page)[i])
    <2>1. url.token = seen[Len(seen)]
      BY <1>5 DEF Reading
    <2>2. seen[Len(seen)] \in Place
      BY <1>1, <1>5
    <2>3. url.token # NoToken
      BY <2>1, <2>2, EntriesAreIds DEF EntriesAreIds, Place, NoToken
    <2>4. i \in 1..Len(page.rows) /\ Shown(page)[i] = page.rows[i] /\ Shown(page)[i] \in Token
      BY <1>2, PlacesAreTokens
    <2>5. AfterToken(walk.sort, url.token, page.rows[i])
      BY <2>3, <2>4 DEF Reading, After
    <2> QED  BY <1>1, <2>1, <2>4, <2>5, PrecedesIs
  <1> QED  BY <1>1, <1>2, <1>3, <1>4, <1>5, SortedOn

LEMMA ReadingStarts ==
    ASSUME NoTags, Init PROVE Reading
  <1>1. PICK sort \in Sorts, name \in Filters, month \in Months :
           walk = [sort |-> sort, filter |-> FilterOf(name, month), over |-> FALSE,
                   shuffled |-> FALSE, writes |-> 0]
    BY DEF Init
  <1>2. ~walk.over /\ ~walk.filter.tag
    BY <1>1 DEF NoTags, FilterOf
  <1>3. seen = <<>> /\ page = FreshPage /\ url = [filter |-> walk.filter, token |-> NoToken]
    BY DEF Init
  <1>4. ~page.answered /\ url.filter = walk.filter /\ url.token = NoToken
    BY <1>3 DEF FreshPage
  <1>5. Sorted(walk.sort, seen)
    BY <1>3 DEF Sorted
  <1> QED  BY <1>2, <1>3, <1>4, <1>5 DEF Reading, Listed

\* The rows of a page are in order, after the token, where the entries are now; what
\* the query finds and the page has not comes after it.
LEMMA PageGoesOn ==
    ASSUME Inv, Reading, RunQuery
    PROVE  /\ Sorted(walk.sort, page'.rows)
           /\ \A i \in 1..Len(page'.rows) :
                 /\ After(walk.sort, url.token, page'.rows[i])
                 /\ Selected(walk.sort, walk.filter, rows, page'.rows[i].id)
                 /\ page'.rows[i].id \in Entries
                 /\ page'.rows[i] = At(page'.rows[i].id)
           /\ \A e \in Entries :
                 Selected(walk.sort, walk.filter, rows, e)
                    /\ After(walk.sort, url.token, At(e)) =>
                 \/ Shows(page'.rows, e)
                 \/ /\ Len(page'.rows) = Limit + 1
                    /\ Precedes(walk.sort, page'.rows[Limit + 1], At(e))
  <1> DEFINE a == Answer(walk.sort, url, rows)
  <1>1. page'.rows = a
    BY RunQueryKeeps
  <1>2. walk.sort \in Orders /\ rows \in [Entries -> Row] /\ url \in PageLink
    BY WalkIs DEF Inv, Typed
  <1>3. url.filter = walk.filter /\ ~url.filter.tag
    BY DEF Reading
  <1>4. Len(a) \in Nat /\ Limit \in Nat
    BY <1>2, AnswerIs, LimitIsPositive DEF LimitIsPositive
  <1>5. \A i \in 1..Len(a) : a[i].id \in Found(walk.sort, url, rows)
                             /\ a[i] = Position(walk.sort, rows, a[i].id)
    BY <1>2, AnswerIs
  <1>6. /\ \A i, j \in 1..Len(a) : i < j => Follows(walk.sort, a[i], a[j])
        /\ \A e \in Found(walk.sort, url, rows) :
              \/ \E i \in 1..Len(a) : a[i] = Position(walk.sort, rows, e)
              \/ /\ Len(a) = Limit + 1
                 /\ \A i \in 1..Len(a) : Precedes(walk.sort, a[i], Position(walk.sort, rows, e))
    BY <1>2, <1>3, AnswerIsOrdered
  <1>7. \A e : e \in Found(walk.sort, url, rows) <=>
                  /\ e \in Entries /\ Selected(walk.sort, walk.filter, rows, e)
                  /\ After(walk.sort, url.token, At(e))
    BY <1>3 DEF Found, After, At
  <1> HIDE DEF a
  <1>8. Sorted(walk.sort, a)
    BY <1>6 DEF Sorted
  <1>9. ASSUME NEW i \in 1..Len(a)
        PROVE  /\ After(walk.sort, url.token, a[i])
               /\ Selected(walk.sort, walk.filter, rows, a[i].id)
               /\ a[i].id \in Entries /\ a[i] = At(a[i].id)
    BY <1>5, <1>7 DEF At
  <1>10. ASSUME NEW e \in Entries, Selected(walk.sort, walk.filter, rows, e),
                After(walk.sort, url.token, At(e))
         PROVE  \/ Shows(a, e)
                \/ /\ Len(a) = Limit + 1
                   /\ Precedes(walk.sort, a[Limit + 1], At(e))
    <2>1. e \in Found(walk.sort, url, rows)
      BY <1>7, <1>10
    <2>2. CASE \E i \in 1..Len(a) : a[i] = Position(walk.sort, rows, e)
      BY <2>2 DEF Shows, At
    <2>3. CASE /\ Len(a) = Limit + 1
               /\ \A i \in 1..Len(a) : Precedes(walk.sort, a[i], Position(walk.sort, rows, e))
      <3>1. Limit + 1 \in 1..Len(a)
        BY <1>4, <2>3
      <3> QED  BY <2>3, <3>1 DEF At
    <2> QED  BY <1>6, <2>1, <2>2, <2>3
  <1> QED  BY <1>1, <1>8, <1>9, <1>10

LEMMA ReadingKept ==
    ASSUME Inv, Reading, [Next]_vars
    PROVE  Reading'
  <1>1. ASSUME ~walk.over, UNCHANGED <<walk, url, seen>>,
               Listed(page)' => /\ Sorted(walk.sort, page'.rows)
                                /\ \A i \in 1..Len(page'.rows) :
                                      After(walk.sort, url.token, page'.rows[i])
        PROVE  Reading'
    BY <1>1 DEF Reading, Listed
  <1>2. ASSUME ~walk.over, UNCHANGED <<walk, url, seen>>, ~page'.failed => ~page.failed,
               page'.answered = page.answered, page'.rows = page.rows
        PROVE  Reading'
    BY <1>1, <1>2 DEF Reading, Listed
  <1>3. CASE UNCHANGED vars
    BY <1>3 DEF vars, Reading, Listed, More
  <1>4. ASSUME Next PROVE ~walk.over
    BY <1>4, OverStops
  <1>5. CASE RunQuery
    <2>1. UNCHANGED <<walk, url, seen>> /\ ~walk.over
      BY <1>4, <1>5 DEF RunQuery, Next
    <2>2. /\ Sorted(walk.sort, page'.rows)
          /\ \A i \in 1..Len(page'.rows) : After(walk.sort, url.token, page'.rows[i])
      BY <1>5, PageGoesOn
    <2> QED  BY <1>1, <2>1, <2>2
  <1>6. CASE FailQuery
    <2>1. UNCHANGED <<walk, url, seen>> /\ ~walk.over
      BY <1>4, <1>6 DEF FailQuery, Next
    <2>2. page'.failed
      BY <1>6, FailQueryKeeps
    <2> QED  BY <1>1, <2>1, <2>2 DEF Listed
  <1>7. ASSUME NEW i \in 1..(Limit + 1), Decorate(i) PROVE Reading'
    <2>1. UNCHANGED <<walk, url, seen>> /\ ~walk.over
      BY <1>4, <1>7 DEF Decorate, Next
    <2> QED  BY <1>2, <1>7, <2>1, DecorateKeeps
  <1>8. ASSUME NEW k \in 1..Len(Levels), CountFacet(k) PROVE Reading'
    <2>1. UNCHANGED <<walk, url, seen>> /\ ~walk.over
      BY <1>4, <1>8 DEF CountFacet, Next
    <2> QED  BY <1>2, <1>8, <2>1, CountFacetKeeps
  <1>9. ASSUME NEW k \in 1..Len(Levels), FailFacet(k) PROVE Reading'
    <2>1. UNCHANGED <<walk, url, seen>> /\ ~walk.over
      BY <1>4, <1>9 DEF FailFacet, Next
    <2>2. page'.failed
      BY <1>9, FailFacetKeeps
    <2> QED  BY <1>1, <2>1, <2>2 DEF Listed
  <1>10. ASSUME Inv, ~page.failed, page.replies # 0, ~walk.over,
                WalkStays, seen' = seen \o Shown(page),
                walk'.shuffled <=> walk.shuffled \/ ~WholeInOrder
         PROVE  ~walk'.shuffled => Sorted(walk'.sort, seen')
    BY <1>10, AnsweredIs, ShownGoesOn DEF Listed, WalkStays
  <1>11. CASE FollowLink
    <2>1. ~walk.over
      BY <1>4, <1>11 DEF Next
    <2>2. ~walk'.shuffled => Sorted(walk'.sort, seen')
      BY <1>10, <1>11, <2>1, FollowLinkIs
    <2>3. ~walk'.over /\ walk'.filter = walk.filter /\ ~walk'.filter.tag
      BY <1>11, <2>1, FollowLinkIs DEF WalkStays, Reading
    <2>4. url'.filter = walk'.filter /\ url'.token = Shown(page)[Limit]
      <3>1. url' = Link(url.filter, Shown(page)[Limit]) /\ url.filter = walk.filter
        BY <1>11, FollowLinkIs DEF Reading
      <3>2. walk.filter \in Filter
        BY WalkIs DEF Inv, Typed
      <3>3. walk.filter.tag = FALSE
        BY <3>2 DEF Reading, Filter
      <3>4. walk.filter = [month |-> walk.filter.month, tag |-> FALSE]
        BY <3>2, <3>3 DEF Filter
      <3> QED  BY <2>3, <3>1, <3>4 DEF Link
    <2>5. seen' # <<>> /\ seen'[Len(seen')] = Shown(page)[Limit]
      <3>1. seen \in Seq(Place) /\ Shown(page) \in Seq(Place) /\ Len(Shown(page)) = Limit
        BY <1>11, FollowLinkIs, ShownIs DEF Inv, Typed
      <3>2. Limit \in Nat /\ Limit # 0
        BY LimitIsPositive DEF LimitIsPositive
      <3>3. seen' = seen \o Shown(page)
        BY <1>11, FollowLinkIs
      <3>4. \A s, t \in Seq(Place) :
               t # <<>> => s \o t # <<>> /\ (s \o t)[Len(s \o t)] = t[Len(t)]
        OBVIOUS
      <3>5. Shown(page) # <<>>
        BY <3>1, <3>2
      <3> QED  BY <3>1, <3>3, <3>4, <3>5
    <2>6. ~Listed(page)'
      BY <1>11, FollowLinkIs DEF Listed, FreshPage
    <2> QED  BY <2>2, <2>3, <2>4, <2>5, <2>6 DEF Reading
  <1>12. CASE FinishReading
    <2>1. ~walk'.shuffled => Sorted(walk'.sort, seen')
      BY <1>10, <1>12, FinishReadingIs
    <2>2. /\ walk'.over /\ WalkStays /\ ~page.failed /\ page.replies # 0 /\ ~More(page)
          /\ url' = url /\ page' = page
      BY <1>12, FinishReadingIs
    <2> QED  BY <2>1, <2>2 DEF Reading, Listed, WalkStays, More
  <1>13. CASE Others /\ ~walk.over
    <2>1. CASE UNCHANGED <<rows, walk, url, page, seen, steady>>
      BY <1>13, <2>1 DEF Reading, Listed, More
    <2>2. ASSUME NEW e \in Entries, NEW row \in Row, Write(e, row)
          PROVE  Reading'
      <3>1. /\ WalkStays /\ walk'.over = walk.over /\ walk'.shuffled = walk.shuffled
            /\ url' = url /\ page' = page /\ seen' = seen
        BY <2>2, WriteKeeps DEF Inv
      <3> QED  BY <1>13, <3>1 DEF Reading, Listed, WalkStays
    <2> QED  BY <1>13, <2>1, <2>2, OthersAre DEF Inv
  <1> QED  BY <1>3, <1>5, <1>6, <1>7, <1>8, <1>9, <1>11, <1>12, <1>13 DEF Next

LEMMA ReadingHolds ==
    ASSUME NoTags PROVE Spec => [](Inv /\ Reading)
  <1>1. Init => Inv /\ Reading
    BY InitTyped, ReadingStarts
  <1>2. Inv /\ Reading /\ [Next]_vars => Inv' /\ Reading'
    BY NextTyped, ReadingKept
  <1> QED  BY <1>1, <1>2, PTL DEF Spec

\* Whatever others write between the pages: a reader who follows the "next" links is
\* never shown an article that does not come after all of those before it, as long as
\* the articles of each page came in the order of its rows.  The token is the last
\* article shown, and the seek compares both of the columns the list is ordered by.
THEOREM ListsAreReadInOrder ==
    ASSUME NoTags, OneRowEach PROVE Spec => []ReadInOrder
  <1>1. Inv /\ Reading => ReadInOrder
    <2> SUFFICES ASSUME Inv, Reading, ~walk.shuffled
                 PROVE  \A i, j \in DOMAIN seen : i < j => Precedes(walk.sort, seen[i], seen[j])
      BY DEF ReadInOrder
    <2>1. DOMAIN seen = 1..Len(seen)
      BY DEF Inv, Typed
    <2> QED  BY <2>1 DEF Reading, Sorted, Follows
  <1> QED  BY <1>1, ReadingHolds, PTL

---------------------------------------------------------------------------
(* What has stayed is shown. *)

LEMMA ShownOn ==
    ASSUME NEW s \in Seq(Place), NEW t \in Seq(Place)
    PROVE  /\ InPlace(s) /\ InPlace(t) => InPlace(s \o t)
           /\ \A e : Shows(s, e) \/ Shows(t, e) => Shows(s \o t, e)
  <1>1. Len(s) \in Nat /\ Len(t) \in Nat /\ Len(s \o t) = Len(s) + Len(t)
    OBVIOUS
  <1>2. \A i \in 1..Len(s \o t) :
           (s \o t)[i] = IF i <= Len(s) THEN s[i] ELSE t[i - Len(s)]
    OBVIOUS
  <1>3. ASSUME InPlace(s), InPlace(t) PROVE InPlace(s \o t)
    <2> SUFFICES ASSUME NEW i \in 1..Len(s \o t), (s \o t)[i].id \in steady
                 PROVE  (s \o t)[i] = At((s \o t)[i].id)
      BY DEF InPlace
    <2>1. CASE i <= Len(s)
      <3>1. i \in 1..Len(s) /\ (s \o t)[i] = s[i]
        BY <1>1, <1>2, <2>1
      <3> QED  BY <1>3, <3>1 DEF InPlace
    <2>2. CASE ~(i <= Len(s))
      <3>1. i - Len(s) \in 1..Len(t) /\ (s \o t)[i] = t[i - Len(s)]
        BY <1>1, <1>2, <2>2
      <3> QED  BY <1>3, <3>1 DEF InPlace
    <2> QED  BY <2>1, <2>2
  <1>4. ASSUME NEW e, Shows(s, e) PROVE Shows(s \o t, e)
    <2>1. PICK i \in 1..Len(s) : s[i] = At(e)
      BY <1>4 DEF Shows
    <2>2. i \in 1..Len(s \o t) /\ (s \o t)[i] = s[i]
      BY <1>1, <1>2
    <2> QED  BY <2>1, <2>2 DEF Shows
  <1>5. ASSUME NEW e, Shows(t, e) PROVE Shows(s \o t, e)
    <2>1. PICK i \in 1..Len(t) : t[i] = At(e)
      BY <1>5 DEF Shows
    <2>2. Len(s) + i \in 1..Len(s \o t) /\ ~(Len(s) + i <= Len(s)) /\ Len(s) + i - Len(s) = i
      BY <1>1
    <2>3. (s \o t)[Len(s) + i] = t[i]
      BY <1>2, <2>2
    <2> QED  BY <2>1, <2>2, <2>3 DEF Shows
  <1> QED  BY <1>3, <1>4, <1>5

\* The articles of a page whose articles came in order are the first of its rows.
LEMMA ShownAreRows ==
    ASSUME Inv, ~page.failed, page.replies # 0, WholeInOrder
    PROVE  /\ Listed(page) /\ Len(page.rows) \in Nat /\ Limit \in Nat /\ Limit # 0
           /\ Len(Shown(page)) = IF More(page) THEN Limit ELSE Len(page.rows)
           /\ More(page) <=> Len(page.rows) = Limit + 1
           /\ Len(Shown(page)) <= Len(page.rows) /\ Shown(page) \in Seq(Place)
           /\ \A i \in 1..Len(Shown(page)) : Shown(page)[i] = page.rows[i]
           /\ \A i \in 1..Len(page.rows) : page.rows[i] \in Place /\ page.rows[i] \in Token
  <1>1. page \in Page /\ page.rows \in Seq(Place)
    BY DEF Inv, Typed, Page
  <1>2. page.answered /\ Len(page.rows) \in Nat /\ Len(page.rows) <= Limit + 1
    BY AnsweredIs
  <1>3. Limit \in Nat /\ Limit # 0
    BY LimitIsPositive DEF LimitIsPositive
  <1>4. /\ Len(Shown(page)) = IF Len(page.rows) < Limit THEN Len(page.rows) ELSE Limit
        /\ Shown(page) \in Seq(Place)
        /\ \A i \in 1..Len(Shown(page)) : Shown(page)[i] = page.rows[i]
    BY <1>1, ShownIs DEF WholeInOrder
  <1>5. More(page) <=> Len(page.rows) = Limit + 1
    BY <1>2, <1>3 DEF More, WholeInOrder
  <1>6. Len(Shown(page)) = IF More(page) THEN Limit ELSE Len(page.rows)
    BY <1>2, <1>3, <1>4 DEF More, WholeInOrder
  <1>7. \A i \in 1..Len(page.rows) : page.rows[i] \in Place /\ page.rows[i] \in Token
    BY <1>1, PlacesAreTokens
  <1> QED  BY <1>2, <1>3, <1>4, <1>5, <1>6, <1>7 DEF Listed

\* When the reader has read a page in order, what is in steady was shown, or another
\* page follows whose token is before it.
LEMMA PageIsRead ==
    ASSUME Inv, Reading, Following, ~page.failed, page.replies # 0,
           ~walk.over, ~walk.shuffled, WholeInOrder
    PROVE  /\ InPlace(seen \o Shown(page))
           /\ \A e \in steady :
                 \/ Shows(seen \o Shown(page), e)
                 \/ More(page) /\ After(walk.sort, Shown(page)[Limit], At(e))
  <1>1. /\ Listed(page) /\ Len(page.rows) \in Nat /\ Limit \in Nat /\ Limit # 0
        /\ Len(Shown(page)) = IF More(page) THEN Limit ELSE Len(page.rows)
        /\ More(page) <=> Len(page.rows) = Limit + 1
        /\ Len(Shown(page)) <= Len(page.rows) /\ Shown(page) \in Seq(Place)
        /\ \A i \in 1..Len(Shown(page)) : Shown(page)[i] = page.rows[i]
        /\ \A i \in 1..Len(page.rows) : page.rows[i] \in Place /\ page.rows[i] \in Token
    BY ShownAreRows
  <1>2. seen \in Seq(Place) /\ steady \subseteq Entries /\ rows \in [Entries -> Row]
        /\ walk.sort \in Orders
    BY WalkIs DEF Inv, Typed
  <1>3. InPlace(Shown(page))
    BY <1>1 DEF Following, InPlace
  <1>4. InPlace(seen \o Shown(page))
    BY <1>1, <1>2, <1>3, ShownOn DEF Following
  <1>5. ASSUME NEW e \in steady, ~Shows(seen, e)
        PROVE  \/ Shows(Shown(page), e)
               \/ More(page) /\ After(walk.sort, Shown(page)[Limit], At(e))
    <2>1. After(walk.sort, url.token, At(e))
      BY <1>5 DEF Following
    <2>2. \/ Shows(page.rows, e)
          \/ /\ Len(page.rows) = Limit + 1
             /\ Precedes(walk.sort, page.rows[Limit + 1], At(e))
      BY <1>1, <2>1 DEF Following
    <2>3. At(e) \in Token
      BY <1>2, PositionIs DEF At
    <2>4. ASSUME Len(page.rows) = Limit + 1
          PROVE  /\ Limit \in 1..Len(page.rows) /\ Limit + 1 \in 1..Len(page.rows)
                 /\ Follows(walk.sort, page.rows[Limit], page.rows[Limit + 1])
                 /\ More(page) /\ Shown(page)[Limit] = page.rows[Limit]
      <3>1. /\ Limit \in 1..Len(page.rows) /\ Limit + 1 \in 1..Len(page.rows)
            /\ Limit < Limit + 1
        BY <1>1, <2>4
      <3>2. Sorted(walk.sort, page.rows)
        BY <1>1 DEF Reading
      <3>3. Follows(walk.sort, page.rows[Limit], page.rows[Limit + 1])
        BY <3>1, <3>2 DEF Sorted
      <3>4. Limit \in 1..Len(Shown(page))
        BY <1>1, <2>4
      <3> QED  BY <1>1, <2>4, <3>1, <3>3, <3>4
    <2>5. ASSUME Len(page.rows) = Limit + 1,
                 \/ At(e) = page.rows[Limit + 1] /\ At(e) # page.rows[Limit]
                 \/ Precedes(walk.sort, page.rows[Limit + 1], At(e))
          PROVE  More(page) /\ After(walk.sort, Shown(page)[Limit], At(e))
      <3>1. page.rows[Limit] \in Token /\ page.rows[Limit + 1] \in Token
        BY <1>1, <2>4, <2>5
      <3>2. Precedes(walk.sort, page.rows[Limit], At(e))
        BY <2>3, <2>4, <2>5, <3>1, PrecedesIs DEF Follows
      <3>3. AfterToken(walk.sort, page.rows[Limit], At(e))
        BY <2>3, <3>1, <3>2, PrecedesIs
      <3> QED  BY <2>4, <2>5, <3>3 DEF After
    <2>6. CASE Shows(page.rows, e)
      <3>1. PICK i \in 1..Len(page.rows) : page.rows[i] = At(e)
        BY <2>6 DEF Shows
      <3>2. CASE i \in 1..Len(Shown(page))
        BY <1>1, <3>1, <3>2 DEF Shows
      <3>3. CASE i \notin 1..Len(Shown(page))
        <4>1. Len(page.rows) = Limit + 1 /\ i = Limit + 1
          BY <1>1, <3>3
        <4>2. CASE At(e) # page.rows[Limit]
          BY <2>5, <3>1, <4>1, <4>2
        <4>3. CASE At(e) = page.rows[Limit]
          <5>1. More(page) /\ Limit \in 1..Len(Shown(page))
            BY <1>1, <4>1
          <5>2. Shown(page)[Limit] = page.rows[Limit]
            BY <1>1, <5>1
          <5> QED  BY <4>3, <5>1, <5>2 DEF Shows
        <4> QED  BY <4>2, <4>3
      <3> QED  BY <3>2, <3>3
    <2>7. CASE /\ Len(page.rows) = Limit + 1
               /\ Precedes(walk.sort, page.rows[Limit + 1], At(e))
      BY <2>5, <2>7
    <2> QED  BY <2>2, <2>6, <2>7
  <1>6. \A e \in steady : Shows(seen, e) \/ Shows(Shown(page), e) => Shows(seen \o Shown(page), e)
    BY <1>1, <1>2, ShownOn
  <1> QED  BY <1>4, <1>5, <1>6

LEMMA FollowingStarts ==
    ASSUME Init PROVE Following
  <1>1. seen = <<>> /\ page = FreshPage /\ url = [filter |-> walk.filter, token |-> NoToken]
        /\ steady = {e \in Entries : Selected(walk.sort, walk.filter, rows, e)} /\ ~walk.over
    BY DEF Init
  <1>2. ~Listed(page) /\ url.token = NoToken
    BY <1>1 DEF FreshPage, Listed
  <1>3. InPlace(seen)
    BY <1>1 DEF InPlace
  <1> QED  BY <1>1, <1>2, <1>3 DEF Following, After

LEMMA FollowingKept ==
    ASSUME Inv, Reading, Following, [Next]_vars
    PROVE  Following'
  <1>1. ASSUME UNCHANGED <<rows, walk, url, seen, steady>>,
               Listed(page)' =>
                  /\ InPlace(page'.rows)
                  /\ \A e \in steady : After(walk.sort, url.token, At(e)) =>
                        \/ Shows(page'.rows, e)
                        \/ /\ Len(page'.rows) = Limit + 1
                           /\ Precedes(walk.sort, page'.rows[Limit + 1], At(e))
        PROVE  Following'
    BY <1>1 DEF Following, InPlace, Shows, At
  <1>2. ASSUME UNCHANGED <<rows, walk, url, seen, steady>>, ~page'.failed => ~page.failed,
               page'.answered = page.answered, page'.rows = page.rows
        PROVE  Following'
    BY <1>1, <1>2 DEF Following, Listed
  <1>3. CASE UNCHANGED vars
    BY <1>2, <1>3 DEF vars
  <1>4. ASSUME Next PROVE ~walk.over
    BY <1>4, OverStops
  <1>5. CASE RunQuery
    <2>1. UNCHANGED <<rows, walk, url, seen, steady>>
      BY <1>5 DEF RunQuery
    <2>2. steady \subseteq Entries /\ \A e \in steady : Selected(walk.sort, walk.filter, rows, e)
      BY DEF Inv, Typed, Following
    <2>3. InPlace(page'.rows)
      BY <1>5, PageGoesOn DEF InPlace
    <2>4. ASSUME NEW e \in steady, After(walk.sort, url.token, At(e))
          PROVE  \/ Shows(page'.rows, e)
                 \/ /\ Len(page'.rows) = Limit + 1
                    /\ Precedes(walk.sort, page'.rows[Limit + 1], At(e))
      BY <1>5, <2>2, <2>4, PageGoesOn
    <2> QED  BY <1>1, <2>1, <2>3, <2>4
  <1>6. CASE FailQuery
    <2>1. UNCHANGED <<rows, walk, url, seen, steady>> /\ page'.failed
      BY <1>6, FailQueryKeeps DEF FailQuery
    <2> QED  BY <1>1, <2>1 DEF Listed
  <1>7. ASSUME NEW i \in 1..(Limit + 1), Decorate(i) PROVE Following'
    <2>1. UNCHANGED <<rows, walk, url, seen, steady>>
      BY <1>7 DEF Decorate
    <2> QED  BY <1>2, <1>7, <2>1, DecorateKeeps
  <1>8. ASSUME NEW k \in 1..Len(Levels), CountFacet(k) PROVE Following'
    <2>1. UNCHANGED <<rows, walk, url, seen, steady>>
      BY <1>8 DEF CountFacet
    <2> QED  BY <1>2, <1>8, <2>1, CountFacetKeeps
  <1>9. ASSUME NEW k \in 1..Len(Levels), FailFacet(k) PROVE Following'
    <2>1. UNCHANGED <<rows, walk, url, seen, steady>> /\ page'.failed
      BY <1>9, FailFacetKeeps DEF FailFacet
    <2> QED  BY <1>1, <2>1 DEF Listed
  <1>10. CASE FollowLink
    <2>1. /\ ~page.failed /\ page.replies # 0 /\ More(page) /\ WalkStays
          /\ walk'.over = walk.over /\ seen' = seen \o Shown(page)
          /\ (walk'.shuffled <=> walk.shuffled \/ ~WholeInOrder)
          /\ url' = Link(url.filter, Shown(page)[Limit])
          /\ page' = FreshPage /\ UNCHANGED <<rows, now, steady>>
      BY <1>10, FollowLinkIs
    <2>2. ~walk.over /\ url'.token = Shown(page)[Limit] /\ ~Listed(page)'
      BY <1>4, <1>10, <2>1 DEF Next, Link, Listed, FreshPage
    <2>3. ASSUME ~walk'.shuffled
          PROVE  /\ InPlace(seen')
                 /\ \A e \in steady : \/ Shows(seen', e)
                                      \/ After(walk.sort, url'.token, At(e))
      BY <2>1, <2>2, <2>3, PageIsRead
    <2>4. \A e \in steady : Selected(walk.sort, walk.filter, rows, e)
      BY DEF Following
    <2> QED  BY <2>1, <2>2, <2>3, <2>4 DEF Following, WalkStays, InPlace, Shows, At
  <1>11. CASE FinishReading
    <2>1. /\ ~page.failed /\ page.replies # 0 /\ ~More(page) /\ ~walk.over /\ WalkStays
          /\ walk'.over /\ seen' = seen \o Shown(page)
          /\ (walk'.shuffled <=> walk.shuffled \/ ~WholeInOrder)
          /\ UNCHANGED <<rows, now, url, page, steady>>
      BY <1>11, FinishReadingIs
    <2>2. ASSUME ~walk'.shuffled
          PROVE  InPlace(seen') /\ \A e \in steady : Shows(seen', e)
      BY <2>1, <2>2, PageIsRead
    <2> QED  BY <2>1, <2>2 DEF Following, WalkStays, InPlace, Shows, At, Listed
  <1>12. CASE Others /\ ~walk.over
    <2>1. CASE UNCHANGED <<rows, walk, url, page, seen, steady>>
      BY <1>2, <2>1
    <2>2. ASSUME NEW e \in Entries, NEW row \in Row, Write(e, row)
          PROVE  Following'
      <3>1. /\ WalkStays /\ walk'.over = walk.over /\ walk'.shuffled = walk.shuffled
            /\ steady' = Unmoved(rows, rows')
            /\ url' = url /\ page' = page /\ seen' = seen
        BY <2>2, WriteKeeps DEF Inv
      <3>2. \A x \in steady' : /\ x \in steady /\ Selected(walk.sort, walk.filter, rows', x)
                               /\ Position(walk.sort, rows', x) = At(x)
        BY <3>1 DEF Unmoved, At
      <3>3. \A s : InPlace(s) => \A i \in 1..Len(s) : s[i].id \in steady' =>
                      s[i] = Position(walk.sort, rows', s[i].id)
        BY <3>2 DEF InPlace
      <3>4. \A s, x : x \in steady' /\ Shows(s, x) =>
                         \E i \in 1..Len(s) : s[i] = Position(walk.sort, rows', x)
        BY <3>2 DEF Shows
      <3>5. \A x \in steady' : Selected(walk'.sort, walk'.filter, rows', x)
        BY <3>1, <3>2 DEF WalkStays
      <3>6. ~walk'.shuffled => InPlace(seen)'
        BY <3>1, <3>3 DEF Following, InPlace, At, WalkStays
      <3>7. ASSUME ~walk'.shuffled, NEW x \in steady'
            PROVE  \/ Shows(seen, x)'
                   \/ ~walk'.over /\ After(walk'.sort, url'.token, At(x)')
        <4>1. Shows(seen, x) \/ (~walk.over /\ After(walk.sort, url.token, At(x)))
          BY <3>1, <3>2, <3>7 DEF Following
        <4>2. Shows(seen, x) => Shows(seen, x)'
          BY <3>1, <3>4 DEF Shows, At, WalkStays
        <4>3. At(x)' = At(x)
          BY <3>1, <3>2 DEF At, WalkStays
        <4> QED  BY <3>1, <4>1, <4>2, <4>3 DEF WalkStays
      <3>8. ASSUME Listed(page)'
            PROVE  /\ InPlace(page.rows)'
                   /\ \A x \in steady' : After(walk'.sort, url'.token, At(x)') =>
                        \/ Shows(page.rows, x)'
                        \/ /\ Len(page'.rows) = Limit + 1
                           /\ Precedes(walk'.sort, page'.rows[Limit + 1], At(x)')
        <4>1. Listed(page) /\ InPlace(page.rows)
          BY <3>1, <3>8 DEF Following, Listed
        <4>2. InPlace(page.rows)'
          BY <3>1, <3>3, <4>1 DEF InPlace, At, WalkStays
        <4>3. ASSUME NEW x \in steady', After(walk'.sort, url'.token, At(x)')
              PROVE  \/ Shows(page.rows, x)'
                     \/ /\ Len(page'.rows) = Limit + 1
                        /\ Precedes(walk'.sort, page'.rows[Limit + 1], At(x)')
          <5>1. At(x)' = At(x) /\ x \in steady
            BY <3>1, <3>2 DEF At, WalkStays
          <5>2. \/ Shows(page.rows, x)
                \/ /\ Len(page.rows) = Limit + 1
                   /\ Precedes(walk.sort, page.rows[Limit + 1], At(x))
            BY <3>1, <4>1, <4>3, <5>1 DEF Following, WalkStays
          <5>3. Shows(page.rows, x) => Shows(page.rows, x)'
            BY <3>1, <3>4 DEF Shows, At, WalkStays
          <5>4. walk'.sort = walk.sort
            BY <3>1 DEF WalkStays
          <5>5. CASE Shows(page.rows, x)
            BY <5>3, <5>5
          <5>6. CASE /\ Len(page.rows) = Limit + 1
                     /\ Precedes(walk.sort, page.rows[Limit + 1], At(x))
            BY <3>1, <5>1, <5>4, <5>6
          <5> QED  BY <5>2, <5>5, <5>6
        <4> QED  BY <3>1, <4>2, <4>3
      <3> QED  BY <3>1, <3>5, <3>6, <3>7, <3>8 DEF Following
    <2> QED  BY <1>12, <2>1, <2>2, OthersAre DEF Inv
  <1> QED  BY <1>3, <1>5, <1>6, <1>7, <1>8, <1>9, <1>10, <1>11, <1>12 DEF Next

LEMMA FollowingHolds ==
    ASSUME NoTags PROVE Spec => [](Inv /\ Reading /\ Following)
  <1>1. Init => Inv /\ Reading /\ Following
    BY InitTyped, ReadingStarts, FollowingStarts
  <1>2. Inv /\ Reading /\ Following /\ [Next]_vars => Inv' /\ Reading' /\ Following'
    BY NextTyped, ReadingKept, FollowingKept
  <1> QED  BY <1>1, <1>2, PTL DEF Spec

\* Whatever others create, edit and remove between the pages: an entry that was in the
\* list all along, at its place, has been shown exactly once when the reader comes to
\* the end, as long as the articles of each page came in the order of its rows.
THEOREM WhatStaysIsShown ==
    ASSUME NoTags, OneRowEach PROVE Spec => []EachShownOnce
  <1>1. Inv /\ Reading /\ Following => EachShownOnce
    <2> SUFFICES ASSUME Inv, Reading, Following, walk.over, ~walk.shuffled, NEW e \in steady
                 PROVE  Times(e, seen) = 1
      BY DEF EachShownOnce
    <2>1. /\ seen \in Seq(Place) /\ Len(seen) \in Nat /\ DOMAIN seen = 1..Len(seen)
          /\ \A i \in 1..Len(seen) : seen[i] \in Token
          /\ steady \subseteq Entries /\ rows \in [Entries -> Row] /\ walk.sort \in Orders
      BY WalkIs, PlacesAreTokens DEF Inv, Typed
    <2>2. PICK i \in 1..Len(seen) : seen[i] = At(e)
      BY DEF Following, Shows
    <2>3. At(e).id = e
      BY <2>1, PositionIs DEF At
    <2>4. ASSUME NEW j \in 1..Len(seen), seen[j].id = e PROVE j = i
      <3>1. seen[j] = seen[i]
        BY <2>2, <2>4 DEF Following, InPlace
      <3>2. ~(i < j) /\ ~(j < i)
        BY <2>1, <3>1, PrecedesIs DEF Reading, Sorted, Follows
      <3> QED  BY <2>1, <3>2
    <2>5. {j \in DOMAIN seen : seen[j].id = e} = {i}
      BY <2>1, <2>2, <2>3, <2>4
    <2> QED  BY <2>5, FS_Singleton DEF Times
  <1> QED  BY <1>1, FollowingHolds, PTL

---------------------------------------------------------------------------
(* The counts. *)

AllIn(s) == \A i \in 1..Len(s) : s[i].id \in steady

LEMMA UntouchedStarts ==
    ASSUME Init PROVE Untouched
  <1>1. seen = <<>> /\ page = FreshPage
        /\ steady = {e \in Entries : Selected(walk.sort, walk.filter, rows, e)}
    BY DEF Init
  <1>2. ~Listed(page) /\ page.counted = {}
    BY <1>1 DEF FreshPage, Listed
  <1> QED  BY <1>1, <1>2 DEF Untouched

LEMMA UntouchedKept ==
    ASSUME Inv, Reading, Untouched, [Next]_vars
    PROVE  Untouched'
  <1>1. ASSUME UNCHANGED <<rows, walk, url, seen, steady>>,
               walk.writes = 0 =>
                  /\ Listed(page)' => AllIn(page'.rows)
                  /\ ~page'.failed /\ "months" \in page'.counted =>
                        page'.counts = MonthCounts(walk.sort, walk.filter, rows)
        PROVE  Untouched'
    <2>1. MonthCounts(walk.sort, walk.filter, rows)' = MonthCounts(walk.sort, walk.filter, rows)
      BY <1>1 DEF MonthCounts, Selected, MonthOf
    <2> QED  BY <1>1, <2>1 DEF Untouched, AllIn
  <1>2. ASSUME UNCHANGED <<rows, walk, url, seen, steady>>, page'.failed = page.failed,
               page'.answered = page.answered, page'.rows = page.rows,
               page'.counted = page.counted, page'.counts = page.counts
        PROVE  Untouched'
    BY <1>1, <1>2 DEF Untouched, Listed, AllIn
  <1>3. CASE UNCHANGED vars
    BY <1>2, <1>3 DEF vars
  <1>4. ASSUME Next PROVE ~walk.over
    BY <1>4, OverStops
  <1>5. CASE RunQuery
    <2>1. UNCHANGED <<rows, walk, url, seen, steady>>
      BY <1>5 DEF RunQuery
    <2>2. page'.counted = page.counted /\ page'.counts = page.counts /\ ~page.failed
      BY <1>5, RunQueryKeeps DEF RunQuery
    <2>3. ASSUME walk.writes = 0 PROVE AllIn(page'.rows)
      BY <1>5, <2>3, PageGoesOn DEF Untouched, AllIn
    <2> QED  BY <1>1, <2>1, <2>2, <2>3 DEF Untouched
  <1>6. CASE FailQuery
    <2>1. UNCHANGED <<rows, walk, url, seen, steady>> /\ page'.failed
      BY <1>6, FailQueryKeeps DEF FailQuery
    <2> QED  BY <1>1, <2>1 DEF Listed
  <1>7. ASSUME NEW i \in 1..(Limit + 1), Decorate(i) PROVE Untouched'
    <2>1. UNCHANGED <<rows, walk, url, seen, steady>>
      BY <1>7 DEF Decorate
    <2> QED  BY <1>2, <1>7, <2>1, DecorateKeeps
  <1>8. ASSUME NEW k \in 1..Len(Levels), CountFacet(k) PROVE Untouched'
    <2>1. UNCHANGED <<rows, walk, url, seen, steady>>
      BY <1>8 DEF CountFacet
    <2>2. /\ page'.answered = page.answered /\ page'.failed = page.failed
          /\ page'.rows = page.rows /\ page'.counted = page.counted \cup {Levels[k]}
          /\ page'.counts = IF Levels[k] = "months"
                            THEN MonthCounts(walk.sort, url.filter, rows) ELSE page.counts
      BY <1>8, CountFacetKeeps
    <2>3. url.filter = walk.filter
      BY DEF Reading
    <2> QED  BY <1>1, <2>1, <2>2, <2>3 DEF Untouched, Listed, AllIn
  <1>9. ASSUME NEW k \in 1..Len(Levels), FailFacet(k) PROVE Untouched'
    <2>1. UNCHANGED <<rows, walk, url, seen, steady>> /\ page'.failed
      BY <1>9, FailFacetKeeps DEF FailFacet
    <2> QED  BY <1>1, <2>1 DEF Listed
  <1>10. ASSUME ~page.failed, page.replies # 0, WholeInOrder, ~walk.shuffled,
                walk.writes = 0
         PROVE  AllIn(seen \o Shown(page))
    <2>1. seen \in Seq(Place) /\ AllIn(seen) /\ AllIn(page.rows)
      BY <1>10, ShownAreRows DEF Inv, Typed, Untouched, AllIn
    <2>2. /\ Shown(page) \in Seq(Place) /\ Len(Shown(page)) <= Len(page.rows)
          /\ Len(page.rows) \in Nat
          /\ \A i \in 1..Len(Shown(page)) : Shown(page)[i] = page.rows[i]
      BY <1>10, ShownAreRows
    <2>3. AllIn(Shown(page))
      <3>1. Len(Shown(page)) \in Nat
        BY <2>2
      <3> QED  BY <2>1, <2>2, <3>1 DEF AllIn
    <2>4. ASSUME NEW s \in Seq(Place), NEW t \in Seq(Place), AllIn(s), AllIn(t)
          PROVE  AllIn(s \o t)
      <3> SUFFICES ASSUME NEW i \in 1..Len(s \o t) PROVE (s \o t)[i].id \in steady
        BY DEF AllIn
      <3>1. \/ i \in 1..Len(s) /\ (s \o t)[i] = s[i]
            \/ i - Len(s) \in 1..Len(t) /\ (s \o t)[i] = t[i - Len(s)]
        OBVIOUS
      <3> QED  BY <2>4, <3>1 DEF AllIn
    <2> QED  BY <2>1, <2>2, <2>3, <2>4
  <1>11. CASE FollowLink
    <2>1. /\ ~page.failed /\ page.replies # 0 /\ WalkStays
          /\ walk'.writes = walk.writes /\ seen' = seen \o Shown(page)
          /\ (walk'.shuffled <=> walk.shuffled \/ ~WholeInOrder)
          /\ page' = FreshPage /\ UNCHANGED <<rows, now, steady>>
      BY <1>11, FollowLinkIs
    <2>2. ~Listed(page)' /\ page'.counted = {}
      BY <2>1 DEF Listed, FreshPage
    <2> QED  BY <1>10, <2>1, <2>2 DEF Untouched, WalkStays, AllIn
  <1>12. CASE FinishReading
    <2>1. /\ ~page.failed /\ page.replies # 0 /\ WalkStays
          /\ walk'.writes = walk.writes /\ seen' = seen \o Shown(page)
          /\ (walk'.shuffled <=> walk.shuffled \/ ~WholeInOrder)
          /\ UNCHANGED <<rows, now, url, page, steady>>
      BY <1>12, FinishReadingIs
    <2>2. MonthCounts(walk.sort, walk.filter, rows)' = MonthCounts(walk.sort, walk.filter, rows)
      BY <2>1 DEF WalkStays, MonthCounts, Selected, MonthOf
    <2> QED  BY <1>10, <2>1, <2>2 DEF Untouched, WalkStays, AllIn, Listed
  <1>13. CASE Others /\ ~walk.over
    <2>1. CASE UNCHANGED <<rows, walk, url, page, seen, steady>>
      BY <1>2, <2>1
    <2>2. ASSUME NEW e \in Entries, NEW row \in Row, Write(e, row)
          PROVE  Untouched'
      <3>1. walk'.writes # 0
        BY <2>2, WriteKeeps DEF Inv
      <3> QED  BY <3>1 DEF Untouched
    <2> QED  BY <1>13, <2>1, <2>2, OthersAre DEF Inv
  <1> QED  BY <1>3, <1>5, <1>6, <1>7, <1>8, <1>9, <1>11, <1>12, <1>13 DEF Next

LEMMA UntouchedHolds ==
    ASSUME NoTags PROVE Spec => [](Inv /\ Reading /\ Following /\ Untouched)
  <1>1. Init => Inv /\ Reading /\ Following /\ Untouched
    BY InitTyped, ReadingStarts, FollowingStarts, UntouchedStarts
  <1>2. Inv /\ Reading /\ Following /\ Untouched /\ [Next]_vars
           => Inv' /\ Reading' /\ Following' /\ Untouched'
    BY NextTyped, ReadingKept, FollowingKept, UntouchedKept
  <1> QED  BY <1>1, <1>2, PTL DEF Spec

\* Whatever the list: when nobody writes while it is read to the end, the counts of its
\* month facet, on whatever page, are the numbers of articles shown.
THEOREM CountsAreRight ==
    ASSUME NoTags, OneRowEach PROVE Spec => []CountsAddUp
  <1>1. Inv /\ Reading /\ Following /\ Untouched => CountsAddUp
    <2> SUFFICES ASSUME Inv, Reading, Following, Untouched, walk.over, walk.writes = 0,
                        ~walk.shuffled, "months" \in page.counted, NEW m \in Months
                 PROVE  page.counts[m] = Cardinality({i \in DOMAIN seen :
                                             MonthOf(walk.sort, rows, seen[i].id) = m})
      BY DEF CountsAddUp
    <2> DEFINE of == {x \in Entries : Selected(walk.sort, walk.filter, rows, x)
                                      /\ MonthOf(walk.sort, rows, x) = m}
               copies == UNION {{e} \X (1..Matches[e]) : e \in of}
               shown == {i \in DOMAIN seen : MonthOf(walk.sort, rows, seen[i].id) = m}
               f == [i \in shown |-> <<seen[i].id, 1>>]
    <2>1. page.counts[m] = Cardinality(copies)
      <3>1. ~page.failed
        BY DEF Reading
      <3>2. page.counts = MonthCounts(walk.sort, walk.filter, rows)
        BY <3>1 DEF Untouched
      <3> QED  BY <3>2 DEF MonthCounts
    <2>2. /\ seen \in Seq(Place) /\ Len(seen) \in Nat /\ DOMAIN seen = 1..Len(seen)
          /\ \A i \in 1..Len(seen) : seen[i] \in Token
          /\ steady \subseteq Entries /\ rows \in [Entries -> Row] /\ walk.sort \in Orders
      BY WalkIs, PlacesAreTokens DEF Inv, Typed
    <2>3. \A e \in Entries : e \in steady <=> Selected(walk.sort, walk.filter, rows, e)
      BY DEF Following, Untouched
    <2>4. copies = {<<e, 1>> : e \in of}
      <3>1. \A e \in of : 1..Matches[e] = {1}
        <4>1. \A e \in of : Matches[e] = 1
          BY DEF OneRowEach
        <4>2. 1..1 = {1}
          OBVIOUS
        <4> HIDE DEF of
        <4> QED  BY <4>1, <4>2
      <3>2. \A e \in of : {e} \X (1..Matches[e]) = {<<e, 1>>}
        <4> HIDE DEF of
        <4> QED  BY <3>1
      <3> HIDE DEF of
      <3> QED  BY <3>2
    <2>5. IsFiniteSet(shown)
      <3>1. Len(seen) \in Int /\ 1 \in Int
        BY <2>2
      <3>2. IsFiniteSet(1..Len(seen))
        BY <3>1, FS_Interval
      <3>3. shown \in SUBSET (1..Len(seen))
        BY <2>2
      <3> HIDE DEF shown
      <3> QED  BY <3>2, <3>3, FS_Subset
    <2>6. \A i \in shown : seen[i].id \in of
      BY <2>2, <2>3 DEF Untouched
    <2>7. \A i, j \in shown : seen[i].id = seen[j].id => i = j
      <3> SUFFICES ASSUME NEW i \in 1..Len(seen), NEW j \in 1..Len(seen), seen[i].id = seen[j].id
                   PROVE  i = j
        BY <2>2
      <3>1. seen[i].id \in steady /\ seen[j].id \in steady
        BY DEF Untouched
      <3>2. seen[i] = seen[j]
        BY <3>1 DEF Following, InPlace
      <3>3. ~(i < j) /\ ~(j < i)
        BY <2>2, <3>2, PrecedesIs DEF Reading, Sorted, Follows
      <3> QED  BY <2>2, <3>3
    <2>8. \A e \in of : \E i \in shown : seen[i].id = e
      <3> TAKE e \in of
      <3>1. e \in steady /\ MonthOf(walk.sort, rows, e) = m
        BY <2>3
      <3>2. PICK i \in 1..Len(seen) : seen[i] = At(e)
        BY <3>1 DEF Following, Shows
      <3>3. seen[i].id = e
        BY <2>2, <3>1, <3>2, PositionIs DEF At
      <3> QED  BY <2>2, <3>1, <3>2, <3>3
    <2> HIDE DEF of, copies, shown
    <2>9. f \in Bijection(shown, copies)
      <3>1. f \in [shown -> copies]
        BY <2>4, <2>6
      <3>2. f \in Injection(shown, copies)
        BY <2>7, <3>1 DEF Injection, IsInjective
      <3>3. f \in Surjection(shown, copies)
        <4>1. ASSUME NEW c \in copies PROVE \E i \in shown : f[i] = c
          <5>1. PICK e \in of : c = <<e, 1>>
            BY <2>4
          <5>2. PICK i \in shown : seen[i].id = e
            BY <2>8
          <5> QED  BY <5>1, <5>2
        <4> QED  BY <3>1, <4>1 DEF Surjection
      <3> QED  BY <3>2, <3>3 DEF Bijection
    <2>10. Cardinality(copies) = Cardinality(shown)
      <3> HIDE DEF f
      <3>1. ExistsBijection(shown, copies)
        BY <2>9 DEF ExistsBijection
      <3> QED  BY <2>5, <3>1, FS_Bijection
    <2> QED  BY <2>1, <2>10 DEF shown
  <1> QED  BY <1>1, UntouchedHolds, PTL

---------------------------------------------------------------------------
(* Articles that come out of order. *)

\* Whatever the permissions that let the reader view an entry, however many: one that
\* was in the list all along, at its place, is shown before the end is reached, as long
\* as the articles of each page came in the order of its rows.
THEOREM WhatStaysIsReached ==
    ASSUME NoTags PROVE Spec => [](~walk.shuffled => EveryEntryIsReached)
  <1>1. Inv /\ Following => (~walk.shuffled => EveryEntryIsReached)
    <2> SUFFICES ASSUME Inv, Following, walk.over, ~walk.shuffled, NEW e \in steady
                 PROVE  Times(e, seen) >= 1
      BY DEF EveryEntryIsReached
    <2> DEFINE shown == {i \in DOMAIN seen : seen[i].id = e}
    <2>1. /\ Len(seen) \in Nat /\ DOMAIN seen = 1..Len(seen)
          /\ steady \subseteq Entries /\ rows \in [Entries -> Row] /\ walk.sort \in Orders
      BY WalkIs DEF Inv, Typed
    <2>2. PICK i \in 1..Len(seen) : seen[i] = At(e)
      BY DEF Following, Shows
    <2>3. At(e).id = e
      BY <2>1, PositionIs DEF At
    <2>4. i \in shown
      BY <2>1, <2>2, <2>3
    <2>5. IsFiniteSet(shown)
      <3>1. Len(seen) \in Int /\ 1 \in Int
        BY <2>1
      <3>2. IsFiniteSet(1..Len(seen)) /\ shown \in SUBSET (1..Len(seen))
        BY <2>1, <3>1, FS_Interval
      <3> HIDE DEF shown
      <3> QED  BY <3>2, FS_Subset
    <2> HIDE DEF shown
    <2>6. Cardinality(shown) \in Nat /\ Cardinality(shown) # 0
      BY <2>4, <2>5, FS_CardinalityType, FS_EmptySet
    <2>7. Cardinality(shown) >= 1
      BY <2>6
    <2> QED  BY <2>7 DEF Times, shown
  <1> QED  BY <1>1, FollowingHolds, PTL

\* Without an article that looks something up, the feed is the answer.
LEMMA QuickFeed ==
    ASSUME NEW answer \in Seq(Place), Slow = {}
    PROVE  IndexFeed(answer).emitted = answer
  <1> DEFINE n == Len(answer)
             quick == {i \in DOMAIN answer : answer[i].id \notin Slow}
             before == [i \in quick |-> {j \in quick : j < i}]
             ordered == InOrder(before)
  <1>1. n \in Nat /\ DOMAIN answer = 1..n /\ answer = [k \in 1..n |-> answer[k]]
    OBVIOUS
  <1>2. quick = 1..n
    BY <1>1
  <1>3. IndexFeed(answer).emitted = [k \in DOMAIN ordered |-> answer[ordered[k]]]
    BY DEF IndexFeed
  <1> HIDE DEF n, quick
  <1>4. IsFiniteSet(1..n) /\ Cardinality(1..n) = n
    <2>1. n \in Int /\ 1 \in Int /\ n - 1 + 1 = n /\ (1 > n => n = 0)
      BY <1>1
    <2> QED  BY <2>1, FS_Interval
  <1>5. Ordered(quick, before)
    BY <1>1, <1>2, <1>4 DEF Ordered
  <1>6. \A i \in quick : Cardinality(before[i]) = i - 1
    <2> TAKE i \in quick
    <2>1. i \in Nat /\ i >= 1 /\ i <= n
      BY <1>1, <1>2
    <2>2. before[i] = 1..(i - 1)
      BY <1>1, <1>2, <2>1
    <2>3. Cardinality(1..(i - 1)) = i - 1
      <3>1. i - 1 \in Int /\ 1 \in Int /\ i - 1 - 1 + 1 = i - 1 /\ (1 > i - 1 => i - 1 = 0)
        BY <2>1
      <3> QED  BY <3>1, FS_Interval
    <2> QED  BY <2>2, <2>3
  <1>7. DOMAIN before = quick
    OBVIOUS
  <1> HIDE DEF before
  <1>8. \A x, y \in quick : Cardinality(before[x]) = Cardinality(before[y]) => x = y
    BY <1>5, PlacesAreTaken
  <1>9. DOMAIN ordered = 1..n /\ \A i \in 1..n : ordered[i] = i
    <2>1. ordered = [i \in 1..n |-> CHOOSE x \in quick : Cardinality(before[x]) = i - 1]
      BY <1>2, <1>4, <1>7 DEF InOrder
    <2>2. ASSUME NEW i \in 1..n PROVE (CHOOSE x \in quick : Cardinality(before[x]) = i - 1) = i
      BY <1>2, <1>6, <1>8
    <2> HIDE DEF ordered
    <2> QED  BY <2>1, <2>2
  <1> HIDE DEF ordered
  <1>10. [k \in DOMAIN ordered |-> answer[ordered[k]]] = [k \in 1..n |-> answer[k]]
    BY <1>9
  <1> QED  BY <1>1, <1>3, <1>10

InRowOrder ==
    /\ ~walk.shuffled /\ page.emitted = page.rows
    /\ ~page.failed /\ page.waiting # 0 => page.last = Len(page.rows)

LEMMA InRowOrderKept ==
    ASSUME Slow = {}, Inv, InRowOrder, [Next]_vars
    PROVE  InRowOrder'
  <1>1. CASE RunQuery
    <2>1. /\ page'.rows \in Seq(Place)
          /\ page'.emitted = IF walk.sort = "activity" THEN page'.rows
                             ELSE IndexFeed(page'.rows).emitted
          /\ page'.waiting # 0 => page'.last = Len(page'.emitted)
      BY <1>1, RunQueryKeeps DEF Page
    <2>2. page'.emitted = page'.rows
      BY <2>1, QuickFeed
    <2> QED  BY <1>1, <2>1, <2>2 DEF InRowOrder, RunQuery
  <1>2. CASE FailQuery
    BY <1>2, FailQueryKeeps DEF InRowOrder, FailQuery
  <1>3. ASSUME NEW i \in 1..(Limit + 1) PROVE ~Decorate(i)
    <2>1. page \in Page /\ Made(Levels, page)
      BY DEF Inv, Typed
    <2>2. Len(page.rows) \in Nat /\ page.todo \subseteq 1..Len(page.rows)
      BY <2>1 DEF Page, Made
    <2>3. IsFiniteSet(page.todo)
      <3>1. Len(page.rows) \in Int /\ 1 \in Int
        BY <2>2
      <3>2. IsFiniteSet(1..Len(page.rows))
        BY <3>1, FS_Interval
      <3> QED  BY <2>2, <3>2, FS_Subset
    <2>4. Cardinality(page.todo) = 0
      <3>1. Cardinality(page.todo) \in Nat
        BY <2>3, FS_CardinalityType
      <3> QED  BY <2>1, <2>2, <3>1 DEF InRowOrder, Made
    <2>5. page.todo = {}
      BY <2>3, <2>4, FS_EmptySet
    <2> QED  BY <2>5 DEF Decorate
  <1>4. ASSUME NEW k \in 1..Len(Levels), CountFacet(k) PROVE InRowOrder'
    BY <1>4, CountFacetKeeps DEF InRowOrder, CountFacet
  <1>5. ASSUME NEW k \in 1..Len(Levels), FailFacet(k) PROVE InRowOrder'
    BY <1>5, FailFacetKeeps DEF InRowOrder, FailFacet
  <1>6. CASE FollowLink
    <2>1. page' = FreshPage /\ ~walk'.shuffled
      BY <1>6, FollowLinkIs, AnsweredIs DEF InRowOrder, WholeInOrder
    <2> QED  BY <2>1 DEF InRowOrder, FreshPage
  <1>7. CASE FinishReading
    BY <1>7, FinishReadingIs, AnsweredIs DEF InRowOrder, WholeInOrder
  <1>8. CASE Others
    <2>1. CASE UNCHANGED <<rows, walk, url, page, seen, steady>>
      BY <2>1 DEF InRowOrder
    <2>2. ASSUME NEW e \in Entries, NEW row \in Row, Write(e, row)
          PROVE  InRowOrder'
      BY <2>2, WriteKeeps DEF Inv, InRowOrder
    <2> QED  BY <1>8, <2>1, <2>2, OthersAre DEF Inv
  <1>9. CASE UNCHANGED vars
    BY <1>9 DEF vars, InRowOrder
  <1> QED  BY <1>1, <1>2, <1>3, <1>4, <1>5, <1>6, <1>7, <1>8, <1>9 DEF Next

\* On a list without photos or graphics, nothing comes out of order, and so every
\* entry that was in it all along is reached: it is their look-ups that lose articles.
THEOREM QuickListsAreComplete ==
    ASSUME NoTags, Slow = {} PROVE Spec => []EveryEntryIsReached
  <1>1. Init => InRowOrder
    <2> SUFFICES ASSUME Init PROVE InRowOrder
      OBVIOUS
    <2>1. page = FreshPage /\ ~walk.shuffled
      BY DEF Init
    <2> QED  BY <2>1 DEF InRowOrder, FreshPage
  <1>2. Inv /\ InRowOrder /\ [Next]_vars => InRowOrder'
    BY InRowOrderKept
  <1>3. Spec => []InRowOrder
    BY <1>1, <1>2, InvHolds, PTL DEF Spec
  <1>4. InRowOrder => ~walk.shuffled
    BY DEF InRowOrder
  <1> QED  BY <1>3, <1>4, WhatStaysIsReached, PTL
=============================================================================
